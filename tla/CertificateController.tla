------------------------ MODULE CertificateController ------------------------
(***************************************************************************)
(* The certificate controller (internal/controller): one AliyunCertificate *)
(* custom resource, the informer cache it is read from, the cert-manager   *)
(* Certificate and Secret behind it, the CAS certificates it owns in the   *)
(* cloud, and the bindings that use it.  A reconcile round is cut at each  *)
(* API-server or cloud call; between two cuts everything else may move.    *)
(*                                                                         *)
(* A certificate generation is a fingerprint 1..MaxGen in order of issue.  *)
(* The CAS name of a generation is a function of its fingerprint           *)
(* (naming.CASName), and CAS keeps names unique, so the cloud is a         *)
(* function from fingerprints to certificate ids.                          *)
(***************************************************************************)
EXTENDS Naturals, Sequences, FiniteSets

CONSTANTS
    MaxGen,          \* bound: generations cert-manager issues
    KeepLast,        \* spec.retention.keepLast
    Policy,          \* --cleanup-failure-policy
    Domain,          \* first names of spec.certificateTemplate.dnsNames
    Covers,          \* pairs of domains, the first of which covers the second
    Binding,         \* AliyunCertificateBindings that may reference the CR
    UploadInit,      \* initial values of spec.aliyun.uploadToCAS
    MayOutage,       \* TRUE: CAS may fail for ever when other faults cease
    CertCacheLags,   \* TRUE: the Certificate informer may be behind
    MaxRollbacks,    \* bound: times the Secret returns to an older generation
    MaxHandDeletes,  \* bound: CAS certificates deleted by hand
    MaxToggles,      \* bound: edits of spec.aliyun.uploadToCAS
    MaxRenames,      \* bound: edits of spec.certificateTemplate.dnsNames
    MaxChanges,      \* bound: generations issued and these four changes together
    MayDelete,       \* TRUE: the user may delete the CR
    Settles          \* TRUE: faults and outside changes may cease for good

NoFP == 0            \* the empty fingerprint, and "no pendingUpload"
NoId == 0            \* certId: nil
NoDom == "none"      \* the empty domain; for the Certificate: there is none
FP == 1 .. MaxGen

ASSUME MaxGenAssumption == MaxGen \in Nat
ASSUME KeepLastAssumption == KeepLast \in Nat \ {0}
ASSUME PolicyAssumption == Policy \in {"Abandon", "Block"}
ASSUME DomainAssumption == NoDom \notin Domain /\ Covers \subseteq Domain \X Domain
ASSUME FlagAssumption ==
    /\ UploadInit \subseteq BOOLEAN
    /\ MayOutage \in BOOLEAN
    /\ CertCacheLags \in BOOLEAN
    /\ MayDelete \in BOOLEAN
    /\ Settles \in BOOLEAN
ASSUME BudgetAssumption ==
    /\ MaxRollbacks \in Nat
    /\ MaxHandDeletes \in Nat
    /\ MaxToggles \in Nat
    /\ MaxRenames \in Nat
    /\ MaxChanges \in Nat

VARIABLES
    api,        \* the CR on the API server, status aside
    status,     \* its status subresource
    capi,       \* the CR as the informer cache holds it
    cstatus,
    cert,       \* first DNS name of the cert-manager Certificate, NoDom: none
    ccert,      \* ... according to an informer cache that lags
    dom,        \* first SAN of each generation issued
    secret,     \* generation in the Secret, NoFP when there is none
    lastGen,    \* newest generation issued so far
    cas,        \* the CAS certificate ids by name
    nextId,     \* the next certId CAS gives out
    binding,    \* the bindings' metadata and status
    pc,         \* where the reconcile round is
    ac,         \* the round's working copy of the status
    orig,       \* the round's merge-patch base
    acSpec,     \* the spec in the working copy
    b,          \* the bundle read from the Secret
    seen,       \* the bindings as liveBindingsFor listed them
    graceOver,  \* --cleanup-grace-period has passed since cleanupStartedAt
    stable,     \* faults and outside changes have ceased
    outage,     \* ... but every CAS call is refused, for ever
    budget,     \* outside changes made so far
    ghost       \* history: which generations dropped out of status, and how

crVars == <<api, status>>
cacheVars == <<capi, cstatus, ccert>>
issuerVars == <<cert, secret, lastGen, dom>>
cloudVars == <<cas, nextId>>
roundVars == <<ac, orig, acSpec, b, seen>>
envVars == <<binding, graceOver, stable, outage, budget>>
vars == <<crVars, cacheVars, issuerVars, cloudVars, pc, roundVars, envVars, ghost>>
-----------------------------------------------------------------------------
(* Types *)

Gen == [fp : FP \cup {NoFP}, id : Nat]

\* A nil status.current and the placeholder probeCAS leaves behind (empty
\* fingerprint, no certId) take the same branches everywhere.
NoGen == [fp |-> NoFP, id |-> NoId]

DomainOrNone == Domain \cup {NoDom}

\* The spec fields the controller reads: uploadToCAS and the first DNS name.
SpecFields == [upload : BOOLEAN, dom : DomainOrNone]
NoSpec == [upload |-> FALSE, dom |-> NoDom]

Meta == [exists : BOOLEAN, deleting : BOOLEAN, fin : BOOLEAN, spec : SpecFields]

\* pend, hint: pendingUpload's fingerprint and domainHint.
\* probed: casProbedAt is younger than the probe interval.
\* cleanup: cleanupStartedAt is set.
Conds == [issued : BOOLEAN, uploaded : BOOLEAN, ready : BOOLEAN]
Status == [cur : Gen, hist : Seq(Gen), pend : FP \cup {NoFP}, hint : DomainOrNone,
           probed : BOOLEAN, cleanup : BOOLEAN, conds : Conds]

NoStatus == [cur |-> NoGen, hist |-> <<>>, pend |-> NoFP, hint |-> NoDom,
             probed |-> FALSE, cleanup |-> FALSE,
             conds |-> [issued |-> FALSE, uploaded |-> FALSE, ready |-> FALSE]]

Gone == [exists |-> FALSE, deleting |-> FALSE, fin |-> FALSE, spec |-> NoSpec]

BindingState == [phase : {"none", "live", "deleting"}, observed : BOOLEAN,
                 applied : FP \cup {NoFP}]
NoBinding == [phase |-> "none", observed |-> FALSE, applied |-> NoFP]

NothingSeen == [lagging |-> FALSE, applied |-> {}]

Ghost == [superseded : SUBSET FP, erased : SUBSET FP, abandoned : BOOLEAN]

Step == {"idle", "probe", "ensure", "upload", "reclaim", "reclaimLoop",
         "patch", "cleanup", "cleaned", "deleteCert", "finalize"}

TypeOK ==
    /\ api \in Meta
    /\ capi \in Meta
    /\ status \in Status
    /\ cstatus \in Status
    /\ ac \in Status
    /\ orig \in Status
    /\ acSpec \in SpecFields
    /\ cert \in DomainOrNone
    /\ ccert \in DomainOrNone
    /\ dom \in [FP -> DomainOrNone]
    /\ lastGen \in 0 .. MaxGen
    /\ secret \in 0 .. lastGen
    /\ cas \in [FP -> Nat]
    /\ nextId \in Nat \ {0}
    /\ binding \in [Binding -> BindingState]
    /\ pc \in Step
    /\ b \in 0 .. lastGen
    /\ pc \in {"probe", "ensure", "upload", "reclaim", "reclaimLoop"} => b # NoFP
    /\ seen \in [lagging : BOOLEAN, applied : SUBSET (FP \cup {NoFP})]
    /\ graceOver \in BOOLEAN
    /\ stable \in BOOLEAN
    /\ outage \in BOOLEAN
    /\ budget \in [rollbacks : Nat, handDeletes : Nat, toggles : Nat, renames : Nat]
    /\ ghost \in Ghost
-----------------------------------------------------------------------------
(* Operators the actions are built from *)

\* client.MergeFrom(orig): a field is sent when the round changed it, nested
\* objects are merged member by member, lists are replaced as a whole.
Merged(s, o, a) == IF a # o THEN a ELSE s

MergePatch(s, o, a) ==
    [cur     |-> [fp |-> Merged(s.cur.fp, o.cur.fp, a.cur.fp),
                  id |-> Merged(s.cur.id, o.cur.id, a.cur.id)],
     hist    |-> Merged(s.hist, o.hist, a.hist),
     pend    |-> Merged(s.pend, o.pend, a.pend),
     hint    |-> Merged(s.hint, o.hint, a.hint),
     probed  |-> Merged(s.probed, o.probed, a.probed),
     cleanup |-> Merged(s.cleanup, o.cleanup, a.cleanup),
     conds   |-> Merged(s.conds, o.conds, a.conds)]

\* adoptUploadState: the generations and the write-ahead record come from src.
AdoptUploadState(dst, src) ==
    [dst EXCEPT !.cur = src.cur, !.hist = src.hist,
                !.pend = src.pend, !.hint = src.hint, !.probed = src.probed]

\* aggregateReady: Ready = Issued && (Uploaded || !uploadToCAS).
AggregateReady(s, upload) ==
    [s EXCEPT !.conds.ready = s.conds.issued /\ (upload => s.conds.uploaded)]

\* setUploadedCondition.
SetUploadedCondition(s, upload) ==
    [s EXCEPT !.conds.uploaded = upload /\ s.cur.id # NoId]

\* The tail of ensureUploaded: the old current enters the history unless it is
\* a placeholder, and the new generation becomes current.
Advance(s, fp, id) ==
    [s EXCEPT !.hist = IF s.cur.fp # NoFP THEN <<s.cur>> \o @ ELSE @,
              !.cur = [fp |-> fp, id |-> id]]

\* FindUploaded lists by domain keyword; no other keyword finds a certificate.
Listed(hint) == {cas[f] : f \in {g \in FP : cas[g] # NoId /\ dom[g] = hint}}

\* casFindHint: the write-ahead snapshot, the caller's first SAN, the spec.
CasFindHint(s, preferred) ==
    IF s.hint # NoDom THEN s.hint
    ELSE IF preferred # NoDom THEN preferred ELSE acSpec.dom

\* Mutant: any certificate of the domain is claimed.
FindAny(fp) == Listed(dom[fp])

\* findByName: a NameRepeat is resolved by listing the bundle's first SAN and
\* comparing names.
FindByName(fp) == {id \in Listed(dom[fp]) : id = cas[fp]}

\* The cloud after DeleteUserCertificate(id).
CasWithout(id) == [f \in FP |-> IF cas[f] = id THEN NoId ELSE cas[f]]

\* Mutant: guard 3 is missing.
ReclaimableUnguarded(gen) == ~seen.lagging

\* reclaimable, guards 2 and 3, on the bindings of the last live list.
Reclaimable(gen) == ~seen.lagging /\ gen.fp \notin seen.applied

LiveBindings == {x \in Binding : binding[x].phase # "none"}
ActiveBindings == {x \in Binding : binding[x].phase = "live"}

\* liveBindingsFor: what a retention round remembers of the bindings.
LiveBindingsFor ==
    [lagging |-> \E x \in LiveBindings : ~binding[x].observed,
     applied |-> {binding[x].applied : x \in LiveBindings}]

\* The generations of F that CAS holds: losing their record orphans them.
Uncovered(F) == {f \in F \cap FP : cas[f] # NoId}

\* Mutant: the policies are swapped.
AbandonUnderBlock == Policy = "Block" /\ graceOver

\* shouldAbandonCleanup.
ShouldAbandonCleanup == Policy = "Abandon" /\ graceOver

\* The outcomes of a cloud call: served, refused, or served with its answer lost.
CallServed == ~outage
CallRefused == ~stable \/ outage
AnswerLost == ~outage /\ ~stable
-----------------------------------------------------------------------------
(* Initial states: the CR has just been created, no round has run. *)

Init ==
    /\ \E u \in UploadInit, d \in Domain :
           api = [exists |-> TRUE, deleting |-> FALSE, fin |-> FALSE,
                  spec |-> [upload |-> u, dom |-> d]]
    /\ status = NoStatus
    /\ capi = api
    /\ cstatus = NoStatus
    /\ cert = NoDom
    /\ ccert = NoDom
    /\ dom = [f \in FP |-> NoDom]
    /\ secret = NoFP
    /\ lastGen = 0
    /\ cas = [f \in FP |-> NoId]
    /\ nextId = 1
    /\ binding = [x \in Binding |-> NoBinding]
    /\ pc = "idle"
    /\ ac = NoStatus
    /\ orig = NoStatus
    /\ acSpec = NoSpec
    /\ b = NoFP
    /\ seen = NothingSeen
    /\ graceOver = FALSE
    /\ stable = FALSE
    /\ outage = FALSE
    /\ budget = [rollbacks |-> 0, handDeletes |-> 0, toggles |-> 0, renames |-> 0]
    /\ ghost = [superseded |-> {}, erased |-> {}, abandoned |-> FALSE]
-----------------------------------------------------------------------------
(* The reconcile round *)

\* The round is over; its working copies are dropped.
EndRound ==
    /\ pc' = "idle"
    /\ ac' = NoStatus
    /\ orig' = NoStatus
    /\ acSpec' = NoSpec
    /\ b' = NoFP
    /\ seen' = NothingSeen

\* Mutant: the change stays in memory.
KeepInMemory(a) == ac' = a /\ UNCHANGED <<status, orig, acSpec>>

\* patchStatus: the API server merges the round's changes, and the client
\* decodes the answer, spec included, back into the working copy.
PatchAndReload(a) ==
    /\ status' = MergePatch(status, orig, a)
    /\ ac' = status'
    /\ orig' = status'
    /\ acSpec' = api.spec

\* Reconcile, no finalizer yet: Update carries the cached resourceVersion, so
\* it takes effect only when the cache is current.
AddFinalizer ==
    /\ pc = "idle"
    /\ capi.exists /\ ~capi.deleting /\ ~capi.fin
    /\ capi = api /\ cstatus = status
    /\ api' = [api EXCEPT !.fin = TRUE]
    /\ UNCHANGED <<status, cacheVars, issuerVars, cloudVars, pc, roundVars, envVars, ghost>>

\* Mutant: the finalizer is not awaited.
CacheHoldsUnchecked == capi.exists /\ ~capi.deleting

\* The cache holds a CR that is not being deleted and has the finalizer.
CacheHolds == capi.exists /\ ~capi.deleting /\ capi.fin

\* The Certificate as r.Get answers.
CertSeen == IF CertCacheLags THEN ccert ELSE cert

\* The Certificate is created or brought to the CR's spec.  When the cache is
\* behind, AlreadyExists or a Conflict ends the round; a cached Certificate that
\* already agrees with the spec is left alone, current or not.
CreateOrUpdateCertificate ==
    \/ /\ CertSeen = capi.spec.dom
       /\ UNCHANGED cert
    \/ /\ CertSeen # capi.spec.dom
       /\ CertSeen = cert
       /\ cert' = capi.spec.dom

\* Mutant: a missing Secret is not noticed.
MaterialUnchecked == TRUE

\* loadMaterial: the Secret, read live, holds a valid bundle whose SANs cover
\* the names of the cached spec.
MaterialValid == secret # NoFP /\ <<dom[secret], capi.spec.dom>> \in Covers

\* Certificate not Ready, or Secret missing or invalid: Issued=False, and
\* status.current stays.
BeginRoundNotIssued ==
    /\ pc = "idle"
    /\ CacheHolds
    /\ ~MaterialValid \/ ~stable
    /\ CreateOrUpdateCertificate
    /\ pc' = "patch"
    /\ ac' = AggregateReady([cstatus EXCEPT !.conds.issued = FALSE], capi.spec.upload)
    /\ orig' = cstatus
    /\ acSpec' = capi.spec
    /\ UNCHANGED <<crVars, cacheVars, secret, lastGen, dom, cloudVars, b, seen, envVars, ghost>>

\* The material is good.  A stalled renewal keeps Issued=False but goes on.
BeginRoundIssued ==
    /\ pc = "idle"
    /\ CacheHolds
    /\ MaterialValid
    /\ CreateOrUpdateCertificate
    /\ \E stalled \in BOOLEAN :
           /\ stalled => ~stable
           /\ ac' = [cstatus EXCEPT !.conds.issued = ~stalled]
    /\ orig' = cstatus
    /\ acSpec' = capi.spec
    /\ b' = secret
    /\ pc' = "probe"
    /\ UNCHANGED <<crVars, cacheVars, secret, lastGen, dom, cloudVars, seen, envVars, ghost>>

\* probeCAS, nothing to ask: upload disabled, no certId, expired, or asked
\* within the probe interval; or the listing failed, which is only noted.
ProbeSkipped ==
    /\ pc = "probe"
    /\ ~acSpec.upload \/ ac.cur.id = NoId \/ ac.probed \/ CallRefused
    /\ pc' = "ensure"
    /\ UNCHANGED <<crVars, cacheVars, issuerVars, cloudVars, roundVars, envVars, ghost>>

ProbeDue == acSpec.upload /\ ac.cur.id # NoId /\ ~ac.probed /\ CallServed

ProbeFound ==
    /\ pc = "probe"
    /\ ProbeDue
    /\ ac.cur.id \in Listed(CasFindHint(ac, dom[b]))
    /\ ac' = [ac EXCEPT !.probed = TRUE]
    /\ pc' = "ensure"
    /\ UNCHANGED <<crVars, cacheVars, issuerVars, cloudVars, orig, acSpec, b, seen,
                   envVars, ghost>>

\* The current certificate is not listed: certId and fingerprint are cleared
\* and the verdict is patched before ensureUploaded reads the CR again.
ProbeMissing ==
    /\ pc = "probe"
    /\ ProbeDue
    /\ ac.cur.id \notin Listed(CasFindHint(ac, dom[b]))
    /\ PatchAndReload([ac EXCEPT !.cur = NoGen, !.probed = TRUE])
    /\ pc' = "ensure"
    /\ ghost' = [ghost EXCEPT !.erased = @ \cup Uncovered({status.cur.fp})]
    /\ UNCHANGED <<api, cacheVars, issuerVars, cloudVars, b, seen, envVars>>

\* ensureUploaded, first short-circuit: the cached fingerprint is the bundle's.
EnsureShortCircuit ==
    /\ pc = "ensure"
    /\ ac.cur.fp = b
    /\ ac' = SetUploadedCondition(ac, acSpec.upload)
    /\ pc' = "reclaim"
    /\ UNCHANGED <<crVars, cacheVars, issuerVars, cloudVars, orig, acSpec, b, seen,
                   envVars, ghost>>

\* patchPendingUpload reaches the API server.
WriteAhead ==
    /\ status' = [status EXCEPT !.pend = b, !.hint = acSpec.dom]
    /\ ghost' = [ghost EXCEPT !.superseded = (@ \cup Uncovered({status.pend})) \ {b},
                              !.erased = @ \ {b}]

\* Mutants: no second short-circuit; another generation's record is reused.
RefreshIgnored(a) == FALSE
HasAnyRecord(a) == a.pend # NoFP

\* After the live read: the generation is current already; its write-ahead
\* record is there already.
RefreshedIsCurrent(a) == a.cur.fp = b
HasRecord(a) == a.pend = b

\* refreshUploadState reads the CR live into ac and orig; then the second
\* short-circuit, a generation that is not uploaded, a write-ahead record to
\* reuse, or a new record, patched before CAS is called.
EnsureRefresh ==
    /\ pc = "ensure"
    /\ ac.cur.fp # b
    /\ LET a == AdoptUploadState(ac, status)
           o == AdoptUploadState(orig, status)
       IN  \/ /\ RefreshedIsCurrent(a)
              /\ ac' = SetUploadedCondition(a, acSpec.upload)
              /\ orig' = o
              /\ pc' = "reclaim"
              /\ UNCHANGED <<status, ghost>>
           \/ /\ ~RefreshedIsCurrent(a) /\ ~acSpec.upload
              /\ ac' = SetUploadedCondition(Advance(a, b, NoId), acSpec.upload)
              /\ orig' = o
              /\ pc' = "reclaim"
              /\ UNCHANGED <<status, ghost>>
           \/ /\ ~RefreshedIsCurrent(a) /\ acSpec.upload /\ HasRecord(a)
              /\ ac' = a
              /\ orig' = o
              /\ pc' = "upload"
              /\ UNCHANGED <<status, ghost>>
           \/ /\ ~RefreshedIsCurrent(a) /\ acSpec.upload /\ ~HasRecord(a)
              /\ WriteAhead
              /\ ac' = [a EXCEPT !.pend = b, !.hint = acSpec.dom]
              /\ orig' = [o EXCEPT !.pend = b, !.hint = acSpec.dom]
              /\ pc' = "upload"
    /\ UNCHANGED <<api, cacheVars, issuerVars, cloudVars, acSpec, b, seen, envVars>>

\* The upload went through: new current, write-ahead record dropped in memory.
Uploaded(id) ==
    /\ ac' = SetUploadedCondition(
                 [Advance(ac, b, id) EXCEPT !.pend = NoFP, !.hint = NoDom, !.probed = TRUE],
                 acSpec.upload)
    /\ pc' = "reclaim"

\* handleCloudError: Uploaded=False, Ready follows, the status is patched.
CloudError ==
    /\ ac' = AggregateReady([ac EXCEPT !.conds.uploaded = FALSE], acSpec.upload)
    /\ pc' = "patch"

\* The live read or the write-ahead patch failed; the patch may have taken
\* effect all the same.  handleCloudError takes these errors too.
EnsureFails ==
    /\ pc = "ensure"
    /\ ~stable
    /\ ac.cur.fp # b
    /\ \/ /\ CloudError
          /\ UNCHANGED <<status, orig, ghost>>
       \/ /\ LET a == AdoptUploadState(ac, status)
             IN  /\ ~RefreshedIsCurrent(a) /\ acSpec.upload /\ ~HasRecord(a)
                 /\ ac' = AggregateReady([a EXCEPT !.conds.uploaded = FALSE], acSpec.upload)
          /\ orig' = AdoptUploadState(orig, status)
          /\ pc' = "patch"
          /\ WriteAhead
    /\ UNCHANGED <<api, cacheVars, issuerVars, cloudVars, acSpec, b, seen, envVars>>

\* Upload of a name CAS does not hold.
UploadNew ==
    /\ pc = "upload"
    /\ cas[b] = NoId
    /\ cas' = [cas EXCEPT ![b] = nextId]
    /\ nextId' = nextId + 1
    /\ \/ CallServed /\ Uploaded(nextId)
       \/ AnswerLost /\ CloudError
    /\ UNCHANGED <<crVars, cacheVars, issuerVars, orig, acSpec, b, seen, envVars, ghost>>

\* NameRepeat: findByName claims the certificate that holds the name.
UploadClaim ==
    /\ pc = "upload"
    /\ CallServed
    /\ cas[b] # NoId
    /\ \E id \in FindByName(b) : Uploaded(id)
    /\ UNCHANGED <<crVars, cacheVars, issuerVars, cloudVars, orig, acSpec, b, seen,
                   envVars, ghost>>

\* No credentials, Upload refused, or the claim's listing failed.
UploadFails ==
    /\ pc = "upload"
    /\ CallRefused
    /\ CloudError
    /\ UNCHANGED <<crVars, cacheVars, issuerVars, cloudVars, orig, acSpec, b, seen,
                   envVars, ghost>>

\* The end of a normal round: aggregateReady, then patchStatus.
GoPatch(a) ==
    /\ ac' = AggregateReady(a, acSpec.upload)
    /\ pc' = "patch"

\* Mutant: current is not counted.
ExcessOffByOne(s) == acSpec.upload /\ Len(s.hist) > KeepLast

Excess(s) == acSpec.upload /\ 1 + Len(s.hist) > KeepLast /\ s.hist # <<>>

\* reclaimOldGenerations: bindings are listed live once, before the loop.
ReclaimList ==
    /\ pc = "reclaim"
    /\ IF Excess(ac)
       THEN seen' = LiveBindingsFor /\ pc' = "reclaimLoop" /\ UNCHANGED ac
       ELSE GoPatch(ac) /\ UNCHANGED seen
    /\ UNCHANGED <<crVars, cacheVars, issuerVars, cloudVars, orig, acSpec, b, envVars, ghost>>

Oldest(s) == s.hist[Len(s.hist)]
DropOldest(s) == [s EXCEPT !.hist = SubSeq(@, 1, Len(@) - 1)]

\* One turn of the loop: the oldest generation is deleted (NotFound is fine)
\* and leaves the history.
ReclaimOldest ==
    /\ pc = "reclaimLoop"
    /\ Excess(ac)
    /\ Reclaimable(Oldest(ac))
    /\ \/ /\ Oldest(ac).id = NoId
          /\ UNCHANGED cas
       \/ /\ Oldest(ac).id # NoId
          /\ CallServed
          /\ cas' = CasWithout(Oldest(ac).id)
    /\ ac' = DropOldest(ac)
    /\ UNCHANGED <<crVars, cacheVars, issuerVars, nextId, pc, orig, acSpec, b, seen,
                   envVars, ghost>>

\* The listing of the bindings failed, or Delete did (its effect may have taken
\* place): the progress made so far is patched, no condition is touched.
ReclaimFails ==
    /\ Excess(ac)
    /\ \/ /\ pc = "reclaim"
          /\ ~stable
          /\ UNCHANGED cas
       \/ /\ pc = "reclaimLoop"
          /\ Reclaimable(Oldest(ac))
          /\ Oldest(ac).id # NoId
          /\ \/ CallRefused /\ UNCHANGED cas
             \/ AnswerLost /\ cas' = CasWithout(Oldest(ac).id)
    /\ GoPatch(ac)
    /\ UNCHANGED <<crVars, cacheVars, issuerVars, nextId, orig, acSpec, b, seen,
                   envVars, ghost>>

\* Enough reclaimed, or a guard (minAge included) holds the oldest back.
ReclaimStops ==
    /\ pc = "reclaimLoop"
    /\ Excess(ac) /\ Reclaimable(Oldest(ac)) => ~stable
    /\ GoPatch(ac)
    /\ UNCHANGED <<crVars, cacheVars, issuerVars, cloudVars, orig, acSpec, b, seen,
                   envVars, ghost>>

\* A list is replaced as a whole: a history shortened from a stale copy takes
\* with it what entered the history since.
Overwritten ==
    IF ac.hist = orig.hist THEN {}
    ELSE {f \in FP : \E i \in 1 .. Len(status.hist) :
                        /\ status.hist[i].fp = f
                        /\ \A j \in 1 .. Len(orig.hist) : orig.hist[j] # status.hist[i]}

\* The patchStatus that ends every normal round.
PatchStatus ==
    /\ pc = "patch"
    /\ status' = MergePatch(status, orig, ac)
    /\ ghost' = [ghost EXCEPT !.erased = @ \cup Uncovered(Overwritten)]
    /\ EndRound
    /\ UNCHANGED <<api, cacheVars, issuerVars, cloudVars, envVars>>
-----------------------------------------------------------------------------
(* The deletion branch: reconcileDelete *)

CacheDeleting == pc = "idle" /\ capi.exists /\ capi.deleting /\ capi.fin

\* a. A live, non-terminating binding blocks the deletion.
DeleteBlocked ==
    /\ CacheDeleting
    /\ api.exists
    /\ ActiveBindings # {}
    /\ status' = MergePatch(status, cstatus, [cstatus EXCEPT !.conds.ready = FALSE])
    /\ UNCHANGED <<api, cacheVars, issuerVars, cloudVars, pc, roundVars, envVars, ghost>>

\* First unblocked round: cleanupStartedAt is patched, and the answer replaces
\* the cached working copy.
DeleteStarts ==
    /\ CacheDeleting
    /\ api.exists
    /\ ActiveBindings = {}
    /\ ~cstatus.cleanup
    /\ status' = MergePatch(status, cstatus, [cstatus EXCEPT !.cleanup = TRUE])
    /\ ac' = status'
    /\ orig' = status'
    /\ acSpec' = api.spec
    /\ pc' = "cleanup"
    /\ graceOver' = FALSE
    /\ UNCHANGED <<api, cacheVars, issuerVars, cloudVars, b, seen, binding, stable, outage, budget,
                   ghost>>

\* Later rounds work on the cached status, even when the CR is already gone.
DeleteResumes ==
    /\ CacheDeleting
    /\ ActiveBindings = {}
    /\ cstatus.cleanup
    /\ ac' = cstatus
    /\ orig' = cstatus
    /\ acSpec' = capi.spec
    /\ pc' = "cleanup"
    /\ UNCHANGED <<crVars, cacheVars, issuerVars, cloudVars, b, seen, envVars, ghost>>

\* cleanupCAS takes the history in order, then current, then pendingUpload.
HistoryClean(s, n) == \A j \in 1 .. n : s.hist[j].id = NoId

HistoryIsClean(s) == HistoryClean(s, Len(s.hist))
FirstLeft(s) == CHOOSE i \in 1 .. Len(s.hist) : s.hist[i].id # NoId /\ HistoryClean(s, i - 1)

\* Mutant: uploadToCAS=false skips the cleanup.
CleanOnlyIfEnabled(s) ==
    ~acSpec.upload \/ (HistoryIsClean(s) /\ s.cur.id = NoId /\ s.pend = NoFP)

NothingLeft(s) == HistoryIsClean(s) /\ s.cur.id = NoId /\ s.pend = NoFP

\* Mutant: the pending record is dropped without looking for its certificate.
PendingUnclaimed(s) ==
    IF ~HistoryIsClean(s) THEN s.hist[FirstLeft(s)].id
    ELSE IF s.cur.id # NoId THEN s.cur.id ELSE NoId

\* The certificate cleanupCAS deletes next; pendingUpload has no certId, so the
\* certificate is looked up by name with the recorded hint.
NextToDelete(s) ==
    IF ~HistoryIsClean(s) THEN s.hist[FirstLeft(s)].id
    ELSE IF s.cur.id # NoId THEN s.cur.id
    ELSE IF cas[s.pend] \in Listed(CasFindHint(s, NoDom)) THEN cas[s.pend] ELSE NoId

\* The working copy once that certificate is deleted (or was not found).
DeletedNext(s) ==
    IF ~HistoryIsClean(s) THEN [s EXCEPT !.hist[FirstLeft(s)].id = NoId]
    ELSE IF s.cur.id # NoId THEN [s EXCEPT !.cur.id = NoId]
    ELSE [s EXCEPT !.pend = NoFP, !.hint = NoDom]

\* b. One CAS certificate of the CR is deleted.
CleanupDelete ==
    /\ pc = "cleanup"
    /\ ~NothingLeft(ac)
    /\ CallServed
    /\ cas' = CasWithout(NextToDelete(ac))
    /\ ac' = DeletedNext(ac)
    /\ UNCHANGED <<crVars, cacheVars, issuerVars, nextId, pc, orig, acSpec, b, seen,
                   envVars, ghost>>

\* A call of cleanupCAS failed: keep the progress and retry later, or, past
\* the grace period under Abandon, give up and go on.
CleanupFails ==
    /\ pc = "cleanup"
    /\ ~NothingLeft(ac)
    /\ \/ CallRefused /\ UNCHANGED cas
       \/ AnswerLost /\ cas' = CasWithout(NextToDelete(ac))
    /\ IF ShouldAbandonCleanup
       THEN /\ pc' = "cleaned"
            /\ ghost' = [ghost EXCEPT !.abandoned = TRUE]
            /\ UNCHANGED <<status, roundVars>>
       ELSE /\ status' = IF api.exists
                         THEN MergePatch(status, orig, [ac EXCEPT !.conds.ready = FALSE])
                         ELSE status
            /\ EndRound
            /\ UNCHANGED ghost
    /\ UNCHANGED <<api, cacheVars, issuerVars, nextId, envVars>>

CleanupDone ==
    /\ pc = "cleanup"
    /\ NothingLeft(ac)
    /\ pc' = "cleaned"
    /\ UNCHANGED <<crVars, cacheVars, issuerVars, cloudVars, roundVars, envVars, ghost>>

\* The progress on CAS is patched before anything else is deleted.
PatchCleaned ==
    /\ pc = "cleaned"
    /\ IF api.exists
       THEN PatchAndReload(ac) /\ pc' = "deleteCert" /\ UNCHANGED <<b, seen>>
       ELSE EndRound /\ UNCHANGED status
    /\ UNCHANGED <<api, cacheVars, issuerVars, cloudVars, envVars, ghost>>

\* Mutant: the Certificate is not awaited.
NotAwaited == TRUE

CertificateGone == CertSeen = NoDom

\* c. While the cache shows the Certificate, it is deleted and awaited.
DeleteCertificate ==
    /\ pc = "deleteCert"
    /\ ~CertificateGone
    /\ cert' = NoDom
    /\ EndRound
    /\ UNCHANGED <<crVars, cacheVars, secret, lastGen, dom, cloudVars, envVars, ghost>>

\* d. Once the cache no longer shows it, the Secret is deleted.
DeleteSecret ==
    /\ pc = "deleteCert"
    /\ CertificateGone
    /\ secret' = NoFP
    /\ pc' = "finalize"
    /\ UNCHANGED <<crVars, cacheVars, cert, lastGen, dom, cloudVars, roundVars, envVars, ghost>>

\* e. Update without the finalizer, under the resourceVersion of the last
\* patch: a Conflict ends the round, otherwise the API server drops the CR.
RemoveFinalizer ==
    /\ pc = "finalize"
    /\ IF status = ac /\ api.spec = acSpec
       THEN api' = Gone /\ status' = NoStatus
       ELSE UNCHANGED crVars
    /\ EndRound
    /\ UNCHANGED <<cacheVars, issuerVars, cloudVars, envVars, ghost>>
-----------------------------------------------------------------------------
(* Everything around the round *)

\* The operator process dies; a new one lists the CR and the Certificate anew.
Crash ==
    /\ ~stable
    /\ pc # "idle"
    /\ EndRound
    /\ capi' = api /\ cstatus' = status /\ ccert' = IF CertCacheLags THEN cert ELSE NoDom
    /\ UNCHANGED <<crVars, issuerVars, cloudVars, envVars, ghost>>

\* A call to the API server fails and the round returns the error at once.
RoundAborts ==
    /\ ~stable
    /\ pc # "idle"
    /\ EndRound
    /\ UNCHANGED <<crVars, cacheVars, issuerVars, cloudVars, envVars, ghost>>

\* The watch delivers the CR.
CacheSync ==
    /\ capi # api \/ cstatus # status
    /\ capi' = api /\ cstatus' = status
    /\ UNCHANGED <<crVars, ccert, issuerVars, cloudVars, pc, roundVars, envVars, ghost>>

\* The watch delivers the Certificate.
CertCacheSync ==
    /\ CertCacheLags
    /\ ccert # cert
    /\ ccert' = cert
    /\ UNCHANGED <<crVars, capi, cstatus, issuerVars, cloudVars, pc, roundVars, envVars, ghost>>

MoreChanges ==
    lastGen + budget.rollbacks + budget.handDeletes + budget.toggles + budget.renames < MaxChanges

\* cert-manager issues into the Secret, for the first time or as a renewal, with
\* the names of the Certificate.
Issue ==
    /\ cert # NoDom
    /\ lastGen < MaxGen /\ MoreChanges
    /\ secret = NoFP \/ ~stable
    /\ lastGen' = lastGen + 1
    /\ secret' = lastGen'
    /\ dom' = [dom EXCEPT ![lastGen'] = cert]
    /\ UNCHANGED <<crVars, cacheVars, cert, cloudVars, pc, roundVars, envVars, ghost>>

\* Somebody restores an older Secret.
RollbackSecret ==
    /\ ~stable
    /\ secret # NoFP
    /\ budget.rollbacks < MaxRollbacks /\ MoreChanges
    /\ \E f \in 1 .. lastGen : f # secret /\ secret' = f
    /\ budget' = [budget EXCEPT !.rollbacks = @ + 1]
    /\ UNCHANGED <<crVars, cacheVars, cert, lastGen, dom, cloudVars, pc, roundVars, binding,
                   graceOver, stable, outage, ghost>>

\* Somebody deletes a CAS certificate by hand.
HandDelete ==
    /\ ~stable
    /\ budget.handDeletes < MaxHandDeletes /\ MoreChanges
    /\ \E f \in FP : cas[f] # NoId /\ cas' = [cas EXCEPT ![f] = NoId]
    /\ budget' = [budget EXCEPT !.handDeletes = @ + 1]
    /\ UNCHANGED <<crVars, cacheVars, issuerVars, nextId, pc, roundVars, binding, graceOver,
                   stable, outage, ghost>>

\* The user edits spec.aliyun.uploadToCAS.
ToggleUpload ==
    /\ ~stable
    /\ api.exists
    /\ budget.toggles < MaxToggles /\ MoreChanges
    /\ api' = [api EXCEPT !.spec.upload = ~@]
    /\ budget' = [budget EXCEPT !.toggles = @ + 1]
    /\ UNCHANGED <<status, cacheVars, issuerVars, cloudVars, pc, roundVars, binding, graceOver,
                   stable, outage, ghost>>

\* The user edits spec.certificateTemplate.dnsNames.
RenameDomain ==
    /\ ~stable
    /\ api.exists
    /\ budget.renames < MaxRenames /\ MoreChanges
    /\ \E d \in Domain : d # api.spec.dom /\ api' = [api EXCEPT !.spec.dom = d]
    /\ budget' = [budget EXCEPT !.renames = @ + 1]
    /\ UNCHANGED <<status, cacheVars, issuerVars, cloudVars, pc, roundVars, binding, graceOver,
                   stable, outage, ghost>>

\* The user deletes the CR; without our finalizer it goes at once.
DeleteCR ==
    /\ MayDelete
    /\ ~stable
    /\ api.exists /\ ~api.deleting
    /\ IF api.fin
       THEN api' = [api EXCEPT !.deleting = TRUE] /\ UNCHANGED status
       ELSE api' = Gone /\ status' = NoStatus
    /\ UNCHANGED <<cacheVars, issuerVars, cloudVars, pc, roundVars, envVars, ghost>>

\* The garbage collector follows the Certificate's owner reference.
CollectCertificate ==
    /\ ~api.exists
    /\ cert # NoDom
    /\ cert' = NoDom
    /\ UNCHANGED <<crVars, cacheVars, secret, lastGen, dom, cloudVars, pc, roundVars,
                   envVars, ghost>>

SetBinding(x, s) ==
    /\ binding' = [binding EXCEPT ![x] = s]
    /\ UNCHANGED <<crVars, cacheVars, issuerVars, cloudVars, pc, roundVars, graceOver, stable, outage,
                   budget, ghost>>

\* A binding is created, or its spec edited: the next reconcile is owed.
EditBinding(x) ==
    /\ ~stable
    /\ binding[x].phase # "deleting"
    /\ SetBinding(x, [binding[x] EXCEPT !.phase = "live", !.observed = FALSE])

\* The binding controller writes the current generation to the target: the
\* Secret's fingerprint and status.current agree (certificateGate).
BindingApplies(x) ==
    /\ binding[x].phase = "live"
    /\ api.exists /\ secret # NoFP /\ status.cur.fp = secret
    /\ binding[x] # [phase |-> "live", observed |-> TRUE, applied |-> secret]
    /\ SetBinding(x, [phase |-> "live", observed |-> TRUE, applied |-> secret])

\* A binding that cannot apply still records that it has seen its spec.
BindingObserves(x) ==
    /\ binding[x].phase = "live"
    /\ ~binding[x].observed
    /\ SetBinding(x, [binding[x] EXCEPT !.observed = TRUE])

\* The user deletes the binding; its finalizer unbinds the target.
DeleteBinding(x) ==
    /\ ~stable
    /\ binding[x].phase = "live"
    /\ SetBinding(x, [binding[x] EXCEPT !.phase = "deleting"])

BindingGone(x) ==
    /\ binding[x].phase = "deleting"
    /\ SetBinding(x, NoBinding)

\* Time passes: every casProbedAt written so far is older than the interval.
\* The interval (hours) is long against the lag of the cache (seconds).
ProbeIntervalPasses ==
    /\ capi = api /\ cstatus = status
    /\ status.probed \/ cstatus.probed \/ ac.probed \/ orig.probed
    /\ status' = [status EXCEPT !.probed = FALSE]
    /\ cstatus' = [cstatus EXCEPT !.probed = FALSE]
    /\ ac' = [ac EXCEPT !.probed = FALSE]
    /\ orig' = [orig EXCEPT !.probed = FALSE]
    /\ UNCHANGED <<api, capi, ccert, issuerVars, cloudVars, pc, acSpec, b, seen, envVars,
                   ghost>>

\* Time passes: the grace period since cleanupStartedAt is over.
GracePeriodPasses ==
    /\ status.cleanup
    /\ ~graceOver
    /\ graceOver' = TRUE
    /\ UNCHANGED <<crVars, cacheVars, issuerVars, cloudVars, pc, roundVars, binding, stable, outage,
                   budget, ghost>>

\* From some point on nothing fails and nobody interferes, or nothing fails but
\* CAS, which never answers again.
Stabilise ==
    /\ Settles
    /\ ~stable
    /\ stable' = TRUE
    /\ \E down \in BOOLEAN : (down => MayOutage) /\ outage' = down
    /\ UNCHANGED <<crVars, cacheVars, issuerVars, cloudVars, pc, roundVars, binding, graceOver,
                   budget, ghost>>
-----------------------------------------------------------------------------
Round ==
    \/ AddFinalizer
    \/ BeginRoundNotIssued \/ BeginRoundIssued
    \/ ProbeSkipped \/ ProbeFound \/ ProbeMissing
    \/ EnsureShortCircuit \/ EnsureRefresh \/ EnsureFails
    \/ UploadNew \/ UploadClaim \/ UploadFails
    \/ ReclaimList \/ ReclaimOldest \/ ReclaimFails \/ ReclaimStops
    \/ PatchStatus

Deletion ==
    \/ DeleteBlocked \/ DeleteStarts \/ DeleteResumes
    \/ CleanupDelete \/ CleanupFails \/ CleanupDone
    \/ PatchCleaned \/ DeleteCertificate \/ DeleteSecret \/ RemoveFinalizer

BindingStep ==
    \E x \in Binding :
        \/ EditBinding(x) \/ BindingApplies(x) \/ BindingObserves(x)
        \/ DeleteBinding(x) \/ BindingGone(x)

Environment ==
    \/ Crash \/ RoundAborts \/ CacheSync \/ CertCacheSync
    \/ Issue \/ RollbackSecret \/ HandDelete \/ ToggleUpload \/ RenameDomain \/ DeleteCR
    \/ CollectCertificate \/ BindingStep
    \/ ProbeIntervalPasses \/ GracePeriodPasses \/ Stabilise

Next == Round \/ Deletion \/ Environment

Spec == Init /\ [][Next]_vars

(***************************************************************************)
(* Fairness.  Rounds are re-queued until they succeed (resync interval,    *)
(* backoff, watch events), a worker finishes the round it started, the     *)
(* watches deliver, time passes, the binding controller runs, and faults   *)
(* cease for good at some moment.  Nothing is assumed of the user, of      *)
(* cert-manager or of the process before that moment.                      *)
(***************************************************************************)
Fairness ==
    /\ WF_vars(Round \/ Deletion)
    /\ WF_vars(CacheSync)
    /\ WF_vars(CertCacheSync)
    /\ WF_vars(ProbeIntervalPasses)
    /\ WF_vars(GracePeriodPasses)
    /\ WF_vars(Stabilise)
    /\ \A x \in Binding : WF_vars(BindingObserves(x)) /\ WF_vars(BindingGone(x))

FairSpec == Spec /\ Fairness
-----------------------------------------------------------------------------
(* Properties *)

\* The CAS certificate of generation f is on record in the CR's status.
Recorded(f) ==
    \/ status.cur.id = cas[f]
    \/ \E i \in 1 .. Len(status.hist) : status.hist[i].id = cas[f]
    \/ status.pend = f

\* upload.go's write-ahead rule: a certificate appears in CAS only while the
\* persisted pendingUpload names it, whatever the cache showed the round.
UploadIsRecorded ==
    [][\A f \in FP : cas[f] = NoId /\ cas'[f] # NoId => status.pend = f]_vars

DeleteSteps == {"cleanup", "cleaned", "deleteCert", "finalize"}
RoundSteps == {"probe", "ensure", "upload", "reclaim", "reclaimLoop", "patch"}

\* A normal round, begun from a cache that may be stale, only ever runs on a CR
\* that still has its finalizer on the server, so no CR and no write-ahead
\* record vanishes under an upload; a deletion round runs on a CR that is being
\* deleted or gone.
FinalizerHeld ==
    /\ ~api.exists => api = Gone
    /\ capi.deleting => api.deleting \/ ~api.exists
    /\ capi.fin /\ ~capi.deleting => api.fin
    /\ pc \in DeleteSteps => (capi.fin => capi.deleting) /\ (api.fin => api.deleting)
    /\ pc \in RoundSteps => api.fin

\* Every CAS certificate stays on record in status, through crashes, lost
\* answers and stale caches and until the CR is gone, except in four known
\* ways: pendingUpload replaced by a newer generation's; a probe of a stale
\* current; a history reclaimed from a stale copy, after the Secret went back to
\* the generation that copy calls current; and a cleanup given up.
OrphansAccounted ==
    \A f \in FP : cas[f] # NoId =>
        Recorded(f) \/ f \in ghost.superseded \cup ghost.erased \/ ghost.abandoned

\* The certId published as status.current is in CAS under its generation, in
\* every state of a renewal, until the CR is deleted. A Secret that went back to
\* a generation in the history is the exception: retention.go then finds the
\* current certId as the oldest one.
CurrentIdValid ==
    (status.cur.id # NoId /\ ~api.deleting /\ api.exists /\ budget.rollbacks = 0) =>
        status.cur.fp # NoFP /\ cas[status.cur.fp] = status.cur.id

\* Generations a step of the retention loop takes out of CAS; somebody's
\* deletion by hand counts in the budget and is not one.
Reclaims(f) == pc = "reclaimLoop" /\ cas[f] # NoId /\ cas'[f] = NoId /\ budget' = budget

\* Retention never deletes the generation the round has just made current.
ReclaimSparesCurrent == [][\A f \in FP : Reclaims(f) => f # ac.cur.fp]_vars

\* Retention never deletes a generation that a binding has applied, even one
\* applied after the bindings were listed.
ReclaimSparesBound ==
    [][\A f \in FP : Reclaims(f) =>
          \A x \in Binding : binding[x].phase # "none" => binding[x].applied # f]_vars

\* cleanupPendingUpload claims the certificate an upload with no answer may have
\* left: when the record is dropped nothing is in CAS under its name.
CleanupClaimsPending ==
    [][pc = "cleanup" /\ ac.pend # NoFP /\ pc' = "cleanup" /\ ac'.pend = NoFP
           => cas'[ac.pend] = NoId]_vars

\* A deleted CR leaves no private key: when the CR and its Certificate are
\* gone, so is the Secret.
SecretGoesWithCR == ~api.exists /\ cert = NoDom => secret = NoFP

\* What the CR promises when it is left alone with a valid Secret: the
\* Secret's generation is current, uploaded, and Ready says so.
InSync ==
    api.exists /\ ~api.deleting /\ api.spec.upload /\ secret # NoFP =>
        /\ status.cur.fp = secret
        /\ status.cur.id # NoId
        /\ cas[secret] = status.cur.id
        /\ status.conds.uploaded /\ status.conds.ready

\* Once faults and outside changes cease the CR converges and stays there.
Converges == <>[]InSync

\* Retention converges too: with no binding holding an old generation back,
\* current and history come down to keepLast.
RetentionConverges ==
    <>[](api.exists /\ ~api.deleting /\ api.spec.upload /\ LiveBindings = {} =>
             Len(status.hist) < KeepLast)

\* Under Abandon a deletion that no binding blocks ends, even if CAS never
\* answers again.
DeletionEnds == api.deleting ~> ~api.exists \/ ActiveBindings # {}
=============================================================================
