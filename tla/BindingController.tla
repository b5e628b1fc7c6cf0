------------------------- MODULE BindingController --------------------------
(***************************************************************************)
(* The binding controller (internal/controller/binding_*.go): the          *)
(* AliyunCertificateBindings of ONE cloud target, the single worker that   *)
(* reconciles them, the informer caches it reads, the providers' calls on  *)
(* the target, and the work queue that wakes it.  A round is cut at each   *)
(* cloud call and at the status patch.  A binding is a number: its place   *)
(* in the total order of lessBinding (creationTimestamp, then UID), for    *)
(* one lifetime of the object.                                             *)
(*                                                                         *)
(* The certificate controller is reduced to what a binding sees of it:     *)
(* the Secret, status.current, Issued, and the CAS certificates that       *)
(* retention deletes (module CertificateController has the detail).        *)
(***************************************************************************)
EXTENDS Naturals, FiniteSets

CONSTANTS
    Binding,      \* bindings of the target, in the order of lessBinding
    Certificate,  \* AliyunCertificates, as numbers 1 .. n
    CertOf,       \* spec.certificateRef
    Existing,     \* bindings that are there when the process starts
    OwnCreds,     \* bindings with a spec.credentialsRef of their own
    Account,      \* cloud accounts, each with a target of this name
    ByRef,        \* TRUE: an OSS CNAME (certId); FALSE: an FC3 domain (PEM)
    EnsureHTTPS,  \* spec.target.fc3CustomDomain.ensureHTTPSProtocol
    Uncovered,    \* generations whose SANs do not cover the target's domain
    ProtocolInit, \* initial values of an FC3 domain's protocol
    UploadInit,   \* initial values of the certificates' uploadToCAS
    UnbindInit,   \* is spec.deletionPolicy Unbind when a binding is created
    Policy,       \* --cleanup-failure-policy
    KeepLast,     \* spec.retention.keepLast
    MaxGen,       \* bound: generations issued, and CAS ids given out
    MaxOutside,   \* bound: changes in the cloud console, edits of specs, and
                  \* cloud writes that may take effect after a timeout
    MaxMoves,     \* bound: changes of the credentials Secret
    MayFailList,  \* TRUE: the list in a watch handler may fail
    MayHide,      \* TRUE: an observation may come without an account id
    MayOutage,    \* TRUE: the cloud may fail for ever when other faults cease
    Settles       \* TRUE: faults and outside changes may cease for good

NoAcc == "none"            \* no account id; credentials missing or malformed
NoCert == 0                \* no certificate, no fingerprint, no certId
Foreign == MaxGen + 1      \* a certificate put there by hand
Garbage == MaxGen + 2      \* a PEM that cannot be parsed
NoBinding == 0

Gen == 0 .. MaxGen
OnTarget == 0 .. MaxGen + 2

ASSUME OrderAssumption ==
    /\ Binding \subseteq Nat \ {NoBinding}
    /\ IsFiniteSet(Binding)
    /\ \E n \in 0 .. MaxGen : Certificate = 1 .. n
    /\ CertOf \in [Binding -> Certificate]
    /\ OwnCreds \subseteq Binding /\ Existing \subseteq Binding
ASSUME TargetAssumption ==
    /\ NoAcc \notin Account
    /\ Uncovered \subseteq 1 .. MaxGen
    /\ Policy \in {"Abandon", "Block"}
ASSUME SwitchAssumption ==
    /\ UploadInit \subseteq BOOLEAN /\ UnbindInit \subseteq BOOLEAN
    /\ ProtocolInit \subseteq {"HTTP", "HTTPS", "HTTP,HTTPS"}
    /\ {ByRef, EnsureHTTPS, MayFailList, MayHide, MayOutage, Settles} \subseteq BOOLEAN
ASSUME LimitAssumption ==
    {KeepLast, MaxGen, MaxOutside, MaxMoves} \subseteq Nat

VARIABLES
    obj,       \* the bindings on the API server, status aside
    st,        \* their status subresources
    peers,     \* the bindings as the informer cache holds them
    cr,        \* the certificates: what a binding reads of them
    ccr,       \* ... as the informer cache holds them
    secret,    \* the generation in each certificate's Secret
    hist,      \* status.history of each certificate
    cas,       \* certIds CAS holds
    last,      \* newest generation issued, newest certId given out
    adopted,   \* history: generations that have been status.current
    account,   \* the account the credentials Secret leads to
    tgt,       \* the target in each account
    late,      \* cloud writes that were given up and may still take effect
    pc,        \* where the worker is
    rd,        \* its bindingRound
    wake,      \* the work queue: queued, or with the drift check to come
    graceOver, \* bindings whose --cleanup-grace-period has passed
    stable,    \* faults and outside changes have ceased
    outage,    \* ... but every cloud call is refused, for ever
    budget,    \* outside changes made so far
    moved,     \* history: reads of the target that an outside change made stale
    unheard    \* history: bindings that missed a wake-up since their last round

bindingVars == <<obj, st>>
certVars == <<cr, secret, hist, cas, last, adopted>>
cacheVars == <<peers, ccr>>
cloudVars == <<tgt, late>>
worldVars == <<account, graceOver, stable, outage>>
envVars == <<worldVars, budget>>
queueVars == <<wake, unheard>>
vars == <<bindingVars, certVars, cacheVars, cloudVars, pc, rd, moved, queueVars, envVars>>
-----------------------------------------------------------------------------
(* Types *)

Phase == {"absent", "live", "deleting", "gone"}
Object == [phase : Phase, fin : BOOLEAN, unbind : BOOLEAN, gen : Nat]
Absent == [phase |-> "absent", fin |-> FALSE, unbind |-> FALSE, gen |-> 0]

\* og: observedGeneration.  ref: appliedCertRef.  drifted: driftedFingerprint or
\* driftedCertRef.  cApplied, obsFailed: the Applied condition, and whether its
\* reason is ObserveFailed.  conflict: the Conflict condition with its reason.
Status == [og : Nat, applied : Gen, ref : Gen, drifted : OnTarget,
           bound : Account \cup {NoAcc}, cleanup : BOOLEAN,
           cApplied : {"absent", "True", "False"}, obsFailed : BOOLEAN,
           conflict : {"no", "peer", "account"}, ready : BOOLEAN]
NoStatus == [og |-> 0, applied |-> NoCert, ref |-> NoCert, drifted |-> NoCert,
             bound |-> NoAcc, cleanup |-> FALSE, cApplied |-> "absent",
             obsFailed |-> FALSE, conflict |-> "no", ready |-> FALSE]

Current == [exists : BOOLEAN, issued : BOOLEAN, upload : BOOLEAN, fp : Gen, id : Gen]

Protocol == {"HTTP", "HTTPS", "HTTP,HTTPS"}

\* other: a version of the domain's remaining configuration (DomainEcho).
TargetState == [exists : BOOLEAN, cert : OnTarget, proto : Protocol, other : Nat]
Write == [acct : Account, cert : Gen, proto : Protocol, other : Nat]

Material == [fp : Gen, id : Gen]
NoMaterial == [fp |-> NoCert, id |-> NoCert]

\* gen: the generation read.  w: the working copy of the status.  m: the
\* material.  acct: the account of the client.  oacct: the account observed.
\* proto, other: read back before a write.  next: how the round is requeued.
Round == [b : Binding \cup {NoBinding}, gen : Nat, w : Status, m : Material,
          acct : Account \cup {NoAcc}, oacct : Account \cup {NoAcc},
          proto : Protocol, other : Nat, next : {"none", "drift", "now"}]
NoRound == [b |-> NoBinding, gen |-> 0, w |-> NoStatus, m |-> NoMaterial,
            acct |-> NoAcc, oacct |-> NoAcc, proto |-> "HTTP", other |-> 0,
            next |-> "none"]

Step == {"idle", "observe", "get", "write", "patch",
         "unbind", "clearGet", "clear", "failed", "finish"}

TypeOK ==
    /\ obj \in [Binding -> Object]
    /\ st \in [Binding -> Status]
    /\ peers \in [Binding -> [phase : Phase, gen : Nat]]
    /\ cr \in [Certificate -> Current]
    /\ ccr \in [Certificate -> Current]
    /\ secret \in [Certificate -> Gen]
    /\ hist \in [Certificate -> SUBSET Material]
    /\ cas \subseteq 1 .. MaxGen
    /\ last \in [fp : Gen, id : Gen]
    /\ adopted \subseteq 1 .. MaxGen
    /\ account \in Account \cup {NoAcc}
    /\ tgt \in [Account -> TargetState]
    /\ late \subseteq Write
    /\ pc \in Step
    /\ rd \in Round
    /\ pc # "idle" => rd.b \in Binding
    /\ pc \in {"get", "write", "clearGet", "clear"} => rd.acct \in Account
    /\ wake \in [Binding -> {"none", "drift", "now"}]
    /\ graceOver \subseteq Binding
    /\ stable \in BOOLEAN
    /\ outage \in BOOLEAN
    /\ budget \in [outside : Nat, moves : Nat]
    /\ moved \subseteq {"observed", "read"}
    /\ unheard \subseteq Binding
-----------------------------------------------------------------------------
(* Operators the actions are built from *)

Exists(x) == obj[x].phase \in {"live", "deleting"}
Cached(x) == peers[x].phase \in {"live", "deleting"}
InCache == {x \in Binding : Cached(x)}
Live == {x \in Binding : obj[x].phase = "live"}

\* The first of a set of bindings in the order of lessBinding.
First(S) == CHOOSE x \in S : \A y \in S : x <= y

\* arbitrate, pickWinner: the first cached binding that is not being deleted;
\* the binding itself when the cache shows none.
Arbitrate(b) ==
    LET alive == {x \in Binding : peers[x].phase = "live"}
    IN  IF alive = {} THEN b ELSE First(alive)

\* aggregateBindingReady: Ready = Applied && !Conflict.
AggregateReady(w) == [w EXCEPT !.ready = w.cApplied = "True" /\ w.conflict = "no"]

\* setBindingReadyFalse: Applied and Conflict stay as they are.
ReadyFalse(w) == [w EXCEPT !.ready = FALSE]

\* Mutant: a failed Apply withdraws what was recorded.
ForgetsApplied(w) ==
    AggregateReady([w EXCEPT !.cApplied = "False", !.obsFailed = FALSE, !.applied = NoCert])

\* Applied=False with a reason other than ObserveFailed, and Ready after it.
AppliedFalse(w) ==
    AggregateReady([w EXCEPT !.cApplied = "False", !.obsFailed = FALSE])

\* noteObserveFailed: only the reason of an existing Applied condition changes.
NoteObserveFailed(w) == [w EXCEPT !.obsFailed = w.cApplied # "absent"]

\* identityOf: what is wanted, what the target has, what was applied.
Want(m) == IF ByRef THEN m.id ELSE m.fp
Applied(w) == IF ByRef THEN w.ref ELSE w.applied
Seen(t) == IF t.cert = Garbage THEN NoCert ELSE t.cert

HasHTTPS(proto) == proto # "HTTP"

\* protocolSatisfied; only FC3 has the switch (ensureHTTPSOf).
ProtocolSatisfied(t) == EnsureHTTPS /\ ~ByRef => HasHTTPS(t.proto)

\* Mutant: the fence is not consulted.
NeverFenced(w, oacct) == FALSE

\* fenceAccount: bound to one account, observed in another, or in none.
Fenced(w, oacct) == w.bound # NoAcc /\ w.bound # oacct

\* noteDrift: what is on the target is neither ours nor the one wanted.
NoteDrift(w, cur, want) ==
    [w EXCEPT !.drifted = IF cur \in {NoCert, Applied(w), want} THEN NoCert ELSE cur]

\* freezeApplied, setApplied: what was applied, and once the account.
FreezeApplied(w, m, oacct) ==
    [w EXCEPT !.applied = m.fp, !.ref = IF ByRef THEN m.id ELSE @,
              !.drifted = NoCert, !.cApplied = "True", !.obsFailed = FALSE,
              !.bound = IF @ = NoAcc THEN oacct ELSE @]

\* Mutant: plaintext is opened on an HTTPS-only domain.
AlwaysBoth(proto) == IF EnsureHTTPS THEN "HTTP,HTTPS" ELSE proto

\* fc3 Apply: the protocol changes only if HTTPS is asked for and missing.
ProtocolFor(proto) ==
    IF EnsureHTTPS /\ ~HasHTTPS(proto) THEN "HTTP,HTTPS" ELSE proto

\* fc3 Cleanup: an HTTPS-only domain is taken down to HTTP with its certificate.
ProtocolWithout(proto) == IF proto = "HTTPS" THEN "HTTP" ELSE proto

\* The requests of Apply and Cleanup: FC3 sends the domain as it was read back.
PutRequest == [acct |-> rd.acct, cert |-> Want(rd.m),
               proto |-> ProtocolFor(rd.proto), other |-> rd.other]
ClearRequest == [acct |-> rd.acct, cert |-> NoCert,
                 proto |-> ProtocolWithout(rd.proto), other |-> rd.other]

\* The target after a request: OSS changes the certificate alone, FC3 replaces
\* the whole domain, and there is nothing to change where there is no target.
Written(t, req) ==
    IF ~t.exists THEN t
    ELSE IF ByRef THEN [t EXCEPT !.cert = req.cert]
    ELSE [t EXCEPT !.cert = req.cert, !.proto = req.proto, !.other = req.other]

\* The bindings in S are enqueued, but of those in T only they: a list failed.
WakeOnly(S, T) ==
    /\ wake' = [x \in Binding |-> IF x \in S THEN "now" ELSE wake[x]]
    /\ unheard' = unheard \cup (T \ S)
Wake(S) == WakeOnly(S, S)

\* The worker takes b from the queue.
Dequeue(b) ==
    /\ wake' = [wake EXCEPT ![b] = "none"]
    /\ unheard' = unheard \ {b}

\* Requeued after the drift interval, which is absorbed if the binding is in the
\* queue already, or soon: a backoff or a short RequeueAfter is a place in the
\* queue, since nothing says when the worker comes to it.
Requeued(b, next) == [wake EXCEPT ![b] = IF @ = "now" THEN @ ELSE next]

\* Mutant: the grace period has no end.
NeverAbandons(b) == FALSE

\* shouldAbandonCleanup.
ShouldAbandonCleanup(b) == Policy # "Block" /\ b \in graceOver

\* One of the changes that MaxOutside counts.
OutsideChange ==
    /\ budget.outside < MaxOutside
    /\ budget' = [budget EXCEPT !.outside = @ + 1]

\* The outcomes of a cloud call.
CallServed == ~outage
CallRefused == ~stable \/ outage
-----------------------------------------------------------------------------
(* Initial states: the process starts; certificates are in their first        *)
(* generation, issued and cached, and bindings are new or still to come.      *)

NewBinding(u) == [phase |-> "live", fin |-> FALSE, unbind |-> u, gen |-> 1]

Init ==
    /\ \E u \in UnbindInit :
           obj = [x \in Binding |-> IF x \in Existing THEN NewBinding(u) ELSE Absent]
    /\ st = [x \in Binding |-> NoStatus]
    /\ peers = [x \in Binding |-> [phase |-> obj[x].phase, gen |-> obj[x].gen]]
    /\ \E u \in UploadInit :
           /\ cr = [c \in Certificate |-> [exists |-> TRUE, issued |-> TRUE, upload |-> u,
                                           fp |-> c, id |-> IF u THEN c ELSE NoCert]]
           /\ cas = IF u THEN Certificate ELSE {}
    /\ ccr = cr
    /\ secret = [c \in Certificate |-> c]
    /\ hist = [c \in Certificate |-> {}]
    /\ last = [fp |-> Cardinality(Certificate), id |-> Cardinality(Certificate)]
    /\ adopted = Certificate
    /\ account \in Account
    /\ tgt \in [Account -> [exists : {TRUE}, cert : {NoCert}, other : {0},
                            proto : ProtocolInit]]
    /\ late = {}
    /\ pc = "idle"
    /\ rd = NoRound
    /\ wake = [x \in Binding |-> IF x \in Existing THEN "now" ELSE "none"]
    /\ graceOver = {}
    /\ stable = FALSE
    /\ outage = FALSE
    /\ budget = [outside |-> 0, moves |-> 0]
    /\ moved = {}
    /\ unheard = {}
-----------------------------------------------------------------------------
(* The reconcile round of a live binding *)

\* The worker takes b.  A failure before the first effect (the read of the object,
\* the Update that adds the finalizer, a list) puts it back: a stuttering step.
Idle(b) == pc = "idle" /\ wake[b] = "now"

\* NotFound: nothing to do, and nothing is requeued.
RoundOfNothing(b) ==
    /\ Idle(b)
    /\ ~Exists(b)
    /\ Dequeue(b)
    /\ UNCHANGED <<bindingVars, certVars, cacheVars, cloudVars, pc, rd, moved, envVars>>

\* The object is read live, gets its finalizer, and the round goes on to step
\* with the working copy w.
Begin(b, step, w, m, next) ==
    /\ Idle(b)
    /\ obj[b].phase = "live"
    /\ Dequeue(b)
    /\ obj' = [obj EXCEPT ![b].fin = TRUE]
    /\ pc' = step
    /\ rd' = [NoRound EXCEPT !.b = b, !.gen = obj[b].gen, !.w = w, !.m = m, !.next = next]
    /\ UNCHANGED <<st, certVars, cacheVars, cloudVars, moved, envVars>>

\* The working copy at the start: ObservedGeneration is the generation read.
Base(b) == [st[b] EXCEPT !.og = obj[b].gen]

\* The certificate of a binding, from the cache.
Cert(b) == ccr[CertOf[b]]

\* No certificate, or one that is not issued: only Ready falls.
CertificateNotFound(b) ==
    /\ ~Cert(b).exists
    /\ Begin(b, "patch", ReadyFalse(Base(b)), NoMaterial, "drift")

CertificateNotReady(b) ==
    /\ Cert(b).exists /\ ~Cert(b).issued
    /\ Begin(b, "patch", ReadyFalse(Base(b)), NoMaterial, "drift")

CertUsable(b) == Cert(b).exists /\ Cert(b).issued

\* Mutant: a loser waits for the peer watch alone.
LosesUnrequeued(b) ==
    /\ CertUsable(b)
    /\ Arbitrate(b) # b
    /\ Begin(b, "patch", AggregateReady([Base(b) EXCEPT !.conflict = "peer"]), NoMaterial, "none")

\* The loser of the arbitration writes nothing to the cloud.
ConflictingBinding(b) ==
    /\ CertUsable(b)
    /\ Arbitrate(b) # b
    /\ Begin(b, "patch", AggregateReady([Base(b) EXCEPT !.conflict = "peer"]), NoMaterial, "drift")

Wins(b) == CertUsable(b) /\ Arbitrate(b) = b
BaseOfWinner(b) == [Base(b) EXCEPT !.conflict = "no"]

\* The Secret, read live, with the certId of status.current if it is the same
\* generation (loadBindingMaterial).
SecretOf(b) == secret[CertOf[b]]
MaterialOf(b) == [fp |-> SecretOf(b),
                  id |-> IF Cert(b).fp = SecretOf(b) THEN Cert(b).id ELSE NoCert]

\* loadBindingMaterial, checkDomainCoverage.
MaterialUsable(b) == SecretOf(b) # NoCert /\ SecretOf(b) \notin Uncovered

\* Mutant: the Secret's generation is taken unvalidated.
GateOpen(b) == TRUE

\* certificateGate: the certificate controller has accepted this generation.
CertificateGate(b) == Cert(b).fp = SecretOf(b)

\* casUploadGate: a target that refers to a certId needs one.
CasUploadGate(b) == ByRef => Cert(b).upload /\ MaterialOf(b).id # NoCert

\* Secret missing or invalid, or a domain not covered: Applied stays.
MaterialRejected(b) ==
    /\ Wins(b)
    /\ ~MaterialUsable(b)
    /\ Begin(b, "patch", ReadyFalse(BaseOfWinner(b)), NoMaterial, "drift")

\* The certificate CR has not caught up, or has no certId yet: soon again.
CertificateGateHolds(b) ==
    /\ Wins(b)
    /\ MaterialUsable(b)
    /\ ~CertificateGate(b) \/ (ByRef /\ Cert(b).upload /\ ~CasUploadGate(b))
    /\ Begin(b, "patch", AppliedFalse(BaseOfWinner(b)), NoMaterial, "now")

\* CASUploadRequired: somebody has to enable the upload.
CasUploadRequired(b) ==
    /\ Wins(b)
    /\ MaterialUsable(b)
    /\ CertificateGate(b)
    /\ ByRef /\ ~Cert(b).upload
    /\ Begin(b, "patch", AppliedFalse(BaseOfWinner(b)), NoMaterial, "drift")

StartObserve(b) ==
    /\ Wins(b)
    /\ MaterialUsable(b)
    /\ CertificateGate(b)
    /\ CasUploadGate(b)
    /\ Begin(b, "observe", BaseOfWinner(b), MaterialOf(b), "none")

\* The round is over but for its patch.
Conclude(w, next) ==
    /\ pc' = "patch"
    /\ rd' = [NoRound EXCEPT !.b = rd.b, !.gen = rd.gen, !.w = w, !.next = next]
    /\ moved' = {}
    /\ UNCHANGED <<bindingVars, certVars, cacheVars, cloudVars, queueVars, envVars>>

\* handleFactoryError: credentials missing or malformed.
FactoryError ==
    /\ pc = "observe"
    /\ account = NoAcc
    /\ Conclude(ReadyFalse(rd.w), "now")

\* handleObserveError.
ObserveTargetNotFound ==
    /\ pc = "observe"
    /\ account # NoAcc
    /\ CallServed /\ ~tgt[account].exists
    /\ Conclude(AppliedFalse(rd.w), "now")

ObserveAuthFails ==
    /\ pc = "observe"
    /\ account # NoAcc
    /\ CallRefused
    /\ Conclude(ReadyFalse(rd.w), "now")

ObserveFails ==
    /\ pc = "observe"
    /\ account # NoAcc
    /\ CallRefused
    /\ \E next \in {"now", "drift"} :
           Conclude(AggregateReady(NoteObserveFailed(rd.w)), next)

\* After Observe FC3 reads the domain back before it writes, OSS does not.
ReadBack(fc3, oss) == IF ByRef THEN oss ELSE fc3

\* The account ids an observation may report.
Reported == IF MayHide /\ ~stable THEN {account, NoAcc} ELSE {account}

\* A successful Observe.  Fenced: no write.  Already as wanted: no write, and
\* what is there is recorded.  Otherwise on to Apply.
ObserveFenced ==
    /\ pc = "observe"
    /\ account # NoAcc
    /\ CallServed /\ tgt[account].exists
    /\ \E oacct \in Reported :
           /\ Fenced(rd.w, oacct)
           /\ Conclude(AggregateReady([rd.w EXCEPT !.conflict = "account"]), "drift")

\* Mutant: the status is believed, and a change by hand goes unnoticed.
TrustsStatus == Applied(rd.w) = Want(rd.m) /\ ProtocolSatisfied(tgt[account])

\* The target is as it should be; the truth is what was observed.
AsWanted == Seen(tgt[account]) = Want(rd.m) /\ ProtocolSatisfied(tgt[account])

ObserveAsWanted ==
    /\ pc = "observe"
    /\ account # NoAcc
    /\ CallServed /\ tgt[account].exists
    /\ AsWanted
    /\ \E oacct \in Reported :
           /\ ~Fenced(rd.w, oacct)
           /\ Conclude(AggregateReady(FreezeApplied(rd.w, rd.m, oacct)), "drift")

ObserveDiffers ==
    /\ pc = "observe"
    /\ account # NoAcc
    /\ CallServed /\ tgt[account].exists
    /\ ~AsWanted
    /\ \E oacct \in Reported :
           /\ ~Fenced(rd.w, oacct)
           /\ rd' = [rd EXCEPT !.acct = account, !.oacct = oacct,
                               !.w = NoteDrift(@, Seen(tgt[account]), Want(rd.m))]
    /\ pc' = ReadBack("get", "write")
    /\ moved' = {}
    /\ UNCHANGED <<bindingVars, certVars, cacheVars, cloudVars, queueVars, envVars>>

\* What a read-back takes along: everything but the certificate.
Echo(t) == [rd EXCEPT !.proto = t.proto, !.other = t.other]

\* fc3 Apply: GetCustomDomain.
ApplyGet ==
    /\ pc = "get"
    /\ CallServed /\ tgt[rd.acct].exists
    /\ rd' = Echo(tgt[rd.acct])
    /\ moved' = moved \ {"read"}
    /\ pc' = "write"
    /\ UNCHANGED <<bindingVars, certVars, cacheVars, cloudVars, queueVars, envVars>>

\* UpdateCustomDomain or PutCname.
ApplyWrite ==
    /\ pc = "write"
    /\ CallServed /\ tgt[rd.acct].exists
    /\ tgt' = [tgt EXCEPT ![rd.acct] = Written(@, PutRequest)]
    /\ pc' = "patch"
    /\ rd' = [NoRound EXCEPT !.b = rd.b, !.gen = rd.gen, !.next = "drift",
                             !.w = AggregateReady(FreezeApplied(rd.w, rd.m, rd.oacct))]
    /\ moved' = {}
    /\ UNCHANGED <<bindingVars, certVars, cacheVars, late, queueVars, envVars>>

\* handleApplyError: appliedFingerprint stays.  Retryable and credential errors
\* are retried soon, others with the next drift check.
ApplyFails ==
    /\ pc \in {"get", "write"}
    /\ CallRefused
    /\ \E next \in {"now", "drift"} : Conclude(AppliedFalse(rd.w), next)

ApplyTargetNotFound ==
    /\ pc \in {"get", "write"}
    /\ CallServed /\ ~tgt[rd.acct].exists
    /\ Conclude(AppliedFalse(rd.w), "drift")

\* A request that may still take effect after the caller has given it up.
MayComeLate(req) ==
    /\ ~stable
    /\ OutsideChange
    /\ late' = late \cup {req}

\* The write is not answered within --cloud-call-timeout; it may yet arrive.
ApplyTimesOut ==
    /\ pc = "write"
    /\ MayComeLate(PutRequest)
    /\ pc' = "patch"
    /\ rd' = [NoRound EXCEPT !.b = rd.b, !.gen = rd.gen, !.w = AppliedFalse(rd.w), !.next = "now"]
    /\ moved' = {}
    /\ UNCHANGED <<bindingVars, certVars, cacheVars, tgt, queueVars, worldVars>>

EndRound(next) ==
    /\ pc' = "idle"
    /\ rd' = NoRound
    /\ moved' = {}
    /\ wake' = Requeued(rd.b, next)
    /\ UNCHANGED unheard
    /\ UNCHANGED <<certVars, cacheVars, cloudVars, envVars>>

\* patchBinding.  The base of the merge patch is the object as read live at the
\* start and only this worker writes the status, so the patch is an assignment.
PatchBinding ==
    /\ pc = "patch"
    /\ st' = [st EXCEPT ![rd.b] = rd.w]
    /\ EndRound(rd.next)
    /\ UNCHANGED obj

PatchFails ==
    /\ pc = "patch"
    /\ ~stable
    /\ EndRound("now")
    /\ UNCHANGED <<obj, st>>
-----------------------------------------------------------------------------
(* The deletion round *)

\* Orphan, or never applied: nothing of ours is in the cloud.
DeleteKeepsTarget(b) ==
    /\ Idle(b)
    /\ obj[b].phase = "deleting"
    /\ ~obj[b].unbind \/ st[b].applied = NoCert
    /\ Dequeue(b)
    /\ pc' = "finish"
    /\ rd' = [NoRound EXCEPT !.b = b, !.gen = obj[b].gen, !.w = st[b]]
    /\ UNCHANGED <<bindingVars, certVars, cacheVars, cloudVars, moved, envVars>>

\* Unbind: the first round starts the clock of the grace period.
DeleteStarts(b) ==
    /\ Idle(b)
    /\ obj[b].phase = "deleting"
    /\ obj[b].unbind /\ st[b].applied # NoCert
    /\ Dequeue(b)
    /\ st' = [st EXCEPT ![b].cleanup = TRUE]
    /\ pc' = "unbind"
    /\ rd' = [NoRound EXCEPT !.b = b, !.gen = obj[b].gen, !.w = st'[b]]
    /\ UNCHANGED <<obj, certVars, cacheVars, cloudVars, moved, envVars>>

GoTo(step) ==
    /\ pc' = step
    /\ moved' = {}
    /\ rd' = [NoRound EXCEPT !.b = rd.b, !.gen = rd.gen, !.w = rd.w]
    /\ UNCHANGED <<bindingVars, certVars, cacheVars, cloudVars, queueVars, envVars>>

\* The credentials a deletion finds: the binding's own, or the certificate's if
\* the cache still has it.
CredsFound == account # NoAcc /\ (rd.b \in OwnCreds \/ Cert(rd.b).exists)

UnbindFails ==
    /\ pc \in {"unbind", "clearGet", "clear"}
    /\ CallRefused \/ (pc = "unbind" /\ ~CredsFound)
    /\ GoTo("failed")

\* Mutant: the account alone decides.
OwnAccount(w, t, oacct) == ~Fenced(w, oacct)

\* unbindTarget: only what this binding applied, in the account it is bound to.
Own(w, t, oacct) == ~Fenced(w, oacct) /\ Seen(t) = Applied(w)

\* The target is gone, in another account, or shows another certificate.
UnbindSkips ==
    /\ pc = "unbind"
    /\ CredsFound
    /\ CallServed
    /\ tgt[account].exists => \E oacct \in Reported : ~Own(rd.w, tgt[account], oacct)
    /\ GoTo("finish")

\* Mutant: the client's account is not kept for Cleanup.
UnbindForgets ==
    /\ pc = "unbind"
    /\ CredsFound
    /\ CallServed /\ tgt[account].exists
    /\ \E oacct \in Reported : Own(rd.w, tgt[account], oacct)
    /\ pc' = ReadBack("clearGet", "clear")
    /\ moved' = {}
    /\ UNCHANGED <<bindingVars, certVars, cacheVars, cloudVars, rd, queueVars, envVars>>

UnbindOwn ==
    /\ pc = "unbind"
    /\ CredsFound
    /\ CallServed /\ tgt[account].exists
    /\ \E oacct \in Reported : Own(rd.w, tgt[account], oacct)
    /\ pc' = ReadBack("clearGet", "clear")
    /\ rd' = [rd EXCEPT !.acct = account]
    /\ moved' = {}
    /\ UNCHANGED <<bindingVars, certVars, cacheVars, cloudVars, queueVars, envVars>>

\* fc3 Cleanup: GetCustomDomain.
ClearGet ==
    /\ pc = "clearGet"
    /\ CallServed /\ tgt[rd.acct].exists
    /\ rd' = Echo(tgt[rd.acct])
    /\ moved' = moved \ {"read"}
    /\ pc' = "clear"
    /\ UNCHANGED <<bindingVars, certVars, cacheVars, cloudVars, queueVars, envVars>>

\* SwallowNotFound: the target went away meanwhile.
ClearNotFound ==
    /\ pc \in {"clearGet", "clear"}
    /\ CallServed /\ ~tgt[rd.acct].exists
    /\ GoTo("finish")

ClearWrite ==
    /\ pc = "clear"
    /\ CallServed /\ tgt[rd.acct].exists
    /\ tgt' = [tgt EXCEPT ![rd.acct] = Written(@, ClearRequest)]
    /\ pc' = "finish"
    /\ rd' = [NoRound EXCEPT !.b = rd.b, !.gen = rd.gen, !.w = rd.w]
    /\ moved' = {}
    /\ UNCHANGED <<bindingVars, certVars, cacheVars, late, queueVars, envVars>>

ClearTimesOut ==
    /\ pc = "clear"
    /\ MayComeLate(ClearRequest)
    /\ pc' = "failed"
    /\ rd' = [NoRound EXCEPT !.b = rd.b, !.gen = rd.gen, !.w = rd.w]
    /\ moved' = {}
    /\ UNCHANGED <<bindingVars, certVars, cacheVars, tgt, queueVars, worldVars>>

\* A failed unbind is retried with backoff and leaves a trace, ...
CleanupRetries ==
    /\ pc = "failed"
    /\ ~ShouldAbandonCleanup(rd.b)
    /\ st' = [st EXCEPT ![rd.b] = ReadyFalse(rd.w)]
    /\ EndRound("now")
    /\ UNCHANGED obj

CleanupPatchFails ==
    /\ pc = "failed"
    /\ ~ShouldAbandonCleanup(rd.b)
    /\ ~stable
    /\ EndRound("now")
    /\ UNCHANGED bindingVars

\* ... until the grace period is over.
CleanupAbandoned ==
    /\ pc = "failed"
    /\ ShouldAbandonCleanup(rd.b)
    /\ GoTo("finish")

\* finishBindingDeletion: the Update carries the resourceVersion read.
RemoveFinalizer ==
    /\ pc = "finish"
    /\ obj[rd.b].gen = rd.gen
    /\ obj' = [obj EXCEPT ![rd.b] = [Absent EXCEPT !.phase = "gone"]]
    /\ st' = [st EXCEPT ![rd.b] = NoStatus]
    /\ EndRound("none")

RemoveFinalizerFails ==
    /\ pc = "finish"
    /\ obj[rd.b].gen # rd.gen \/ ~stable
    /\ EndRound("now")
    /\ UNCHANGED bindingVars
-----------------------------------------------------------------------------
(* The watches: SetupWithManager *)

\* Mutant: For alone wakes, that is the binding itself.
ForOnly(b) == {b}

\* An event on a binding that bindingMeaningfulChange lets through wakes the
\* binding (For) and the cached bindings of its target (bindingPeerRequests).
Woken(b) == {b} \cup {x \in InCache : x # b}

\* The informer catches up with a binding.  Generations move with the spec and
\* with the deletion; status patches and finalizers wake nobody.
SyncPeer(b) ==
    LET new == [phase |-> obj[b].phase, gen |-> obj[b].gen]
    IN  /\ peers[b] # new
        /\ peers' = [peers EXCEPT ![b] = new]
        /\ \/ Wake(Woken(b))
           \/ MayFailList /\ ~stable /\ WakeOnly({b}, Woken(b))
        /\ UNCHANGED <<bindingVars, certVars, ccr, cloudVars, pc, rd, moved, envVars>>

\* Mutant: changes of a certificate's status wake nobody.
SyncSilently(c) ==
    /\ ccr[c] # cr[c]
    /\ ccr' = [ccr EXCEPT ![c] = cr[c]]
    /\ UNCHANGED <<bindingVars, certVars, peers, cloudVars, pc, rd, moved, queueVars, envVars>>

\* The informer catches up with a certificate; every change, status included,
\* wakes the bindings that refer to it.
SyncCertificate(c) ==
    /\ ccr[c] # cr[c]
    /\ ccr' = [ccr EXCEPT ![c] = cr[c]]
    /\ LET users == {x \in InCache : CertOf[x] = c}
       IN  \/ Wake(users)
           \/ MayFailList /\ ~stable /\ WakeOnly({}, users)
    /\ UNCHANGED <<bindingVars, certVars, peers, cloudVars, pc, rd, moved, envVars>>

\* --drift-check-interval runs out.
TimerFires(b) ==
    /\ wake[b] = "drift"
    /\ Wake({b})
    /\ UNCHANGED <<bindingVars, certVars, cacheVars, cloudVars, pc, rd, moved, envVars>>

\* The process dies and another takes over: queue, timers and the round are
\* lost, the caches are filled anew, and every binding is queued.  A write that
\* was under way may still reach the cloud.
Crash ==
    /\ ~stable
    /\ \/ UNCHANGED <<late, budget>>
       \/ pc = "write" /\ MayComeLate(PutRequest)
       \/ pc = "clear" /\ MayComeLate(ClearRequest)
    /\ pc' = "idle"
    /\ rd' = NoRound
    /\ moved' = {}
    /\ wake' = [x \in Binding |-> IF Exists(x) THEN "now" ELSE "none"]
    /\ unheard' = {}
    /\ peers' = [x \in Binding |-> [phase |-> obj[x].phase, gen |-> obj[x].gen]]
    /\ ccr' = cr
    /\ UNCHANGED <<obj, st, certVars, tgt, worldVars>>
-----------------------------------------------------------------------------
(* The certificate controller, as far as bindings can tell *)

\* cert-manager renews: a new generation in the Secret, not yet validated.
Issue(c) ==
    /\ ~stable
    /\ cr[c].exists
    /\ last.fp < MaxGen
    /\ last' = [last EXCEPT !.fp = @ + 1]
    /\ secret' = [secret EXCEPT ![c] = last.fp + 1]
    /\ UNCHANGED <<bindingVars, cr, hist, cas, adopted, cacheVars, cloudVars, pc, rd, moved,
                   queueVars, envVars>>

\* The certificate controller validates the Secret, uploads it if it is to, and
\* makes it status.current; the old current enters the history.
Adopt(c) ==
    LET new == last.id + 1
        old == [fp |-> cr[c].fp, id |-> cr[c].id]
    IN  /\ cr[c].exists
        /\ secret[c] # NoCert /\ (cr[c].fp # secret[c] \/ ~cr[c].issued)
        /\ IF cr[c].fp = secret[c]
           THEN /\ cr' = [cr EXCEPT ![c].issued = TRUE]
                /\ UNCHANGED <<hist, last, cas>>
           ELSE /\ cr[c].upload => new <= MaxGen
                /\ cr' = [cr EXCEPT ![c].issued = TRUE, ![c].fp = secret[c],
                                    ![c].id = IF cr[c].upload THEN new ELSE NoCert]
                /\ hist' = [hist EXCEPT ![c] = IF old.fp = NoCert THEN @ ELSE @ \cup {old}]
                /\ last' = IF cr[c].upload THEN [last EXCEPT !.id = new] ELSE last
                /\ cas' = IF cr[c].upload THEN cas \cup {new} ELSE cas
        /\ adopted' = adopted \cup {secret[c]}
        /\ UNCHANGED <<bindingVars, secret, cacheVars, cloudVars, pc, rd, moved, queueVars, envVars>>

\* reclaimable, guards 2 and 3, over the live bindings of the certificate.
Reclaimable(c, g) ==
    \A x \in Binding : Exists(x) /\ CertOf[x] = c =>
        st[x].og = obj[x].gen /\ st[x].applied # g.fp

\* reclaimOldGenerations: the oldest generation beyond keepLast.
Reclaim(c) ==
    /\ cr[c].exists /\ cr[c].upload
    /\ Cardinality(hist[c]) + 1 > KeepLast
    /\ \E g \in hist[c] :
           /\ \A h \in hist[c] : g.fp <= h.fp
           /\ Reclaimable(c, g)
           /\ hist' = [hist EXCEPT ![c] = @ \ {g}]
           /\ cas' = cas \ {g.id}
    /\ UNCHANGED <<bindingVars, cr, secret, last, adopted, cacheVars, cloudVars, pc, rd, moved,
                   queueVars, envVars>>

\* The Secret fails validation for a while.
Unissue(c) ==
    /\ ~stable
    /\ OutsideChange
    /\ cr[c].exists /\ cr[c].issued
    /\ cr' = [cr EXCEPT ![c].issued = FALSE]
    /\ UNCHANGED <<bindingVars, secret, hist, cas, last, adopted, cacheVars, cloudVars, pc, rd,
                   moved, queueVars, worldVars>>

\* The Secret is deleted by hand; cert-manager will issue again.
RemoveSecret(c) ==
    /\ ~stable
    /\ OutsideChange
    /\ secret[c] # NoCert
    /\ secret' = [secret EXCEPT ![c] = NoCert]
    /\ UNCHANGED <<bindingVars, cr, hist, cas, last, adopted, cacheVars, cloudVars, pc, rd,
                   moved, queueVars, worldVars>>

\* spec.aliyun.uploadToCAS is switched on after a generation without certId.
EnableUpload(c) ==
    /\ ~stable
    /\ OutsideChange
    /\ cr[c].exists /\ ~cr[c].upload
    /\ cr' = [cr EXCEPT ![c].upload = TRUE]
    /\ UNCHANGED <<bindingVars, secret, hist, cas, last, adopted, cacheVars, cloudVars, pc, rd,
                   moved, queueVars, worldVars>>

\* The certificate CR is deleted, and its Secret and CAS certificates with it;
\* a binding that is not being deleted itself holds it back.
RemoveCertificate(c) ==
    /\ ~stable
    /\ OutsideChange
    /\ cr[c].exists
    /\ \A x \in Live : CertOf[x] # c
    /\ cr' = [cr EXCEPT ![c] = [exists |-> FALSE, issued |-> FALSE, upload |-> FALSE,
                                fp |-> NoCert, id |-> NoCert]]
    /\ secret' = [secret EXCEPT ![c] = NoCert]
    /\ hist' = [hist EXCEPT ![c] = {}]
    /\ cas' = cas \ ({g.id : g \in hist[c]} \cup {cr[c].id})
    /\ UNCHANGED <<bindingVars, last, adopted, cacheVars, cloudVars, pc, rd, moved, queueVars,
                   worldVars>>
-----------------------------------------------------------------------------
(* Users, the cloud, time *)

SetObject(b, o) ==
    /\ ~stable
    /\ obj' = [obj EXCEPT ![b] = o]
    /\ UNCHANGED <<st, certVars, cacheVars, cloudVars, pc, rd, moved, queueVars,
                   worldVars>>

CreateBinding(b) ==
    /\ obj[b] = Absent
    /\ \E u \in UnbindInit : SetObject(b, NewBinding(u))
    /\ UNCHANGED budget

\* spec.deletionPolicy is changed.
EditPolicy(b) ==
    /\ Exists(b)
    /\ OutsideChange
    /\ SetObject(b, [obj[b] EXCEPT !.unbind = ~@, !.gen = @ + 1])

\* The deletion timestamp moves the generation too.
DeleteBinding(b) ==
    /\ obj[b].phase = "live"
    /\ SetObject(b, IF obj[b].fin THEN [obj[b] EXCEPT !.phase = "deleting", !.gen = @ + 1]
                    ELSE [Absent EXCEPT !.phase = "gone"])
    /\ UNCHANGED budget

\* The target in account a becomes t by somebody else's hand.
SetTarget(a, t) ==
    /\ t # tgt[a]
    /\ tgt' = [tgt EXCEPT ![a] = t]
    /\ moved' = IF pc # "idle" /\ rd.acct = a THEN {"observed", "read"} ELSE moved
    /\ UNCHANGED <<bindingVars, certVars, cacheVars, pc, rd, queueVars,
                   worldVars>>

\* Somebody works in the cloud console: another certificate, another protocol,
\* other settings, or the target is removed or created.
Console(a) ==
    /\ ~stable
    /\ OutsideChange
    /\ \/ \E f \in {NoCert, Foreign} \cup (IF ByRef THEN {} ELSE {Garbage}) :
              tgt[a].exists /\ SetTarget(a, [tgt[a] EXCEPT !.cert = f])
       \/ ~ByRef /\ tgt[a].exists /\ \E p \in Protocol : SetTarget(a, [tgt[a] EXCEPT !.proto = p])
       \/ ~ByRef /\ tgt[a].exists /\ SetTarget(a, [tgt[a] EXCEPT !.other = @ + 1])
       \/ SetTarget(a, [tgt[a] EXCEPT !.exists = ~@, !.cert = NoCert])
    /\ UNCHANGED late

\* A write that was given up takes effect after all, or is lost for good.
LateWriteLands ==
    \E req \in late :
        /\ late' = late \ {req}
        /\ \/ SetTarget(req.acct, Written(tgt[req.acct], req))
           \/ UNCHANGED <<tgt, moved, bindingVars, certVars, cacheVars, pc, rd, queueVars,
                          worldVars>>
        /\ UNCHANGED budget

\* The credentials Secret is changed: another account, or none that works.
MoveCredentials ==
    /\ ~stable
    /\ budget.moves < MaxMoves
    /\ account' \in (Account \cup {NoAcc}) \ {account}
    /\ budget' = [budget EXCEPT !.moves = @ + 1]
    /\ UNCHANGED <<bindingVars, certVars, cacheVars, cloudVars, pc, rd, moved, queueVars,
                   graceOver, stable, outage>>

GracePeriodPasses(b) ==
    /\ st[b].cleanup
    /\ b \notin graceOver
    /\ graceOver' = graceOver \cup {b}
    /\ UNCHANGED <<bindingVars, certVars, cacheVars, cloudVars, pc, rd, moved, queueVars,
                   account, stable, outage, budget>>

Stabilise ==
    /\ Settles
    /\ ~stable
    /\ stable' = TRUE
    /\ \E down \in BOOLEAN : (down => MayOutage) /\ outage' = down
    /\ UNCHANGED <<bindingVars, certVars, cacheVars, cloudVars, pc, rd, moved, queueVars,
                   account, graceOver, budget>>
-----------------------------------------------------------------------------
\* The first step of a round of binding b.
StartRound(b) ==
    \/ RoundOfNothing(b)
    \/ CertificateNotFound(b) \/ CertificateNotReady(b) \/ ConflictingBinding(b)
    \/ MaterialRejected(b) \/ CertificateGateHolds(b) \/ CasUploadRequired(b)
    \/ StartObserve(b)
    \/ DeleteKeepsTarget(b) \/ DeleteStarts(b)

\* The other steps of the worker.
ContinueRound ==
    \/ FactoryError \/ ObserveTargetNotFound \/ ObserveAuthFails \/ ObserveFails
    \/ ObserveFenced \/ ObserveAsWanted \/ ObserveDiffers
    \/ ApplyGet \/ ApplyWrite \/ ApplyFails \/ ApplyTargetNotFound \/ ApplyTimesOut
    \/ PatchBinding \/ PatchFails
    \/ UnbindFails \/ UnbindSkips \/ UnbindOwn
    \/ ClearGet \/ ClearNotFound \/ ClearWrite \/ ClearTimesOut
    \/ CleanupRetries \/ CleanupPatchFails \/ CleanupAbandoned
    \/ RemoveFinalizer \/ RemoveFinalizerFails

Worker == ContinueRound \/ \E b \in Binding : StartRound(b)

Watches ==
    \/ \E b \in Binding : SyncPeer(b) \/ TimerFires(b)
    \/ \E c \in Certificate : SyncCertificate(c)

CertificateStep ==
    \E c \in Certificate : Issue(c) \/ Adopt(c) \/ Reclaim(c) \/ Unissue(c) \/ EnableUpload(c)
                           \/ RemoveSecret(c) \/ RemoveCertificate(c)

Environment ==
    \/ \E b \in Binding : CreateBinding(b) \/ EditPolicy(b) \/ DeleteBinding(b) \/ GracePeriodPasses(b)
    \/ \E a \in Account : Console(a)
    \/ Crash \/ LateWriteLands \/ MoveCredentials \/ Stabilise

Next == Worker \/ Watches \/ CertificateStep \/ Environment

Spec == Init /\ [][Next]_vars
(***************************************************************************)
(* Fairness.  The worker finishes the round it is in (every cloud call has *)
(* a timeout) and takes the bindings from a FIFO queue, so none is passed  *)
(* over for ever; timers run out.  What happens beside the worker does not *)
(* stand still: watches deliver, the certificate controller validates what *)
(* is in the Secret, a write that was given up arrives or is lost, time    *)
(* passes, and faults cease at some moment.  Nothing is assumed of users,  *)
(* of the process or of the cloud before that moment.                      *)
(***************************************************************************)
Beside ==
    \/ \E b \in Binding : SyncPeer(b) \/ GracePeriodPasses(b)
    \/ \E c \in Certificate : SyncCertificate(c) \/ Adopt(c)
    \/ LateWriteLands \/ Stabilise

Fairness ==
    /\ WF_vars(ContinueRound)
    /\ \A b \in Binding : SF_vars(StartRound(b)) /\ WF_vars(TimerFires(b))
    /\ WF_vars(Beside)

FairSpec == Spec /\ Fairness
-----------------------------------------------------------------------------
(* Safety *)

\* A step of the worker that changes the target or sends what may change it
\* later; steps of others leave pc alone.
ControllerWrites ==
    /\ pc \in {"write", "clear"}
    /\ pc' # pc
    /\ tgt' # tgt \/ late' # late

\* Once a binding is bound to an account, no write or clean-up of its rounds, not
\* even one that arrives late, goes to a target of that name in another account,
\* whenever the credentials are moved (fenceAccount, unbindTarget).
AccountFence ==
    [][ControllerWrites => st[rd.b].bound \in {NoAcc, rd.acct}]_vars

\* Cleanup takes from the target only the certificate that the binding itself
\* recorded as applied, unless somebody else changed the target between Observe
\* and Cleanup (unbindTarget; there is no version to compare).
UnbindOnlyOwn ==
    [][ControllerWrites /\ pc = "clear" /\ tgt' # tgt =>
         "observed" \in moved \/ Seen(tgt[rd.acct]) = Applied(st[rd.b])]_vars

\* A PEM target never serves a generation that the certificate controller has not
\* accepted, or one that does not cover its domain: not while the Secret runs
\* ahead of status.current, nor by a late write (certificateGate,
\* checkDomainCoverage).
OnlyAdopted ==
    ~ByRef => \A a \in Account :
        tgt[a].cert \in {NoCert, Foreign, Garbage} \cup (adopted \ Uncovered)

\* Apply and Cleanup of FC3 replace the whole domain and yet change nothing but
\* the certificate and, if asked to, the protocol: other settings stay, plaintext
\* is never opened on an HTTPS-only domain, and a domain without certificate is
\* not left HTTPS-only.  The exception is a change by somebody else after the
\* domain was read back (fc3 Apply and Cleanup: no version check).
EchoKept ==
    [][ControllerWrites /\ tgt' # tgt /\ "read" \notin moved =>
         LET t == tgt[rd.acct]  u == tgt'[rd.acct]
         IN  /\ u.other = t.other
             /\ pc = "write" /\ t.proto = "HTTPS" => u.proto = "HTTPS"
             /\ pc = "clear" /\ ~ByRef => u.proto # "HTTPS"]_vars

\* Nothing but a drift check is on its way for binding b, and no list that failed
\* in a watch handler has kept a round from it.
Quiet(b) == wake[b] \in {"none", "drift"} /\ rd.b # b /\ b \notin unheard

CachesCurrent ==
    /\ \A x \in Binding : peers[x] = [phase |-> obj[x].phase, gen |-> obj[x].gen]
    /\ ccr = cr

\* The watches leave no verdict behind: when the caches have caught up and no
\* round is owed but the drift check, a Ready binding is the winner among the live
\* ones, and a binding in conflict with a peer is not (arbitrate from the cache,
\* bindingPeerRequests).
VerdictCurrent ==
    CachesCurrent =>
        \A b \in Live : Quiet(b) /\ CertUsable(b) =>
            /\ st[b].ready => b = First(Live)
            /\ st[b].conflict = "peer" => b # First(Live)

\* Retention and Apply do not know of each other: an Apply in flight may put a
\* certId on the target that retention has just deleted.  But a binding is not
\* left Ready, waiting for the next drift check, on a certId that is gone.
DanglingScheduled ==
    ByRef =>
        \A b \in Live : st[b].ready /\ ~st[b].obsFailed /\ st[b].ref \notin cas =>
            ~Quiet(b) \/ ccr[CertOf[b]] # cr[CertOf[b]]

\* Cleanup never takes away the certificate that another binding, which won the
\* target and is Ready, serves: what is on the target is this binding's own
\* (unbindTarget, "只解绑自己的证书").
UnbindSparesSuccessor ==
    [][ControllerWrites /\ pc = "clear" /\ tgt' # tgt =>
         ~\E x \in Live : st[x].ready /\ st[x].applied = st[rd.b].applied]_vars

\* The bindings keep the promise that retention relies on.
Lifecycle == INSTANCE BindingLifecycle WITH
    Generation <- 1 .. MaxGen,
    binding <- [b \in Binding |-> [phase |-> obj[b].phase, gen |-> obj[b].gen,
                                   observed |-> st[b].og, applied |-> st[b].applied]],
    offered <- adopted

\* Every behaviour of the controller is one of BindingLifecycle: a round that was
\* overtaken, a crash or a failed patch never records a generation that was not
\* offered, and never withdraws a record.
ImplementsLifecycle == Lifecycle!Spec
-----------------------------------------------------------------------------
(* Liveness *)

\* The certificate of b is ready to be applied, and b may write to the target.
Eligible(b) ==
    LET c == cr[CertOf[b]]
    IN  /\ c.exists /\ c.issued /\ c.fp = secret[CertOf[b]] /\ c.fp \notin Uncovered
        /\ ByRef => c.upload /\ c.id # NoCert
        /\ account # NoAcc /\ tgt[account].exists
        /\ st[b].bound \in {NoAcc, account}

\* The winner's certificate is on the target, and the winner alone says so.
Served(b) ==
    LET c == cr[CertOf[b]]
    IN  /\ Seen(tgt[account]) = Want([fp |-> c.fp, id |-> c.id])
        /\ ProtocolSatisfied(tgt[account])
        /\ \A x \in Live : st[x].ready <=> x = b

\* When faults cease the target comes to serve the current certificate of the
\* first live binding, whatever was lost before: wake-ups, patches, lists of a
\* watch handler, writes that arrive late, certificates changed by hand.
TargetConverges ==
    <>[](Live # {} /\ ~outage /\ Eligible(First(Live)) => Served(First(Live)))

\* A binding that is deleted goes away, even if the cloud refuses every call from
\* then on (--cleanup-failure-policy=Abandon).
BindingDeletionEnds ==
    \A b \in Binding : obj[b].phase = "deleting" ~> obj[b].phase = "gone"
=============================================================================
