------------------------------ MODULE Issuance ------------------------------
(***************************************************************************)
(* What the certificate controller does with names it does not own alone:  *)
(* the issuer of the cert-manager Certificate, which it pins, and the      *)
(* Secret cert-manager writes, which somebody else may be using.  Several  *)
(* AliyunCertificates share a namespace; one worker serves them, and a     *)
(* round is cut at every read or write another party may come between.     *)
(* What a round does with the material (upload, probe, retention, cleanup  *)
(* in CAS) is CertificateController's; here the CRs carry the finalizer    *)
(* and nothing blocks their deletion.                                      *)
(***************************************************************************)
EXTENDS Naturals

CONSTANTS
    Cr,           \* the AliyunCertificates of a namespace
    Name,         \* Secret names
    DefaultName,  \* DefaultName[c]: <metadata.name>-tls
    Issuer,       \* issuer references, kind and group filled in
    Bootstrap,    \* CRs whose Certificate may be older than the operator
    DefaultInit,  \* initial values of --default-issuer-name
    MaxChanges,   \* bound: edits, deletions and objects made or removed by hand
    MaxFaults     \* bound: failed calls and operator restarts

Unset == "unset"       \* spec.secretName: "", status.secretName: ""
NoIssuer == "none"     \* no issuerRef, no flag
Absent == "absent"     \* no Secret of that name
ByHand == "by hand"    \* a Secret without the certificate-name annotation

ASSUME NameAssumption ==
    /\ Cr # {}
    /\ DefaultName \in [Cr -> Name]
    /\ \A c, d \in Cr : DefaultName[c] = DefaultName[d] => c = d
    /\ Unset \notin Name
    /\ NoIssuer \notin Issuer
    /\ {Absent, ByHand} \cap Cr = {}
    /\ Bootstrap \subseteq Cr
    /\ DefaultInit \subseteq Issuer \cup {NoIssuer}
ASSUME BoundAssumption == MaxChanges \in Nat /\ MaxFaults \in Nat

VARIABLES
    cr,         \* the CRs on the API server
    ccr,        \* ... and in the informer cache
    cert,       \* the cert-manager Certificates, one name per CR
    ccert,      \* ... and in the informer cache
    events,     \* the CRs whose Certificate has changed since
    secret,     \* the owner each Secret's annotation names
    default,    \* --default-issuer-name
    round,      \* the reconcile round in progress
    wake,       \* what the work queue holds for each CR
    changes,    \* outside changes so far
    faults,     \* faults so far
    contested,  \* history: names the guard cannot vouch for: they passed to others
                \* after it had read them, or it was not asked
    named       \* history: the issuers a CR has come by rightly

crVars == <<cr, ccr>>
certVars == <<cert, ccert, events>>
histVars == <<contested, named>>
vars == <<crVars, certVars, secret, default, round, wake, changes, faults, histVars>>
-----------------------------------------------------------------------------
(* Types *)

IssuerOrNone == Issuer \cup {NoIssuer}

\* pin: effectiveIssuerRef.
Status == [pin : IssuerOrNone, secretName : Name \cup {Unset}]
NoStatus == [pin |-> NoIssuer, secretName |-> Unset]

Resource == [phase : {"live", "deleting", "gone"}, secretName : Name \cup {Unset},
             issuer : IssuerOrNone, status : Status]

\* ready: cert-manager's Ready condition.
Cert == [secretName : Name, issuer : Issuer, ready : BOOLEAN]
NoCert == [secretName |-> Unset, issuer |-> NoIssuer, ready |-> FALSE]
CertOrNone == Cert \cup {NoCert}

Owner == Cr \cup {Absent, ByHand}

\* ac: the CR as the round read it, orig its merge-patch base; existing: the
\* Certificate it goes on with; unseen: the cache missed a Certificate.
Round == [step : {"idle", "guard", "sync", "finish", "deleteCert", "readSecret",
                  "eraseSecret", "finalize"},
          c : Cr, ac : Resource, orig : Status, existing : CertOrNone, unseen : BOOLEAN]

Fresh(c) == [phase |-> "live", secretName |-> Unset, issuer |-> NoIssuer, status |-> NoStatus]

TypeOK ==
    /\ cr \in [Cr -> Resource]
    /\ ccr \in [Cr -> Resource]
    /\ cert \in [Cr -> CertOrNone]
    /\ ccert \in [Cr -> CertOrNone]
    /\ events \subseteq Cr
    /\ secret \in [Name -> Owner]
    /\ default \in IssuerOrNone
    /\ round \in Round
    /\ wake \in [Cr -> {"none", "later", "now"}]
    /\ changes \in 0 .. MaxChanges
    /\ faults \in 0 .. MaxFaults
    /\ contested \in [Cr -> SUBSET Name]
    /\ named \in [Cr -> SUBSET Issuer]
-----------------------------------------------------------------------------
(* Operators the actions are built from *)

\* secretNameFor.
SecretNameFor(c, x) == IF x.secretName # Unset THEN x.secretName ELSE DefaultName[c]

\* Mutant: the name comes from the spec.
ServingBySpec(c, x) == SecretNameFor(c, x)

\* servingSecretName, for status.secretName.
ServingSecretName(c, x) ==
    IF x.status.secretName # Unset THEN x.status.secretName ELSE SecretNameFor(c, x)

\* secretNameGuardHolding.
SecretNameGuardHolding(c, x) ==
    x.status.secretName \notin {Unset, SecretNameFor(c, x)}

\* Mutant: the flag outranks the Certificate that is there.
ResolveByFlag(x, existing) ==
    CASE x.issuer # NoIssuer -> x.issuer
      [] x.issuer = NoIssuer /\ x.status.pin # NoIssuer -> x.status.pin
      [] OTHER -> default

\* ResolveIssuerRef: spec, then the pin, then the Certificate, then the flag.
ResolveIssuerRef(x, existing) ==
    CASE x.issuer # NoIssuer -> x.issuer
      [] x.issuer = NoIssuer /\ x.status.pin # NoIssuer -> x.status.pin
      [] x.issuer = NoIssuer /\ x.status.pin = NoIssuer /\ existing # NoCert -> existing.issuer
      [] OTHER -> default

\* The caches show no issuerRef, no pin and no Certificate: the flag's turn.
Unpinned(c) ==
    ccr[c].issuer = NoIssuer /\ ccr[c].status.pin = NoIssuer /\ ccert[c] = NoCert

\* Mutant: the guard runs before the first creation only.
GuardOnce(existing, name) == existing = NoCert

\* Reconcile, step 2: the guard runs when a Secret name is about to change.
GuardNeeded(existing, name) == existing = NoCert \/ existing.secretName # name

\* secretNameConflict: the Secret is there and is not this CR's.
SecretNameConflict(c, name) == secret[name] \notin {Absent, c}

\* client.MergeFrom(orig): a field is sent when the round changed it.
MergePatch(s, orig, new) ==
    [pin        |-> IF new.pin # orig.pin THEN new.pin ELSE s.pin,
     secretName |-> IF new.secretName # orig.secretName THEN new.secretName ELSE s.secretName]

\* A Secret is now owner's: it is foreign to every other CR.
PassesTo(owner, name) ==
    [c \in Cr |-> IF c = owner THEN contested[c] ELSE contested[c] \cup {name}]

\* A round of c has read the Secret that its Certificate does not have yet.
ReadBy(c, name) ==
    [contested EXCEPT ![c] = IF cert[c].secretName # name THEN @ \ {name} ELSE @]

\* CreateOrUpdate finds in the cache another Secret name than the guard went by.
Unguarded(c, name) ==
    [contested EXCEPT ![c] = IF ccert[c].secretName \notin {name, round.existing.secretName}
                             THEN @ \cup {name} ELSE @]
-----------------------------------------------------------------------------
(* Initial states: CRs with their finalizer, some with the Certificate and   *)
(* Secret an earlier installation left, and Secrets somebody made by hand.   *)

NoRound(c) == [step |-> "idle", c |-> c, ac |-> Fresh(c), orig |-> NoStatus,
               existing |-> NoCert, unseen |-> FALSE]

Init ==
    /\ cr = [c \in Cr |-> Fresh(c)]
    /\ ccr = cr
    /\ \E old \in SUBSET Bootstrap, i \in Issuer :
           /\ cert = [c \in Cr |-> IF c \in old
                                   THEN [secretName |-> DefaultName[c], issuer |-> i, ready |-> TRUE]
                                   ELSE NoCert]
           /\ secret \in {s \in [Name -> Owner] :
                             \A n \in Name :
                                 IF \E c \in old : DefaultName[c] = n
                                 THEN s[n] \in old /\ DefaultName[s[n]] = n
                                 ELSE s[n] \in {Absent, ByHand}}
    /\ ccert = cert
    /\ events = {}
    /\ default \in DefaultInit
    /\ round = NoRound(CHOOSE c \in Cr : TRUE)
    /\ wake = [c \in Cr |-> "now"]
    /\ changes = 0
    /\ faults = 0
    /\ contested = [c \in Cr |-> {}]
    /\ named = [c \in Cr |-> {cert[c].issuer} \ {NoIssuer}]
-----------------------------------------------------------------------------
(* The reconcile round *)

\* A Certificate changes on the API server; the cache will hear of it.
SetCert(c, new) ==
    /\ cert' = [cert EXCEPT ![c] = new]
    /\ events' = events \cup {c}

\* The round ends; RequeueAfter never displaces an earlier wake-up.
EndRound(requeue) ==
    /\ round' = NoRound(round.c)
    /\ wake' = [wake EXCEPT ![round.c] = IF @ = "now" THEN @ ELSE requeue]

\* Mutant: a CR without an issuer goes on.
ResolvedUnchecked(issuer) == TRUE

\* Without an issuer: Ready=False/NoIssuer, and no requeue.
Resolved(issuer) == issuer # NoIssuer

\* Reconcile up to the issuer.
BeginRound(c) ==
    /\ round.step = "idle"
    /\ wake[c] = "now"
    /\ ccr[c].phase = "live"
    /\ LET issuer == ResolveIssuerRef(ccr[c], ccert[c])
       IN round' = IF Resolved(issuer)
                   THEN [step |-> "guard", c |-> c, existing |-> ccert[c],
                         ac |-> [ccr[c] EXCEPT !.status.pin = issuer],
                         orig |-> ccr[c].status, unseen |-> FALSE]
                   ELSE NoRound(c)
    /\ wake' = [wake EXCEPT ![c] = "none"]
    /\ named' = [named EXCEPT ![c] = IF Unpinned(c) THEN @ \cup ({default} \ {NoIssuer}) ELSE @]
    /\ UNCHANGED <<crVars, certVars, secret, default, changes, faults, contested>>

\* r.Get finds no CR.
BeginNotFound(c) ==
    /\ round.step = "idle"
    /\ wake[c] = "now"
    /\ ccr[c].phase = "gone"
    /\ wake' = [wake EXCEPT ![c] = "none"]
    /\ UNCHANGED <<crVars, certVars, secret, default, round, changes, faults, histVars>>

Wanted == SecretNameFor(round.c, round.ac)

PatchStatus(new) ==
    cr' = [cr EXCEPT ![round.c].status = MergePatch(@, round.orig, new)]

\* Mutant: a conflict waits for an event.
ConflictWaits == "none"

\* No event tells of a Secret: a conflict asks for another round after a resync.
ConflictRequeue == "later"

\* Step 2: the Secret is read live.  Without a Certificate a conflict ends the
\* round, the pin saved; with one it only skips step 3.
Guard ==
    /\ round.step = "guard"
    /\ LET needed == GuardNeeded(round.existing, Wanted)
           conflict == needed /\ SecretNameConflict(round.c, Wanted)
       IN /\ contested' = IF needed THEN ReadBy(round.c, Wanted) ELSE contested
          /\ IF conflict /\ round.existing = NoCert
             THEN PatchStatus(round.ac.status) /\ EndRound(ConflictRequeue)
             ELSE /\ round' = [round EXCEPT !.step = IF conflict THEN "finish" ELSE "sync"]
                  /\ UNCHANGED <<cr, wake>>
    /\ UNCHANGED <<ccr, certVars, secret, default, changes, faults, named>>

\* Step 3, CreateOrUpdate: the Certificate is read from the cache once more,
\* then created, updated or left alone.
SyncCertificate ==
    LET c == round.c
        desired == [secretName |-> Wanted, issuer |-> round.ac.status.pin, ready |-> ccert[c].ready]
    IN /\ round.step = "sync"
       /\ \/ ccert[c] = desired /\ UNCHANGED <<cert, events>>
          \/ /\ ccert[c] # desired
             /\ c \notin events \/ {ccert[c], cert[c]} = {NoCert}
             /\ SetCert(c, desired)
       /\ round' = [round EXCEPT !.step = "finish", !.existing = desired]
       /\ contested' = Unguarded(c, Wanted)
       /\ UNCHANGED <<crVars, ccert, secret, default, wake, changes, faults, named>>

\* Step 3 from a cache that is behind: AlreadyExists, NotFound or Conflict ends
\* the round with an error.
SyncRefused ==
    LET c == round.c
    IN /\ round.step = "sync"
       /\ c \in events /\ {ccert[c], cert[c]} # {NoCert}
       /\ \/ ccert[c].secretName # Wanted
          \/ ccert[c].issuer # round.ac.status.pin
       /\ EndRound("now")
       /\ UNCHANGED <<crVars, certVars, secret, default, changes, faults, histVars>>

\* Step 4 and after: a Ready Certificate is looked at again after a resync, one
\* that is not waits for cert-manager unless the guard is holding.
FinishRequeue(ac) ==
    IF round.existing.ready \/ SecretNameGuardHolding(round.c, ac) THEN "later" ELSE "none"

\* The Secret name recorded is the one the Certificate has.
Finish ==
    /\ round.step = "finish"
    /\ LET ac == [round.ac EXCEPT !.status.secretName = round.existing.secretName]
       IN /\ PatchStatus(ac.status)
          /\ EndRound(FinishRequeue(ac))
    /\ UNCHANGED <<ccr, certVars, secret, default, changes, faults, histVars>>

\* reconcileDelete up to the status patch before step c, whose answer replaces
\* the cached CR.  On a CR that is gone the patch fails, and the round repeats.
BeginDelete(c) ==
    /\ round.step = "idle"
    /\ wake[c] = "now"
    /\ ccr[c].phase = "deleting"
    /\ cr[c].phase = "deleting"
    /\ round' = [NoRound(c) EXCEPT !.step = "deleteCert", !.ac = cr[c]]
    /\ wake' = [wake EXCEPT ![c] = "none"]
    /\ UNCHANGED <<crVars, certVars, secret, default, changes, faults, histVars>>

\* Step c: while the cache shows a Certificate it is deleted and awaited.
DeleteCertificate ==
    LET c == round.c
    IN /\ round.step = "deleteCert"
       /\ \/ /\ ccert[c] # NoCert
             /\ IF cert[c] = NoCert THEN UNCHANGED <<cert, events>> ELSE SetCert(c, NoCert)
             /\ EndRound("later")
          \/ /\ ccert[c] = NoCert
             /\ round' = [round EXCEPT !.step = "readSecret", !.unseen = cert[c] # NoCert]
             /\ UNCHANGED <<cert, events, wake>>
       /\ UNCHANGED <<crVars, ccert, secret, default, changes, faults, histVars>>

Serving == ServingSecretName(round.c, round.ac)

\* Step d: the Secret under the serving name is this CR's, another's or missing.
ReadSecret ==
    /\ round.step = "readSecret"
    /\ round' = [round EXCEPT !.step = IF secret[Serving] = round.c THEN "eraseSecret" ELSE "finalize"]
    /\ contested' = ReadBy(round.c, Serving)
    /\ UNCHANGED <<crVars, certVars, secret, default, wake, changes, faults, named>>

\* The delete goes by name: whatever is there by now is deleted.
EraseSecret ==
    /\ round.step = "eraseSecret"
    /\ secret' = [secret EXCEPT ![Serving] = Absent]
    /\ round' = [round EXCEPT !.step = "finalize"]
    /\ UNCHANGED <<crVars, certVars, default, wake, changes, faults, histVars>>

\* Step e: the Update carries the resourceVersion of the patch's answer; a CR
\* that has changed since refuses it, and the round repeats.
Finalize ==
    /\ round.step = "finalize"
    /\ cr' = [cr EXCEPT ![round.c].phase = IF @ = "deleting" /\ cr[round.c] = round.ac THEN "gone" ELSE @]
    /\ EndRound(IF cr'[round.c].phase = "gone" THEN "none" ELSE "now")
    /\ UNCHANGED <<ccr, certVars, secret, default, changes, faults, histVars>>
-----------------------------------------------------------------------------
(* The informers and the queue *)

\* For(AliyunCertificate): every event wakes the CR.
SyncCr(c) ==
    /\ ccr[c] # cr[c]
    /\ ccr' = [ccr EXCEPT ![c] = cr[c]]
    /\ wake' = [wake EXCEPT ![c] = "now"]
    /\ UNCHANGED <<cr, certVars, secret, default, round, changes, faults, histVars>>

\* Owns(Certificate): so does every event of its Certificate.
SyncCert(c) ==
    /\ c \in events
    /\ events' = events \ {c}
    /\ ccert' = [ccert EXCEPT ![c] = cert[c]]
    /\ wake' = [wake EXCEPT ![c] = "now"]
    /\ UNCHANGED <<crVars, cert, secret, default, round, changes, faults, histVars>>

\* RequeueAfter has passed.
TimerFires(c) ==
    /\ wake[c] = "later"
    /\ wake' = [wake EXCEPT ![c] = "now"]
    /\ UNCHANGED <<crVars, certVars, secret, default, round, changes, faults, histVars>>

Fault == faults < MaxFaults /\ faults' = faults + 1

\* A read or a write fails: controller-runtime retries the round.
RoundFails ==
    /\ round.step # "idle"
    /\ Fault
    /\ EndRound("now")
    /\ UNCHANGED <<crVars, certVars, secret, default, changes, histVars>>

\* The operator is replaced, perhaps with another flag; caches start in sync.
Restart ==
    /\ Fault
    /\ default' \in IssuerOrNone
    /\ round' = NoRound(round.c)
    /\ ccr' = cr
    /\ ccert' = cert
    /\ events' = {}
    /\ wake' = [c \in Cr |-> "now"]
    /\ UNCHANGED <<cr, cert, secret, changes, histVars>>
-----------------------------------------------------------------------------
(* cert-manager and the users *)

\* cert-manager writes a Certificate's Secret when it is missing, another's, or
\* the Certificate is not Ready, and annotates it.
Issue(c) ==
    /\ cert[c] # NoCert
    /\ secret[cert[c].secretName] # c \/ ~cert[c].ready
    /\ secret' = [secret EXCEPT ![cert[c].secretName] = c]
    /\ SetCert(c, [cert[c] EXCEPT !.ready = TRUE])
    /\ contested' = PassesTo(c, cert[c].secretName)
    /\ UNCHANGED <<crVars, ccert, default, round, wake, changes, faults, named>>

\* cert-manager finds a Certificate without its Secret.
Unready(c) ==
    /\ cert[c].ready
    /\ secret[cert[c].secretName] # c
    /\ SetCert(c, [cert[c] EXCEPT !.ready = FALSE])
    /\ UNCHANGED <<crVars, ccert, secret, default, round, wake, changes, faults, histVars>>

\* The garbage collector follows the owner reference.
CollectCertificate(c) ==
    /\ cr[c].phase = "gone"
    /\ cert[c] # NoCert
    /\ SetCert(c, NoCert)
    /\ UNCHANGED <<crVars, ccert, secret, default, round, wake, changes, faults, histVars>>

Change == changes < MaxChanges /\ changes' = changes + 1

EditSecretName(c) ==
    /\ Change
    /\ cr[c].phase # "gone"
    /\ \E n \in Name : cr' = [cr EXCEPT ![c].secretName = n]
    /\ UNCHANGED <<ccr, certVars, secret, default, round, wake, faults, histVars>>

EditIssuer(c) ==
    /\ Change
    /\ cr[c].phase # "gone"
    /\ \E i \in IssuerOrNone :
           /\ cr' = [cr EXCEPT ![c].issuer = i]
           /\ named' = [named EXCEPT ![c] = @ \cup ({i} \ {NoIssuer})]
    /\ UNCHANGED <<ccr, certVars, secret, default, round, wake, faults, contested>>

DeleteCr(c) ==
    /\ Change
    /\ cr[c].phase = "live"
    /\ cr' = [cr EXCEPT ![c].phase = "deleting"]
    /\ UNCHANGED <<ccr, certVars, secret, default, round, wake, faults, histVars>>

\* A Secret is made, taken over or removed by somebody else.
MakeSecret(n) ==
    /\ Change
    /\ secret[n] # ByHand
    /\ secret' = [secret EXCEPT ![n] = ByHand]
    /\ contested' = PassesTo(ByHand, n)
    /\ UNCHANGED <<crVars, certVars, default, round, wake, faults, named>>

RemoveSecret(n) ==
    /\ Change
    /\ secret[n] # Absent
    /\ secret' = [secret EXCEPT ![n] = Absent]
    /\ UNCHANGED <<crVars, certVars, default, round, wake, faults, histVars>>

\* The Certificate is deleted by hand.
RemoveCertificate(c) ==
    /\ Change
    /\ cert[c] # NoCert
    /\ SetCert(c, NoCert)
    /\ UNCHANGED <<crVars, ccert, secret, default, round, wake, faults, histVars>>
-----------------------------------------------------------------------------
(* Specification *)

Start(c) == BeginRound(c) \/ BeginNotFound(c) \/ BeginDelete(c)

ContinueRound ==
    \/ Guard
    \/ SyncCertificate
    \/ SyncRefused
    \/ Finish
    \/ DeleteCertificate
    \/ ReadSecret
    \/ EraseSecret
    \/ Finalize

Next ==
    \/ ContinueRound
    \/ RoundFails
    \/ Restart
    \/ \E c \in Cr :
           \/ Start(c)
           \/ SyncCr(c)
           \/ SyncCert(c)
           \/ TimerFires(c)
           \/ Issue(c)
           \/ Unready(c)
           \/ CollectCertificate(c)
           \/ EditSecretName(c)
           \/ EditIssuer(c)
           \/ DeleteCr(c)
           \/ RemoveCertificate(c)
    \/ \E n \in Name : MakeSecret(n) \/ RemoveSecret(n)

Spec == Init /\ [][Next]_vars

\* The worker finishes its round and serves every CR that keeps asking; events
\* arrive and timers fire.  Nothing is assumed of cert-manager or the users.
FairSpec ==
    /\ Spec
    /\ WF_vars(ContinueRound)
    /\ \A c \in Cr :
           /\ SF_vars(Start(c))
           /\ WF_vars(SyncCr(c))
           /\ WF_vars(SyncCert(c))
           /\ WF_vars(TimerFires(c))
-----------------------------------------------------------------------------
(* Properties *)

\* secretNameConflict and secretOwnedByUs: a Secret that belongs to somebody
\* else is overwritten for a CR's Certificate, or deleted with the CR, only if
\* it passed to them after the guard had read it, or the cached Certificate
\* changed between the guard and CreateOrUpdate.
NoTrespass ==
    [][\A c \in Cr, n \in Name :
           (/\ secret[n] \notin {Absent, c}
            /\ \/ secret'[n] = c
               \/ secret'[n] = Absent /\ round.c = c /\ round'.step # round.step)
           => n \in contested[c]]_vars

\* reconcileDelete, steps c to e: a CR that goes leaves no Secret of its own
\* under the name its status records, unless the cache had not shown the
\* Certificate that wrote it.
KeyRemoved ==
    [][\A c \in Cr, n \in Name :
           (/\ cr[c].phase # "gone" /\ cr'[c].phase = "gone"
            /\ cr[c].status.secretName = n
            /\ secret[n] = c) => round.unseen]_vars

\* ResolveIssuerRef: a Certificate that exists changes its issuer only for one
\* that the spec has named, that it began with, or that was the flag when the
\* caches showed the CR neither pin nor Certificate.  A new flag, a restart or a
\* lost status patch re-issues nothing.
IssuerPinned ==
    [][\A c \in Cr :
           cert[c] # NoCert /\ cert'[c] # NoCert /\ cert'[c].issuer # cert[c].issuer =>
               cert'[c].issuer \in named[c]]_vars

Free(c) ==
    /\ cr[c].phase = "live"
    /\ Resolved(ResolveIssuerRef(cr[c], cert[c]))
    /\ ~SecretNameConflict(c, SecretNameFor(c, cr[c]))

\* Reconcile, steps 2 to 4: once the name a CR wants is free for good, its
\* Certificate comes to have it and its status to say so.
NameTaken ==
    \A c \in Cr :
        <>[]Free(c) =>
            <>[](/\ cert[c].secretName = SecretNameFor(c, cr[c])
                 /\ cr[c].status.secretName = SecretNameFor(c, cr[c]))
=============================================================================
