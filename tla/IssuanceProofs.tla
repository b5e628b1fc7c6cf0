---------------------------- MODULE IssuanceProofs ----------------------------
(***************************************************************************)
(* Proofs about Issuance: the state is well typed; a Certificate changes   *)
(* its issuer only for one its CR came by rightly; a CR that goes leaves   *)
(* no Secret of its own; and nobody else's Secret is touched but in the    *)
(* windows between a live read and the write that follows it.              *)
(***************************************************************************)
EXTENDS Issuance, TLAPS

\* The steps of a round that has resolved its issuer.
Resolving == {"guard", "sync", "finish"}

\* Every issuer a CR, its Certificate, a cached copy or a round mentions is one the CR
\* came by rightly, and a round goes on only with an issuer.
IssuersNamed ==
    /\ \A c \in Cr : /\ {cr[c].issuer, cr[c].status.pin, cert[c].issuer} \subseteq
                            named[c] \cup {NoIssuer}
                     /\ {ccr[c].issuer, ccr[c].status.pin, ccert[c].issuer} \subseteq
                            named[c] \cup {NoIssuer}
    /\ round.step \in Resolving => round.ac.status.pin \in named[round.c]

\* Once the round has seen the Certificate gone there is none, and before the
\* finalizer goes there is no Secret of the CR under the name it serves.
DeletionSeen ==
    round.step \in {"readSecret", "eraseSecret", "finalize"} /\ ~round.unseen =>
        /\ cert[round.c] = NoCert
        /\ round.step = "finalize" => secret[Serving] # round.c

\* The Secret n is somebody else's, and was not taken after the guard saw it.
Foreign(c, n) == secret[n] \notin {Absent, c} /\ n \notin contested[c]

\* The Secret c's Certificate names, the one its round is about to give it, and the
\* one the round is about to delete are free, its own, or contested.
NamesGuarded ==
    /\ \A c \in Cr : c \notin events => ccert[c] = cert[c]
    /\ \A c \in Cr : cert[c] # NoCert => ~Foreign(c, cert[c].secretName)
    /\ round.step = "sync" /\ round.existing.secretName # Wanted => ~Foreign(round.c, Wanted)
    /\ round.step = "eraseSecret" => ~Foreign(round.c, Serving)
-----------------------------------------------------------------------------
(* Types *)

\* What the types of the state say, one component at a time.
LEMMA Typed ==
  ASSUME TypeOK, NEW c \in Cr
  PROVE  /\ cr[c] \in Resource /\ ccr[c] \in Resource
         /\ cert[c] \in CertOrNone /\ ccert[c] \in CertOrNone
         /\ round.step \in {"idle", "guard", "sync", "finish", "deleteCert", "readSecret",
                            "eraseSecret", "finalize"}
         /\ round.c \in Cr /\ round.ac \in Resource /\ round.orig \in Status
         /\ round.existing \in CertOrNone /\ round.unseen \in BOOLEAN
  BY DEF TypeOK, Round

\* A Certificate names a Secret and an issuer; its absence neither.
LEMMA CertNames ==
  ASSUME NEW x \in CertOrNone
  PROVE  /\ x.secretName \in Name \cup {Unset} /\ x.issuer \in IssuerOrNone
         /\ x.ready \in BOOLEAN
         /\ x # NoCert => x \in Cert /\ x.secretName \in Name /\ x.issuer \in Issuer
         /\ x.ready => x # NoCert
         /\ x.secretName = Unset => x = NoCert
  <1>1. CASE x = NoCert
    BY <1>1 DEF NoCert, IssuerOrNone
  <1>2. CASE x \in Cert
    <2>1. /\ x.secretName \in Name /\ x.issuer \in Issuer /\ x.ready \in BOOLEAN
          /\ x.secretName # Unset
      BY <1>2, NameAssumption DEF Cert
    <2>2. x # NoCert
      BY <2>1 DEF NoCert
    <2> QED BY <1>2, <2>1, <2>2 DEF IssuerOrNone
  <1> QED BY <1>1, <1>2 DEF CertOrNone

\* The Secret name a CR asks for, and the one it serves from.
LEMMA NameTypes ==
  ASSUME NEW c \in Cr, NEW x \in Resource
  PROVE  SecretNameFor(c, x) \in Name /\ ServingSecretName(c, x) \in Name
  BY NameAssumption DEF SecretNameFor, ServingSecretName, Resource, Status

\* The status patch.
LEMMA PatchType ==
  ASSUME NEW s \in Status, NEW o \in Status, NEW n \in Status
  PROVE  /\ MergePatch(s, o, n) \in Status
         /\ MergePatch(s, o, n).pin \in {s.pin, n.pin}
  BY DEF MergePatch, Status

\* The round that is not there.
LEMMA NoRoundType ==
  ASSUME NEW c \in Cr
  PROVE  NoRound(c) \in Round /\ NoRound(c).step = "idle" /\ NoRound(c).c = c
  BY DEF NoRound, Round, Fresh, Resource, NoStatus, Status, CertOrNone, IssuerOrNone

\* A CR with one field changed.
LEMMA ResourceTypes ==
  ASSUME NEW x \in Resource
  PROVE  /\ \A s \in Status : [x EXCEPT !.status = s] \in Resource
         /\ \A p \in IssuerOrNone : [x EXCEPT !.status.pin = p] \in Resource
         /\ \A n \in Name \cup {Unset} : /\ [x EXCEPT !.secretName = n] \in Resource
                                         /\ [x EXCEPT !.status.secretName = n] \in Resource
         /\ \A i \in IssuerOrNone : [x EXCEPT !.issuer = i] \in Resource
         /\ \A p \in {"live", "deleting", "gone"} : [x EXCEPT !.phase = p] \in Resource
  <1>1. \A p \in IssuerOrNone : [x EXCEPT !.status.pin = p] \in Resource
    BY DEF Resource, Status
  <1>2. \A n \in Name \cup {Unset} : [x EXCEPT !.status.secretName = n] \in Resource
    BY DEF Resource, Status
  <1> QED BY <1>1, <1>2 DEF Resource

\* A Certificate that changes keeps the types of the Certificates and events.
LEMMA SetCertType ==
  ASSUME TypeOK, NEW c \in Cr, NEW x \in CertOrNone, SetCert(c, x)
  PROVE  cert' \in [Cr -> CertOrNone] /\ events' \subseteq Cr
  BY DEF TypeOK, SetCert

\* The end of a round keeps the types of the round and the queue.
LEMMA EndRoundType ==
  ASSUME TypeOK, NEW q \in {"none", "later", "now"}, EndRound(q)
  PROVE  round' \in Round /\ wake' \in [Cr -> {"none", "later", "now"}]
         /\ round'.step = "idle" /\ round'.c = round.c
  BY Typed, NoRoundType DEF TypeOK, EndRound, Round

\* The steps of the round keep the types; SyncCertificate needs the issuer the
\* round has resolved.
LEMMA RoundTypes ==
  ASSUME TypeOK, IssuersNamed, ContinueRound
  PROVE  TypeOK'
  <1> USE DEF crVars, certVars, histVars
  <1>0. round.c \in Cr /\ round.ac \in Resource /\ round.orig \in Status
        /\ round.existing \in CertOrNone /\ round.unseen \in BOOLEAN
        /\ round.ac.status \in Status /\ cr[round.c].status \in Status
    BY Typed DEF TypeOK, Round, Resource
  <1>1. Wanted \in Name /\ Serving \in Name
    BY <1>0, NameTypes DEF Wanted, Serving
  <1>a. \A n \in Name : ReadBy(round.c, n) \in [Cr -> SUBSET Name]
                        /\ Unguarded(round.c, n) \in [Cr -> SUBSET Name]
    BY <1>0 DEF TypeOK, ReadBy, Unguarded
  <1>b. ASSUME NEW s \in Status, PatchStatus(s) PROVE cr' \in [Cr -> Resource]
    <2>1. MergePatch(cr[round.c].status, round.orig, s) \in Status
      BY <1>0, <1>b, PatchType
    <2>2. [cr[round.c] EXCEPT !.status = MergePatch(@, round.orig, s)] \in Resource
      BY <1>0, <2>1, Typed, ResourceTypes
    <2> QED BY <1>0, <1>b, <2>2 DEF PatchStatus, TypeOK
  <1>c. ASSUME NEW t \in {"idle", "guard", "sync", "finish", "deleteCert", "readSecret",
                          "eraseSecret", "finalize"}
        PROVE  [round EXCEPT !.step = t] \in Round
    BY <1>c DEF TypeOK, Round
  <1>2. CASE Guard
    <2>0. UNCHANGED <<ccr, certVars, secret, default, changes, faults, named>>
      BY <1>2 DEF Guard
    <2>1. contested' \in [Cr -> SUBSET Name]
      BY <1>1, <1>2, <1>a DEF Guard, TypeOK
    <2>2. \/ PatchStatus(round.ac.status) /\ EndRound(ConflictRequeue)
          \/ /\ round' = [round EXCEPT !.step = "finish"] \/ round' = [round EXCEPT !.step = "sync"]
             /\ UNCHANGED <<cr, wake>>
      BY <1>2 DEF Guard
    <2>3. cr' \in [Cr -> Resource] /\ round' \in Round /\ wake' \in [Cr -> {"none", "later", "now"}]
      <3>1. CASE PatchStatus(round.ac.status) /\ EndRound(ConflictRequeue)
        BY <1>0, <1>b, <3>1, EndRoundType DEF ConflictRequeue
      <3>2. CASE /\ round' = [round EXCEPT !.step = "finish"] \/ round' = [round EXCEPT !.step = "sync"]
                 /\ UNCHANGED <<cr, wake>>
        BY <1>c, <3>2 DEF TypeOK
      <3> QED BY <2>2, <3>1, <3>2
    <2> QED BY <2>0, <2>1, <2>3 DEF TypeOK
  <1>3. CASE SyncCertificate
    <2> DEFINE x == [secretName |-> Wanted, issuer |-> round.ac.status.pin,
                     ready |-> ccert[round.c].ready]
    <2>0. /\ round.step = "sync" /\ (UNCHANGED <<cert, events>> \/ SetCert(round.c, x))
          /\ round' = [round EXCEPT !.step = "finish", !.existing = x]
          /\ contested' = Unguarded(round.c, Wanted)
          /\ UNCHANGED <<crVars, ccert, secret, default, wake, changes, faults, named>>
      BY <1>3 DEF SyncCertificate
    <2>1. x \in CertOrNone
      <3>1. round.ac.status.pin \in Issuer
        BY <1>0, <2>0 DEF IssuersNamed, TypeOK, Resolving
      <3>2. ccert[round.c].ready \in BOOLEAN
        BY <1>0, Typed, CertNames
      <3> QED BY <1>1, <3>1, <3>2 DEF CertOrNone, Cert
    <2> HIDE DEF x
    <2>2. cert' \in [Cr -> CertOrNone] /\ events' \subseteq Cr
      BY <1>0, <2>0, <2>1, SetCertType DEF TypeOK
    <2>3. round' \in Round
      BY <2>0, <2>1 DEF TypeOK, Round
    <2>4. contested' \in [Cr -> SUBSET Name]
      BY <1>1, <1>a, <2>0
    <2> QED BY <2>0, <2>2, <2>3, <2>4 DEF TypeOK
  <1>4. CASE SyncRefused
    <2>1. EndRound("now") /\ UNCHANGED <<crVars, certVars, secret, default, changes, faults, histVars>>
      BY <1>4 DEF SyncRefused
    <2> QED BY <2>1, EndRoundType DEF TypeOK
  <1>5. CASE Finish
    <2> DEFINE x == [round.ac EXCEPT !.status.secretName = round.existing.secretName]
    <2>0. /\ PatchStatus(x.status) /\ EndRound(FinishRequeue(x))
          /\ UNCHANGED <<ccr, certVars, secret, default, changes, faults, histVars>>
      BY <1>5 DEF Finish
    <2>1. x.status \in Status
      <3>1. round.existing.secretName \in Name \cup {Unset}
        BY <1>0, CertNames
      <3> QED BY <1>0, <3>1 DEF Resource, Status
    <2>2. FinishRequeue(x) \in {"none", "later", "now"}
      BY DEF FinishRequeue
    <2> HIDE DEF x
    <2> QED BY <1>b, <2>0, <2>1, <2>2, EndRoundType DEF TypeOK
  <1>6. CASE DeleteCertificate
    <2>0. UNCHANGED <<crVars, ccert, secret, default, changes, faults, histVars>>
      BY <1>6 DEF DeleteCertificate
    <2>1. cert' \in [Cr -> CertOrNone] /\ events' \subseteq Cr
      <3>1. (cert' = cert /\ events' = events) \/ SetCert(round.c, NoCert)
        BY <1>6 DEF DeleteCertificate
      <3> QED BY <1>0, <3>1, SetCertType DEF TypeOK, CertOrNone
    <2>2. round' \in Round /\ wake' \in [Cr -> {"none", "later", "now"}]
      <3>1. \/ EndRound("later")
            \/ /\ round' = [round EXCEPT !.step = "readSecret", !.unseen = cert[round.c] # NoCert]
               /\ wake' = wake
        BY <1>6 DEF DeleteCertificate
      <3>2. [round EXCEPT !.step = "readSecret", !.unseen = cert[round.c] # NoCert] \in Round
        BY DEF TypeOK, Round
      <3> QED BY <3>1, <3>2, EndRoundType DEF TypeOK
    <2> QED BY <2>0, <2>1, <2>2 DEF TypeOK
  <1>7. CASE ReadSecret
    <2>1. /\ round' = [round EXCEPT !.step = "eraseSecret"] \/ round' = [round EXCEPT !.step = "finalize"]
          /\ contested' = ReadBy(round.c, Serving)
          /\ UNCHANGED <<crVars, certVars, secret, default, wake, changes, faults, named>>
      BY <1>7 DEF ReadSecret
    <2> QED BY <1>1, <1>a, <1>c, <2>1 DEF TypeOK
  <1>8. CASE EraseSecret
    <2>1. /\ round' = [round EXCEPT !.step = "finalize"]
          /\ secret' = [secret EXCEPT ![Serving] = Absent]
          /\ UNCHANGED <<crVars, certVars, default, wake, changes, faults, histVars>>
      BY <1>8 DEF EraseSecret
    <2>2. secret' \in [Name -> Owner]
      BY <1>1, <2>1 DEF TypeOK, Owner
    <2> QED BY <1>c, <2>1, <2>2 DEF TypeOK
  <1>9. CASE Finalize
    <2>1. /\ \E p \in {"gone", cr[round.c].phase} : cr' = [cr EXCEPT ![round.c].phase = p]
          /\ \E q \in {"none", "now"} : EndRound(q)
          /\ UNCHANGED <<ccr, certVars, secret, default, changes, faults, histVars>>
      BY <1>9 DEF Finalize
    <2>2. cr' \in [Cr -> Resource]
      <3>1. PICK p \in {"gone", cr[round.c].phase} : cr' = [cr EXCEPT ![round.c].phase = p]
        BY <2>1
      <3>2. cr[round.c] \in Resource /\ p \in {"live", "deleting", "gone"}
        BY <1>0, Typed DEF Resource
      <3>3. [cr[round.c] EXCEPT !.phase = p] \in Resource
        BY <3>2, ResourceTypes
      <3> QED BY <3>1, <3>3 DEF TypeOK
    <2>3. round' \in Round /\ wake' \in [Cr -> {"none", "later", "now"}]
      BY <2>1, EndRoundType
    <2> QED BY <2>1, <2>2, <2>3 DEF TypeOK
  <1> QED BY <1>2, <1>3, <1>4, <1>5, <1>6, <1>7, <1>8, <1>9 DEF ContinueRound

\* The beginning of a round, the informers, the queue, the faults, cert-manager and
\* the users keep the types.
LEMMA OtherTypes ==
  ASSUME TypeOK, Next, ~ContinueRound
  PROVE  TypeOK'
  <1> USE DEF crVars, certVars, histVars
  <1>0. round.c \in Cr
    BY DEF TypeOK, Round
  <1>a. ASSUME NEW c \in Cr
        PROVE  [wake EXCEPT ![c] = "now"] \in [Cr -> {"none", "later", "now"}]
               /\ [wake EXCEPT ![c] = "none"] \in [Cr -> {"none", "later", "now"}]
    BY DEF TypeOK
  <1>b. Fault => faults' \in 0 .. MaxFaults
    BY BoundAssumption DEF TypeOK, Fault
  <1>c. Change => changes' \in 0 .. MaxChanges
    BY BoundAssumption DEF TypeOK, Change
  <1>d. \A o : \A n \in Name : PassesTo(o, n) \in [Cr -> SUBSET Name]
    BY DEF TypeOK, PassesTo
  <1>1. CASE RoundFails
    BY <1>1, <1>b, EndRoundType DEF RoundFails, TypeOK
  <1>2. CASE Restart
    <2>1. NoRound(round.c) \in Round
      BY <1>0, NoRoundType
    <2> QED BY <1>2, <1>b, <2>1 DEF Restart, TypeOK
  <1>3. ASSUME NEW c \in Cr, BeginRound(c) PROVE TypeOK'
    <2> DEFINE p == ResolveIssuerRef(ccr[c], ccert[c])
    <2>1. p \in IssuerOrNone
      BY Typed, CertNames DEF ResolveIssuerRef, Resource, Status, TypeOK
    <2>2. \/ round' = NoRound(c)
          \/ round' = [step |-> "guard", c |-> c, existing |-> ccert[c],
                       ac |-> [ccr[c] EXCEPT !.status.pin = p],
                       orig |-> ccr[c].status, unseen |-> FALSE]
      BY <1>3 DEF BeginRound
    <2> HIDE DEF p
    <2>3. round' \in Round
      <3>1. NoRound(c) \in Round
        BY NoRoundType
      <3>2. /\ [ccr[c] EXCEPT !.status.pin = p] \in Resource /\ ccr[c].status \in Status
            /\ ccert[c] \in CertOrNone
        BY <2>1, Typed, ResourceTypes DEF Resource
      <3> DEFINE y == [ccr[c] EXCEPT !.status.pin = p]
                 s == ccr[c].status
                 k == ccert[c]
      <3> HIDE DEF y, s, k
      <3>3. y \in Resource /\ s \in Status /\ k \in CertOrNone
        BY <3>2 DEF y, s, k
      <3>4. [step |-> "guard", c |-> c, existing |-> k, ac |-> y, orig |-> s, unseen |-> FALSE]
              \in Round
        BY <3>3 DEF Round
      <3> QED BY <2>2, <3>1, <3>4 DEF y, s, k
    <2>4. named' \in [Cr -> SUBSET Issuer]
      BY <1>3 DEF BeginRound, TypeOK, IssuerOrNone
    <2> QED BY <1>3, <1>a, <2>3, <2>4 DEF BeginRound, TypeOK
  <1>4. ASSUME NEW c \in Cr, BeginNotFound(c) PROVE TypeOK'
    BY <1>4, <1>a DEF BeginNotFound, TypeOK
  <1>5. ASSUME NEW c \in Cr, BeginDelete(c) PROVE TypeOK'
    <2>1. [NoRound(c) EXCEPT !.step = "deleteCert", !.ac = cr[c]] \in Round
      <3> DEFINE r == NoRound(c)
                 y == cr[c]
      <3>1. r \in Round /\ y \in Resource
        BY Typed, NoRoundType
      <3> HIDE DEF r, y
      <3>2. [r EXCEPT !.step = "deleteCert", !.ac = y] \in Round
        BY <3>1 DEF Round
      <3> QED BY <3>2 DEF r, y
    <2> QED BY <1>5, <1>a, <2>1 DEF BeginDelete, TypeOK
  <1>6. ASSUME NEW c \in Cr, SyncCr(c) \/ SyncCert(c) \/ TimerFires(c) PROVE TypeOK'
    BY <1>6, <1>a DEF SyncCr, SyncCert, TimerFires, TypeOK
  <1>7. ASSUME NEW c \in Cr, Issue(c) PROVE TypeOK'
    <2>1. cert[c] # NoCert /\ cert[c] \in Cert /\ cert[c].secretName \in Name
      BY <1>7, Typed, CertNames DEF Issue
    <2>2. [cert[c] EXCEPT !.ready = TRUE] \in CertOrNone
      BY <2>1 DEF Cert, CertOrNone
    <2>3. cert' \in [Cr -> CertOrNone] /\ events' \subseteq Cr
      BY <1>7, <2>2, SetCertType DEF Issue
    <2>4. secret' \in [Name -> Owner]
      BY <1>7, <2>1 DEF Issue, TypeOK, Owner
    <2> QED BY <1>7, <1>d, <2>1, <2>3, <2>4 DEF Issue, TypeOK
  <1>8. ASSUME NEW c \in Cr, Unready(c) PROVE TypeOK'
    <2>1. cert[c] \in Cert
      BY <1>8, Typed, CertNames DEF Unready
    <2>2. [cert[c] EXCEPT !.ready = FALSE] \in CertOrNone
      BY <2>1 DEF Cert, CertOrNone
    <2>3. cert' \in [Cr -> CertOrNone] /\ events' \subseteq Cr
      BY <1>8, <2>2, SetCertType DEF Unready
    <2> QED BY <1>8, <2>3 DEF Unready, TypeOK
  <1>9. ASSUME NEW c \in Cr, CollectCertificate(c) \/ RemoveCertificate(c) PROVE TypeOK'
    <2>1. NoCert \in CertOrNone /\ SetCert(c, NoCert)
      BY <1>9 DEF CollectCertificate, RemoveCertificate, CertOrNone
    <2>2. cert' \in [Cr -> CertOrNone] /\ events' \subseteq Cr
      BY <2>1, SetCertType
    <2> QED BY <1>9, <1>c, <2>2 DEF CollectCertificate, RemoveCertificate, TypeOK
  <1>10. ASSUME NEW c \in Cr, EditSecretName(c) \/ EditIssuer(c) \/ DeleteCr(c) PROVE TypeOK'
    <2>1. cr' \in [Cr -> Resource]
      <3>1. PICK x \in Resource : cr' = [cr EXCEPT ![c] = x]
        <4>1. cr[c] \in Resource
          BY Typed
        <4>2. \/ \E n \in Name : cr' = [cr EXCEPT ![c].secretName = n]
              \/ \E i \in IssuerOrNone : cr' = [cr EXCEPT ![c].issuer = i]
              \/ cr' = [cr EXCEPT ![c].phase = "deleting"]
          BY <1>10 DEF EditSecretName, EditIssuer, DeleteCr
        <4> QED BY <4>1, <4>2, ResourceTypes
      <3> QED BY <3>1 DEF TypeOK
    <2>2. named' \in [Cr -> SUBSET Issuer]
      BY <1>10 DEF EditSecretName, EditIssuer, DeleteCr, TypeOK, IssuerOrNone
    <2> QED BY <1>10, <1>c, <2>1, <2>2 DEF EditSecretName, EditIssuer, DeleteCr, TypeOK
  <1>11. ASSUME NEW n \in Name, MakeSecret(n) \/ RemoveSecret(n) PROVE TypeOK'
    <2>1. secret' \in [Name -> Owner]
      BY <1>11 DEF MakeSecret, RemoveSecret, TypeOK, Owner
    <2>2. contested' \in [Cr -> SUBSET Name]
      BY <1>11, <1>d DEF MakeSecret, RemoveSecret, TypeOK
    <2> QED BY <1>11, <1>c, <2>1, <2>2 DEF MakeSecret, RemoveSecret, TypeOK
  <1> QED BY <1>1, <1>2, <1>3, <1>4, <1>5, <1>6, <1>7, <1>8, <1>9, <1>10, <1>11 DEF Next, Start

\* The initial states have their types, and every Secret that a Certificate left by
\* an earlier installation names is its CR's.
LEMMA InitFacts ==
  ASSUME Init
  PROVE  /\ TypeOK
         /\ \A c \in Cr : cert[c] # NoCert => secret[cert[c].secretName] = c
         /\ \A c \in Cr : cr[c] = Fresh(c) /\ ccr[c] = Fresh(c) /\ ccert[c] = cert[c]
         /\ round.step = "idle"
         /\ \A c \in Cr : named[c] = {cert[c].issuer} \ {NoIssuer}
  <1>1. PICK old \in SUBSET Bootstrap, i \in Issuer :
          /\ cert = [c \in Cr |-> IF c \in old
                                  THEN [secretName |-> DefaultName[c], issuer |-> i, ready |-> TRUE]
                                  ELSE NoCert]
          /\ secret \in {s \in [Name -> Owner] :
                            \A n \in Name :
                                IF \E c \in old : DefaultName[c] = n
                                THEN s[n] \in old /\ DefaultName[s[n]] = n
                                ELSE s[n] \in {Absent, ByHand}}
    BY DEF Init
  <1>2. (CHOOSE c \in Cr : TRUE) \in Cr
    BY NameAssumption
  <1>3. NoRound(CHOOSE c \in Cr : TRUE) \in Round
    BY <1>2, NoRoundType
  <1>4. cert \in [Cr -> CertOrNone]
    BY <1>1, NameAssumption DEF CertOrNone, Cert
  <1>5. \A c \in Cr : Fresh(c) \in Resource
    BY DEF Fresh, Resource, NoStatus, Status, IssuerOrNone
  <1>6. \A c \in Cr : {cert[c].issuer} \ {NoIssuer} \subseteq Issuer
    BY <1>4, CertNames DEF IssuerOrNone
  <1>7. TypeOK
    BY <1>1, <1>3, <1>4, <1>5, <1>6, NameAssumption, BoundAssumption
       DEF Init, TypeOK, IssuerOrNone
  <1>8. ASSUME NEW c \in Cr, cert[c] # NoCert PROVE secret[cert[c].secretName] = c
    <2>1. c \in old /\ cert[c].secretName = DefaultName[c]
      BY <1>1, <1>8
    <2>2. old \subseteq Cr /\ DefaultName[c] \in Name
      BY NameAssumption
    <2>3. secret[DefaultName[c]] \in old /\ DefaultName[secret[DefaultName[c]]] = DefaultName[c]
      BY <1>1, <2>1, <2>2
    <2> QED BY <2>1, <2>2, <2>3, NameAssumption
  <1>9. round.step = "idle"
    BY <1>2, NoRoundType DEF Init
  <1> QED BY <1>7, <1>8, <1>9 DEF Init
-----------------------------------------------------------------------------
(* Issuers *)



\* The steps of the round write only the issuer they resolved.
LEMMA RoundIssuers ==
  ASSUME TypeOK, IssuersNamed, ContinueRound
  PROVE  IssuersNamed'
  <1> USE DEF crVars, certVars, histVars
  <1>0. round.c \in Cr /\ round.ac \in Resource /\ round.orig \in Status
        /\ round.ac.status \in Status /\ cr[round.c] \in Resource /\ cr[round.c].status \in Status
        /\ cr \in [Cr -> Resource] /\ cert \in [Cr -> CertOrNone] /\ round \in Round
    BY Typed DEF TypeOK, Round, Resource
  \* A status patch that brings in no other issuer than the resolved one.
  <1>a. ASSUME NEW s \in Status, PatchStatus(s), s.pin \in named[round.c], UNCHANGED named
        PROVE  \A c \in Cr : /\ cr'[c].issuer = cr[c].issuer
                             /\ cr'[c].status.pin \in named[c] \cup {NoIssuer}
    <2>1. MergePatch(cr[round.c].status, round.orig, s).pin \in named[round.c] \cup {NoIssuer}
      BY <1>0, <1>a, PatchType DEF IssuersNamed
    <2>2. /\ \A c \in Cr : c # round.c => cr'[c] = cr[c]
          /\ cr'[round.c] = [cr[round.c] EXCEPT !.status = MergePatch(@, round.orig, s)]
      BY <1>0, <1>a DEF PatchStatus
    <2>3. /\ cr'[round.c].issuer = cr[round.c].issuer
          /\ cr'[round.c].status = MergePatch(cr[round.c].status, round.orig, s)
      BY <1>0, <2>2 DEF Resource
    <2> QED BY <2>1, <2>2, <2>3 DEF IssuersNamed
  <1>b. ASSUME UNCHANGED <<crVars, certVars, named>>,
               round'.step \in Resolving => round.step \in Resolving /\ round'.c = round.c
                                            /\ round'.ac = round.ac
        PROVE  IssuersNamed'
    BY <1>b DEF IssuersNamed
  <1>c. ASSUME NEW q, EndRound(q) PROVE round'.step \notin Resolving
    BY <1>0, <1>c, NoRoundType DEF EndRound, Resolving
  <1>d. ASSUME NEW t, round' = [round EXCEPT !.step = t]
        PROVE  round'.step = t /\ round'.c = round.c /\ round'.ac = round.ac
    BY <1>0, <1>d DEF Round
  <1>2. CASE Guard
    <2>1. CASE PatchStatus(round.ac.status) /\ EndRound(ConflictRequeue)
      <3>1. UNCHANGED <<ccr, certVars, named>> /\ round.step = "guard"
        BY <1>2 DEF Guard
      <3>2. round.ac.status.pin \in named[round.c]
        BY <3>1 DEF IssuersNamed, Resolving
      <3> QED BY <1>0, <1>a, <1>c, <2>1, <3>1, <3>2 DEF IssuersNamed
    <2>2. CASE /\ round' = [round EXCEPT !.step = "finish"] \/ round' = [round EXCEPT !.step = "sync"]
               /\ UNCHANGED <<cr, wake>>
      <3>1. UNCHANGED <<ccr, certVars, named>> /\ round.step = "guard"
        BY <1>2 DEF Guard
      <3> QED BY <1>b, <1>d, <2>2, <3>1 DEF Resolving
    <2> QED BY <1>2, <2>1, <2>2 DEF Guard
  <1>3. CASE SyncCertificate
    <2> DEFINE x == [secretName |-> Wanted, issuer |-> round.ac.status.pin,
                     ready |-> ccert[round.c].ready]
    <2>0. /\ round.step = "sync" /\ (cert' = cert \/ cert' = [cert EXCEPT ![round.c] = x])
          /\ round' = [round EXCEPT !.step = "finish", !.existing = x]
          /\ UNCHANGED <<crVars, ccert, named>>
      BY <1>3 DEF SyncCertificate, SetCert
    <2>1. x.issuer = round.ac.status.pin /\ round.ac.status.pin \in named[round.c]
      BY <2>0 DEF IssuersNamed, Resolving
    <2> HIDE DEF x
    <2>2. round'.ac = round.ac /\ round'.c = round.c
      BY <1>0, <2>0 DEF Round
    <2>3. \A c \in Cr : cert'[c].issuer \in named[c] \cup {NoIssuer}
      BY <1>0, <2>0, <2>1 DEF IssuersNamed
    <2> QED BY <2>0, <2>1, <2>2, <2>3 DEF IssuersNamed
  <1>4. CASE SyncRefused
    BY <1>4, <1>b, <1>c DEF SyncRefused
  <1>5. CASE Finish
    <2> DEFINE x == [round.ac EXCEPT !.status.secretName = round.existing.secretName]
    <2>0. /\ PatchStatus(x.status) /\ EndRound(FinishRequeue(x)) /\ round.step = "finish"
          /\ UNCHANGED <<ccr, certVars, named>>
      BY <1>5 DEF Finish
    <2>1. x.status \in Status /\ x.status.pin = round.ac.status.pin
      <3>1. round.existing.secretName \in Name \cup {Unset}
        BY <1>0, CertNames DEF Round
      <3> QED BY <1>0, <3>1 DEF Resource, Status
    <2> HIDE DEF x
    <2>2. x.status.pin \in named[round.c]
      BY <2>0, <2>1 DEF IssuersNamed, Resolving
    <2> QED BY <1>a, <1>c, <2>0, <2>1, <2>2 DEF IssuersNamed
  <1>6. CASE DeleteCertificate
    <2>0. UNCHANGED <<crVars, ccert, named>>
      BY <1>6 DEF DeleteCertificate
    <2>1. cert' = cert \/ cert' = [cert EXCEPT ![round.c] = NoCert]
      BY <1>6 DEF DeleteCertificate, SetCert
    <2>2. \A c \in Cr : cert'[c].issuer \in named[c] \cup {NoIssuer}
      BY <1>0, <2>1 DEF IssuersNamed, NoCert
    <2>3. round'.step \notin Resolving
      <3>1. \/ \E q : EndRound(q)
            \/ round' = [round EXCEPT !.step = "readSecret", !.unseen = cert[round.c] # NoCert]
        BY <1>6 DEF DeleteCertificate
      <3> QED BY <1>0, <1>c, <3>1 DEF Resolving, Round
    <2> QED BY <2>0, <2>2, <2>3 DEF IssuersNamed
  <1>7. CASE ReadSecret \/ EraseSecret
    <2>1. /\ round' = [round EXCEPT !.step = "eraseSecret"] \/ round' = [round EXCEPT !.step = "finalize"]
          /\ UNCHANGED <<crVars, certVars, named>>
      BY <1>7 DEF ReadSecret, EraseSecret
    <2> QED BY <1>b, <1>d, <2>1 DEF Resolving
  <1>8. CASE Finalize
    <2>1. /\ \E p \in {"gone", cr[round.c].phase} : cr' = [cr EXCEPT ![round.c].phase = p]
          /\ \E q : EndRound(q)
          /\ UNCHANGED <<ccr, certVars, named>>
      BY <1>8 DEF Finalize
    <2>2. \A c \in Cr : cr'[c].issuer = cr[c].issuer /\ cr'[c].status = cr[c].status
      BY <1>0, <2>1 DEF Resource
    <2> QED BY <1>c, <2>1, <2>2 DEF IssuersNamed
  <1> QED BY <1>2, <1>3, <1>4, <1>5, <1>6, <1>7, <1>8 DEF ContinueRound

\* So do all other steps; the flag counts when the caches show neither pin nor
\* Certificate.
LEMMA OtherIssuers ==
  ASSUME TypeOK, IssuersNamed, Next, ~ContinueRound
  PROVE  IssuersNamed'
  <1> USE DEF crVars, certVars, histVars
  <1>0. /\ round.c \in Cr /\ round \in Round
        /\ cr \in [Cr -> Resource] /\ cert \in [Cr -> CertOrNone]
        /\ ccr \in [Cr -> Resource] /\ ccert \in [Cr -> CertOrNone]
        /\ named \in [Cr -> SUBSET Issuer]
    BY DEF TypeOK, Round
  <1>a. ASSUME UNCHANGED <<cr, cert, named>>, ccr' \in {ccr, cr}, ccert' \in {ccert, cert},
               round'.step \in Resolving => round' = round
        PROVE  IssuersNamed'
    BY <1>a DEF IssuersNamed
  \* Certificates whose issuer stays or that go.
  <1>b. ASSUME NEW c \in Cr, NEW x, SetCert(c, x), x.issuer \in {cert[c].issuer, NoIssuer},
               UNCHANGED <<crVars, ccert, named, round>>
        PROVE  IssuersNamed'
    <2>1. \A d \in Cr : cert'[d].issuer \in {cert[d].issuer, NoIssuer}
      BY <1>0, <1>b DEF SetCert
    <2> QED BY <1>b, <2>1 DEF IssuersNamed
  <1>1. CASE RoundFails
    <2>1. round'.step \notin Resolving
      BY <1>0, <1>1, NoRoundType DEF RoundFails, EndRound, Resolving
    <2> QED BY <1>1, <1>a, <2>1 DEF RoundFails
  <1>2. CASE Restart
    <2>1. round'.step \notin Resolving
      BY <1>0, <1>2, NoRoundType DEF Restart, Resolving
    <2> QED BY <1>2, <2>1 DEF Restart, IssuersNamed
  <1>3. ASSUME NEW c \in Cr, BeginRound(c) PROVE IssuersNamed'
    <2> DEFINE p == ResolveIssuerRef(ccr[c], ccert[c])
    <2>1. \A d \in Cr : named[d] \subseteq named'[d]
      BY <1>0, <1>3 DEF BeginRound
    <2>2. Resolved(p) => p \in named'[c]
      <3> SUFFICES ASSUME Resolved(p) PROVE p \in named'[c]
        OBVIOUS
      <3>1. CASE Unpinned(c)
        <4>1. p = default
          BY <3>1 DEF Unpinned, ResolveIssuerRef
        <4> QED BY <1>0, <1>3, <3>1, <4>1 DEF BeginRound, Resolved
      <3>2. CASE ~Unpinned(c)
        <4>1. p \in {ccr[c].issuer, ccr[c].status.pin, ccert[c].issuer}
          BY <3>2 DEF Unpinned, ResolveIssuerRef
        <4> QED BY <2>1, <4>1 DEF IssuersNamed, Resolved
      <3> QED BY <3>1, <3>2
    <2>3. \/ round' = NoRound(c)
          \/ Resolved(p) /\ round' = [step |-> "guard", c |-> c, existing |-> ccert[c],
                       ac |-> [ccr[c] EXCEPT !.status.pin = p],
                       orig |-> ccr[c].status, unseen |-> FALSE]
      BY <1>3 DEF BeginRound
    <2>4. [ccr[c] EXCEPT !.status.pin = p].status.pin = p
      BY <1>0 DEF Resource, Status
    <2> HIDE DEF p
    <2>5. round'.step \in Resolving => round'.c = c /\ round'.ac.status.pin = p /\ Resolved(p)
      <3>1. CASE round' = NoRound(c)
        BY <3>1, NoRoundType DEF Resolving
      <3>2. CASE Resolved(p) /\ round' = [step |-> "guard", c |-> c, existing |-> ccert[c],
                       ac |-> [ccr[c] EXCEPT !.status.pin = p],
                       orig |-> ccr[c].status, unseen |-> FALSE]
        BY <2>4, <3>2
      <3> QED BY <2>3, <3>1, <3>2
    <2> QED BY <1>3, <2>1, <2>2, <2>5 DEF BeginRound, IssuersNamed
  <1>4. ASSUME NEW c \in Cr, BeginNotFound(c) PROVE IssuersNamed'
    BY <1>4, <1>a DEF BeginNotFound
  <1>5. ASSUME NEW c \in Cr, BeginDelete(c) PROVE IssuersNamed'
    <2> DEFINE r == NoRound(c)
    <2>1. r \in Round
      BY NoRoundType
    <2> HIDE DEF r
    <2>2. round' = [r EXCEPT !.step = "deleteCert", !.ac = cr[c]]
      BY <1>5 DEF BeginDelete, r
    <2>3. round'.step \notin Resolving
      BY <2>1, <2>2 DEF Round, Resolving
    <2> QED BY <1>5, <1>a, <2>3 DEF BeginDelete
  <1>6. ASSUME NEW c \in Cr, SyncCr(c) \/ SyncCert(c) \/ TimerFires(c) PROVE IssuersNamed'
    <2>1. /\ \A d \in Cr : ccr'[d] \in {ccr[d], cr[d]} /\ ccert'[d] \in {ccert[d], cert[d]}
          /\ UNCHANGED <<cr, cert, named, round>>
      BY <1>0, <1>6 DEF SyncCr, SyncCert, TimerFires
    <2> QED BY <2>1 DEF IssuersNamed
  <1>7. ASSUME NEW c \in Cr, Issue(c) PROVE IssuersNamed'
    <2>1. cert[c] \in Cert
      BY <1>7, Typed, CertNames DEF Issue
    <2>2. [cert[c] EXCEPT !.ready = TRUE].issuer = cert[c].issuer
      BY <2>1 DEF Cert
    <2> QED BY <1>7, <1>b, <2>2 DEF Issue
  <1>8. ASSUME NEW c \in Cr, Unready(c) PROVE IssuersNamed'
    <2>1. cert[c] \in Cert
      BY <1>8, Typed, CertNames DEF Unready
    <2>2. [cert[c] EXCEPT !.ready = FALSE].issuer = cert[c].issuer
      BY <2>1 DEF Cert
    <2> QED BY <1>8, <1>b, <2>2 DEF Unready
  <1>9. ASSUME NEW c \in Cr, CollectCertificate(c) \/ RemoveCertificate(c) PROVE IssuersNamed'
    BY <1>9, <1>b DEF CollectCertificate, RemoveCertificate, NoCert
  <1>10. ASSUME NEW c \in Cr, EditSecretName(c) \/ DeleteCr(c) PROVE IssuersNamed'
    <2>1. \A d \in Cr : cr'[d].issuer = cr[d].issuer /\ cr'[d].status = cr[d].status
      <3>1. CASE EditSecretName(c)
        <4>1. PICK n \in Name : cr' = [cr EXCEPT ![c].secretName = n]
          BY <3>1 DEF EditSecretName
        <4> QED BY <1>0, <4>1 DEF Resource
      <3>2. CASE DeleteCr(c)
        BY <1>0, <3>2 DEF DeleteCr, Resource
      <3> QED BY <1>10, <3>1, <3>2
    <2> QED BY <1>10, <2>1 DEF EditSecretName, DeleteCr, IssuersNamed
  <1>11. ASSUME NEW c \in Cr, EditIssuer(c) PROVE IssuersNamed'
    <2>1. PICK i \in IssuerOrNone : /\ cr' = [cr EXCEPT ![c].issuer = i]
                                    /\ named' = [named EXCEPT ![c] = @ \cup ({i} \ {NoIssuer})]
      BY <1>11 DEF EditIssuer
    <2>2. /\ \A d \in Cr : cr'[d].status = cr[d].status
          /\ cr'[c].issuer = i /\ \A d \in Cr : d # c => cr'[d].issuer = cr[d].issuer
          /\ \A d \in Cr : named[d] \subseteq named'[d]
          /\ named'[c] = named[c] \cup ({i} \ {NoIssuer})
      BY <1>0, <2>1 DEF Resource
    <2>3. UNCHANGED <<ccr, cert, ccert, round>>
      BY <1>11 DEF EditIssuer
    <2> QED BY <1>0, <2>2, <2>3 DEF IssuersNamed
  <1>12. ASSUME NEW n \in Name, MakeSecret(n) \/ RemoveSecret(n) PROVE IssuersNamed'
    BY <1>12, <1>a DEF MakeSecret, RemoveSecret
  <1> QED BY <1>1, <1>2, <1>3, <1>4, <1>5, <1>6, <1>7, <1>8, <1>9, <1>10, <1>11, <1>12
          DEF Next, Start

\* TypeOK and IssuersNamed hold together: SyncCertificate needs an issuer to write
\* a Certificate at all.
LEMMA IssuersHold == Spec => [](TypeOK /\ IssuersNamed)
  <1>1. Init => TypeOK /\ IssuersNamed
    BY InitFacts DEF IssuersNamed, Fresh, NoStatus, Resolving
  <1>2. TypeOK /\ IssuersNamed /\ [Next]_vars => (TypeOK /\ IssuersNamed)'
    <2>1. CASE UNCHANGED vars
      BY <2>1 DEF vars, crVars, certVars, histVars, TypeOK, IssuersNamed
    <2> QED BY <2>1, RoundTypes, OtherTypes, RoundIssuers, OtherIssuers
  <1> QED BY <1>1, <1>2, PTL DEF Spec

\* The state of the guards and the issuer resolution is well typed: the Certificate a
\* round writes always names a Secret and an issuer, and so does the status.
THEOREM IssuanceTypes == Spec => []TypeOK
  BY IssuersHold, PTL

\* IssuerPinned, for every namespace, every flag and any number of edits, faults and
\* restarts: ResolveIssuerRef re-issues a Certificate only for an issuer its CR came
\* by rightly.
THEOREM IssuersArePinned == Spec => IssuerPinned
  <1>1. TypeOK /\ IssuersNamed /\ (TypeOK /\ IssuersNamed)' /\ [Next]_vars =>
          [\A c \in Cr :
             cert[c] # NoCert /\ cert'[c] # NoCert /\ cert'[c].issuer # cert[c].issuer =>
                 cert'[c].issuer \in named[c]]_vars
    <2> SUFFICES ASSUME TypeOK, IssuersNamed, TypeOK', IssuersNamed', Next,
                        NEW c \in Cr, cert'[c] # NoCert, cert'[c].issuer # cert[c].issuer
                 PROVE  cert'[c].issuer \in named[c]
      OBVIOUS
    <2>1. cert'[c].issuer \in Issuer
      BY CertNames DEF TypeOK
    <2>2. cert'[c].issuer \in named'[c]
      BY <2>1, NameAssumption DEF IssuersNamed
    <2>3. named' = named
      <3>1. CASE ContinueRound
        BY <3>1 DEF ContinueRound, Guard, SyncCertificate, SyncRefused, Finish, DeleteCertificate,
             ReadSecret, EraseSecret, Finalize, histVars
      <3>2. CASE ~ContinueRound
        <4>1. \/ \E d \in Cr : Issue(d) \/ Unready(d) \/ CollectCertificate(d) \/ RemoveCertificate(d)
              \/ cert' = cert
          BY <3>2 DEF Next, Start, RoundFails, Restart, BeginRound, BeginNotFound, BeginDelete,
               SyncCr, SyncCert, TimerFires, EditSecretName, EditIssuer, DeleteCr,
               MakeSecret, RemoveSecret, crVars, certVars
        <4> QED BY <4>1 DEF Issue, Unready, CollectCertificate, RemoveCertificate, histVars
      <3> QED BY <3>1, <3>2
    <2> QED BY <2>2, <2>3
  <1> QED BY <1>1, IssuersHold, PTL DEF Spec, IssuerPinned
-----------------------------------------------------------------------------
(* Deletion *)

\* What a step leaves of the round, in which cert-manager and users may act.
LEMMA SeenFrame ==
  ASSUME TypeOK, DeletionSeen, UNCHANGED round,
         cert'[round.c] # NoCert => cert[round.c] # NoCert,
         secret'[Serving] = round.c => secret[Serving] = round.c \/ cert[round.c] # NoCert
  PROVE  DeletionSeen'
  BY DEF DeletionSeen, Serving, ServingSecretName, SecretNameFor

\* DeletionSeen is kept: while a round deletes, nobody creates the Certificate, and
\* without a Certificate cert-manager does not write its Secret.
LEMMA SeenStep ==
  ASSUME TypeOK, DeletionSeen, Next
  PROVE  DeletionSeen'
  <1> USE DEF crVars, certVars, histVars
  <1>0. /\ round \in Round /\ round.c \in Cr /\ round.ac \in Resource
        /\ cert \in [Cr -> CertOrNone] /\ secret \in [Name -> Owner]
    BY DEF TypeOK, Round
  <1>1. Serving \in Name
    BY <1>0, NameTypes DEF Serving
  <1>a. ASSUME round'.step \notin {"readSecret", "eraseSecret", "finalize"} PROVE DeletionSeen'
    BY <1>a DEF DeletionSeen
  <1>b. ASSUME NEW q, EndRound(q) PROVE DeletionSeen'
    BY <1>0, <1>a, <1>b, NoRoundType DEF EndRound
  <1>c. ASSUME UNCHANGED <<round, cert, secret>> PROVE DeletionSeen'
    BY <1>c, SeenFrame
  <1>d. ASSUME NEW t, round' = [round EXCEPT !.step = t]
        PROVE  /\ round'.step = t /\ round'.c = round.c /\ round'.unseen = round.unseen
               /\ Serving' = Serving
    BY <1>0, <1>d DEF Round, Serving, ServingSecretName, SecretNameFor
  <1>2. CASE ContinueRound
    <2>1. CASE Guard
      <3>1. \/ EndRound(ConflictRequeue)
            \/ round' = [round EXCEPT !.step = "finish"] \/ round' = [round EXCEPT !.step = "sync"]
        BY <2>1 DEF Guard
      <3> QED BY <1>a, <1>b, <1>d, <3>1
    <2>2. CASE SyncCertificate
      <3>1. \E x : round' = [round EXCEPT !.step = "finish", !.existing = x]
        BY <2>2 DEF SyncCertificate
      <3>2. round'.step = "finish"
        BY <1>0, <3>1 DEF Round
      <3> QED BY <1>a, <3>2
    <2>3. CASE SyncRefused \/ Finish \/ Finalize
      <3>1. \E q : EndRound(q)
        BY <2>3 DEF SyncRefused, Finish, Finalize
      <3> QED BY <1>b, <3>1
    <2>4. CASE DeleteCertificate
      <3>1. CASE EndRound("later")
        BY <1>b, <3>1
      <3>2. CASE /\ round' = [round EXCEPT !.step = "readSecret", !.unseen = cert[round.c] # NoCert]
                 /\ cert' = cert
        <4>1. round'.step = "readSecret" /\ round'.c = round.c
              /\ (round'.unseen <=> cert[round.c] # NoCert)
          BY <1>0, <3>2 DEF Round
        <4> QED BY <3>2, <4>1 DEF DeletionSeen
      <3> QED BY <2>4, <3>1, <3>2 DEF DeleteCertificate
    <2>5. CASE ReadSecret
      <3>1. /\ round.step = "readSecret" /\ UNCHANGED <<cert, secret>>
            /\ round' = [round EXCEPT !.step =
                           IF secret[Serving] = round.c THEN "eraseSecret" ELSE "finalize"]
        BY <2>5 DEF ReadSecret
      <3>2. CASE secret[Serving] = round.c
        BY <1>d, <3>1, <3>2 DEF DeletionSeen
      <3>3. CASE secret[Serving] # round.c
        BY <1>d, <3>1, <3>3 DEF DeletionSeen
      <3> QED BY <3>2, <3>3
    <2>6. CASE EraseSecret
      <3>1. /\ round.step = "eraseSecret" /\ cert' = cert
            /\ secret' = [secret EXCEPT ![Serving] = Absent]
            /\ round' = [round EXCEPT !.step = "finalize"]
        BY <2>6 DEF EraseSecret
      <3>2. secret'[Serving] = Absent /\ Absent # round.c
        BY <1>0, <1>1, <3>1, NameAssumption
      <3> QED BY <1>d, <3>1, <3>2 DEF DeletionSeen
    <2> QED BY <1>2, <2>1, <2>2, <2>3, <2>4, <2>5, <2>6 DEF ContinueRound
  <1>3. CASE RoundFails
    BY <1>3, <1>b DEF RoundFails
  <1>4. CASE Restart
    BY <1>0, <1>4, <1>a, NoRoundType DEF Restart
  <1>5. ASSUME NEW c \in Cr, Start(c) PROVE DeletionSeen'
    <2>1. CASE BeginRound(c)
      BY <1>a, <2>1, NoRoundType DEF BeginRound
    <2>2. CASE BeginNotFound(c)
      BY <1>c, <2>2 DEF BeginNotFound
    <2>3. CASE BeginDelete(c)
      <3> DEFINE r == NoRound(c)
      <3>1. r \in Round
        BY NoRoundType
      <3> HIDE DEF r
      <3>2. round' = [r EXCEPT !.step = "deleteCert", !.ac = cr[c]]
        BY <2>3 DEF BeginDelete, r
      <3>3. round'.step = "deleteCert"
        BY <3>1, <3>2 DEF Round
      <3> QED BY <1>a, <3>3
    <2> QED BY <1>5, <2>1, <2>2, <2>3 DEF Start
  <1>6. ASSUME NEW c \in Cr, Issue(c) PROVE DeletionSeen'
    <2>1. /\ cert[c] # NoCert /\ round' = round
          /\ \A d \in Cr : d # c => cert'[d] = cert[d]
          /\ \A n \in Name : secret'[n] \in {secret[n], c}
      BY <1>0, <1>6 DEF Issue, SetCert
    <2> QED BY <1>0, <1>1, <2>1, SeenFrame
  <1>7. ASSUME NEW c \in Cr, Unready(c) \/ CollectCertificate(c) \/ RemoveCertificate(c)
        PROVE  DeletionSeen'
    <2>1. /\ cert[c] # NoCert /\ round' = round /\ secret' = secret
          /\ \A d \in Cr : d # c => cert'[d] = cert[d]
      BY <1>0, <1>7, CertNames DEF Unready, CollectCertificate, RemoveCertificate, SetCert
    <2> QED BY <1>0, <2>1, SeenFrame
  <1>8. ASSUME NEW c \in Cr, \/ SyncCr(c) \/ SyncCert(c) \/ TimerFires(c)
                             \/ EditSecretName(c) \/ EditIssuer(c) \/ DeleteCr(c)
        PROVE  DeletionSeen'
    <2>1. UNCHANGED <<round, cert, secret>>
      BY <1>8 DEF SyncCr, SyncCert, TimerFires, EditSecretName, EditIssuer, DeleteCr
    <2> QED BY <1>c, <2>1
  <1>9. ASSUME NEW n \in Name, MakeSecret(n) \/ RemoveSecret(n) PROVE DeletionSeen'
    <2>1. /\ UNCHANGED <<round, cert>>
          /\ \A m \in Name : secret'[m] \in {secret[m], ByHand, Absent}
      BY <1>0, <1>9 DEF MakeSecret, RemoveSecret
    <2> QED BY <1>0, <1>1, <2>1, SeenFrame, NameAssumption
  <1> QED BY <1>2, <1>3, <1>4, <1>5, <1>6, <1>7, <1>8, <1>9 DEF Next

\* KeyRemoved, for every namespace and every interleaving: reconcileDelete lets a CR go
\* only when no Secret of its own is left under the name its status records, unless
\* the cache had not shown its Certificate.
THEOREM KeysAreRemoved == Spec => KeyRemoved
  <1>1. Init => DeletionSeen
    BY InitFacts DEF DeletionSeen
  <1>2. TypeOK /\ DeletionSeen /\ [Next]_vars => DeletionSeen'
    <2>1. CASE UNCHANGED vars
      BY <2>1, SeenFrame DEF vars, certVars
    <2> QED BY <2>1, SeenStep
  <1>3. TypeOK /\ DeletionSeen /\ [Next]_vars =>
          [\A c \in Cr, n \in Name :
              (/\ cr[c].phase # "gone" /\ cr'[c].phase = "gone"
               /\ cr[c].status.secretName = n
               /\ secret[n] = c) => round.unseen]_vars
    <2> SUFFICES ASSUME TypeOK, DeletionSeen, Next, NEW c \in Cr, NEW n \in Name,
                        cr[c].phase # "gone", cr'[c].phase = "gone",
                        cr[c].status.secretName = n, secret[n] = c
                 PROVE  round.unseen
      OBVIOUS
    <2>0. cr \in [Cr -> Resource] /\ round \in Round /\ round.c \in Cr
      BY DEF TypeOK, Round
    <2>1. ASSUME NEW s, PatchStatus(s) PROVE FALSE
      <3>1. cr'[c].phase = cr[c].phase
        BY <2>0, <2>1 DEF PatchStatus, Resource
      <3> QED BY <3>1
    <2>2. CASE Finalize
      <3>1. /\ round.step = "finalize" /\ c = round.c /\ cr[c] = round.ac
        BY <2>0, <2>2 DEF Finalize, Resource
      <3>2. Serving = n
        BY <3>1, NameAssumption DEF Serving, ServingSecretName
      <3> QED BY <3>1, <3>2 DEF DeletionSeen
    <2>3. CASE ContinueRound /\ ~Finalize
      BY <2>1, <2>3 DEF ContinueRound, Guard, SyncCertificate, SyncRefused, Finish,
           DeleteCertificate, ReadSecret, EraseSecret, crVars
    <2>4. ASSUME NEW d \in Cr, EditSecretName(d) \/ EditIssuer(d) \/ DeleteCr(d) PROVE FALSE
      <3>1. CASE EditSecretName(d)
        <4>1. PICK m \in Name : cr' = [cr EXCEPT ![d].secretName = m]
          BY <3>1 DEF EditSecretName
        <4> QED BY <2>0, <4>1 DEF Resource
      <3>2. CASE EditIssuer(d)
        <4>1. PICK i \in IssuerOrNone : cr' = [cr EXCEPT ![d].issuer = i]
          BY <3>2 DEF EditIssuer
        <4> QED BY <2>0, <4>1 DEF Resource
      <3>3. CASE DeleteCr(d)
        BY <2>0, <3>3 DEF DeleteCr, Resource
      <3> QED BY <2>4, <3>1, <3>2, <3>3
    <2>5. CASE ~ContinueRound /\ cr' = cr
      BY <2>5
    <2>6. CASE ~ContinueRound /\ cr' # cr
      BY <2>4, <2>6 DEF Next, Start, RoundFails, Restart, BeginRound, BeginNotFound, BeginDelete,
           SyncCr, SyncCert, TimerFires, Issue, Unready, CollectCertificate, RemoveCertificate,
           MakeSecret, RemoveSecret, crVars
    <2> QED BY <2>2, <2>3, <2>5, <2>6
  <1> QED BY <1>1, <1>2, <1>3, IssuersHold, PTL DEF Spec, KeyRemoved
-----------------------------------------------------------------------------
(* Secrets of others *)

\* The names the round works with depend on the CR it read only.
LEMMA RoundKeepsNames ==
  ASSUME NEW r \in Round, r = round, round'.c = r.c, round'.ac = r.ac
  PROVE  Wanted' = Wanted /\ Serving' = Serving
  BY DEF Wanted, Serving, ServingSecretName, SecretNameFor

\* Names stay guarded where only contested names grow, Secrets pass to nobody else
\* unnoticed, and the Certificates keep their names.
LEMMA GuardedFrame ==
  ASSUME TypeOK, NamesGuarded,
         \A c \in Cr, n \in Name : Foreign(c, n)' => Foreign(c, n),
         \A c \in Cr : cert'[c] # NoCert =>
             cert[c] # NoCert /\ cert'[c].secretName = cert[c].secretName,
         \A c \in Cr : c \notin events' => ccert'[c] = cert'[c],
         UNCHANGED round \/ round'.step \notin {"sync", "eraseSecret"}
  PROVE  NamesGuarded'
  <1>1. \A c \in Cr : cert'[c] # NoCert => cert'[c].secretName \in Name
    BY CertNames DEF TypeOK
  <1>2. \A c \in Cr : cert'[c] # NoCert => ~Foreign(c, cert[c].secretName)'
    BY <1>1 DEF NamesGuarded, Foreign
  <1>3. CASE round'.step \notin {"sync", "eraseSecret"}
    BY <1>2, <1>3 DEF NamesGuarded, Foreign
  <1>4. CASE UNCHANGED round
    <2>1. /\ round.c \in Cr /\ Wanted \in Name /\ Serving \in Name
          /\ Wanted' = Wanted /\ Serving' = Serving
      BY <1>4, NameTypes, RoundKeepsNames DEF TypeOK, Round, Wanted, Serving
    <2>2. round'.step = "sync" /\ round'.existing.secretName # Wanted' => ~Foreign(round.c, Wanted)'
      BY <1>4, <2>1 DEF NamesGuarded, Foreign
    <2>3. round'.step = "eraseSecret" => ~Foreign(round.c, Serving)'
      BY <1>4, <2>1 DEF NamesGuarded, Foreign
    <2> QED BY <1>2, <1>4, <2>1, <2>2, <2>3 DEF NamesGuarded, Foreign
  <1> QED BY <1>3, <1>4

\* Reading a Secret vouches for it, to a CR whose Certificate does not have it yet.
LEMMA ReadFrame ==
  ASSUME TypeOK, NamesGuarded, NEW n \in Name, secret' = secret, cert' = cert,
         contested' = ReadBy(round.c, n)
  PROVE  \A c \in Cr : cert'[c] # NoCert => ~Foreign(c, cert[c].secretName)'
  <1>1. /\ \A c \in Cr : c # round.c => contested'[c] = contested[c]
        /\ contested'[round.c] = IF cert[round.c].secretName # n THEN contested[round.c] \ {n}
                                                                 ELSE contested[round.c]
    BY DEF TypeOK, Round, ReadBy
  <1>2. ASSUME NEW c \in Cr, cert[c] # NoCert
        PROVE  cert[c].secretName \in contested[c] => cert[c].secretName \in contested'[c]
    <2>1. CASE c = round.c
      BY <1>1, <2>1
    <2>2. CASE c # round.c
      BY <1>1, <2>2
    <2> QED BY <2>1, <2>2
  <1> QED BY <1>2 DEF NamesGuarded, Foreign

\* The steps of the round keep the names guarded.
LEMMA RoundGuards ==
  ASSUME TypeOK, NamesGuarded, ContinueRound
  PROVE  NamesGuarded'
  <1> USE DEF crVars, certVars, histVars
  <1>0. /\ round \in Round /\ round.c \in Cr /\ round.ac \in Resource
        /\ round.existing \in CertOrNone
        /\ cert \in [Cr -> CertOrNone] /\ secret \in [Name -> Owner]
        /\ contested \in [Cr -> SUBSET Name] /\ events \subseteq Cr
    BY DEF TypeOK, Round
  <1>1. Serving \in Name /\ Wanted \in Name
    BY <1>0, NameTypes DEF Serving, Wanted
  <1>a. ASSUME NEW t, round' = [round EXCEPT !.step = t]
        PROVE  /\ round'.step = t /\ round'.c = round.c /\ round'.existing = round.existing
               /\ Serving' = Serving /\ Wanted' = Wanted
    BY <1>0, <1>a DEF Round, Serving, Wanted, ServingSecretName, SecretNameFor
  <1>b. ASSUME NEW q, EndRound(q) PROVE round'.step \notin {"sync", "eraseSecret"}
    BY <1>0, <1>b, NoRoundType DEF EndRound
  <1>c. UNCHANGED <<secret, contested>> =>
          \A c \in Cr, n \in Name : Foreign(c, n)' => Foreign(c, n)
    BY DEF Foreign
  <1>d. UNCHANGED certVars =>
          /\ \A c \in Cr : cert'[c] # NoCert =>
                 cert[c] # NoCert /\ cert'[c].secretName = cert[c].secretName
          /\ \A c \in Cr : c \notin events' => ccert'[c] = cert'[c]
    BY DEF NamesGuarded
  <1>2. CASE Guard
    <2>0. round.step = "guard" /\ UNCHANGED <<certVars, secret>>
      BY <1>2 DEF Guard
    <2>1. CASE ~GuardNeeded(round.existing, Wanted)
      <3>1. contested' = contested /\ round' = [round EXCEPT !.step = "sync"]
            /\ round.existing.secretName = Wanted
        BY <1>2, <2>1 DEF Guard, GuardNeeded
      <3>2. round'.step = "sync" /\ round'.existing.secretName = Wanted'
        BY <1>a, <3>1
      <3> QED BY <2>0, <3>1, <3>2 DEF NamesGuarded, Foreign
    <2>2. CASE GuardNeeded(round.existing, Wanted)
      <3>1. contested' = ReadBy(round.c, Wanted)
        BY <1>2, <2>2 DEF Guard
      <3>2. \A c \in Cr : cert'[c] # NoCert => ~Foreign(c, cert[c].secretName)'
        BY <1>1, <2>0, <3>1, ReadFrame
      <3>3. CASE SecretNameConflict(round.c, Wanted)
        <4>1. \/ EndRound(ConflictRequeue)
              \/ round' = [round EXCEPT !.step = "finish"]
          BY <1>2, <2>2, <3>3 DEF Guard
        <4>2. round'.step \notin {"sync", "eraseSecret"}
          BY <1>a, <1>b, <4>1
        <4> QED BY <2>0, <3>2, <4>2 DEF NamesGuarded
      <3>4. CASE ~SecretNameConflict(round.c, Wanted)
        <4>1. round' = [round EXCEPT !.step = "sync"]
          BY <1>2, <3>4 DEF Guard
        <4>2. round'.step = "sync" /\ round'.c = round.c /\ Wanted' = Wanted
          BY <1>a, <4>1
        <4>3. ~Foreign(round.c, Wanted)'
          BY <2>0, <3>4, <4>2 DEF SecretNameConflict, Foreign
        <4> QED BY <2>0, <3>2, <4>2, <4>3 DEF NamesGuarded
      <3> QED BY <3>3, <3>4
    <2> QED BY <2>1, <2>2
  <1>3. CASE SyncCertificate
    <2> DEFINE c == round.c
               x == [secretName |-> Wanted, issuer |-> round.ac.status.pin, ready |-> ccert[c].ready]
    <2>0. /\ round.step = "sync"
          /\ \/ cert' = cert /\ events' = events
             \/ /\ c \notin events \/ {ccert[c], cert[c]} = {NoCert}
                /\ SetCert(c, x)
          /\ round' = [round EXCEPT !.step = "finish", !.existing = x]
          /\ contested' = Unguarded(c, Wanted)
          /\ UNCHANGED <<ccert, secret>>
      BY <1>3 DEF SyncCertificate
    <2>1. x.secretName = Wanted
      OBVIOUS
    <2> HIDE DEF x
    <2>2. round'.step = "finish"
      BY <1>0, <2>0 DEF Round
    <2>3. /\ \A d \in Cr : contested[d] \subseteq contested'[d]
          /\ ccert[c].secretName \notin {Wanted, round.existing.secretName} =>
                 Wanted \in contested'[c]
      BY <1>0, <2>0 DEF Unguarded
    <2>4. CASE cert' = cert /\ events' = events
      <3>1. \A d \in Cr : cert'[d] # NoCert => ~Foreign(d, cert[d].secretName)'
        BY <2>0, <2>3, <2>4 DEF NamesGuarded, Foreign
      <3> QED BY <2>0, <2>2, <2>4, <3>1 DEF NamesGuarded
    <2>5. CASE (c \notin events \/ {ccert[c], cert[c]} = {NoCert}) /\ SetCert(c, x)
      <3>1. cert'[c] = x /\ events' = events \cup {c} /\ \A d \in Cr : d # c => cert'[d] = cert[d]
        BY <1>0, <2>5 DEF SetCert
      <3>2. secret[Wanted] \notin {Absent, c} => Wanted \in contested'[c]
        <4>1. CASE round.existing.secretName # Wanted
          BY <1>0, <2>0, <2>3, <4>1 DEF NamesGuarded, Foreign
        <4>2. CASE round.existing.secretName = Wanted /\ ccert[c].secretName # Wanted
          BY <2>3, <4>2
        <4>3. CASE ccert[c].secretName = Wanted
          <5>1. ccert[c] # NoCert
            BY <1>1, <4>3, NameAssumption DEF NoCert
          <5>2. c \notin events
            BY <2>5, <5>1
          <5>3. cert[c] # NoCert /\ cert[c].secretName = Wanted
            BY <1>0, <4>3, <5>1, <5>2 DEF NamesGuarded
          <5> QED BY <1>0, <2>3, <5>3 DEF NamesGuarded, Foreign
        <4> QED BY <4>1, <4>2, <4>3
      <3>3. ASSUME NEW d \in Cr, cert'[d] # NoCert PROVE ~Foreign(d, cert[d].secretName)'
        <4>1. CASE d = c
          BY <2>0, <2>1, <3>1, <3>2, <4>1 DEF Foreign
        <4>2. CASE d # c
          <5>1. cert'[d] = cert[d]
            BY <3>1, <4>2
          <5> QED BY <2>0, <2>3, <3>3, <5>1 DEF NamesGuarded, Foreign
        <4> QED BY <4>1, <4>2
      <3>4. \A d \in Cr : d \notin events' => ccert'[d] = cert'[d]
        BY <2>0, <3>1 DEF NamesGuarded
      <3> QED BY <2>2, <3>3, <3>4 DEF NamesGuarded
    <2> QED BY <2>0, <2>4, <2>5
  <1>4. CASE SyncRefused \/ Finish \/ Finalize
    <2>1. UNCHANGED <<certVars, secret, contested>> /\ \E q : EndRound(q)
      BY <1>4 DEF SyncRefused, Finish, Finalize
    <2> QED BY <1>b, <1>c, <1>d, <2>1, GuardedFrame
  <1>5. CASE DeleteCertificate
    <2>1. UNCHANGED <<ccert, secret, contested>>
      BY <1>5 DEF DeleteCertificate
    <2>2. (cert' = cert /\ events' = events) \/ SetCert(round.c, NoCert)
      BY <1>5 DEF DeleteCertificate
    <2>3. round'.step \notin {"sync", "eraseSecret"}
      <3>1. \/ \E q : EndRound(q)
            \/ round' = [round EXCEPT !.step = "readSecret", !.unseen = cert[round.c] # NoCert]
        BY <1>5 DEF DeleteCertificate
      <3> QED BY <1>0, <1>b, <3>1 DEF Round
    <2>4. /\ \A c \in Cr : cert'[c] # NoCert =>
                 cert[c] # NoCert /\ cert'[c].secretName = cert[c].secretName
          /\ \A c \in Cr : c \notin events' => ccert'[c] = cert'[c]
      BY <1>0, <2>1, <2>2 DEF SetCert, NamesGuarded
    <2> QED BY <1>c, <2>1, <2>3, <2>4, GuardedFrame
  <1>6. CASE ReadSecret
    <2>1. /\ round' = [round EXCEPT !.step =
                         IF secret[Serving] = round.c THEN "eraseSecret" ELSE "finalize"]
          /\ contested' = ReadBy(round.c, Serving) /\ UNCHANGED <<certVars, secret>>
      BY <1>6 DEF ReadSecret
    <2>2. \A c \in Cr : cert'[c] # NoCert => ~Foreign(c, cert[c].secretName)'
      BY <1>1, <2>1, ReadFrame
    <2>3. CASE secret[Serving] = round.c
      <3>1. round'.step = "eraseSecret" /\ round'.c = round.c /\ Serving' = Serving
        BY <1>a, <2>1, <2>3
      <3>2. ~Foreign(round.c, Serving)'
        BY <2>1, <2>3, <3>1 DEF Foreign
      <3> QED BY <2>1, <2>2, <3>1, <3>2 DEF NamesGuarded
    <2>4. CASE secret[Serving] # round.c
      <3>1. round'.step = "finalize"
        BY <1>a, <2>1, <2>4
      <3> QED BY <2>1, <2>2, <3>1 DEF NamesGuarded
    <2> QED BY <2>3, <2>4
  <1>7. CASE EraseSecret
    <2>1. /\ round' = [round EXCEPT !.step = "finalize"]
          /\ secret' = [secret EXCEPT ![Serving] = Absent]
          /\ UNCHANGED <<certVars, contested>>
      BY <1>7 DEF EraseSecret
    <2>2. \A c \in Cr, n \in Name : Foreign(c, n)' => Foreign(c, n)
      BY <1>0, <1>1, <2>1 DEF Foreign
    <2> QED BY <1>a, <1>d, <2>1, <2>2, GuardedFrame
  <1> QED BY <1>2, <1>3, <1>4, <1>5, <1>6, <1>7 DEF ContinueRound

\* So do all other steps.
LEMMA OtherGuards ==
  ASSUME TypeOK, NamesGuarded, Next, ~ContinueRound
  PROVE  NamesGuarded'
  <1> USE DEF crVars, certVars, histVars
  <1>0. /\ round \in Round /\ round.c \in Cr
        /\ cert \in [Cr -> CertOrNone] /\ ccert \in [Cr -> CertOrNone]
        /\ secret \in [Name -> Owner]
        /\ contested \in [Cr -> SUBSET Name] /\ events \subseteq Cr
    BY DEF TypeOK, Round
  <1>c. UNCHANGED <<secret, contested>> =>
          \A c \in Cr, n \in Name : Foreign(c, n)' => Foreign(c, n)
    BY DEF Foreign
  <1>d. UNCHANGED certVars =>
          /\ \A c \in Cr : cert'[c] # NoCert =>
                 cert[c] # NoCert /\ cert'[c].secretName = cert[c].secretName
          /\ \A c \in Cr : c \notin events' => ccert'[c] = cert'[c]
    BY DEF NamesGuarded
  <1>e. ASSUME NEW c \in Cr, NEW x, SetCert(c, x), cert[c] # NoCert, ccert' = ccert,
               x = NoCert \/ x.secretName = cert[c].secretName
        PROVE  /\ \A d \in Cr : cert'[d] # NoCert =>
                      cert[d] # NoCert /\ cert'[d].secretName = cert[d].secretName
               /\ \A d \in Cr : d \notin events' => ccert'[d] = cert'[d]
    BY <1>0, <1>e DEF SetCert, NamesGuarded
  <1>1. CASE RoundFails
    <2>1. round'.step \notin {"sync", "eraseSecret"} /\ UNCHANGED <<certVars, secret, contested>>
      BY <1>0, <1>1, NoRoundType DEF RoundFails, EndRound
    <2> QED BY <1>c, <1>d, <2>1, GuardedFrame
  <1>2. CASE Restart
    <2>1. /\ round'.step \notin {"sync", "eraseSecret"} /\ UNCHANGED <<cert, secret, contested>>
          /\ ccert' = cert
      BY <1>0, <1>2, NoRoundType DEF Restart
    <2> QED BY <1>c, <2>1, GuardedFrame
  <1>3. ASSUME NEW c \in Cr, Start(c) PROVE NamesGuarded'
    <2>0. UNCHANGED <<certVars, secret, contested>>
      BY <1>3 DEF Start, BeginRound, BeginNotFound, BeginDelete
    <2>1. CASE BeginRound(c)
      <3>1. round'.step \in {"guard", "idle"}
        BY <2>1, NoRoundType DEF BeginRound
      <3> QED BY <1>c, <1>d, <2>0, <3>1, GuardedFrame
    <2>2. CASE BeginNotFound(c)
      <3>1. round' = round
        BY <2>2 DEF BeginNotFound
      <3> QED BY <1>c, <1>d, <2>0, <3>1, GuardedFrame
    <2>3. CASE BeginDelete(c)
      <3> DEFINE r == NoRound(c)
      <3>1. r \in Round
        BY NoRoundType
      <3> HIDE DEF r
      <3>2. round' = [r EXCEPT !.step = "deleteCert", !.ac = cr[c]]
        BY <2>3 DEF BeginDelete, r
      <3>3. round'.step = "deleteCert"
        BY <3>1, <3>2 DEF Round
      <3> QED BY <1>c, <1>d, <2>0, <3>3, GuardedFrame
    <2> QED BY <1>3, <2>1, <2>2, <2>3 DEF Start
  <1>4. ASSUME NEW c \in Cr, \/ SyncCr(c) \/ TimerFires(c) \/ EditSecretName(c)
                             \/ EditIssuer(c) \/ DeleteCr(c)
        PROVE  NamesGuarded'
    <2>1. UNCHANGED <<certVars, secret, contested, round>>
      BY <1>4 DEF SyncCr, TimerFires, EditSecretName, EditIssuer, DeleteCr
    <2> QED BY <1>c, <1>d, <2>1, GuardedFrame
  <1>5. ASSUME NEW c \in Cr, SyncCert(c) PROVE NamesGuarded'
    <2>1. /\ events' = events \ {c} /\ ccert' = [ccert EXCEPT ![c] = cert[c]]
          /\ UNCHANGED <<cert, secret, contested, round>>
      BY <1>5 DEF SyncCert
    <2>2. \A d \in Cr : d \notin events' => ccert'[d] = cert'[d]
      BY <1>0, <2>1 DEF NamesGuarded
    <2> QED BY <1>c, <2>1, <2>2, GuardedFrame
  <1>6. ASSUME NEW c \in Cr, Issue(c) PROVE NamesGuarded'
    <2> DEFINE m == cert[c].secretName
    <2>0. /\ cert[c] # NoCert /\ cert[c] \in Cert /\ m \in Name
      BY <1>6, Typed, CertNames DEF Issue
    <2>1. /\ secret' = [secret EXCEPT ![m] = c] /\ contested' = PassesTo(c, m)
          /\ SetCert(c, [cert[c] EXCEPT !.ready = TRUE]) /\ UNCHANGED <<ccert, round>>
      BY <1>6 DEF Issue
    <2>2. [cert[c] EXCEPT !.ready = TRUE].secretName = m
      BY <2>0 DEF Cert
    <2> HIDE DEF m
    <2>3. \A d \in Cr, n \in Name : Foreign(d, n)' => Foreign(d, n)
      <3> SUFFICES ASSUME NEW d \in Cr, NEW n \in Name, Foreign(d, n)' PROVE Foreign(d, n)
        OBVIOUS
      <3>1. CASE n = m
        BY <1>0, <2>0, <2>1, <3>1 DEF Foreign, PassesTo
      <3>2. CASE n # m
        BY <1>0, <2>0, <2>1, <3>2 DEF Foreign, PassesTo
      <3> QED BY <3>1, <3>2
    <2> QED BY <1>e, <2>0, <2>1, <2>2, <2>3, GuardedFrame DEF m
  <1>7. ASSUME NEW c \in Cr, Unready(c) PROVE NamesGuarded'
    <2>0. cert[c] # NoCert /\ cert[c] \in Cert
      BY <1>7, Typed, CertNames DEF Unready
    <2>1. SetCert(c, [cert[c] EXCEPT !.ready = FALSE]) /\ UNCHANGED <<ccert, secret, contested, round>>
      BY <1>7 DEF Unready
    <2>2. [cert[c] EXCEPT !.ready = FALSE].secretName = cert[c].secretName
      BY <2>0 DEF Cert
    <2> QED BY <1>c, <1>e, <2>0, <2>1, <2>2, GuardedFrame
  <1>8. ASSUME NEW c \in Cr, CollectCertificate(c) \/ RemoveCertificate(c) PROVE NamesGuarded'
    <2>1. cert[c] # NoCert /\ SetCert(c, NoCert) /\ UNCHANGED <<ccert, secret, contested, round>>
      BY <1>8 DEF CollectCertificate, RemoveCertificate
    <2> QED BY <1>c, <1>e, <2>1, GuardedFrame
  <1>9. ASSUME NEW n \in Name, MakeSecret(n) \/ RemoveSecret(n) PROVE NamesGuarded'
    <2>0. UNCHANGED <<certVars, round>>
      BY <1>9 DEF MakeSecret, RemoveSecret
    <2>1. \A d \in Cr, m \in Name : Foreign(d, m)' => Foreign(d, m)
      <3>1. CASE MakeSecret(n)
        <4>1. secret' = [secret EXCEPT ![n] = ByHand] /\ contested' = PassesTo(ByHand, n)
          BY <3>1 DEF MakeSecret
        <4> QED BY <1>0, <4>1, NameAssumption DEF Foreign, PassesTo
      <3>2. CASE RemoveSecret(n)
        BY <1>0, <3>2 DEF RemoveSecret, Foreign
      <3> QED BY <1>9, <3>1, <3>2
    <2> QED BY <1>d, <2>0, <2>1, GuardedFrame
  <1> QED BY <1>1, <1>2, <1>3, <1>4, <1>5, <1>6, <1>7, <1>8, <1>9 DEF Next

\* NoTrespass, for every set of CRs and Secret names and any number of edits, faults
\* and restarts: the guard of step 2 and the ownership check of the deletion let a
\* Secret of somebody else be overwritten or deleted only inside the window between a
\* live read and the write that follows it.
THEOREM NobodyTrespasses == Spec => NoTrespass
  <1>1. Init => NamesGuarded
    BY InitFacts DEF NamesGuarded, Foreign
  <1>2. TypeOK /\ NamesGuarded /\ [Next]_vars => NamesGuarded'
    <2>1. CASE UNCHANGED vars
      BY <2>1 DEF vars, certVars, histVars, NamesGuarded, Foreign, Wanted, Serving,
                  ServingSecretName, SecretNameFor
    <2> QED BY <2>1, RoundGuards, OtherGuards
  <1>3. TypeOK /\ NamesGuarded /\ [Next]_vars =>
          [\A c \in Cr, n \in Name :
              (/\ secret[n] \notin {Absent, c}
               /\ \/ secret'[n] = c
                  \/ secret'[n] = Absent /\ round.c = c /\ round'.step # round.step)
              => n \in contested[c]]_vars
    <2> SUFFICES ASSUME TypeOK, NamesGuarded, Next, NEW c \in Cr, NEW n \in Name,
                        secret[n] \notin {Absent, c},
                        \/ secret'[n] = c
                        \/ secret'[n] = Absent /\ round.c = c /\ round'.step # round.step
                 PROVE  n \in contested[c]
      OBVIOUS
    <2>0. secret \in [Name -> Owner] /\ c \notin {Absent, ByHand}
      BY NameAssumption DEF TypeOK
    <2>1. CASE EraseSecret
      <3>1. round.step = "eraseSecret" /\ secret' = [secret EXCEPT ![Serving] = Absent]
        BY <2>1 DEF EraseSecret
      <3>2. n = Serving /\ c = round.c
        BY <2>0, <3>1
      <3> QED BY <3>1, <3>2 DEF NamesGuarded, Foreign
    <2>2. ASSUME NEW d \in Cr, Issue(d) PROVE n \in contested[c]
      <3>1. /\ cert[d] # NoCert /\ secret' = [secret EXCEPT ![cert[d].secretName] = d]
            /\ round' = round
        BY <2>2 DEF Issue
      <3>2. n = cert[d].secretName /\ d = c
        BY <2>0, <3>1
      <3> QED BY <3>1, <3>2 DEF NamesGuarded, Foreign
    <2>3. ASSUME NEW m \in Name, MakeSecret(m) \/ RemoveSecret(m) PROVE FALSE
      <3>1. \A k \in Name : secret'[k] \in {secret[k], ByHand, Absent}
        BY <2>0, <2>3 DEF MakeSecret, RemoveSecret
      <3>2. round' = round
        BY <2>3 DEF MakeSecret, RemoveSecret
      <3> QED BY <2>0, <3>1, <3>2
    <2>4. CASE secret' = secret
      BY <2>4
    <2> QED
      BY <2>1, <2>2, <2>3, <2>4 DEF Next, ContinueRound, Start, Guard, SyncCertificate,
           SyncRefused, Finish, DeleteCertificate, ReadSecret, Finalize, RoundFails, Restart,
           BeginRound, BeginNotFound, BeginDelete, SyncCr, SyncCert, TimerFires, Unready,
           CollectCertificate, EditSecretName, EditIssuer, DeleteCr, RemoveCertificate
  <1> QED BY <1>1, <1>2, <1>3, IssuersHold, PTL DEF Spec, NoTrespass
=============================================================================
