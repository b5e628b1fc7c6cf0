--------------------- MODULE CertificateControllerProofs ---------------------
(***************************************************************************)
(* Theorems about the certificate controller, for every number of          *)
(* generations, every keepLast, every set of bindings and domains.  First  *)
(* the types, the finalizer and the write-ahead rule; then what a deletion *)
(* leaves behind, and that the status accounts for every CAS certificate.  *)
(***************************************************************************)
EXTENDS CertificateController, SequenceTheorems, TLAPS

USE DEF FP, NoFP, NoId
-----------------------------------------------------------------------------
(* The operators on the status preserve its type *)

\* The empty status is a status.
LEMMA NoStatusType == NoStatus \in Status /\ NoGen \in Gen /\ NoSpec \in SpecFields
  BY DEF NoStatus, Status, NoGen, Gen, Conds, DomainOrNone, NoSpec, SpecFields

\* The merge patch of three statuses is a status (patchStatus).
LEMMA MergePatchType ==
  ASSUME NEW s \in Status, NEW o \in Status, NEW a \in Status
  PROVE  MergePatch(s, o, a) \in Status
  BY DEF MergePatch, Merged, Status, Gen

\* adoptUploadState yields a status.
LEMMA AdoptType ==
  ASSUME NEW d \in Status, NEW s \in Status
  PROVE  AdoptUploadState(d, s) \in Status
  BY DEF AdoptUploadState, Status

\* setCondition on Issued, Uploaded or Ready yields a status.
LEMMA SetCondType ==
  ASSUME NEW s \in Status, NEW v \in BOOLEAN
  PROVE  /\ [s EXCEPT !.conds.issued = v] \in Status
         /\ [s EXCEPT !.conds.uploaded = v] \in Status
         /\ [s EXCEPT !.conds.ready = v] \in Status
  BY DEF Status, Conds

\* aggregateReady yields a status.
LEMMA AggregateType ==
  ASSUME NEW s \in Status, NEW u \in BOOLEAN
  PROVE  AggregateReady(s, u) \in Status
  <1> DEFINE v == s.conds.issued /\ (u => s.conds.uploaded)
  <1>1. v \in BOOLEAN
    OBVIOUS
  <1> HIDE DEF v
  <1>2. [s EXCEPT !.conds.ready = v] \in Status
    BY <1>1, SetCondType
  <1> QED BY <1>2 DEF AggregateReady, v

\* setUploadedCondition yields a status.
LEMMA SetUploadedType ==
  ASSUME NEW s \in Status, NEW u \in BOOLEAN
  PROVE  SetUploadedCondition(s, u) \in Status
  <1> DEFINE v == u /\ s.cur.id # NoId
  <1>1. v \in BOOLEAN
    OBVIOUS
  <1> HIDE DEF v
  <1>2. [s EXCEPT !.conds.uploaded = v] \in Status
    BY <1>1, SetCondType
  <1> QED BY <1>2 DEF SetUploadedCondition, v

\* Setting pendingUpload, or casProbedAt, yields a status.
LEMMA SetPendType ==
  ASSUME NEW s \in Status, NEW f \in FP \cup {NoFP}, NEW d \in DomainOrNone,
         NEW v \in BOOLEAN
  PROVE  /\ [s EXCEPT !.pend = f, !.hint = d] \in Status
         /\ [s EXCEPT !.pend = f, !.hint = d, !.probed = v] \in Status
         /\ [s EXCEPT !.probed = v] \in Status
         /\ [s EXCEPT !.cleanup = v] \in Status
         /\ [s EXCEPT !.cur = NoGen, !.probed = v] \in Status
  BY NoStatusType DEF Status

\* A new generation enters a status: history and current keep their types.
LEMMA AdvanceType ==
  ASSUME NEW s \in Status, NEW f \in FP \cup {NoFP}, NEW id \in Nat
  PROVE  Advance(s, f, id) \in Status
  <1>1. s.cur \in Gen /\ s.hist \in Seq(Gen)
    BY DEF Status
  <1>2. <<s.cur>> \o s.hist \in Seq(Gen)
    BY <1>1
  <1>3. [fp |-> f, id |-> id] \in Gen
    BY DEF Gen
  <1> QED BY <1>1, <1>2, <1>3 DEF Advance, Status

\* Dropping the oldest generation of a history that has one keeps the type.
LEMMA DropOldestType ==
  ASSUME NEW s \in Status, s.hist # <<>>
  PROVE  DropOldest(s) \in Status /\ Oldest(s) \in Gen
  <1>1. s.hist \in Seq(Gen) /\ Len(s.hist) \in Nat
    BY DEF Status
  <1>2. Len(s.hist) \in 1 .. Len(s.hist)
    BY <1>1
  <1>3. SubSeq(s.hist, 1, Len(s.hist) - 1) \in Seq(Gen)
    BY <1>1
  <1>4. Oldest(s) \in Gen
    BY <1>1, <1>2 DEF Oldest
  <1> QED BY <1>3, <1>4 DEF DropOldest, Status

\* Clearing the certId of one generation of a history keeps its type.
LEMMA ClearIdType ==
  ASSUME NEW h \in Seq(Gen), NEW i
  PROVE  [h EXCEPT ![i].id = NoId] \in Seq(Gen)
  <1>1. CASE i \in 1 .. Len(h)
    <2>1. h[i] \in Gen
      BY <1>1
    <2>2. [h[i] EXCEPT !.id = NoId] \in Gen
      BY <2>1 DEF Gen
    <2> QED BY <1>1, <2>2, ExceptSeq
  <1>2. CASE i \notin 1 .. Len(h)
    <2>1. DOMAIN h = 1 .. Len(h)
      OBVIOUS
    <2>2. [h EXCEPT ![i].id = NoId] = h
      BY <1>2, <2>1
    <2> QED BY <2>2
  <1> QED BY <1>1, <1>2

\* cleanupCAS, one certificate further, yields a status.
LEMMA DeletedNextType ==
  ASSUME NEW s \in Status
  PROVE  DeletedNext(s) \in Status
  <1> DEFINE i == FirstLeft(s)
  <1>1. CASE ~HistoryIsClean(s)
    <2>1. [s.hist EXCEPT ![i].id = NoId] \in Seq(Gen)
      BY ClearIdType DEF Status
    <2> HIDE DEF i
    <2>2. [s EXCEPT !.hist[i].id = NoId] \in Status
      BY <2>1 DEF Status
    <2> QED BY <1>1, <2>2 DEF DeletedNext, i
  <1>2. CASE HistoryIsClean(s) /\ s.cur.id # NoId
    <2>1. [s EXCEPT !.cur.id = NoId] \in Status
      BY DEF Status, Gen
    <2> QED BY <1>2, <2>1 DEF DeletedNext
  <1>3. CASE HistoryIsClean(s) /\ s.cur.id = NoId
    <2>1. NoFP \in FP \cup {NoFP} /\ NoDom \in DomainOrNone
      BY DEF DomainOrNone
    <2>2. [s EXCEPT !.pend = NoFP, !.hint = NoDom] \in Status
      BY <2>1, SetPendType
    <2> QED BY <1>3, <2>2 DEF DeletedNext
  <1> QED BY <1>1, <1>2, <1>3
-----------------------------------------------------------------------------
(* Type correctness *)

\* The initial state is well typed.
LEMMA InitType == Init => TypeOK
  <1> SUFFICES ASSUME Init PROVE TypeOK
    OBVIOUS
  <1>1. PICK u \in UploadInit, d \in Domain :
           api = [exists |-> TRUE, deleting |-> FALSE, fin |-> FALSE,
                  spec |-> [upload |-> u, dom |-> d]]
    BY DEF Init
  <1>2. u \in BOOLEAN /\ d \in DomainOrNone
    BY FlagAssumption DEF DomainOrNone
  <1>3. api \in Meta
    BY <1>1, <1>2 DEF Meta, SpecFields
  <1>4. capi \in Meta
    BY <1>3 DEF Init
  <1>5. dom \in [FP -> DomainOrNone] /\ NoDom \in DomainOrNone
    BY DEF Init, DomainOrNone
  <1>6. binding \in [Binding -> BindingState]
    BY DEF Init, BindingState, NoBinding
  <1>7. cas \in [FP -> Nat] /\ nextId \in Nat \ {0} /\ lastGen \in 0 .. MaxGen
        /\ secret \in 0 .. lastGen /\ b \in 0 .. lastGen
    BY MaxGenAssumption DEF Init
  <1>8. seen \in [lagging : BOOLEAN, applied : SUBSET (FP \cup {NoFP})]
    BY DEF Init, NothingSeen
  <1>9. budget \in [rollbacks : Nat, handDeletes : Nat, toggles : Nat, renames : Nat]
        /\ ghost \in Ghost
    BY DEF Init, Ghost
  <1> QED
    BY <1>3, <1>4, <1>5, <1>6, <1>7, <1>8, <1>9, NoStatusType DEF Init, TypeOK, Step

\* What EndRound leaves in the round's variables is well typed.
LEMMA EndRoundType ==
  ASSUME TypeOK, EndRound, lastGen' \in Nat
  PROVE  /\ ac' \in Status /\ orig' \in Status /\ acSpec' \in SpecFields
         /\ pc' = "idle" /\ b' = 0 /\ b' \in 0 .. lastGen'
         /\ seen' \in [lagging : BOOLEAN, applied : SUBSET (FP \cup {NoFP})]
  BY NoStatusType DEF TypeOK, EndRound, NothingSeen

\* Reading the bindings live yields a well typed summary.
LEMMA LiveBindingsType ==
  ASSUME TypeOK
  PROVE  LiveBindingsFor \in [lagging : BOOLEAN, applied : SUBSET (FP \cup {NoFP})]
  BY DEF TypeOK, LiveBindingsFor, LiveBindings, BindingState

\* The cloud without one certificate is well typed.
LEMMA CasWithoutType ==
  ASSUME TypeOK, NEW id
  PROVE  CasWithout(id) \in [FP -> Nat]
  BY DEF TypeOK, CasWithout

\* The write-ahead patch keeps the history variable well typed.
LEMMA WriteAheadType ==
  ASSUME TypeOK, WriteAhead
  PROVE  ghost' \in Ghost
  <1> DEFINE S == (ghost.superseded \cup Uncovered({status.pend})) \ {b}
             E == ghost.erased \ {b}
  <1>1. ghost \in Ghost
    BY DEF TypeOK
  <1>2. S \subseteq FP /\ E \subseteq FP
    BY <1>1 DEF Uncovered, Ghost
  <1>3. ghost' = [ghost EXCEPT !.superseded = S, !.erased = E]
    BY DEF WriteAhead
  <1> HIDE DEF S, E
  <1> QED BY <1>1, <1>2, <1>3 DEF Ghost

\* A successful upload or claim yields a well typed working copy.
LEMMA UploadedType ==
  ASSUME TypeOK, NEW id \in Nat, Uploaded(id), b \in FP \cup {NoFP}
  PROVE  ac' \in Status /\ pc' = "reclaim"
  <1> DEFINE s == Advance(ac, b, id)
  <1>1. s \in Status /\ acSpec.upload \in BOOLEAN
    BY AdvanceType DEF TypeOK, SpecFields
  <1>2. NoDom \in DomainOrNone /\ NoFP \in FP \cup {NoFP}
    BY DEF DomainOrNone
  <1>3. [s EXCEPT !.pend = NoFP, !.hint = NoDom, !.probed = TRUE] \in Status
    BY <1>1, <1>2, SetPendType
  <1> HIDE DEF s
  <1> QED BY <1>1, <1>3, SetUploadedType DEF Uploaded, s

\* Steps of a normal round preserve the types.
LEMMA RoundType == TypeOK /\ Round => TypeOK'
  <1> SUFFICES ASSUME TypeOK, Round PROVE TypeOK'
    OBVIOUS
  <1> USE DEF crVars, cacheVars, issuerVars, cloudVars, roundVars, envVars, Step
  <1>0. /\ status \in Status /\ cstatus \in Status /\ ac \in Status /\ orig \in Status
        /\ acSpec \in SpecFields /\ acSpec.upload \in BOOLEAN /\ acSpec.dom \in DomainOrNone
        /\ capi.spec \in SpecFields /\ capi.spec.upload \in BOOLEAN
        /\ api.spec \in SpecFields /\ capi.spec.dom \in DomainOrNone
        /\ lastGen \in Nat /\ b \in FP \cup {NoFP} /\ b \in 0 .. lastGen
        /\ NoFP \in FP \cup {NoFP} /\ NoDom \in DomainOrNone
    BY MaxGenAssumption DEF TypeOK, Meta, SpecFields, DomainOrNone
  <1>1. CASE AddFinalizer
    <2>1. api' \in Meta
      BY <1>1 DEF AddFinalizer, TypeOK, Meta
    <2> QED BY <1>1, <2>1 DEF AddFinalizer, TypeOK
  <1>2. CASE BeginRoundNotIssued
    <2>1. ac' \in Status
      BY <1>0, <1>2, SetCondType, AggregateType DEF BeginRoundNotIssued
    <2>2. cert' \in DomainOrNone
      BY <1>0, <1>2 DEF BeginRoundNotIssued, CreateOrUpdateCertificate, TypeOK
    <2> QED BY <1>0, <1>2, <2>1, <2>2 DEF BeginRoundNotIssued, TypeOK
  <1>3. CASE BeginRoundIssued
    <2>1. ac' \in Status
      BY <1>0, <1>3, SetCondType DEF BeginRoundIssued
    <2>2. cert' \in DomainOrNone
      BY <1>0, <1>3 DEF BeginRoundIssued, CreateOrUpdateCertificate, TypeOK
    <2> QED BY <1>0, <1>3, <2>1, <2>2 DEF BeginRoundIssued, MaterialValid, TypeOK
  <1>4. CASE ProbeSkipped
    BY <1>4 DEF ProbeSkipped, TypeOK
  <1>5. CASE ProbeFound
    <2>1. ac' \in Status
      BY <1>0, <1>5, SetPendType DEF ProbeFound
    <2> QED BY <1>5, <2>1 DEF ProbeFound, TypeOK
  <1>6. CASE ProbeMissing
    <2> DEFINE a == [ac EXCEPT !.cur = NoGen, !.probed = TRUE]
    <2>1. a \in Status
      BY <1>0, SetPendType
    <2> HIDE DEF a
    <2>2. PatchAndReload(a)
      BY <1>6 DEF ProbeMissing, a
    <2>3. status' \in Status /\ ac' \in Status /\ orig' \in Status /\ acSpec' \in SpecFields
      BY <1>0, <2>1, <2>2, MergePatchType DEF PatchAndReload
    <2>4. ghost' \in Ghost
      BY <1>6 DEF ProbeMissing, Uncovered, TypeOK, Ghost
    <2> QED BY <1>6, <2>3, <2>4 DEF ProbeMissing, TypeOK
  <1>7. CASE EnsureShortCircuit
    <2>1. ac' \in Status
      BY <1>0, <1>7, SetUploadedType DEF EnsureShortCircuit
    <2> QED BY <1>7, <2>1 DEF EnsureShortCircuit, TypeOK
  <1>8. CASE EnsureRefresh
    <2> DEFINE a == AdoptUploadState(ac, status)
               o == AdoptUploadState(orig, status)
    <2>1. a \in Status /\ o \in Status
      BY <1>0, AdoptType
    <2>2. SetUploadedCondition(a, acSpec.upload) \in Status
      BY <1>0, <2>1, SetUploadedType
    <2>3. SetUploadedCondition(Advance(a, b, NoId), acSpec.upload) \in Status
      BY <1>0, <2>1, SetUploadedType, AdvanceType
    <2>4. /\ [a EXCEPT !.pend = b, !.hint = acSpec.dom] \in Status
          /\ [o EXCEPT !.pend = b, !.hint = acSpec.dom] \in Status
          /\ [status EXCEPT !.pend = b, !.hint = acSpec.dom] \in Status
      BY <1>0, <2>1, SetPendType
    <2> HIDE DEF a, o
    <2>5. ac' \in Status /\ orig' \in Status
      BY <1>8, <2>1, <2>2, <2>3, <2>4, Zenon DEF EnsureRefresh, a, o
    <2>6. status' \in Status
      BY <1>0, <1>8, <2>4, Zenon DEF EnsureRefresh, WriteAhead
    <2>7. ghost' \in Ghost
      <3>1. UNCHANGED ghost \/ WriteAhead
        BY <1>8, Zenon DEF EnsureRefresh
      <3> QED BY <3>1, WriteAheadType DEF TypeOK
    <2>8. /\ pc = "ensure" /\ pc' \in {"reclaim", "upload"}
          /\ UNCHANGED <<api, cacheVars, issuerVars, cloudVars, acSpec, b, seen, envVars>>
      BY <1>8, Zenon DEF EnsureRefresh
    <2> QED BY <2>5, <2>6, <2>7, <2>8 DEF TypeOK
  <1>9. CASE EnsureFails
    <2> DEFINE a == AdoptUploadState(ac, status)
               o == AdoptUploadState(orig, status)
    <2>1. a \in Status /\ o \in Status
      BY <1>0, AdoptType
    <2>2. AggregateReady([ac EXCEPT !.conds.uploaded = FALSE], acSpec.upload) \in Status
      BY <1>0, SetCondType, AggregateType
    <2>3. AggregateReady([a EXCEPT !.conds.uploaded = FALSE], acSpec.upload) \in Status
      BY <1>0, <2>1, SetCondType, AggregateType
    <2>4. [status EXCEPT !.pend = b, !.hint = acSpec.dom] \in Status
      BY <1>0, SetPendType
    <2> HIDE DEF a, o
    <2>5. ac' \in Status /\ orig' \in Status
      BY <1>0, <1>9, <2>1, <2>2, <2>3, Zenon DEF EnsureFails, CloudError, a, o
    <2>6. status' \in Status
      BY <1>0, <1>9, <2>4, Zenon DEF EnsureFails, WriteAhead
    <2>7. ghost' \in Ghost
      <3>1. UNCHANGED ghost \/ WriteAhead
        BY <1>9, Zenon DEF EnsureFails
      <3> QED BY <3>1, WriteAheadType DEF TypeOK
    <2>8. /\ pc' = "patch"
          /\ UNCHANGED <<api, cacheVars, issuerVars, cloudVars, acSpec, b, seen, envVars>>
      BY <1>9, Zenon DEF EnsureFails, CloudError
    <2> QED BY <2>5, <2>6, <2>7, <2>8 DEF TypeOK
  <1>10. CASE UploadNew
    <2>0. cas \in [FP -> Nat] /\ nextId \in Nat \ {0}
      BY DEF TypeOK
    <2>1. cas' \in [FP -> Nat] /\ nextId' \in Nat \ {0} /\ nextId \in Nat
      <3>1. cas' = [cas EXCEPT ![b] = nextId] /\ nextId' = nextId + 1
        BY <1>10 DEF UploadNew
      <3>2. nextId \in Nat /\ nextId + 1 \in Nat \ {0}
        BY <2>0
      <3>3. [cas EXCEPT ![b] = nextId] \in [FP -> Nat]
        BY <2>0, <3>2, Zenon
      <3> QED BY <3>1, <3>2, <3>3, Zenon
    <2>2. ASSUME NEW id \in Nat, Uploaded(id) PROVE ac' \in Status /\ pc' = "reclaim"
      BY <1>0, <2>2, UploadedType
    <2>3. ASSUME CloudError PROVE ac' \in Status /\ pc' = "patch"
      BY <1>0, <2>3, SetCondType, AggregateType DEF CloudError
    <2>4. ac' \in Status /\ pc' \in {"reclaim", "patch"} /\ pc = "upload"
      BY <1>10, <2>1, <2>2, <2>3 DEF UploadNew
    <2> QED BY <1>10, <2>1, <2>4 DEF UploadNew, TypeOK
  <1>11. CASE UploadClaim
    <2>1. PICK id \in FindByName(b) : Uploaded(id)
      BY <1>11 DEF UploadClaim
    <2>2. id \in Nat
      BY <2>1 DEF FindByName, Listed, TypeOK
    <2>3. ac' \in Status /\ pc' = "reclaim"
      BY <1>0, <2>1, <2>2, UploadedType
    <2> QED BY <1>11, <2>3 DEF UploadClaim, TypeOK
  <1>12. CASE UploadFails
    <2>1. ac' \in Status
      BY <1>0, <1>12, SetCondType, AggregateType DEF UploadFails, CloudError
    <2> QED BY <1>12, <2>1 DEF UploadFails, CloudError, TypeOK
  <1>13. CASE ReclaimList
    <2>1. ac' \in Status
      BY <1>0, <1>13, AggregateType DEF ReclaimList, GoPatch
    <2>2. seen' \in [lagging : BOOLEAN, applied : SUBSET (FP \cup {NoFP})]
      BY <1>13, LiveBindingsType DEF ReclaimList, TypeOK
    <2> QED BY <1>13, <2>1, <2>2 DEF ReclaimList, GoPatch, TypeOK
  <1>14. CASE ReclaimOldest
    <2>1. ac.hist # <<>>
      BY <1>14 DEF ReclaimOldest, Excess
    <2>2. ac' \in Status
      BY <1>0, <1>14, <2>1, DropOldestType DEF ReclaimOldest
    <2>3. cas' \in [FP -> Nat]
      BY <1>14, CasWithoutType DEF ReclaimOldest, TypeOK
    <2> QED BY <1>14, <2>2, <2>3 DEF ReclaimOldest, TypeOK
  <1>15. CASE ReclaimFails
    <2>1. ac' \in Status
      BY <1>0, <1>15, AggregateType DEF ReclaimFails, GoPatch
    <2>2. cas' \in [FP -> Nat]
      BY <1>15, CasWithoutType DEF ReclaimFails, TypeOK
    <2> QED BY <1>15, <2>1, <2>2 DEF ReclaimFails, GoPatch, TypeOK
  <1>16. CASE ReclaimStops
    <2>1. ac' \in Status
      BY <1>0, <1>16, AggregateType DEF ReclaimStops, GoPatch
    <2> QED BY <1>16, <2>1 DEF ReclaimStops, GoPatch, TypeOK
  <1>17. CASE PatchStatus
    <2>1. status' \in Status
      BY <1>0, <1>17, MergePatchType DEF PatchStatus
    <2>2. EndRound /\ lastGen' \in Nat
      BY <1>0, <1>17 DEF PatchStatus
    <2> DEFINE E == ghost.erased \cup Uncovered(Overwritten)
    <2>3. ghost \in Ghost /\ E \subseteq FP /\ ghost' = [ghost EXCEPT !.erased = E]
      BY <1>17 DEF PatchStatus, Uncovered, TypeOK, Ghost
    <2> HIDE DEF E
    <2>4. ghost' \in Ghost
      BY <2>3 DEF Ghost
    <2> QED BY <1>17, <2>1, <2>2, <2>4, EndRoundType DEF PatchStatus, TypeOK
  <1> QED
    BY <1>1, <1>2, <1>3, <1>4, <1>5, <1>6, <1>7, <1>8, <1>9, <1>10, <1>11, <1>12, <1>13,
       <1>14, <1>15, <1>16, <1>17 DEF Round

\* A CR that is gone has well typed metadata.
LEMMA GoneType == Gone \in Meta
  BY NoStatusType DEF Gone, Meta

\* Steps of a deletion round preserve the types.
LEMMA DeletionType == TypeOK /\ Deletion => TypeOK'
  <1> SUFFICES ASSUME TypeOK, Deletion PROVE TypeOK'
    OBVIOUS
  <1> USE DEF crVars, cacheVars, issuerVars, cloudVars, roundVars, envVars, Step
  <1>0. /\ status \in Status /\ cstatus \in Status /\ ac \in Status /\ orig \in Status
        /\ capi.spec \in SpecFields /\ api.spec \in SpecFields
        /\ lastGen \in Nat /\ NoDom \in DomainOrNone /\ NoFP \in FP \cup {NoFP}
    BY MaxGenAssumption DEF TypeOK, Meta, DomainOrNone
  <1>1. CASE DeleteBlocked
    <2>1. status' \in Status
      BY <1>0, <1>1, SetCondType, MergePatchType DEF DeleteBlocked
    <2> QED BY <1>1, <2>1 DEF DeleteBlocked, TypeOK
  <1>2. CASE DeleteStarts
    <2>1. [cstatus EXCEPT !.cleanup = TRUE] \in Status
      BY <1>0, SetPendType
    <2>2. status' \in Status
      BY <1>0, <1>2, <2>1, MergePatchType, Zenon DEF DeleteStarts
    <2>3. ac' \in Status /\ orig' \in Status
      BY <1>2, <2>2, Zenon DEF DeleteStarts
    <2> QED BY <1>0, <1>2, <2>2, <2>3 DEF DeleteStarts, TypeOK
  <1>3. CASE DeleteResumes
    BY <1>0, <1>3 DEF DeleteResumes, TypeOK
  <1>4. CASE CleanupDelete
    <2>1. ac' \in Status
      BY <1>0, <1>4, DeletedNextType DEF CleanupDelete
    <2>2. cas' \in [FP -> Nat]
      BY <1>4, CasWithoutType DEF CleanupDelete
    <2> QED BY <1>4, <2>1, <2>2 DEF CleanupDelete, TypeOK
  <1>5. CASE CleanupFails
    <2>1. cas' \in [FP -> Nat]
      BY <1>5, CasWithoutType DEF CleanupFails, TypeOK
    <2>2. CASE ShouldAbandonCleanup
      <3>1. ghost' \in Ghost
        BY <1>5, <2>2 DEF CleanupFails, TypeOK, Ghost
      <3> QED BY <1>5, <2>1, <2>2, <3>1 DEF CleanupFails, TypeOK
    <2>3. CASE ~ShouldAbandonCleanup
      <3>1. [ac EXCEPT !.conds.ready = FALSE] \in Status
        BY <1>0, SetCondType
      <3> DEFINE m == MergePatch(status, orig, [ac EXCEPT !.conds.ready = FALSE])
      <3>a. m \in Status
        BY <1>0, <3>1, MergePatchType, Zenon
      <3>b. status' = IF api.exists THEN m ELSE status
        BY <1>5, <2>3 DEF CleanupFails
      <3> HIDE DEF m
      <3>2. status' \in Status
        BY <1>0, <3>a, <3>b
      <3>3. EndRound /\ lastGen' \in Nat
        BY <1>0, <1>5, <2>3 DEF CleanupFails
      <3> QED BY <1>5, <2>1, <2>3, <3>2, <3>3, EndRoundType DEF CleanupFails, TypeOK
    <2> QED BY <2>2, <2>3
  <1>6. CASE CleanupDone
    BY <1>6 DEF CleanupDone, TypeOK
  <1>7. CASE PatchCleaned
    <2>1. CASE api.exists
      <3>1. PatchAndReload(ac)
        BY <1>7, <2>1 DEF PatchCleaned
      <3>2. status' \in Status
        BY <1>0, <3>1, MergePatchType DEF PatchAndReload
      <3>3. ac' \in Status /\ orig' \in Status /\ acSpec' \in SpecFields
        BY <1>0, <3>1, <3>2 DEF PatchAndReload
      <3> QED BY <1>7, <2>1, <3>2, <3>3 DEF PatchCleaned, TypeOK
    <2>2. CASE ~api.exists
      <3>1. EndRound /\ lastGen' \in Nat
        BY <1>0, <1>7, <2>2 DEF PatchCleaned
      <3> QED BY <1>7, <2>2, <3>1, EndRoundType DEF PatchCleaned, TypeOK
    <2> QED BY <2>1, <2>2
  <1>8. CASE DeleteCertificate
    <2>1. EndRound /\ lastGen' \in Nat /\ cert' \in DomainOrNone
      BY <1>0, <1>8 DEF DeleteCertificate
    <2> QED BY <1>8, <2>1, EndRoundType DEF DeleteCertificate, TypeOK
  <1>9. CASE DeleteSecret
    <2>1. secret' \in 0 .. lastGen'
      BY <1>0, <1>9 DEF DeleteSecret
    <2> QED BY <1>9, <2>1 DEF DeleteSecret, TypeOK
  <1>10. CASE RemoveFinalizer
    <2>1. EndRound /\ lastGen' \in Nat
      BY <1>0, <1>10 DEF RemoveFinalizer
    <2>2. api' \in Meta /\ status' \in Status
      BY <1>10, NoStatusType, GoneType DEF RemoveFinalizer, TypeOK
    <2> QED BY <1>10, <2>1, <2>2, EndRoundType DEF RemoveFinalizer, TypeOK
  <1> QED
    BY <1>1, <1>2, <1>3, <1>4, <1>5, <1>6, <1>7, <1>8, <1>9, <1>10 DEF Deletion

\* A binding that moves stays well typed.
LEMMA BindingStepType == TypeOK /\ BindingStep => TypeOK'
  <1> SUFFICES ASSUME TypeOK, BindingStep PROVE TypeOK'
    OBVIOUS
  <1>1. ASSUME NEW x \in Binding, NEW s \in BindingState, SetBinding(x, s)
        PROVE  TypeOK'
    <2>1. binding' \in [Binding -> BindingState]
      BY <1>1 DEF SetBinding, TypeOK
    <2> QED BY <1>1, <2>1 DEF SetBinding, TypeOK, crVars, cacheVars, issuerVars, cloudVars,
                           roundVars
  <1>2. PICK x \in Binding : \/ EditBinding(x) \/ BindingApplies(x) \/ BindingObserves(x)
                             \/ DeleteBinding(x) \/ BindingGone(x)
    BY DEF BindingStep
  <1>3. binding[x] \in BindingState /\ secret \in FP \cup {NoFP}
    BY MaxGenAssumption DEF TypeOK
  <1>4. CASE EditBinding(x)
    <2>1. [binding[x] EXCEPT !.phase = "live", !.observed = FALSE] \in BindingState
      BY <1>3 DEF BindingState
    <2> QED BY <1>1, <1>4, <2>1 DEF EditBinding
  <1>5. CASE BindingApplies(x)
    <2>1. [phase |-> "live", observed |-> TRUE, applied |-> secret] \in BindingState
      BY <1>3 DEF BindingState
    <2> QED BY <1>1, <1>5, <2>1 DEF BindingApplies
  <1>6. CASE BindingObserves(x)
    <2>1. [binding[x] EXCEPT !.observed = TRUE] \in BindingState
      BY <1>3 DEF BindingState
    <2> QED BY <1>1, <1>6, <2>1 DEF BindingObserves
  <1>7. CASE DeleteBinding(x)
    <2>1. [binding[x] EXCEPT !.phase = "deleting"] \in BindingState
      BY <1>3 DEF BindingState
    <2> QED BY <1>1, <1>7, <2>1 DEF DeleteBinding
  <1>8. CASE BindingGone(x)
    <2>1. NoBinding \in BindingState
      BY DEF BindingState, NoBinding
    <2> QED BY <1>1, <1>8, <2>1 DEF BindingGone
  <1> QED BY <1>2, <1>4, <1>5, <1>6, <1>7, <1>8

\* The environment's steps preserve the types.
LEMMA EnvironmentType == TypeOK /\ Environment => TypeOK'
  <1> SUFFICES ASSUME TypeOK, Environment PROVE TypeOK'
    OBVIOUS
  <1> USE DEF crVars, cacheVars, issuerVars, cloudVars, roundVars, envVars, Step
  <1>0. /\ status \in Status /\ cstatus \in Status /\ ac \in Status /\ orig \in Status
        /\ lastGen \in Nat /\ NoDom \in DomainOrNone /\ api \in Meta /\ cas \in [FP -> Nat]
        /\ budget \in [rollbacks : Nat, handDeletes : Nat, toggles : Nat, renames : Nat]
    BY MaxGenAssumption DEF TypeOK, DomainOrNone
  <1>1. CASE Crash
    <2>1. EndRound /\ lastGen' \in Nat
      BY <1>0, <1>1 DEF Crash
    <2>2. ccert' \in DomainOrNone
      BY <1>0, <1>1 DEF Crash, TypeOK
    <2> QED BY <1>1, <2>1, <2>2, EndRoundType DEF Crash, TypeOK
  <1>2. CASE RoundAborts
    <2>1. EndRound /\ lastGen' \in Nat
      BY <1>0, <1>2 DEF RoundAborts
    <2> QED BY <1>2, <2>1, EndRoundType DEF RoundAborts, TypeOK
  <1>3. CASE CacheSync
    BY <1>3 DEF CacheSync, TypeOK
  <1>4. CASE CertCacheSync
    BY <1>4 DEF CertCacheSync, TypeOK
  <1>5. CASE Issue
    <2>1. lastGen' \in 0 .. MaxGen /\ secret' \in 0 .. lastGen' /\ b' \in 0 .. lastGen'
      BY <1>0, <1>5, MaxGenAssumption DEF Issue, TypeOK
    <2>2. dom' \in [FP -> DomainOrNone]
      BY <1>5 DEF Issue, TypeOK
    <2> QED BY <1>5, <2>1, <2>2 DEF Issue, TypeOK
  <1>6. CASE RollbackSecret
    <2>1. secret' \in 0 .. lastGen' /\ lastGen' = lastGen
      BY <1>0, <1>6 DEF RollbackSecret
    <2>2. budget' \in [rollbacks : Nat, handDeletes : Nat, toggles : Nat, renames : Nat]
      BY <1>0, <1>6 DEF RollbackSecret
    <2> QED BY <1>6, <2>1, <2>2 DEF RollbackSecret, TypeOK
  <1>7. CASE HandDelete
    <2>1. budget' \in [rollbacks : Nat, handDeletes : Nat, toggles : Nat, renames : Nat]
      BY <1>0, <1>7 DEF HandDelete
    <2>2. cas' \in [FP -> Nat]
      BY <1>0, <1>7 DEF HandDelete
    <2> QED BY <1>7, <2>1, <2>2 DEF HandDelete, TypeOK
  <1>8. CASE ToggleUpload
    <2>1. budget' \in [rollbacks : Nat, handDeletes : Nat, toggles : Nat, renames : Nat]
      BY <1>0, <1>8 DEF ToggleUpload
    <2>2. api' \in Meta
      BY <1>0, <1>8 DEF ToggleUpload, Meta, SpecFields
    <2> QED BY <1>8, <2>1, <2>2 DEF ToggleUpload, TypeOK
  <1>9. CASE RenameDomain
    <2>1. budget' \in [rollbacks : Nat, handDeletes : Nat, toggles : Nat, renames : Nat]
      BY <1>0, <1>9 DEF RenameDomain
    <2>2. api' \in Meta
      BY <1>0, <1>9 DEF RenameDomain, Meta, SpecFields, DomainOrNone
    <2> QED BY <1>9, <2>1, <2>2 DEF RenameDomain, TypeOK
  <1>10. CASE DeleteCR
    <2>0. [api EXCEPT !.deleting = TRUE] \in Meta
      BY <1>0 DEF Meta
    <2>1. api' \in Meta /\ status' \in Status
      BY <1>0, <1>10, <2>0, NoStatusType, GoneType DEF DeleteCR
    <2> QED BY <1>10, <2>1 DEF DeleteCR, TypeOK
  <1>11. CASE CollectCertificate
    BY <1>0, <1>11 DEF CollectCertificate, TypeOK
  <1>12. CASE BindingStep
    BY <1>12, BindingStepType
  <1>13. CASE ProbeIntervalPasses
    <2>1. /\ status' \in Status /\ cstatus' \in Status
          /\ ac' \in Status /\ orig' \in Status
      <3>1. \A s \in Status : [s EXCEPT !.probed = FALSE] \in Status
        BY DEF Status
      <3> QED BY <1>0, <1>13, <3>1, Zenon DEF ProbeIntervalPasses
    <2> QED BY <1>13, <2>1 DEF ProbeIntervalPasses, TypeOK
  <1>14. CASE GracePeriodPasses
    <2>1. ghost' \in Ghost
      BY <1>14 DEF GracePeriodPasses, TypeOK, Ghost
    <2> QED BY <1>14, <2>1 DEF GracePeriodPasses, TypeOK
  <1>15. CASE Stabilise
    BY <1>15 DEF Stabilise, TypeOK
  <1> QED
    BY <1>1, <1>2, <1>3, <1>4, <1>5, <1>6, <1>7, <1>8, <1>9, <1>10, <1>11, <1>12, <1>13,
       <1>14, <1>15 DEF Environment

\* Every reachable state is well typed: the status written by any sequence of
\* rounds, crashes, stale reads and merge patches is a well formed status, and a
\* round that probes, uploads or reclaims holds a bundle.
THEOREM TypeCorrect == Spec => []TypeOK
  <1>1. Init => TypeOK
    BY InitType
  <1>2. TypeOK /\ [Next]_vars => TypeOK'
    <2>1. CASE UNCHANGED vars
      BY <2>1 DEF vars, crVars, cacheVars, issuerVars, cloudVars, roundVars, envVars, TypeOK
    <2> QED BY <2>1, RoundType, DeletionType, EnvironmentType DEF Next
  <1> QED BY <1>1, <1>2, PTL DEF Spec
-----------------------------------------------------------------------------
(* The finalizer guards every round *)

\* FinalizerHeld is inductive.  It speaks of api, capi and pc only; a step that
\* leaves api and capi alone can break it only by starting a round.
LEMMA FinalizerInductive == TypeOK /\ FinalizerHeld /\ [Next]_vars => FinalizerHeld'
  <1> SUFFICES ASSUME TypeOK, FinalizerHeld, [Next]_vars PROVE FinalizerHeld'
    OBVIOUS
  <1> USE DEF DeleteSteps, RoundSteps
  <1>0. api \in Meta /\ capi \in Meta
    BY DEF TypeOK
  <1>a. ASSUME UNCHANGED <<api, capi>>,
               \/ pc' \in {pc, "idle"}
               \/ pc \in RoundSteps /\ pc' \in RoundSteps
               \/ pc \in DeleteSteps /\ pc' \in DeleteSteps
        PROVE  FinalizerHeld'
    BY <1>a DEF FinalizerHeld
  <1>b. ASSUME UNCHANGED <<api, capi>>, CacheHolds, pc' \in RoundSteps
        PROVE  FinalizerHeld'
    BY <1>b DEF FinalizerHeld, CacheHolds
  <1>c. ASSUME UNCHANGED <<api, capi>>, CacheDeleting, pc' = "cleanup"
        PROVE  FinalizerHeld'
    <2>1. api.fin => api.deleting
      BY <1>c DEF FinalizerHeld, CacheDeleting, Gone
    <2> QED BY <1>c, <2>1 DEF FinalizerHeld, CacheDeleting
  <1>d. ASSUME api' = api, capi' = api, pc' \in {pc, "idle"}
        PROVE  FinalizerHeld'
    BY <1>d DEF FinalizerHeld
  <1> USE DEF crVars, cacheVars, roundVars, EndRound
  <1>1. CASE UNCHANGED vars
    BY <1>1, <1>a DEF vars
  <1>2. CASE Round
    <2>1. CASE AddFinalizer
      <3>1. api' = [api EXCEPT !.fin = TRUE] /\ capi' = capi /\ pc' = pc /\ pc = "idle"
            /\ api.exists /\ ~api.deleting /\ capi = api
        BY <2>1 DEF AddFinalizer
      <3>2. api'.exists /\ api'.fin /\ ~api'.deleting
        BY <1>0, <3>1 DEF Meta
      <3> QED BY <3>1, <3>2 DEF FinalizerHeld
    <2>2. CASE BeginRoundNotIssued \/ BeginRoundIssued
      BY <2>2, <1>b DEF BeginRoundNotIssued, BeginRoundIssued
    <2>3. CASE ProbeSkipped \/ ProbeFound \/ ProbeMissing
      BY <2>3, <1>a DEF ProbeSkipped, ProbeFound, ProbeMissing
    <2>4. CASE EnsureShortCircuit \/ EnsureRefresh \/ EnsureFails
      <3>1. UNCHANGED <<api, capi>> /\ pc = "ensure" /\ pc' \in {"reclaim", "upload", "patch"}
        BY <2>4, Zenon DEF EnsureShortCircuit, EnsureRefresh, EnsureFails, CloudError
      <3> QED BY <3>1, <1>a
    <2>5. CASE UploadNew \/ UploadClaim \/ UploadFails
      BY <2>5, <1>a DEF UploadNew, UploadClaim, UploadFails, Uploaded, CloudError
    <2>6. CASE ReclaimList \/ ReclaimOldest \/ ReclaimFails \/ ReclaimStops
      BY <2>6, <1>a DEF ReclaimList, ReclaimOldest, ReclaimFails, ReclaimStops, GoPatch
    <2>7. CASE PatchStatus
      BY <2>7, <1>a DEF PatchStatus
    <2> QED BY <1>2, <2>1, <2>2, <2>3, <2>4, <2>5, <2>6, <2>7 DEF Round
  <1>3. CASE Deletion
    <2>1. CASE DeleteBlocked
      BY <2>1, <1>a DEF DeleteBlocked
    <2>2. CASE DeleteStarts \/ DeleteResumes
      BY <2>2, <1>c DEF DeleteStarts, DeleteResumes
    <2>3. CASE CleanupDelete \/ CleanupDone
      BY <2>3, <1>a DEF CleanupDelete, CleanupDone
    <2>4. CASE CleanupFails
      <3>1. UNCHANGED <<api, capi>> /\ pc = "cleanup" /\ pc' \in {"cleaned", "idle"}
        BY <2>4, Zenon DEF CleanupFails
      <3> QED BY <3>1, <1>a
    <2>5. CASE PatchCleaned
      <3>1. UNCHANGED <<api, capi>> /\ pc = "cleaned" /\ pc' \in {"deleteCert", "idle"}
        BY <2>5, Zenon DEF PatchCleaned
      <3> QED BY <3>1, <1>a
    <2>6. CASE DeleteCertificate \/ DeleteSecret
      BY <2>6, <1>a DEF DeleteCertificate, DeleteSecret
    <2>7. CASE RemoveFinalizer
      <3>1. pc = "finalize" /\ pc' = "idle" /\ capi' = capi /\ (api' = Gone \/ api' = api)
        BY <2>7 DEF RemoveFinalizer
      <3>2. CASE api' = Gone
        BY <3>1, <3>2 DEF FinalizerHeld, Gone
      <3>3. CASE api' = api
        BY <3>1, <3>3, <1>a
      <3> QED BY <3>1, <3>2, <3>3
    <2> QED BY <1>3, <2>1, <2>2, <2>3, <2>4, <2>5, <2>6, <2>7 DEF Deletion
  <1>4. CASE Environment
    <2>1. CASE Crash \/ CacheSync
      BY <2>1, <1>d DEF Crash, CacheSync
    <2>2. CASE RoundAborts \/ CertCacheSync
      BY <2>2, <1>a DEF RoundAborts, CertCacheSync
    <2>3. CASE Issue \/ RollbackSecret \/ HandDelete \/ CollectCertificate
      BY <2>3, <1>a DEF Issue, RollbackSecret, HandDelete, CollectCertificate
    <2>4. CASE ToggleUpload \/ RenameDomain
      <3>1. UNCHANGED <<capi, pc>> /\ api.exists
        BY <2>4 DEF ToggleUpload, RenameDomain
      <3>2. api'.exists = api.exists /\ api'.fin = api.fin /\ api'.deleting = api.deleting
        BY <1>0, <2>4 DEF ToggleUpload, RenameDomain, Meta
      <3> QED BY <3>1, <3>2 DEF FinalizerHeld
    <2>5. CASE DeleteCR
      <3>1. UNCHANGED <<capi, pc>> /\ api.exists
        BY <2>5 DEF DeleteCR
      <3>2. CASE api.fin
        <4>1. api'.exists /\ api'.fin /\ api'.deleting
          BY <1>0, <2>5, <3>2 DEF DeleteCR, Meta
        <4> QED BY <3>1, <3>2, <4>1 DEF FinalizerHeld
      <3>3. CASE ~api.fin
        <4>1. api' = Gone /\ api'.fin = FALSE /\ api'.exists = FALSE
          BY <2>5, <3>3 DEF DeleteCR, Gone
        <4> QED BY <3>1, <3>3, <4>1 DEF FinalizerHeld
      <3> QED BY <3>2, <3>3
    <2>6. CASE BindingStep
      BY <2>6, <1>a DEF BindingStep, EditBinding, BindingApplies, BindingObserves,
                        DeleteBinding, BindingGone, SetBinding
    <2>7. CASE ProbeIntervalPasses \/ GracePeriodPasses \/ Stabilise
      BY <2>7, <1>a DEF ProbeIntervalPasses, GracePeriodPasses, Stabilise
    <2> QED BY <1>4, <2>1, <2>2, <2>3, <2>4, <2>5, <2>6, <2>7 DEF Environment
  <1> QED BY <1>1, <1>2, <1>3, <1>4 DEF Next

\* A normal round, begun from a cache that may be stale, runs only on a CR that
\* still has its finalizer on the server; a deletion round only on one that is
\* being deleted or gone.
THEOREM FinalizerGuards == Spec => []FinalizerHeld
  <1>1. Init => FinalizerHeld
    BY DEF Init, FinalizerHeld, DeleteSteps, RoundSteps
  <1>2. TypeOK /\ FinalizerHeld /\ [Next]_vars => FinalizerHeld'
    BY FinalizerInductive
  <1> QED BY <1>1, <1>2, TypeCorrect, PTL DEF Spec
-----------------------------------------------------------------------------
(* The write-ahead record precedes the upload *)

\* While the round calls Upload the persisted pendingUpload names its bundle.
RecordBeforeUpload == pc = "upload" => status.pend = b

\* RecordBeforeUpload is inductive with FinalizerHeld: only EnsureRefresh enters
\* the upload, with the record read live or just patched, and the one step that
\* could take the status away under it, the deletion of a CR without finalizer,
\* is excluded.
LEMMA RecordInductive ==
  TypeOK /\ FinalizerHeld /\ RecordBeforeUpload /\ [Next]_vars => RecordBeforeUpload'
  <1> SUFFICES ASSUME TypeOK, FinalizerHeld, RecordBeforeUpload, [Next]_vars
               PROVE  RecordBeforeUpload'
    OBVIOUS
  <1>0. status \in Status /\ ac \in Status
    BY DEF TypeOK
  <1>a. ASSUME UNCHANGED <<status, b, pc>> PROVE RecordBeforeUpload'
    BY <1>a DEF RecordBeforeUpload
  <1>b. ASSUME pc' # "upload" PROVE RecordBeforeUpload'
    BY <1>b DEF RecordBeforeUpload
  <1> USE DEF crVars, roundVars, EndRound
  <1>1. CASE UNCHANGED vars
    BY <1>1, <1>a DEF vars
  <1>2. CASE Round
    <2>1. CASE EnsureRefresh
      <3> DEFINE a == AdoptUploadState(ac, status)
      <3>1. a.pend = status.pend /\ status'.pend \in {status.pend, b} /\ b' = b
        <4>1. a.pend = status.pend
          BY <1>0 DEF AdoptUploadState, Status
        <4>2. [status EXCEPT !.pend = b, !.hint = acSpec.dom].pend = b
          BY <1>0 DEF Status
        <4>3. b' = b /\ (status' = status
                         \/ status' = [status EXCEPT !.pend = b, !.hint = acSpec.dom])
          BY <2>1, Zenon DEF EnsureRefresh, WriteAhead
        <4> QED BY <4>1, <4>2, <4>3
      <3> HIDE DEF a
      <3>2. pc' = "reclaim" \/ (HasRecord(a) /\ status' = status) \/ WriteAhead
        BY <2>1, Zenon DEF EnsureRefresh, a
      <3>3. CASE HasRecord(a) /\ status' = status
        BY <3>1, <3>3 DEF HasRecord, RecordBeforeUpload
      <3>4. CASE WriteAhead
        <4>1. status'.pend = b
          BY <1>0, <3>4 DEF WriteAhead, Status
        <4> QED BY <3>1, <4>1 DEF RecordBeforeUpload
      <3>5. CASE pc' = "reclaim"
        BY <3>5 DEF RecordBeforeUpload
      <3> QED BY <3>2, <3>3, <3>4, <3>5
    <2>2. CASE AddFinalizer
      BY <2>2, <1>b DEF AddFinalizer
    <2>3. CASE BeginRoundNotIssued \/ BeginRoundIssued \/ ProbeSkipped \/ ProbeFound
               \/ ProbeMissing \/ EnsureShortCircuit
      BY <2>3, <1>b DEF BeginRoundNotIssued, BeginRoundIssued, ProbeSkipped, ProbeFound,
                        ProbeMissing, EnsureShortCircuit
    <2>4. CASE EnsureFails
      <3>1. pc' = "patch"
        BY <2>4, Zenon DEF EnsureFails, CloudError
      <3> QED BY <3>1, <1>b
    <2>5. CASE UploadNew \/ UploadClaim \/ UploadFails
      BY <2>5, <1>b DEF UploadNew, UploadClaim, UploadFails, Uploaded, CloudError
    <2>6. CASE ReclaimList \/ ReclaimOldest \/ ReclaimFails \/ ReclaimStops \/ PatchStatus
      BY <2>6, <1>b DEF ReclaimList, ReclaimOldest, ReclaimFails, ReclaimStops, GoPatch,
                        PatchStatus
    <2> QED BY <1>2, <2>1, <2>2, <2>3, <2>4, <2>5, <2>6 DEF Round
  <1>3. CASE Deletion
    <2>1. pc' # "upload"
      <3>1. CASE CleanupFails
        BY <3>1, Zenon DEF CleanupFails
      <3>2. CASE PatchCleaned
        BY <3>2, Zenon DEF PatchCleaned
      <3>3. CASE DeleteBlocked \/ DeleteStarts \/ DeleteResumes \/ CleanupDelete
                 \/ CleanupDone \/ DeleteCertificate \/ DeleteSecret \/ RemoveFinalizer
        BY <3>3 DEF DeleteBlocked, DeleteStarts, DeleteResumes, CleanupDelete, CleanupDone,
                    DeleteCertificate, DeleteSecret, RemoveFinalizer, CacheDeleting
      <3> QED BY <1>3, <3>1, <3>2, <3>3 DEF Deletion
    <2> QED BY <2>1, <1>b
  <1>4. CASE Environment
    <2>1. CASE Crash \/ RoundAborts
      BY <2>1, <1>b DEF Crash, RoundAborts
    <2>2. CASE CacheSync \/ CertCacheSync \/ Issue \/ RollbackSecret \/ HandDelete
               \/ ToggleUpload \/ RenameDomain \/ CollectCertificate
      BY <2>2, <1>a DEF CacheSync, CertCacheSync, Issue, RollbackSecret, HandDelete,
                        ToggleUpload, RenameDomain, CollectCertificate
    <2>3. CASE DeleteCR
      <3>1. CASE pc = "upload"
        <4>1. api.fin
          BY <3>1 DEF FinalizerHeld, RoundSteps
        <4>2. UNCHANGED <<status, b, pc>>
          BY <2>3, <4>1 DEF DeleteCR
        <4> QED BY <4>2, <1>a
      <3>2. CASE pc # "upload"
        BY <2>3, <3>2, <1>b DEF DeleteCR
      <3> QED BY <3>1, <3>2
    <2>4. CASE BindingStep
      BY <2>4, <1>a DEF BindingStep, EditBinding, BindingApplies, BindingObserves,
                        DeleteBinding, BindingGone, SetBinding
    <2>5. CASE ProbeIntervalPasses
      <3>1. status'.pend = status.pend /\ UNCHANGED <<b, pc>>
        BY <1>0, <2>5 DEF ProbeIntervalPasses, Status
      <3> QED BY <3>1 DEF RecordBeforeUpload
    <2>6. CASE GracePeriodPasses \/ Stabilise
      BY <2>6, <1>a DEF GracePeriodPasses, Stabilise
    <2> QED BY <1>4, <2>1, <2>2, <2>3, <2>4, <2>5, <2>6 DEF Environment
  <1> QED BY <1>1, <1>2, <1>3, <1>4 DEF Next

\* Only UploadNew puts a certificate into CAS, and only its own bundle's.
LEMMA OnlyUploadAdds ==
  ASSUME TypeOK, [Next]_vars, NEW f \in FP, cas[f] = NoId, cas'[f] # NoId
  PROVE  pc = "upload" /\ f = b
  <1>0. cas \in [FP -> Nat]
    BY DEF TypeOK
  <1>a. ASSUME UNCHANGED cas PROVE FALSE
    BY <1>a
  <1>b. ASSUME NEW id, cas' = CasWithout(id) PROVE FALSE
    BY <1>0, <1>b DEF CasWithout
  <1> USE DEF cloudVars
  <1>1. CASE UNCHANGED vars
    BY <1>1, <1>a DEF vars
  <1>2. CASE Round
    <2>1. CASE UploadNew
      <3>1. pc = "upload" /\ cas' = [cas EXCEPT ![b] = nextId]
        BY <2>1 DEF UploadNew
      <3> QED BY <1>0, <3>1
    <2>2. CASE ReclaimOldest \/ ReclaimFails
      BY <2>2, <1>a, <1>b DEF ReclaimOldest, ReclaimFails
    <2>3. CASE AddFinalizer \/ BeginRoundNotIssued \/ BeginRoundIssued \/ ProbeSkipped
               \/ ProbeFound \/ ProbeMissing \/ EnsureShortCircuit \/ EnsureRefresh
               \/ EnsureFails \/ UploadClaim \/ UploadFails \/ ReclaimList
               \/ ReclaimStops \/ PatchStatus
      BY <2>3, <1>a, Zenon DEF AddFinalizer, BeginRoundNotIssued, BeginRoundIssued,
            ProbeSkipped, ProbeFound, ProbeMissing, EnsureShortCircuit, EnsureRefresh,
            EnsureFails, UploadClaim, UploadFails, ReclaimList, ReclaimStops, PatchStatus
    <2> QED BY <1>2, <2>1, <2>2, <2>3 DEF Round
  <1>3. CASE Deletion
    <2>1. CASE CleanupDelete \/ CleanupFails
      BY <2>1, <1>a, <1>b DEF CleanupDelete, CleanupFails
    <2>2. CASE DeleteBlocked \/ DeleteStarts \/ DeleteResumes \/ CleanupDone
               \/ PatchCleaned \/ DeleteCertificate \/ DeleteSecret \/ RemoveFinalizer
      BY <2>2, <1>a, Zenon DEF DeleteBlocked, DeleteStarts, DeleteResumes, CleanupDone,
            PatchCleaned, DeleteCertificate, DeleteSecret, RemoveFinalizer
    <2> QED BY <1>3, <2>1, <2>2 DEF Deletion
  <1>4. CASE Environment
    <2>1. CASE HandDelete
      BY <1>0, <2>1 DEF HandDelete
    <2>2. CASE BindingStep
      BY <2>2, <1>a DEF BindingStep, EditBinding, BindingApplies, BindingObserves,
                        DeleteBinding, BindingGone, SetBinding
    <2>3. CASE Crash \/ RoundAborts \/ CacheSync \/ CertCacheSync \/ Issue \/ RollbackSecret
               \/ ToggleUpload \/ RenameDomain \/ DeleteCR \/ CollectCertificate
               \/ ProbeIntervalPasses \/ GracePeriodPasses \/ Stabilise
      BY <2>3, <1>a, Zenon DEF Crash, RoundAborts, CacheSync, CertCacheSync, Issue,
            RollbackSecret, ToggleUpload, RenameDomain, DeleteCR, CollectCertificate,
            ProbeIntervalPasses, GracePeriodPasses, Stabilise
    <2> QED BY <1>4, <2>1, <2>2, <2>3 DEF Environment
  <1> QED BY <1>1, <1>2, <1>3, <1>4 DEF Next

\* The write-ahead rule of upload.go, for every instance: a certificate appears
\* in CAS only while the pendingUpload persisted on the API server names it,
\* whatever the cache showed the round and whoever deleted the CR meanwhile.
THEOREM WriteAheadRule == Spec => UploadIsRecorded
  <1>1. Init => RecordBeforeUpload
    BY DEF Init, RecordBeforeUpload
  <1>2. TypeOK /\ FinalizerHeld /\ RecordBeforeUpload /\ [Next]_vars => RecordBeforeUpload'
    BY RecordInductive
  <1>3. TypeOK /\ RecordBeforeUpload /\ [Next]_vars =>
          [\A f \in FP : cas[f] = NoId /\ cas'[f] # NoId => status.pend = f]_vars
    BY OnlyUploadAdds DEF RecordBeforeUpload
  <1> QED
    BY <1>1, <1>2, <1>3, TypeCorrect, FinalizerGuards, PTL DEF Spec, UploadIsRecorded
-----------------------------------------------------------------------------
(* Records *)

\* Types are kept by every step.
LEMMA TypeStep == TypeOK /\ [Next]_vars => TypeOK'
  <1>1. CASE UNCHANGED vars
    BY <1>1 DEF vars, crVars, cacheVars, issuerVars, cloudVars, roundVars, envVars, TypeOK
  <1> QED BY <1>1, RoundType, DeletionType, EnvironmentType DEF Next
-----------------------------------------------------------------------------
(* The Secret goes before the finalizer *)

\* Without the finalizer there is neither Certificate nor Secret: they are made
\* under it, and it is given up after them.
SecretUnderFinalizer ==
    /\ ~api.fin => cert = NoDom /\ secret = NoFP
    /\ pc = "finalize" => cert = NoDom /\ secret = NoFP

\* SecretUnderFinalizer is inductive with FinalizerHeld: a round makes the
\* Certificate only on a CR that has the finalizer, and a Certificate read live
\* as gone cannot come back while the deletion round goes on.
LEMMA SecretInductive ==
  ASSUME ~CertCacheLags, TypeOK, FinalizerHeld, SecretUnderFinalizer, [Next]_vars
  PROVE  SecretUnderFinalizer'
  <1> USE DEF crVars, cacheVars, issuerVars, cloudVars, roundVars, EndRound
  <1>0. api \in Meta
    BY DEF TypeOK
  <1>a. ASSUME UNCHANGED <<api, cert, secret>>, pc' = pc \/ pc' # "finalize"
        PROVE  SecretUnderFinalizer'
    BY <1>a DEF SecretUnderFinalizer
  <1>b. ASSUME api.fin, api' = api, pc' # "finalize" PROVE SecretUnderFinalizer'
    BY <1>b DEF SecretUnderFinalizer
  <1>1. CASE UNCHANGED vars
    BY <1>1, <1>a DEF vars
  <1>2. CASE Round
    <2>1. CASE AddFinalizer
      <3>1. api'.fin /\ pc' = "idle"
        BY <1>0, <2>1 DEF AddFinalizer, Meta
      <3> QED BY <3>1 DEF SecretUnderFinalizer
    <2>2. CASE BeginRoundNotIssued \/ BeginRoundIssued
      <3>1. CacheHolds /\ api' = api /\ pc' # "finalize"
        BY <2>2 DEF BeginRoundNotIssued, BeginRoundIssued
      <3>2. api.fin
        BY <3>1 DEF FinalizerHeld, CacheHolds
      <3> QED BY <3>1, <3>2, <1>b
    <2>3. CASE ProbeSkipped \/ ProbeFound \/ ProbeMissing \/ EnsureShortCircuit
               \/ EnsureRefresh \/ EnsureFails \/ UploadNew \/ UploadClaim \/ UploadFails
               \/ ReclaimList \/ ReclaimOldest \/ ReclaimFails \/ ReclaimStops \/ PatchStatus
      <3>1. UNCHANGED <<api, cert, secret>> /\ (pc' = pc \/ pc' # "finalize")
        BY <2>3, Zenon DEF ProbeSkipped, ProbeFound, ProbeMissing, EnsureShortCircuit,
             EnsureRefresh, EnsureFails, CloudError, UploadNew, UploadClaim, UploadFails,
             Uploaded, ReclaimList, ReclaimOldest, ReclaimFails, ReclaimStops, GoPatch,
             PatchStatus
      <3> QED BY <3>1, <1>a
    <2> QED BY <1>2, <2>1, <2>2, <2>3 DEF Round
  <1>3. CASE Deletion
    <2>1. CASE DeleteBlocked \/ DeleteStarts \/ DeleteResumes \/ CleanupDelete
               \/ CleanupFails \/ CleanupDone \/ PatchCleaned
      <3>1. UNCHANGED <<api, cert, secret>> /\ (pc' = pc \/ pc' # "finalize")
        BY <2>1, Zenon DEF DeleteBlocked, DeleteStarts, DeleteResumes, CleanupDelete,
             CleanupFails, CleanupDone, PatchCleaned
      <3> QED BY <3>1, <1>a
    <2>2. CASE DeleteCertificate
      BY <2>2 DEF DeleteCertificate, SecretUnderFinalizer
    <2>3. CASE DeleteSecret
      BY <2>3 DEF DeleteSecret, SecretUnderFinalizer, CertificateGone, CertSeen
    <2>4. CASE RemoveFinalizer
      BY <2>4 DEF RemoveFinalizer, SecretUnderFinalizer, Gone
    <2> QED BY <1>3, <2>1, <2>2, <2>3, <2>4 DEF Deletion
  <1>4. CASE Environment
    <2>1. CASE Crash \/ RoundAborts \/ CacheSync \/ CertCacheSync \/ HandDelete
               \/ ProbeIntervalPasses \/ GracePeriodPasses \/ Stabilise
      BY <2>1, <1>a DEF Crash, RoundAborts, CacheSync, CertCacheSync, HandDelete,
            ProbeIntervalPasses, GracePeriodPasses, Stabilise
    <2>2. CASE Issue \/ RollbackSecret
      BY <2>2 DEF Issue, RollbackSecret, SecretUnderFinalizer
    <2>3. CASE ToggleUpload \/ RenameDomain
      <3>1. api'.fin = api.fin /\ UNCHANGED <<cert, secret, pc>>
        BY <1>0, <2>3 DEF ToggleUpload, RenameDomain, Meta
      <3> QED BY <3>1 DEF SecretUnderFinalizer
    <2>4. CASE DeleteCR
      <3>1. (api'.fin <=> api.fin) /\ UNCHANGED <<cert, secret, pc>>
        BY <1>0, <2>4 DEF DeleteCR, Meta, Gone
      <3> QED BY <3>1 DEF SecretUnderFinalizer
    <2>5. CASE CollectCertificate
      <3>1. ~api.fin
        BY <1>0, <2>5 DEF CollectCertificate, FinalizerHeld, Gone
      <3> QED BY <3>1, <2>5 DEF CollectCertificate, SecretUnderFinalizer
    <2>6. CASE BindingStep
      BY <2>6, <1>a DEF BindingStep, EditBinding, BindingApplies, BindingObserves,
                        DeleteBinding, BindingGone, SetBinding
    <2> QED BY <1>4, <2>1, <2>2, <2>3, <2>4, <2>5, <2>6 DEF Environment
  <1> QED BY <1>1, <1>2, <1>3, <1>4 DEF Next

\* A deleted CR leaves no private key, for every instance in which the
\* Certificate is read as it is: reconcileDelete deletes the Secret only once
\* the Certificate is gone, and gives up the finalizer only then, so nothing is
\* left that cert-manager would write a Secret for.  With a Certificate cache
\* that lags (CertCacheLags) this does not hold.
THEOREM KeyGoesWithCR ==
  ASSUME ~CertCacheLags PROVE Spec => []SecretGoesWithCR
  <1>1. Init => SecretUnderFinalizer
    BY DEF Init, SecretUnderFinalizer
  <1>2. TypeOK /\ FinalizerHeld /\ SecretUnderFinalizer /\ [Next]_vars
          => SecretUnderFinalizer'
    BY SecretInductive
  <1>3. FinalizerHeld /\ SecretUnderFinalizer => SecretGoesWithCR
    BY DEF FinalizerHeld, SecretUnderFinalizer, SecretGoesWithCR, Gone
  <1> QED BY <1>1, <1>2, <1>3, TypeCorrect, FinalizerGuards, PTL DEF Spec
-----------------------------------------------------------------------------
(* The operators on the status, field by field *)

\* Two statuses hold the same records: all but conditions and casProbedAt.
Same(s, t) ==
    /\ s.cur = t.cur /\ s.hist = t.hist /\ s.pend = t.pend
    /\ s.hint = t.hint /\ (s.cleanup <=> t.cleanup)

\* Setting a condition or casProbedAt keeps the records.
LEMMA CondsSame ==
  ASSUME NEW s \in Status, NEW v
  PROVE  /\ Same([s EXCEPT !.conds.issued = v], s)
         /\ Same([s EXCEPT !.conds.uploaded = v], s)
         /\ Same([s EXCEPT !.conds.ready = v], s)
         /\ Same([s EXCEPT !.probed = v], s)
         /\ Same(s, s)
  BY DEF Same, Status

\* setUploadedCondition and aggregateReady keep the records.
LEMMA AggregateSame ==
  ASSUME NEW s \in Status, NEW u \in BOOLEAN
  PROVE  /\ Same(SetUploadedCondition(s, u), s)
         /\ Same(AggregateReady(s, u), s)
         /\ \A v \in BOOLEAN : /\ Same(AggregateReady([s EXCEPT !.conds.uploaded = v], u), s)
                             /\ Same(AggregateReady([s EXCEPT !.conds.issued = v], u), s)
  <1>1. Same(SetUploadedCondition(s, u), s) /\ Same(AggregateReady(s, u), s)
    BY CondsSame DEF SetUploadedCondition, AggregateReady
  <1>2. ASSUME NEW v \in BOOLEAN, NEW t \in Status, Same(t, s)
        PROVE  Same(AggregateReady(t, u), s)
    <2>1. Same(AggregateReady(t, u), t)
      BY CondsSame DEF AggregateReady
    <2> QED BY <1>2, <2>1 DEF Same
  <1>3. ASSUME NEW v \in BOOLEAN
        PROVE  /\ Same(AggregateReady([s EXCEPT !.conds.uploaded = v], u), s)
               /\ Same(AggregateReady([s EXCEPT !.conds.issued = v], u), s)
    BY <1>2, <1>3, SetCondType, CondsSame
  <1> QED BY <1>1, <1>3

\* adoptUploadState takes the records of the status read live.
LEMMA AdoptFields ==
  ASSUME NEW t \in Status, NEW s \in Status
  PROVE  LET a == AdoptUploadState(t, s)
         IN  /\ a.cur = s.cur /\ a.hist = s.hist /\ a.pend = s.pend /\ a.hint = s.hint
             /\ (a.cleanup <=> t.cleanup)
  BY DEF AdoptUploadState, Status

\* The write-ahead record in a status.
LEMMA PendFields ==
  ASSUME NEW s \in Status, NEW f, NEW d
  PROVE  LET a == [s EXCEPT !.pend = f, !.hint = d]
         IN  /\ a.cur = s.cur /\ a.hist = s.hist /\ a.pend = f /\ a.hint = d
             /\ (a.cleanup <=> s.cleanup)
  BY DEF Status

\* The tail of ensureUploaded, in a status.
LEMMA AdvanceFields ==
  ASSUME NEW s \in Status, NEW f, NEW id
  PROVE  LET a == Advance(s, f, id)
         IN  /\ a.cur = [fp |-> f, id |-> id]
             /\ a.hist = IF s.cur.fp # NoFP THEN <<s.cur>> \o s.hist ELSE s.hist
             /\ a.pend = s.pend /\ a.hint = s.hint
             /\ (a.cleanup <=> s.cleanup)
  BY DEF Advance, Status

\* What a successful upload makes of the working copy.
LEMMA UploadedFields ==
  ASSUME TypeOK, NEW id \in Nat, Uploaded(id)
  PROVE  /\ ac'.cur = [fp |-> b, id |-> id]
         /\ ac'.hist = IF ac.cur.fp # NoFP THEN <<ac.cur>> \o ac.hist ELSE ac.hist
         /\ ac'.pend = NoFP /\ ac'.hint = NoDom
         /\ (ac'.cleanup <=> ac.cleanup)
         /\ pc' = "reclaim"
  <1> DEFINE s == Advance(ac, b, id)
             t == [s EXCEPT !.pend = NoFP, !.hint = NoDom, !.probed = TRUE]
  <1>a. b \in 0 .. lastGen /\ lastGen \in 0 .. MaxGen /\ acSpec \in SpecFields
    BY DEF TypeOK
  <1>b. b \in FP \cup {NoFP}
    BY <1>a, MaxGenAssumption
  <1>0. ac \in Status /\ b \in FP \cup {NoFP} /\ acSpec.upload \in BOOLEAN
    BY <1>a, <1>b DEF TypeOK, SpecFields
  <1>1. s \in Status
    BY <1>0, AdvanceType
  <1>2. /\ s.cur = [fp |-> b, id |-> id]
        /\ s.hist = IF ac.cur.fp # NoFP THEN <<ac.cur>> \o ac.hist ELSE ac.hist
        /\ (s.cleanup <=> ac.cleanup)
    BY <1>0, AdvanceFields
  <1> HIDE DEF s
  <1>3. /\ t.cur = s.cur /\ t.hist = s.hist /\ t.pend = NoFP /\ t.hint = NoDom
        /\ (t.cleanup <=> s.cleanup)
    BY <1>1 DEF Status
  <1>4. t \in Status
    <2>1. NoDom \in DomainOrNone /\ NoFP \in FP \cup {NoFP}
      BY DEF DomainOrNone
    <2> QED BY <1>1, <2>1, SetPendType
  <1>5. ac' = SetUploadedCondition(t, acSpec.upload) /\ pc' = "reclaim"
    BY DEF Uploaded, s
  <1> HIDE DEF t
  <1>6. Same(ac', t)
    BY <1>0, <1>4, <1>5, AggregateSame
  <1> QED BY <1>2, <1>3, <1>5, <1>6 DEF Same

\* One certificate further in cleanupCAS: an id is cleared in the history, or in
\* current, or the record of the pending upload is dropped.
LEMMA DeletedFields ==
  ASSUME NEW s \in Status
  PROVE  LET a == DeletedNext(s)
         IN  \/ /\ ~HistoryIsClean(s)
                /\ a.hist = [s.hist EXCEPT ![FirstLeft(s)].id = NoId]
                /\ a.cur = s.cur /\ a.pend = s.pend /\ a.hint = s.hint
                /\ (a.cleanup <=> s.cleanup)
             \/ /\ HistoryIsClean(s) /\ s.cur.id # NoId
                /\ a.cur = [fp |-> s.cur.fp, id |-> NoId]
                /\ a.hist = s.hist /\ a.pend = s.pend /\ a.hint = s.hint
                /\ (a.cleanup <=> s.cleanup)
             \/ /\ HistoryIsClean(s) /\ s.cur.id = NoId
                /\ a.pend = NoFP /\ a.hint = NoDom
                /\ a.cur = s.cur /\ a.hist = s.hist
                /\ (a.cleanup <=> s.cleanup)
  <1> DEFINE i == FirstLeft(s)
  <1>1. CASE ~HistoryIsClean(s)
    <2> HIDE DEF i
    <2>1. LET a == [s EXCEPT !.hist[i].id = NoId]
          IN  /\ a.hist = [s.hist EXCEPT ![i].id = NoId]
              /\ a.cur = s.cur /\ a.pend = s.pend /\ a.hint = s.hint
              /\ (a.cleanup <=> s.cleanup)
      BY DEF Status
    <2> QED BY <1>1, <2>1 DEF DeletedNext, i
  <1>2. CASE HistoryIsClean(s) /\ s.cur.id # NoId
    <2>1. LET a == [s EXCEPT !.cur.id = NoId]
          IN  /\ a.cur = [fp |-> s.cur.fp, id |-> NoId]
              /\ a.hist = s.hist /\ a.pend = s.pend /\ a.hint = s.hint
              /\ (a.cleanup <=> s.cleanup)
      BY DEF Status, Gen
    <2> QED BY <1>2, <2>1 DEF DeletedNext
  <1>3. CASE HistoryIsClean(s) /\ s.cur.id = NoId
    BY <1>3, PendFields DEF DeletedNext
  <1> QED BY <1>1, <1>2, <1>3

\* Dropping the oldest generation leaves the rest.
LEMMA DropFields ==
  ASSUME NEW s \in Status
  PROVE  LET a == DropOldest(s)
         IN  /\ a.hist = SubSeq(s.hist, 1, Len(s.hist) - 1)
             /\ a.cur = s.cur /\ a.pend = s.pend /\ a.hint = s.hint
             /\ (a.cleanup <=> s.cleanup)
  BY DEF DropOldest, Status
-----------------------------------------------------------------------------
(* A pending upload is found again *)

\* Every first name the controller deals with is d.
NamesAre(d) ==
    /\ cert \in {d, NoDom} /\ ccert \in {d, NoDom}
    /\ \A f \in 1 .. lastGen : dom[f] = d
    /\ \A f \in FP : cas[f] # NoId => f \in 1 .. lastGen
    /\ status.hint \in {d, NoDom} /\ cstatus.hint \in {d, NoDom}
    /\ ac.hint \in {d, NoDom} /\ orig.hint \in {d, NoDom}
    /\ api.exists => api.spec.dom = d
    /\ capi.exists => capi.spec.dom = d
    /\ pc # "idle" => acSpec.dom = d

\* The CR keeps its first name.
OneName == \E d \in Domain : NamesAre(d)

\* The hint of a merge patch is one of the three it merges.
LEMMA MergeHint ==
  ASSUME NEW s, NEW o, NEW a
  PROVE  MergePatch(s, o, a).hint \in {s.hint, a.hint}
  BY DEF MergePatch, Merged

\* A step of a normal round brings no other name in.
LEMMA RoundNames ==
  ASSUME TypeOK, FinalizerHeld, NEW d \in Domain, NamesAre(d), Round
  PROVE  NamesAre(d)'
  <1> USE DEF crVars, cacheVars, issuerVars, cloudVars, roundVars, envVars
  <1>0. /\ status \in Status /\ cstatus \in Status /\ ac \in Status /\ orig \in Status
        /\ acSpec.upload \in BOOLEAN /\ capi.spec.upload \in BOOLEAN
        /\ api \in Meta
    BY DEF TypeOK, Meta, SpecFields
  \* Steps that leave issuer, server and cache alone.
  <1>a. ASSUME UNCHANGED <<cert, ccert, lastGen, dom, api, capi, cstatus>>,
               \A f \in FP : cas'[f] # NoId => cas[f] # NoId \/ (f = b /\ pc = "upload"),
               pc # "idle",
               acSpec' = acSpec \/ pc' = "idle" \/ acSpec'.dom = d,
               status'.hint \in {d, NoDom}, ac'.hint \in {d, NoDom}, orig'.hint \in {d, NoDom}
        PROVE  NamesAre(d)'
    <2>1. \A f \in FP : cas'[f] # NoId => f \in 1 .. lastGen
      <3>1. pc = "upload" => b \in 1 .. lastGen
        BY DEF TypeOK
      <3> QED BY <1>a, <3>1 DEF NamesAre
    <2> QED BY <1>a, <2>1 DEF NamesAre
  <1>1. CASE AddFinalizer
    <2>1. api'.exists /\ api'.spec = api.spec /\ api.exists
      BY <1>0, <1>1 DEF AddFinalizer, Meta
    <2> QED BY <1>1, <2>1 DEF AddFinalizer, NamesAre
  <1>2. CASE BeginRoundNotIssued \/ BeginRoundIssued
    <2>1. capi.exists /\ orig' = cstatus /\ acSpec' = capi.spec /\ CreateOrUpdateCertificate
          /\ UNCHANGED <<api, status, capi, cstatus, ccert, lastGen, dom, cas>>
      BY <1>2 DEF BeginRoundNotIssued, BeginRoundIssued, CacheHolds
    <2>2. ac'.hint = cstatus.hint
      <3>1. CASE BeginRoundNotIssued
        <4>1. Same(AggregateReady([cstatus EXCEPT !.conds.issued = FALSE], capi.spec.upload),
                   cstatus)
          BY <1>0, AggregateSame
        <4> QED BY <3>1, <4>1 DEF BeginRoundNotIssued, Same
      <3>2. CASE BeginRoundIssued
        BY <3>2, <1>0, CondsSame DEF BeginRoundIssued, Same
      <3> QED BY <1>2, <3>1, <3>2
    <2>3. cert' \in {d, NoDom}
      BY <2>1 DEF CreateOrUpdateCertificate, NamesAre
    <2> QED BY <2>1, <2>2, <2>3 DEF NamesAre
  <1>3. CASE ProbeSkipped \/ ProbeFound
    <2>1. ac'.hint = ac.hint
      <3>1. Same([ac EXCEPT !.probed = TRUE], ac)
        BY <1>0, CondsSame
      <3> QED BY <1>3, <3>1 DEF ProbeSkipped, ProbeFound, Same
    <2> QED BY <1>3, <2>1, <1>a DEF ProbeSkipped, ProbeFound, NamesAre
  <1>4. CASE ProbeMissing
    <2> DEFINE x == [ac EXCEPT !.cur = NoGen, !.probed = TRUE]
    <2>1. x.hint = ac.hint
      BY <1>0 DEF Status
    <2> HIDE DEF x
    <2>2. status' = MergePatch(status, orig, x) /\ ac' = status' /\ orig' = status'
          /\ acSpec' = api.spec /\ pc = "probe"
          /\ UNCHANGED <<api, cacheVars, issuerVars, cloudVars>>
      BY <1>4 DEF ProbeMissing, PatchAndReload, x
    <2>3. status'.hint \in {d, NoDom}
      BY <2>1, <2>2, MergeHint DEF NamesAre
    <2>4. acSpec'.dom = d
      <3>1. api.fin
        BY <2>2 DEF FinalizerHeld, RoundSteps
      <3>2. api.exists
        BY <3>1 DEF FinalizerHeld, Gone
      <3> QED BY <2>2, <3>2 DEF NamesAre
    <2>5. \A f \in FP : cas'[f] # NoId => cas[f] # NoId
      BY <2>2
    <2> QED BY <2>2, <2>3, <2>4, <2>5, <1>a DEF NamesAre
  <1>5. CASE EnsureShortCircuit
    <2>1. ac'.hint = ac.hint
      BY <1>5, <1>0, AggregateSame DEF EnsureShortCircuit, Same
    <2> QED BY <1>5, <2>1, <1>a DEF EnsureShortCircuit, NamesAre
  <1>6. CASE EnsureRefresh \/ EnsureFails
    <2> DEFINE x == AdoptUploadState(ac, status)
               o == AdoptUploadState(orig, status)
    <2>1. x \in Status /\ o \in Status /\ x.hint = status.hint /\ o.hint = status.hint
      BY <1>0, AdoptType, AdoptFields
    <2>2. b \in FP \cup {NoFP}
      BY MaxGenAssumption DEF TypeOK
    <2>3. /\ SetUploadedCondition(x, acSpec.upload).hint = status.hint
          /\ SetUploadedCondition(Advance(x, b, NoId), acSpec.upload).hint = status.hint
          /\ [x EXCEPT !.pend = b, !.hint = acSpec.dom].hint = acSpec.dom
          /\ [o EXCEPT !.pend = b, !.hint = acSpec.dom].hint = acSpec.dom
          /\ [status EXCEPT !.pend = b, !.hint = acSpec.dom].hint = acSpec.dom
          /\ AggregateReady([ac EXCEPT !.conds.uploaded = FALSE], acSpec.upload).hint = ac.hint
          /\ AggregateReady([x EXCEPT !.conds.uploaded = FALSE], acSpec.upload).hint
               = status.hint
      <3>1. Advance(x, b, NoId) \in Status /\ Advance(x, b, NoId).hint = status.hint
        BY <2>1, <2>2, AdvanceType, AdvanceFields
      <3>2. /\ Same(SetUploadedCondition(x, acSpec.upload), x)
            /\ Same(SetUploadedCondition(Advance(x, b, NoId), acSpec.upload),
                    Advance(x, b, NoId))
            /\ Same(AggregateReady([ac EXCEPT !.conds.uploaded = FALSE], acSpec.upload), ac)
            /\ Same(AggregateReady([x EXCEPT !.conds.uploaded = FALSE], acSpec.upload), x)
        BY <1>0, <2>1, <3>1, AggregateSame
      <3> HIDE DEF x, o
      <3>3. /\ [x EXCEPT !.pend = b, !.hint = acSpec.dom].hint = acSpec.dom
            /\ [o EXCEPT !.pend = b, !.hint = acSpec.dom].hint = acSpec.dom
            /\ [status EXCEPT !.pend = b, !.hint = acSpec.dom].hint = acSpec.dom
        BY <1>0, <2>1, PendFields
      <3> QED BY <2>1, <3>1, <3>2, <3>3 DEF Same
    <2> HIDE DEF x, o
    <2>4. /\ pc = "ensure"
          /\ UNCHANGED <<api, cacheVars, issuerVars, cloudVars, acSpec>>
          /\ status'.hint \in {status.hint, acSpec.dom}
          /\ ac'.hint \in {ac.hint, status.hint, acSpec.dom}
          /\ orig'.hint \in {orig.hint, status.hint, acSpec.dom}
      <3>1. CASE EnsureRefresh
        <4>1. /\ status' = status
                 \/ status' = [status EXCEPT !.pend = b, !.hint = acSpec.dom]
              /\ orig' = o \/ orig' = [o EXCEPT !.pend = b, !.hint = acSpec.dom]
              /\ \/ ac' = SetUploadedCondition(x, acSpec.upload)
                 \/ ac' = SetUploadedCondition(Advance(x, b, NoId), acSpec.upload)
                 \/ ac' = x
                 \/ ac' = [x EXCEPT !.pend = b, !.hint = acSpec.dom]
              /\ pc = "ensure"
              /\ UNCHANGED <<api, cacheVars, issuerVars, cloudVars, acSpec>>
          BY <3>1, Zenon DEF EnsureRefresh, WriteAhead, x, o
        <4> QED BY <4>1, <2>1, <2>3
      <3>2. CASE EnsureFails
        <4>1. /\ status' = status
                 \/ status' = [status EXCEPT !.pend = b, !.hint = acSpec.dom]
              /\ orig' = o \/ orig' = orig
              /\ \/ ac' = AggregateReady([ac EXCEPT !.conds.uploaded = FALSE], acSpec.upload)
                 \/ ac' = AggregateReady([x EXCEPT !.conds.uploaded = FALSE], acSpec.upload)
              /\ pc = "ensure"
              /\ UNCHANGED <<api, cacheVars, issuerVars, cloudVars, acSpec>>
          BY <3>2, Zenon DEF EnsureFails, CloudError, WriteAhead, x, o
        <4> QED BY <4>1, <2>1, <2>3
      <3> QED BY <1>6, <3>1, <3>2
    <2> QED BY <2>4, <1>a DEF NamesAre
  <1>7. CASE UploadNew \/ UploadClaim \/ UploadFails
    <2>1. ASSUME NEW id \in Nat, Uploaded(id) PROVE ac'.hint = NoDom
      BY <2>1, UploadedFields
    <2>2. ASSUME CloudError PROVE ac'.hint = ac.hint
      <3>1. ac' = AggregateReady([ac EXCEPT !.conds.uploaded = FALSE], acSpec.upload)
        BY <2>2 DEF CloudError
      <3>2. Same(AggregateReady([ac EXCEPT !.conds.uploaded = FALSE], acSpec.upload), ac)
        <4>1. ac \in Status /\ acSpec.upload \in BOOLEAN
          BY DEF TypeOK, SpecFields
        <4> QED BY <4>1, AggregateSame
      <3> QED BY <3>1, <3>2 DEF Same
    <2>3. ac'.hint \in {ac.hint, NoDom}
      <3>1. CASE UploadNew
        BY <3>1, <2>1, <2>2 DEF UploadNew, TypeOK
      <3>2. CASE UploadClaim
        <4>1. \A id \in FindByName(b) : id \in Nat
          BY DEF FindByName, Listed, TypeOK
        <4> QED BY <3>2, <4>1, <2>1 DEF UploadClaim
      <3>3. CASE UploadFails
        BY <3>3, <2>2 DEF UploadFails
      <3> QED BY <1>7, <3>1, <3>2, <3>3
    <2>4. \A f \in FP : cas'[f] # NoId => cas[f] # NoId \/ f = b
      BY <1>7 DEF UploadNew, UploadClaim, UploadFails, TypeOK
    <2> QED BY <1>7, <2>3, <2>4, <1>a DEF UploadNew, UploadClaim, UploadFails, NamesAre
  <1>8. CASE ReclaimList \/ ReclaimOldest \/ ReclaimFails \/ ReclaimStops
    <2>1. ac'.hint = ac.hint
      BY <1>8, <1>0, AggregateSame, DropFields
         DEF ReclaimList, ReclaimOldest, ReclaimFails, ReclaimStops, GoPatch, Same
    <2>2. \A f \in FP : cas'[f] # NoId => cas[f] # NoId
      BY <1>8 DEF ReclaimList, ReclaimOldest, ReclaimFails, ReclaimStops, CasWithout, TypeOK
    <2> QED BY <1>8, <2>1, <2>2, <1>a
            DEF ReclaimList, ReclaimOldest, ReclaimFails, ReclaimStops, NamesAre
  <1>9. CASE PatchStatus
    <2>1. status'.hint \in {d, NoDom}
      BY <1>9, MergeHint DEF PatchStatus, NamesAre
    <2>2. pc = "patch" /\ pc' = "idle" /\ ac' = NoStatus /\ orig' = NoStatus
          /\ UNCHANGED <<api, cacheVars, issuerVars, cloudVars>>
      BY <1>9 DEF PatchStatus, EndRound
    <2>3. NoStatus.hint = NoDom /\ \A f \in FP : cas'[f] # NoId => cas[f] # NoId
      BY <2>2 DEF NoStatus
    <2> QED BY <2>1, <2>2, <2>3, <1>a DEF NamesAre
  <1> QED BY <1>1, <1>2, <1>3, <1>4, <1>5, <1>6, <1>7, <1>8, <1>9 DEF Round

\* A step of a deletion round brings no other name in.
LEMMA DeletionNames ==
  ASSUME TypeOK, FinalizerHeld, NEW d \in Domain, NamesAre(d), Deletion
  PROVE  NamesAre(d)'
  <1> USE DEF crVars, cacheVars, issuerVars, cloudVars, roundVars, envVars
  <1>0. /\ status \in Status /\ cstatus \in Status /\ ac \in Status /\ orig \in Status
        /\ NoStatus.hint = NoDom /\ cas \in [FP -> Nat]
    BY DEF TypeOK, NoStatus
  <1>1. CASE DeleteBlocked
    <2>1. Same([cstatus EXCEPT !.conds.ready = FALSE], cstatus)
      BY <1>0, CondsSame
    <2>2. status'.hint \in {status.hint, cstatus.hint}
      BY <1>1, <2>1, MergeHint DEF DeleteBlocked, Same
    <2> QED BY <1>1, <2>2 DEF DeleteBlocked, NamesAre
  <1>2. CASE DeleteStarts
    <2>1. [cstatus EXCEPT !.cleanup = TRUE].hint = cstatus.hint
      BY <1>0 DEF Status
    <2>2. status' = MergePatch(status, cstatus, [cstatus EXCEPT !.cleanup = TRUE])
          /\ ac' = status' /\ orig' = status' /\ acSpec' = api.spec /\ api.exists
          /\ UNCHANGED <<api, cacheVars, issuerVars, cloudVars>>
      BY <1>2 DEF DeleteStarts
    <2>3. status'.hint \in {status.hint, cstatus.hint}
      BY <2>1, <2>2, MergeHint
    <2> QED BY <2>2, <2>3 DEF NamesAre
  <1>3. CASE DeleteResumes
    BY <1>3 DEF DeleteResumes, CacheDeleting, NamesAre
  <1>a. ASSUME UNCHANGED <<api, cacheVars, ccert, lastGen, dom>>,
               cert' = cert \/ cert' = NoDom,
               \A f \in FP : cas'[f] # NoId => cas[f] # NoId,
               status'.hint \in {d, NoDom}, ac'.hint \in {d, NoDom}, orig'.hint \in {d, NoDom},
               pc' # "idle" => acSpec'.dom = d
        PROVE  NamesAre(d)'
    BY <1>a DEF NamesAre
  <1>4. CASE CleanupDelete
    <2>1. ac'.hint \in {ac.hint, NoDom}
      BY <1>0, <1>4, DeletedFields DEF CleanupDelete
    <2>2. \A f \in FP : cas'[f] # NoId => cas[f] # NoId
      BY <1>0, <1>4 DEF CleanupDelete, CasWithout
    <2> QED BY <1>4, <2>1, <2>2, <1>a DEF CleanupDelete, NamesAre
  <1>5. CASE CleanupFails
    <2>1. \A f \in FP : cas'[f] # NoId => cas[f] # NoId
      BY <1>0, <1>5 DEF CleanupFails, CasWithout
    <2>2. CASE ShouldAbandonCleanup
      BY <1>5, <2>1, <2>2, <1>a DEF CleanupFails, NamesAre
    <2>3. CASE ~ShouldAbandonCleanup
      <3> DEFINE m == MergePatch(status, orig, [ac EXCEPT !.conds.ready = FALSE])
      <3>1. Same([ac EXCEPT !.conds.ready = FALSE], ac)
        BY <1>0, CondsSame
      <3>2. m.hint \in {status.hint, ac.hint}
        BY <3>1, MergeHint DEF Same
      <3> HIDE DEF m
      <3>3. status' = (IF api.exists THEN m ELSE status) /\ pc' = "idle" /\ ac' = NoStatus
            /\ orig' = NoStatus /\ UNCHANGED <<api, cacheVars, issuerVars>>
        BY <1>5, <2>3 DEF CleanupFails, EndRound, m
      <3>4. status'.hint \in {d, NoDom}
        BY <3>2, <3>3 DEF NamesAre
      <3> QED BY <1>0, <2>1, <3>3, <3>4, <1>a DEF NamesAre
    <2> QED BY <2>2, <2>3
  <1>6. CASE CleanupDone
    BY <1>6, <1>a DEF CleanupDone, NamesAre
  <1>7. CASE PatchCleaned
    <2>1. CASE api.exists
      <3>1. status' = MergePatch(status, orig, ac) /\ ac' = status' /\ orig' = status'
            /\ acSpec' = api.spec /\ UNCHANGED <<api, cacheVars, issuerVars, cloudVars>>
        BY <1>7, <2>1 DEF PatchCleaned, PatchAndReload
      <3>2. status'.hint \in {d, NoDom}
        BY <3>1, MergeHint DEF NamesAre
      <3> QED BY <2>1, <3>1, <3>2 DEF NamesAre
    <2>2. CASE ~api.exists
      BY <1>0, <1>7, <2>2 DEF PatchCleaned, EndRound, NamesAre
    <2> QED BY <2>1, <2>2
  <1>8. CASE DeleteCertificate
    BY <1>0, <1>8 DEF DeleteCertificate, EndRound, NamesAre
  <1>9. CASE DeleteSecret
    BY <1>9 DEF DeleteSecret, NamesAre
  <1>10. CASE RemoveFinalizer
    <2>1. (api' = Gone /\ status' = NoStatus) \/ UNCHANGED <<api, status>>
      BY <1>10 DEF RemoveFinalizer
    <2>2. UNCHANGED <<cacheVars, issuerVars, cloudVars>> /\ pc' = "idle"
          /\ ac' = NoStatus /\ orig' = NoStatus
      BY <1>10 DEF RemoveFinalizer, EndRound
    <2> QED BY <1>0, <2>1, <2>2 DEF NamesAre, Gone
  <1> QED
    BY <1>1, <1>2, <1>3, <1>4, <1>5, <1>6, <1>7, <1>8, <1>9, <1>10 DEF Deletion

\* Nothing around the round brings another name in, as long as nobody edits it.
LEMMA EnvironmentNames ==
  ASSUME MaxRenames = 0, TypeOK, FinalizerHeld, NEW d \in Domain, NamesAre(d), Environment
  PROVE  NamesAre(d)'
  <1> USE DEF crVars, cacheVars, issuerVars, cloudVars, roundVars, envVars
  <1>0. /\ status \in Status /\ cstatus \in Status /\ ac \in Status /\ orig \in Status
        /\ NoStatus.hint = NoDom /\ cas \in [FP -> Nat] /\ api \in Meta
        /\ dom \in [FP -> DomainOrNone]
    BY DEF TypeOK, NoStatus
  <1>1. CASE Crash \/ RoundAborts \/ CacheSync \/ CertCacheSync
    <2>1. CASE Crash \/ RoundAborts
      BY <1>0, <2>1 DEF Crash, RoundAborts, EndRound, NamesAre
    <2>2. CASE CacheSync \/ CertCacheSync
      BY <2>2 DEF CacheSync, CertCacheSync, NamesAre
    <2> QED BY <1>1, <2>1, <2>2
  <1>2. CASE Issue
    <2>1. cert = d /\ lastGen' = lastGen + 1 /\ dom' = [dom EXCEPT ![lastGen'] = cert]
          /\ lastGen \in Nat /\ lastGen < MaxGen /\ MaxGen \in Nat
      BY <1>2, MaxGenAssumption DEF Issue, NamesAre, TypeOK
    <2>2. ASSUME NEW f \in 1 .. lastGen' PROVE dom'[f] = d
      <3>1. f \in FP
        BY <2>1, <2>2
      <3> QED BY <1>0, <2>1, <2>2, <3>1 DEF NamesAre
    <2>3. \A f \in FP : cas'[f] # NoId => f \in 1 .. lastGen'
      BY <1>2, <2>1 DEF Issue, NamesAre
    <2> QED BY <1>2, <2>2, <2>3 DEF Issue, NamesAre
  <1>3. CASE RollbackSecret
    BY <1>3 DEF RollbackSecret, NamesAre
  <1>4. CASE HandDelete
    <2>1. \A f \in FP : cas'[f] # NoId => cas[f] # NoId
      BY <1>0, <1>4 DEF HandDelete
    <2> QED BY <1>4, <2>1 DEF HandDelete, NamesAre
  <1>5. CASE ToggleUpload
    <2>1. api'.spec.dom = api.spec.dom /\ api.exists
      BY <1>0, <1>5 DEF ToggleUpload, Meta, SpecFields
    <2> QED BY <1>5, <2>1 DEF ToggleUpload, NamesAre
  <1>6. CASE RenameDomain
    BY <1>6 DEF RenameDomain, TypeOK
  <1>7. CASE DeleteCR
    <2>1. api.exists /\ (api'.exists => api'.spec = api.spec)
          /\ status'.hint \in {status.hint, NoDom}
      BY <1>0, <1>7 DEF DeleteCR, Meta, Gone
    <2> QED BY <1>7, <2>1 DEF DeleteCR, NamesAre
  <1>8. CASE CollectCertificate
    BY <1>8 DEF CollectCertificate, NamesAre
  <1>9. CASE BindingStep
    BY <1>9 DEF BindingStep, EditBinding, BindingApplies, BindingObserves,
                DeleteBinding, BindingGone, SetBinding, NamesAre
  <1>10. CASE ProbeIntervalPasses
    <2>1. \A s \in Status : [s EXCEPT !.probed = FALSE].hint = s.hint
      BY DEF Status
    <2>2. status'.hint = status.hint /\ cstatus'.hint = cstatus.hint
          /\ ac'.hint = ac.hint /\ orig'.hint = orig.hint
      BY <1>0, <1>10, <2>1 DEF ProbeIntervalPasses
    <2> QED BY <1>10, <2>2 DEF ProbeIntervalPasses, NamesAre
  <1>11. CASE GracePeriodPasses \/ Stabilise
    BY <1>11 DEF GracePeriodPasses, Stabilise, NamesAre
  <1> QED
    BY <1>1, <1>2, <1>3, <1>4, <1>5, <1>6, <1>7, <1>8, <1>9, <1>10, <1>11 DEF Environment

\* OneName is inductive: the Certificate takes its name from the spec, the leaf
\* from the Certificate, the recorded hint from the spec.
LEMMA NamesInductive ==
  ASSUME MaxRenames = 0, TypeOK, FinalizerHeld, OneName, [Next]_vars
  PROVE  OneName'
  <1>1. PICK d \in Domain : NamesAre(d)
    BY DEF OneName
  <1>2. NamesAre(d)'
    <2>1. CASE UNCHANGED vars
      BY <1>1, <2>1 DEF vars, crVars, cacheVars, issuerVars, cloudVars, roundVars, NamesAre
    <2> QED BY <1>1, <2>1, RoundNames, DeletionNames, EnvironmentNames DEF Next
  <1> QED BY <1>2 DEF OneName

\* OneName holds initially.
LEMMA NamesInit == Init => OneName
  BY DEF Init, OneName, NamesAre, NoStatus

\* OneName in every reachable state of a CR whose first name is not edited.
LEMMA NamesHold ==
  ASSUME MaxRenames = 0 PROVE Spec => []OneName
  <1>1. TypeOK /\ FinalizerHeld /\ OneName /\ [Next]_vars => OneName'
    BY NamesInductive
  <1> QED BY <1>1, NamesInit, TypeCorrect, FinalizerGuards, PTL DEF Spec

\* The certificate of a pending upload is found under the hint the cleanup has,
\* so deleting it leaves nothing under its name.
LEMMA PendingFound ==
  ASSUME TypeOK, OneName, pc = "cleanup", ac.pend \in FP,
         HistoryIsClean(ac), ac.cur.id = NoId
  PROVE  CasWithout(NextToDelete(ac))[ac.pend] = NoId
  <1>1. PICK d \in Domain : NamesAre(d)
    BY DEF OneName
  <1>2. CasFindHint(ac, NoDom) = d
    BY <1>1 DEF CasFindHint, NamesAre
  <1>3. CASE cas[ac.pend] = NoId
    BY <1>3 DEF CasWithout
  <1>4. CASE cas[ac.pend] # NoId
    <2>1. dom[ac.pend] = d
      BY <1>1, <1>4 DEF NamesAre
    <2>2. cas[ac.pend] \in Listed(d)
      BY <1>4, <2>1 DEF Listed
    <2>3. NextToDelete(ac) = cas[ac.pend]
      BY <1>2, <2>2 DEF NextToDelete
    <2> QED BY <2>3 DEF CasWithout
  <1> QED BY <1>3, <1>4

\* cleanupPendingUpload for every instance in which the CR keeps its first name:
\* the record of an upload with no answer is dropped only when nothing is left in
\* CAS under its name.  (After a rename under a wildcard leaf it is not.)
THEOREM PendingIsClaimed ==
  ASSUME MaxRenames = 0 PROVE Spec => CleanupClaimsPending
  <1>1. TypeOK /\ OneName /\ [Next]_vars =>
          [pc = "cleanup" /\ ac.pend # NoFP /\ pc' = "cleanup" /\ ac'.pend = NoFP
             => cas'[ac.pend] = NoId]_vars
    <2> SUFFICES ASSUME TypeOK, OneName, [Next]_vars, vars' # vars,
                        pc = "cleanup", ac.pend # NoFP, pc' = "cleanup", ac'.pend = NoFP
                 PROVE  cas'[ac.pend] = NoId
      OBVIOUS
    <2>0. ac \in Status /\ ac.pend \in FP
      BY DEF TypeOK, Status
    <2>1. CASE CleanupDelete
      <3>1. cas' = CasWithout(NextToDelete(ac)) /\ ac' = DeletedNext(ac)
        BY <2>1 DEF CleanupDelete
      <3>2. HistoryIsClean(ac) /\ ac.cur.id = NoId
        BY <2>0, <3>1, DeletedFields
      <3> QED BY <2>0, <3>1, <3>2, PendingFound
    <2>2. CASE ac' = ac
      BY <2>0, <2>2
    <2>3. CleanupDelete \/ ac' = ac \/ ac'.pend = ac.pend
      <3> USE DEF roundVars, EndRound
      <3>1. CASE Round
        BY <3>1, Zenon DEF Round, AddFinalizer, BeginRoundNotIssued, BeginRoundIssued,
             ProbeSkipped, ProbeFound, ProbeMissing, EnsureShortCircuit, EnsureRefresh,
             EnsureFails, UploadNew, UploadClaim, UploadFails, ReclaimList, ReclaimOldest,
             ReclaimFails, ReclaimStops, PatchStatus
      <3>2. CASE Deletion
        BY <3>2, Zenon DEF Deletion, DeleteBlocked, DeleteStarts, DeleteResumes, CleanupFails,
             CleanupDone, PatchCleaned, DeleteCertificate, DeleteSecret, RemoveFinalizer,
             CacheDeleting
      <3>3. CASE Environment
        <4>1. CASE ProbeIntervalPasses
          BY <2>0, <4>1 DEF ProbeIntervalPasses, Status
        <4>2. CASE BindingStep
          BY <4>2 DEF BindingStep, EditBinding, BindingApplies, BindingObserves,
                      DeleteBinding, BindingGone, SetBinding
        <4>3. CASE Crash \/ RoundAborts \/ CacheSync \/ CertCacheSync \/ Issue
                   \/ RollbackSecret \/ HandDelete \/ ToggleUpload \/ RenameDomain
                   \/ DeleteCR \/ CollectCertificate \/ GracePeriodPasses \/ Stabilise
          BY <4>3, Zenon DEF Crash, RoundAborts, CacheSync, CertCacheSync, Issue,
               RollbackSecret, HandDelete, ToggleUpload, RenameDomain, DeleteCR,
               CollectCertificate, GracePeriodPasses, Stabilise
        <4> QED BY <3>3, <4>1, <4>2, <4>3 DEF Environment
      <3> QED BY <3>1, <3>2, <3>3 DEF Next
    <2> QED BY <2>0, <2>1, <2>2, <2>3
  <1> QED BY <1>1, NamesHold, TypeCorrect, PTL DEF Spec, CleanupClaimsPending
-----------------------------------------------------------------------------
(* Certificate ids in a history *)

\* Some record of the history has the id; every record with it is of
\* generation f; every id in it was given out.
HasId(h, id) == \E i \in 1 .. Len(h) : h[i].id = id
IdMeans(h, id, f) == \A i \in 1 .. Len(h) : h[i].id = id => h[i].fp = f
IdsBelow(h, n) == \A i \in 1 .. Len(h) : h[i].id < n

\* A generation in front of a history.
LEMMA ConsIds ==
  ASSUME NEW h \in Seq(Gen), NEW g \in Gen, NEW id, NEW f, NEW n
  PROVE  /\ HasId(<<g>> \o h, id) <=> g.id = id \/ HasId(h, id)
         /\ IdMeans(h, id, f) /\ (g.id = id => g.fp = f) => IdMeans(<<g>> \o h, id, f)
         /\ IdsBelow(h, n) /\ g.id < n => IdsBelow(<<g>> \o h, n)
  <1> DEFINE k == <<g>> \o h
  <1>1. Len(k) = 1 + Len(h) /\ Len(h) \in Nat
    OBVIOUS
  <1>2. k[1] = g /\ \A i \in 1 .. Len(h) : k[i + 1] = h[i]
    OBVIOUS
  <1>3. \A i \in 1 .. Len(k) : i = 1 \/ (i - 1 \in 1 .. Len(h) /\ k[i] = h[i - 1])
    <2>1. ASSUME NEW i \in 1 .. Len(k), i # 1
          PROVE  i - 1 \in 1 .. Len(h) /\ k[i] = h[i - 1]
      <3>1. i - 1 \in 1 .. Len(h) /\ i = (i - 1) + 1
        BY <1>1, <2>1
      <3> QED BY <1>2, <3>1
    <2> QED BY <2>1
  <1>4. \A i \in 1 .. Len(h) : i + 1 \in 1 .. Len(k)
    BY <1>1
  <1>5. 1 \in 1 .. Len(k)
    BY <1>1
  <1> HIDE DEF k
  <1>6. HasId(k, id) <=> g.id = id \/ HasId(h, id)
    <2>1. HasId(k, id) => g.id = id \/ HasId(h, id)
      BY <1>2, <1>3 DEF HasId
    <2>2. g.id = id => HasId(k, id)
      BY <1>2, <1>5 DEF HasId
    <2>3. HasId(h, id) => HasId(k, id)
      BY <1>2, <1>4 DEF HasId
    <2> QED BY <2>1, <2>2, <2>3
  <1>7. IdMeans(h, id, f) /\ (g.id = id => g.fp = f) => IdMeans(k, id, f)
    BY <1>2, <1>3 DEF IdMeans
  <1>8. IdsBelow(h, n) /\ g.id < n => IdsBelow(k, n)
    BY <1>2, <1>3 DEF IdsBelow
  <1> QED BY <1>6, <1>7, <1>8 DEF k

\* A history without its oldest generation.
LEMMA FrontIds ==
  ASSUME NEW h \in Seq(Gen), h # <<>>, NEW id, NEW f, NEW n
  PROVE  LET k == SubSeq(h, 1, Len(h) - 1)
         IN  /\ HasId(h, id) => HasId(k, id) \/ h[Len(h)].id = id
             /\ IdMeans(h, id, f) => IdMeans(k, id, f)
             /\ IdsBelow(h, n) => IdsBelow(k, n)
  <1> DEFINE k == SubSeq(h, 1, Len(h) - 1)
  <1>1. Len(h) \in Nat /\ Len(h) # 0
    OBVIOUS
  <1>2. Len(k) = Len(h) - 1 /\ \A i \in 1 .. Len(h) - 1 : k[i] = h[i]
    <2> DEFINE m == Len(h) - 1
    <2>1. m \in Nat /\ m = Len(h) - 1 /\ \A i \in 1 .. m : h[i] \in Gen
      BY <1>1
    <2> HIDE DEF m
    <2>2. /\ Len(SubSeq(h, 1, m)) = IF 1 <= m THEN m - 1 + 1 ELSE 0
          /\ \A i \in 1 .. m - 1 + 1 : SubSeq(h, 1, m)[i] = h[1 + i - 1]
      BY <2>1, SubSeqProperties
    <2>3. Len(SubSeq(h, 1, m)) = m
      BY <2>1, <2>2
    <2>4. \A i \in 1 .. m : SubSeq(h, 1, m)[i] = h[i]
      <3>1. ASSUME NEW i \in 1 .. m PROVE SubSeq(h, 1, m)[i] = h[i]
        <4>1. 1 + i - 1 = i /\ i \in 1 .. m - 1 + 1
          BY <2>1, <3>1
        <4> QED BY <2>2, <4>1
      <3> QED BY <3>1
    <2> QED BY <2>3, <2>4 DEF m
  <1> HIDE DEF k
  <1>3. \A i \in 1 .. Len(k) : i \in 1 .. Len(h) /\ k[i] = h[i]
    BY <1>1, <1>2
  <1>4. \A i \in 1 .. Len(h) : i = Len(h) \/ (i \in 1 .. Len(k) /\ k[i] = h[i])
    BY <1>1, <1>2
  <1> QED BY <1>3, <1>4 DEF HasId, IdMeans, IdsBelow, k

\* The history k is h with the id at j cleared.
Cleared(h, k, j) ==
    /\ Len(k) = Len(h)
    /\ \A i \in 1 .. Len(h) : k[i].fp = h[i].fp
    /\ \A i \in 1 .. Len(h) : k[i].id = IF i = j THEN NoId ELSE h[i].id

\* cleanupCAS clears one id of the history.
LEMMA ClearedBy ==
  ASSUME NEW h \in Seq(Gen), NEW j, NEW k, k = [h EXCEPT ![j].id = NoId]
  PROVE  Cleared(h, k, j)
  <1>1. k \in Seq(Gen) /\ Len(k) = Len(h)
    <2>1. k \in Seq(Gen)
      BY ClearIdType
    <2>2. DOMAIN k = DOMAIN h
      OBVIOUS
    <2>3. DOMAIN k = 1 .. Len(k) /\ DOMAIN h = 1 .. Len(h) /\ Len(k) \in Nat /\ Len(h) \in Nat
      BY <2>1
    <2>4. Len(k) = Len(h)
      BY <2>2, <2>3
    <2> QED BY <2>1, <2>4
  <1>2. ASSUME NEW i \in 1 .. Len(h)
        PROVE  /\ i # j => k[i] = h[i]
               /\ i = j => k[i].id = NoId /\ k[i].fp = h[i].fp
    <2>1. h[i] \in Gen /\ i \in DOMAIN h
      BY <1>2
    <2>2. CASE i = j
      <3>1. k[i] = [h[i] EXCEPT !.id = NoId]
        BY <2>1, <2>2
      <3> QED BY <2>1, <2>2, <3>1 DEF Gen
    <2>3. CASE i # j
      BY <2>1, <2>3
    <2> QED BY <2>2, <2>3
  <1> QED BY <1>1, <1>2 DEF Cleared

\* The other ids of that history are still there and mean what they meant.
LEMMA ClearedIds ==
  ASSUME NEW h, NEW k, NEW j, Cleared(h, k, j)
  PROVE  /\ \A id : id # NoId /\ h[j].id # id => (HasId(k, id) <=> HasId(h, id))
         /\ \A id, f : id # NoId /\ IdMeans(h, id, f) => IdMeans(k, id, f)
         /\ \A n \in Nat \ {0} : IdsBelow(h, n) => IdsBelow(k, n)
  BY DEF Cleared, HasId, IdMeans, IdsBelow
-----------------------------------------------------------------------------
(* An id belongs to one generation *)

\* In the status s, with c in CAS and the ids below n given out: a record with
\* the id of a certificate in CAS is of its generation, and the placeholder that
\* probeCAS leaves has no id.
OwnIds(c, n, s) ==
    /\ s.cur.id < n /\ IdsBelow(s.hist, n)
    /\ \A f \in FP : c[f] # NoId =>
           (s.cur.id = c[f] => s.cur.fp = f) /\ IdMeans(s.hist, c[f], f)
    /\ s.cur.fp = NoFP => s.cur.id = NoId

\* Ids are given out once, and every copy of the status uses them rightly.
IdsInv ==
    /\ \A f \in FP : cas[f] < nextId
    /\ \A f, g \in FP : cas[f] # NoId /\ cas[f] = cas[g] => f = g
    /\ OwnIds(cas, nextId, status) /\ OwnIds(cas, nextId, cstatus)
    /\ OwnIds(cas, nextId, ac) /\ OwnIds(cas, nextId, orig)

\* CAS d holds what c held, less some, or a certificate with a new id.
From(c, n, d) == \A f \in FP : d[f] \in {c[f], NoId, n}

\* A status stays right when CAS changes.
LEMMA OwnKept ==
  ASSUME NEW c \in [FP -> Nat], NEW d \in [FP -> Nat], NEW n \in Nat, NEW m \in Nat, n <= m,
         NEW s \in Status, OwnIds(c, n, s), From(c, n, d)
  PROVE  OwnIds(d, m, s)
  <1>a. s.cur \in Gen /\ s.hist \in Seq(Gen)
    BY DEF Status
  <1>b. \A i \in 1 .. Len(s.hist) : s.hist[i] \in Gen
    BY <1>a
  <1>1. s.cur.id \in Nat /\ \A i \in 1 .. Len(s.hist) : s.hist[i].id \in Nat
    BY <1>a, <1>b DEF Gen
  <1>2. s.cur.id < m /\ IdsBelow(s.hist, m)
    BY <1>1 DEF OwnIds, IdsBelow
  <1>3. ASSUME NEW f \in FP, d[f] # NoId
        PROVE  (s.cur.id = d[f] => s.cur.fp = f) /\ IdMeans(s.hist, d[f], f)
    <2>1. CASE d[f] = c[f]
      BY <1>3, <2>1 DEF OwnIds
    <2>2. CASE d[f] = n
      BY <1>1, <2>2 DEF OwnIds, IdMeans, IdsBelow
    <2> QED BY <1>3, <2>1, <2>2 DEF From
  <1> QED BY <1>2, <1>3 DEF OwnIds

\* Statuses with the same records are right together.
LEMMA OwnSame ==
  ASSUME NEW c, NEW n, NEW s, NEW t, OwnIds(c, n, s), t.cur = s.cur, t.hist = s.hist
  PROVE  OwnIds(c, n, t)
  BY DEF OwnIds

\* The empty status is right.
LEMMA OwnNone ==
  ASSUME NEW c, NEW n \in Nat \ {0}
  PROVE  OwnIds(c, n, NoStatus)
  BY DEF OwnIds, NoStatus, NoGen, IdsBelow, IdMeans

\* A status of which the current one or the history, or both, were replaced.
LEMMA OwnParts ==
  ASSUME NEW c, NEW n, NEW s, NEW r, NEW t, OwnIds(c, n, s), OwnIds(c, n, r),
         t.cur = s.cur, t.hist = r.hist
  PROVE  OwnIds(c, n, t)
  BY DEF OwnIds

\* Without its current certificate, or its current certId, a status is right.
LEMMA OwnCleared ==
  ASSUME NEW c, NEW n \in Nat \ {0}, NEW s, NEW r, NEW t, OwnIds(c, n, s),
         t.cur.id = NoId, t.hist = s.hist
  PROVE  OwnIds(c, n, t)
  BY DEF OwnIds

\* A status with a new current generation is right.
LEMMA OwnAdvance ==
  ASSUME NEW c \in [FP -> Nat], NEW n \in Nat \ {0}, NEW s \in Status, OwnIds(c, n, s),
         NEW t, NEW f \in FP, NEW id \in Nat, id < n,
         \A g \in FP : id # NoId /\ c[g] = id => g = f,
         t.cur = [fp |-> f, id |-> id],
         t.hist = IF s.cur.fp # NoFP THEN <<s.cur>> \o s.hist ELSE s.hist
  PROVE  OwnIds(c, n, t)
  <1>1. s.cur \in Gen /\ s.hist \in Seq(Gen)
    BY DEF Status
  <1>2. IdsBelow(t.hist, n)
    BY <1>1, ConsIds DEF OwnIds
  <1>3. ASSUME NEW g \in FP, c[g] # NoId
        PROVE  (t.cur.id = c[g] => t.cur.fp = g) /\ IdMeans(t.hist, c[g], g)
    BY <1>1, <1>3, ConsIds DEF OwnIds
  <1> QED BY <1>2, <1>3 DEF OwnIds

\* A status whose oldest generation was dropped is right.
LEMMA OwnDrop ==
  ASSUME NEW c \in [FP -> Nat], NEW n \in Nat \ {0}, NEW s \in Status, OwnIds(c, n, s),
         s.hist # <<>>
  PROVE  OwnIds(c, n, DropOldest(s))
  <1>1. s.hist \in Seq(Gen)
    BY DEF Status
  <1>2. DropOldest(s).hist = SubSeq(s.hist, 1, Len(s.hist) - 1) /\ DropOldest(s).cur = s.cur
    BY DropFields
  <1>3. IdsBelow(DropOldest(s).hist, n)
    BY <1>1, <1>2, FrontIds DEF OwnIds
  <1>4. \A f \in FP : c[f] # NoId => IdMeans(DropOldest(s).hist, c[f], f)
    BY <1>1, <1>2, FrontIds DEF OwnIds
  <1> QED BY <1>2, <1>3, <1>4 DEF OwnIds

\* A status one certificate further in the cleanup is right.
LEMMA OwnDeleted ==
  ASSUME NEW c \in [FP -> Nat], NEW n \in Nat \ {0}, NEW s \in Status, OwnIds(c, n, s)
  PROVE  OwnIds(c, n, DeletedNext(s))
  <1>1. s.hist \in Seq(Gen)
    BY DEF Status
  <1>2. CASE DeletedNext(s).hist = [s.hist EXCEPT ![FirstLeft(s)].id = NoId]
             /\ DeletedNext(s).cur = s.cur
    <2>0. Cleared(s.hist, DeletedNext(s).hist, FirstLeft(s))
      BY <1>1, <1>2, ClearedBy
    <2>1. IdsBelow(DeletedNext(s).hist, n)
      <3>1. IdsBelow(s.hist, n)
        BY DEF OwnIds
      <3> QED BY <2>0, <3>1, ClearedIds
    <2>2. \A f \in FP : c[f] # NoId => IdMeans(DeletedNext(s).hist, c[f], f)
      BY <2>0, ClearedIds DEF OwnIds
    <2> QED BY <1>2, <2>1, <2>2 DEF OwnIds
  <1>3. CASE DeletedNext(s).hist = s.hist
             /\ (DeletedNext(s).cur = s.cur \/ DeletedNext(s).cur = [fp |-> s.cur.fp, id |-> NoId])
    BY <1>3 DEF OwnIds
  <1> QED BY <1>2, <1>3, DeletedFields
-----------------------------------------------------------------------------
(* The records of a round, its base and the server *)

\* The status s holds a record of generation f, with c in CAS.
Holds(c, s, f) == s.cur.id = c[f] \/ HasId(s.hist, c[f]) \/ s.pend = f

\* Two statuses record the same generations.
SameRecords(s, t) == s.cur = t.cur /\ s.hist = t.hist /\ s.pend = t.pend

\* The round added nothing to what it read, and dropped dead generations only.
OnlyReclaimed(c, a, o) ==
    /\ a.cur = o.cur /\ a.pend = o.pend
    /\ \A f \in FP : c[f] # NoId /\ HasId(o.hist, c[f]) => HasId(a.hist, c[f])

\* The round started from the records the server has, and loses none of them.
FromFresh(c, a, o, s) ==
    /\ SameRecords(o, s)
    /\ \A f \in FP : c[f] # NoId /\ Holds(c, s, f) => Holds(c, a, f)

\* Two statuses agree on the certificates that are still in CAS.
Agree(c, s, t) ==
    \A f \in FP : c[f] # NoId =>
        /\ s.cur.id = c[f] <=> t.cur.id = c[f]
        /\ HasId(s.hist, c[f]) <=> HasId(t.hist, c[f])
        /\ s.pend = f <=> t.pend = f

\* The status holds no certificate that is still in CAS.
NoneHeld(c, s) == \A f \in FP : c[f] # NoId => ~Holds(c, s, f)

\* In a normal round the working copy, its base and the server's status fit
\* together so that the patch loses no record; no cleanup has begun.
RoundRecords ==
    /\ pc \in {"probe", "ensure"} => SameRecords(ac, orig)
    /\ pc = "upload" => SameRecords(ac, orig) /\ SameRecords(orig, status)
    /\ pc \in {"reclaim", "reclaimLoop", "patch"} =>
           OnlyReclaimed(cas, ac, orig) \/ FromFresh(cas, ac, orig, status)
    /\ pc \in RoundSteps => ~status.cleanup /\ ~cstatus.cleanup /\ ~ac.cleanup /\ ~orig.cleanup

\* No cleanup was given up, and a pending upload can be found by the CR's name.
Tidy == MaxRenames = 0 /\ ~ghost.abandoned

\* In a deletion round nothing adds records any more: cache, base, copy and server
\* agree on what is left, and after the cleanup nothing is.
CleanupRecords ==
    /\ status.cleanup => capi.deleting /\ api.deleting
    /\ cstatus.cleanup => capi.deleting
    /\ pc \in {"cleanup", "cleaned"} =>
           /\ ac.cleanup <=> orig.cleanup
           /\ ac.cur.fp = orig.cur.fp /\ ac.cur.id \in {orig.cur.id, NoId}
    /\ Tidy =>
           /\ cstatus.cleanup => Agree(cas, cstatus, status)
           /\ pc \in {"cleanup", "cleaned"} => Agree(cas, orig, status) /\ Agree(cas, ac, status)
           /\ pc = "cleaned" => NothingLeft(ac)
           /\ pc \in {"deleteCert", "finalize"} => NoneHeld(cas, status)
    /\ api.exists /\ ~api.fin => \A f \in FP : cas[f] = NoId

\* The inductive invariant.
RecordsInv == IdsInv /\ RoundRecords /\ CleanupRecords

USE DEF Tidy

\* CAS d is c less some certificates.
Shrinks(c, d) == \A f \in FP : d[f] \in {c[f], NoId}

\* What the records say of the certificates in CAS stays true as some go.
LEMMA RecordsShrink ==
  ASSUME NEW c, NEW d, Shrinks(c, d), NEW a, NEW o, NEW s
  PROVE  /\ OnlyReclaimed(c, a, o) => OnlyReclaimed(d, a, o)
         /\ FromFresh(c, a, o, s) => FromFresh(d, a, o, s)
         /\ Agree(c, a, s) => Agree(d, a, s)
         /\ NoneHeld(c, s) => NoneHeld(d, s)
  BY DEF Shrinks, OnlyReclaimed, FromFresh, Agree, NoneHeld, Holds

\* Ids stay right when certificates go and each status is a right one.
LEMMA IdsFrame ==
  ASSUME TypeOK, TypeOK', IdsInv, nextId' = nextId, Shrinks(cas, cas'),
         OwnIds(cas, nextId, status'), OwnIds(cas, nextId, cstatus'),
         OwnIds(cas, nextId, ac'), OwnIds(cas, nextId, orig')
  PROVE  IdsInv'
  <1>1. /\ cas \in [FP -> Nat] /\ cas' \in [FP -> Nat] /\ nextId \in Nat \ {0}
        /\ status' \in Status /\ cstatus' \in Status /\ ac' \in Status /\ orig' \in Status
    BY DEF TypeOK
  <1>2. From(cas, nextId, cas')
    BY DEF From, Shrinks
  <1>3. nextId <= nextId
    BY <1>1
  <1>4. /\ OwnIds(cas', nextId, status') /\ OwnIds(cas', nextId, cstatus')
        /\ OwnIds(cas', nextId, ac') /\ OwnIds(cas', nextId, orig')
    BY <1>1, <1>2, <1>3, OwnKept
  <1>5. \A f \in FP : cas'[f] < nextId
    BY <1>1 DEF IdsInv, Shrinks
  <1>6. \A f, g \in FP : cas'[f] # NoId /\ cas'[f] = cas'[g] => f = g
    BY <1>1 DEF IdsInv, Shrinks
  <1> QED BY <1>4, <1>5, <1>6 DEF IdsInv

\* A status as it was, casProbedAt and conditions aside.
Still(s, t) == SameRecords(s, t) /\ (s.cleanup <=> t.cleanup)

\* Steps that leave the records alone: the server's status and the cache stay,
\* the round stays where it is or ends, certificates may go.
LEMMA QuietRecords ==
  ASSUME TypeOK, TypeOK', RecordsInv,
         Still(status', status), Still(cstatus', cstatus),
         \/ pc' = pc /\ Still(ac', ac) /\ Still(orig', orig)
         \/ pc' = "idle" /\ ac' = NoStatus /\ orig' = NoStatus,
         Shrinks(cas, cas'), nextId' = nextId, ghost' = ghost,
         capi.deleting => capi'.deleting, api.deleting => api'.deleting,
         api'.exists /\ ~api'.fin => api.exists /\ ~api.fin
  PROVE  RecordsInv'
  <1>0. nextId \in Nat \ {0}
    BY DEF TypeOK
  <1>1. IdsInv'
    <2>1. OwnIds(cas, nextId, status') /\ OwnIds(cas, nextId, cstatus')
      BY OwnSame DEF RecordsInv, IdsInv, Still, SameRecords
    <2>2. OwnIds(cas, nextId, ac') /\ OwnIds(cas, nextId, orig')
      BY <1>0, OwnSame, OwnNone DEF RecordsInv, IdsInv, Still, SameRecords
    <2> QED BY <2>1, <2>2, IdsFrame DEF RecordsInv
  <1>2. RoundRecords'
    <2>1. CASE pc' = "idle"
      BY <2>1 DEF RoundRecords, RoundSteps
    <2>2. CASE pc' = pc /\ Still(ac', ac) /\ Still(orig', orig)
      <3>1. OnlyReclaimed(cas, ac, orig) => OnlyReclaimed(cas', ac', orig')
        <4>1. OnlyReclaimed(cas, ac, orig) => OnlyReclaimed(cas', ac, orig)
          BY RecordsShrink
        <4> QED BY <2>2, <4>1 DEF OnlyReclaimed, Still, SameRecords
      <3>2. FromFresh(cas, ac, orig, status) => FromFresh(cas', ac', orig', status')
        <4>1. FromFresh(cas, ac, orig, status) => FromFresh(cas', ac, orig, status)
          BY RecordsShrink
        <4> QED BY <2>2, <4>1 DEF FromFresh, Holds, Still, SameRecords
      <3> QED BY <2>2, <3>1, <3>2 DEF RecordsInv, RoundRecords, Still, SameRecords
    <2> QED BY <2>1, <2>2
  <1>3. CleanupRecords'
    <2>1. \A f \in FP : cas[f] = NoId => cas'[f] = NoId
      BY DEF Shrinks
    <2>2. ASSUME NEW s, NEW t, NEW u, NEW v, Still(u, s), Still(v, t), Agree(cas, s, t)
          PROVE  Agree(cas', u, v)
      <3>1. Agree(cas', s, t)
        BY <2>2, RecordsShrink
      <3> QED BY <2>2, <3>1 DEF Agree, Still, SameRecords
    <2>3. NoneHeld(cas, status) => NoneHeld(cas', status')
      <3>1. NoneHeld(cas, status) => NoneHeld(cas', status)
        BY RecordsShrink
      <3> QED BY <3>1 DEF NoneHeld, Holds, Still, SameRecords
    <2>4. Tidy /\ cstatus'.cleanup => Agree(cas', cstatus', status')
      BY <2>2 DEF RecordsInv, CleanupRecords, Still
    <2>5. CASE pc' = "idle"
      BY <2>1, <2>4, <2>5 DEF RecordsInv, CleanupRecords, Still
    <2>6. CASE pc' = pc /\ Still(ac', ac) /\ Still(orig', orig)
      <3>1. Tidy /\ pc \in {"cleanup", "cleaned"} =>
              Agree(cas', orig', status') /\ Agree(cas', ac', status')
        BY <2>2, <2>6 DEF RecordsInv, CleanupRecords
      <3>2. NothingLeft(ac) => NothingLeft(ac')
        BY <2>6 DEF NothingLeft, HistoryIsClean, HistoryClean, Still, SameRecords
      <3>3. pc \in {"cleanup", "cleaned"} =>
              /\ ac'.cleanup <=> orig'.cleanup
              /\ ac'.cur.fp = orig'.cur.fp /\ ac'.cur.id \in {orig'.cur.id, NoId}
        BY <2>6 DEF RecordsInv, CleanupRecords, Still, SameRecords
      <3>4. /\ status'.cleanup => capi'.deleting /\ api'.deleting
            /\ cstatus'.cleanup => capi'.deleting
            /\ api'.exists /\ ~api'.fin => \A f \in FP : cas'[f] = NoId
        BY <2>1 DEF RecordsInv, CleanupRecords, Still
      <3> QED BY <2>3, <2>4, <2>6, <3>1, <3>2, <3>3, <3>4 DEF RecordsInv, CleanupRecords
    <2> QED BY <2>5, <2>6
  <1> QED BY <1>1, <1>2, <1>3 DEF RecordsInv

\* A crash or a watch event brings the cache to what the server has.
LEMMA SyncRecords ==
  ASSUME TypeOK, TypeOK', RecordsInv, UNCHANGED <<api, status, cas, nextId, ghost>>,
         capi' = api, cstatus' = status,
         \/ UNCHANGED <<pc, ac, orig>>
         \/ pc' = "idle" /\ ac' = NoStatus /\ orig' = NoStatus
  PROVE  RecordsInv'
  <1>0. nextId \in Nat \ {0}
    BY DEF TypeOK
  <1>1. IdsInv'
    <2>1. OwnIds(cas, nextId, status') /\ OwnIds(cas, nextId, cstatus')
      BY DEF RecordsInv, IdsInv
    <2>2. OwnIds(cas, nextId, ac') /\ OwnIds(cas, nextId, orig')
      BY <1>0, OwnNone DEF RecordsInv, IdsInv
    <2>3. Shrinks(cas, cas')
      BY DEF Shrinks
    <2> QED BY <2>1, <2>2, <2>3, IdsFrame DEF RecordsInv
  <1>2. RoundRecords'
    BY DEF RecordsInv, RoundRecords, RoundSteps
  <1>3. CleanupRecords'
    <2>1. Agree(cas, status, status)
      BY DEF Agree
    <2> QED BY <2>1 DEF RecordsInv, CleanupRecords
  <1> QED BY <1>1, <1>2, <1>3 DEF RecordsInv

\* The CR vanishes; nothing in CAS was on record any more, or nothing was there.
LEMMA GoneRecords ==
  ASSUME TypeOK, TypeOK', RecordsInv, UNCHANGED <<capi, cstatus, cas, nextId, ghost>>,
         api' = Gone, status' = NoStatus,
         Tidy => NoneHeld(cas, status),
         \/ UNCHANGED <<pc, ac, orig>> /\ pc \notin RoundSteps
            /\ \A f \in FP : cas[f] = NoId
         \/ pc' = "idle" /\ ac' = NoStatus /\ orig' = NoStatus
  PROVE  RecordsInv'
  <1>0. nextId \in Nat \ {0}
    BY DEF TypeOK
  <1>1. IdsInv'
    <2>1. OwnIds(cas, nextId, status') /\ OwnIds(cas, nextId, cstatus')
      BY <1>0, OwnNone DEF RecordsInv, IdsInv
    <2>2. OwnIds(cas, nextId, ac') /\ OwnIds(cas, nextId, orig')
      BY <1>0, OwnNone DEF RecordsInv, IdsInv
    <2>3. Shrinks(cas, cas')
      BY DEF Shrinks
    <2> QED BY <2>1, <2>2, <2>3, IdsFrame DEF RecordsInv
  <1>2. RoundRecords'
    BY DEF RecordsInv, RoundRecords, RoundSteps
  <1>3. CleanupRecords'
    <2>1. NoneHeld(cas, NoStatus)
      BY DEF NoneHeld, Holds, HasId, NoStatus, NoGen
    <2>2. Tidy /\ cstatus.cleanup => Agree(cas, cstatus, NoStatus)
      BY <2>1 DEF RecordsInv, CleanupRecords, Agree, NoneHeld, Holds
    <2>3. NoStatus.cleanup = FALSE /\ Gone.exists = FALSE
      BY DEF NoStatus, Gone
    <2>4. CASE pc' = "idle"
      BY <2>2, <2>3, <2>4 DEF RecordsInv, CleanupRecords
    <2>5. CASE UNCHANGED <<pc, ac, orig>> /\ \A f \in FP : cas[f] = NoId
      <3>1. \A s, t : Agree(cas, s, t)
        BY <2>5 DEF Agree
      <3> QED BY <2>1, <2>3, <2>5, <3>1 DEF RecordsInv, CleanupRecords
    <2> QED BY <2>4, <2>5
  <1> QED BY <1>1, <1>2, <1>3 DEF RecordsInv

\* Nothing around the round breaks the records.
LEMMA EnvironmentRecords ==
  ASSUME TypeOK, TypeOK', FinalizerHeld, RecordsInv, Environment
  PROVE  RecordsInv'
  <1> USE DEF crVars, cacheVars, issuerVars, cloudVars, roundVars, envVars
  <1>0. /\ status \in Status /\ cstatus \in Status /\ ac \in Status /\ orig \in Status
        /\ cas \in [FP -> Nat] /\ api \in Meta
    BY DEF TypeOK
  <1>a. /\ Still(status, status) /\ Still(cstatus, cstatus) /\ Still(ac, ac) /\ Still(orig, orig)
        /\ Shrinks(cas, cas)
    BY DEF Still, SameRecords, Shrinks
  <1>b. ASSUME UNCHANGED <<api, status, cas, nextId, ghost>>,
               capi' = api, cstatus' = status,
               \/ UNCHANGED <<pc, ac, orig>>
               \/ pc' = "idle" /\ ac' = NoStatus /\ orig' = NoStatus
        PROVE  RecordsInv'
    BY <1>b, SyncRecords
  <1>c. ASSUME UNCHANGED <<api, status, capi, cstatus, nextId, ghost>>, Shrinks(cas, cas'),
               \/ UNCHANGED <<pc, ac, orig>>
               \/ pc' = "idle" /\ ac' = NoStatus /\ orig' = NoStatus
        PROVE  RecordsInv'
    BY <1>a, <1>c, QuietRecords
  <1>1. CASE Crash
    BY <1>1, <1>b DEF Crash, EndRound
  <1>2. CASE RoundAborts
    BY <1>2, <1>a, <1>c DEF RoundAborts, EndRound
  <1>3. CASE CacheSync
    BY <1>3, <1>b DEF CacheSync
  <1>4. CASE CertCacheSync \/ Issue \/ RollbackSecret \/ CollectCertificate
             \/ GracePeriodPasses \/ Stabilise
    <2>1. UNCHANGED <<api, status, capi, cstatus, cas, nextId, ghost, pc, ac, orig>>
      BY <1>4, Zenon DEF CertCacheSync, Issue, RollbackSecret, CollectCertificate,
                         GracePeriodPasses, Stabilise
    <2> QED BY <1>a, <1>c, <2>1
  <1>5. CASE HandDelete
    <2>1. Shrinks(cas, cas')
      BY <1>0, <1>5 DEF HandDelete, Shrinks
    <2> QED BY <1>5, <2>1, <1>c DEF HandDelete
  <1>6. CASE ToggleUpload \/ RenameDomain
    <2>1. /\ api'.exists <=> api.exists
          /\ api'.fin <=> api.fin
          /\ api'.deleting <=> api.deleting
          /\ UNCHANGED <<status, capi, cstatus, cas, nextId, ghost, pc, ac, orig>>
      BY <1>0, <1>6 DEF ToggleUpload, RenameDomain, Meta
    <2> QED BY <1>a, <2>1, QuietRecords
  <1>7. CASE DeleteCR
    <2>0. UNCHANGED <<capi, cstatus, cas, nextId, ghost, pc, ac, orig>> /\ api.exists
      BY <1>7 DEF DeleteCR
    <2>1. CASE api.fin
      <3>1. api'.fin /\ api'.deleting /\ status' = status
        BY <1>0, <1>7, <2>1 DEF DeleteCR, Meta
      <3> QED BY <1>a, <2>0, <3>1, QuietRecords
    <2>2. CASE ~api.fin
      <3>1. api' = Gone /\ status' = NoStatus
        BY <1>7, <2>2 DEF DeleteCR
      <3>2. \A f \in FP : cas[f] = NoId
        BY <2>0, <2>2 DEF RecordsInv, CleanupRecords
      <3>3. NoneHeld(cas, status)
        BY <3>2 DEF NoneHeld
      <3>4. pc \notin RoundSteps
        BY <2>2 DEF FinalizerHeld
      <3> QED BY <2>0, <3>1, <3>2, <3>3, <3>4, GoneRecords
    <2> QED BY <2>1, <2>2
  <1>8. CASE BindingStep
    <2>1. UNCHANGED <<api, status, capi, cstatus, cas, nextId, ghost, pc, ac, orig>>
      BY <1>8 DEF BindingStep, EditBinding, BindingApplies, BindingObserves,
                  DeleteBinding, BindingGone, SetBinding
    <2> QED BY <1>a, <1>c, <2>1
  <1>9. CASE ProbeIntervalPasses
    <2>1. \A s \in Status : Still([s EXCEPT !.probed = FALSE], s)
      BY DEF Status, Still, SameRecords
    <2>2. /\ Still(status', status) /\ Still(cstatus', cstatus)
          /\ Still(ac', ac) /\ Still(orig', orig)
          /\ UNCHANGED <<api, capi, cas, nextId, ghost, pc>>
      BY <1>0, <1>9, <2>1 DEF ProbeIntervalPasses
    <2> QED BY <1>a, <2>2, QuietRecords
  <1> QED BY <1>1, <1>2, <1>3, <1>4, <1>5, <1>6, <1>7, <1>8, <1>9 DEF Environment
-----------------------------------------------------------------------------
(* A normal round keeps the records *)

\* What the merge patch makes of each record.
LEMMA MergeFields ==
  ASSUME NEW s \in Status, NEW o \in Status, NEW a \in Status
  PROVE  LET m == MergePatch(s, o, a)
         IN  /\ a.cur = o.cur => m.cur = s.cur
             /\ s.cur = o.cur => m.cur = a.cur
             /\ a.cur.fp = o.cur.fp => m.cur.fp = s.cur.fp
             /\ a.cur.id = o.cur.id => m.cur.id = s.cur.id
             /\ a.cur.id = NoId /\ o.cur.id # NoId => m.cur.id = NoId
             /\ m.hist = IF a.hist = o.hist THEN s.hist ELSE a.hist
             /\ m.pend = IF a.pend = o.pend THEN s.pend ELSE a.pend
             /\ (a.cleanup <=> o.cleanup) => (m.cleanup <=> s.cleanup)
  <1> DEFINE m == MergePatch(s, o, a)
  <1>1. s.cur \in Gen /\ o.cur \in Gen /\ a.cur \in Gen
    BY DEF Status
  <1>2. /\ m.cur = [fp |-> Merged(s.cur.fp, o.cur.fp, a.cur.fp),
                    id |-> Merged(s.cur.id, o.cur.id, a.cur.id)]
        /\ m.hist = Merged(s.hist, o.hist, a.hist)
        /\ m.pend = Merged(s.pend, o.pend, a.pend)
        /\ m.cleanup = Merged(s.cleanup, o.cleanup, a.cleanup)
    BY DEF MergePatch
  <1> HIDE DEF m
  <1>3. \A g \in Gen : g = [fp |-> g.fp, id |-> g.id]
    BY DEF Gen
  <1>4. a.cur = o.cur => m.cur = s.cur
    BY <1>1, <1>2, <1>3 DEF Merged
  <1>5. s.cur = o.cur => m.cur = a.cur
    BY <1>1, <1>2, <1>3 DEF Merged
  <1>6. (a.cleanup <=> o.cleanup) => (m.cleanup <=> s.cleanup)
    BY <1>2 DEF Merged, Status
  <1> QED BY <1>2, <1>4, <1>5, <1>6 DEF Merged, m

\* When a generation becomes current, the one it follows enters the history.
LEMMA AdvanceHolds ==
  ASSUME NEW c \in [FP -> Nat], NEW n, NEW s \in Status, OwnIds(c, n, s), NEW t,
         t.hist = IF s.cur.fp # NoFP THEN <<s.cur>> \o s.hist ELSE s.hist,
         NEW f \in FP, c[f] # NoId, s.cur.id = c[f] \/ HasId(s.hist, c[f])
  PROVE  HasId(t.hist, c[f])
  <1>1. s.cur \in Gen /\ s.hist \in Seq(Gen)
    BY DEF Status
  <1>2. HasId(<<s.cur>> \o s.hist, c[f])
    BY <1>1, ConsIds
  <1> QED BY <1>2 DEF OwnIds

\* A step of a normal round keeps the records.
LEMMA RoundKeepsRecords ==
  ASSUME TypeOK, TypeOK', FinalizerHeld, RecordBeforeUpload, RecordsInv, Round
  PROVE  RecordsInv'
  <1> USE DEF crVars, cacheVars, issuerVars, cloudVars, roundVars, envVars
  <1>0. /\ status \in Status /\ cstatus \in Status /\ ac \in Status /\ orig \in Status
        /\ acSpec.upload \in BOOLEAN /\ capi.spec.upload \in BOOLEAN
        /\ api \in Meta /\ cas \in [FP -> Nat] /\ cas' \in [FP -> Nat]
        /\ nextId \in Nat \ {0} /\ NoStatus.cleanup = FALSE
    BY DEF TypeOK, Meta, SpecFields, NoStatus
  <1>1. /\ OwnIds(cas, nextId, status) /\ OwnIds(cas, nextId, cstatus)
        /\ OwnIds(cas, nextId, ac) /\ OwnIds(cas, nextId, orig) /\ Shrinks(cas, cas)
    BY DEF RecordsInv, IdsInv, Shrinks
  <1>2. pc \in RoundSteps =>
          api.fin /\ ~status.cleanup /\ ~cstatus.cleanup /\ ~ac.cleanup /\ ~orig.cleanup
    BY DEF FinalizerHeld, RecordsInv, RoundRecords
  \* A step of the round proper: no deletion is under way.
  <1>a. ASSUME UNCHANGED <<api, capi, cstatus>>, api.fin, ~status'.cleanup, ~cstatus.cleanup,
               pc' \in RoundSteps \cup {"idle"}
        PROVE  CleanupRecords'
    BY <1>a DEF RecordsInv, CleanupRecords, RoundSteps
  \* ... in which no certificate is added.
  <1>b. ASSUME UNCHANGED <<api, capi, cstatus, nextId>>, Shrinks(cas, cas'),
               pc \in RoundSteps, pc' \in RoundSteps, ~status'.cleanup,
               ~ac'.cleanup, ~orig'.cleanup,
               OwnIds(cas, nextId, status'), OwnIds(cas, nextId, ac'),
               OwnIds(cas, nextId, orig'),
               pc' \in {"probe", "ensure"} => SameRecords(ac', orig'),
               pc' = "upload" => SameRecords(ac', orig') /\ SameRecords(orig', status'),
               pc' \in {"reclaim", "reclaimLoop", "patch"} =>
                  OnlyReclaimed(cas', ac', orig') \/ FromFresh(cas', ac', orig', status')
        PROVE  RecordsInv'
    <2>1. OwnIds(cas, nextId, cstatus')
      BY <1>b, <1>1
    <2>2. IdsInv'
      BY <1>b, <2>1, IdsFrame DEF RecordsInv
    <2>3. CleanupRecords'
      BY <1>a, <1>b, <1>2
    <2>4. RoundRecords'
      BY <1>b, <1>2 DEF RoundRecords
    <2> QED BY <2>2, <2>3, <2>4 DEF RecordsInv
  \* ... and in which the working copy keeps its records.
  <1>c. ASSUME UNCHANGED <<api, capi, cstatus, nextId, status, orig>>, Shrinks(cas, cas'),
               pc \in RoundSteps, pc' \in RoundSteps, Still(ac', ac),
               \/ pc = "probe" /\ pc' = "ensure"
               \/ pc = "ensure" /\ pc' \in {"reclaim", "patch"}
               \/ pc = "upload" /\ pc' = "patch"
               \/ pc \in {"reclaim", "reclaimLoop"}
                  /\ pc' \in {"reclaim", "reclaimLoop", "patch"}
        PROVE  RecordsInv'
    <2>1. OwnIds(cas, nextId, status') /\ OwnIds(cas, nextId, ac')
          /\ OwnIds(cas, nextId, orig') /\ ~status'.cleanup /\ ~ac'.cleanup /\ ~orig'.cleanup
      BY <1>c, <1>1, <1>2, OwnSame DEF Still, SameRecords
    <2>2. SameRecords(ac, orig) => OnlyReclaimed(cas', ac', orig')
      BY <1>c DEF Still, SameRecords, OnlyReclaimed
    <2>3. OnlyReclaimed(cas, ac, orig) => OnlyReclaimed(cas', ac', orig')
      <3>1. OnlyReclaimed(cas, ac, orig) => OnlyReclaimed(cas', ac, orig)
        BY <1>c, RecordsShrink
      <3> QED BY <1>c, <3>1 DEF Still, SameRecords, OnlyReclaimed
    <2>4. FromFresh(cas, ac, orig, status) => FromFresh(cas', ac', orig', status')
      <3>1. FromFresh(cas, ac, orig, status) => FromFresh(cas', ac, orig, status)
        BY <1>c, RecordsShrink
      <3> QED BY <1>c, <3>1 DEF Still, SameRecords, FromFresh, Holds
    <2>5. pc' \in {"probe", "ensure"} => SameRecords(ac', orig')
      BY <1>c DEF RecordsInv, RoundRecords, Still, SameRecords
    <2>6. pc' \in {"reclaim", "reclaimLoop", "patch"} =>
            OnlyReclaimed(cas', ac', orig') \/ FromFresh(cas', ac', orig', status')
      BY <1>c, <2>2, <2>3, <2>4 DEF RecordsInv, RoundRecords
    <2> QED BY <1>b, <1>c, <2>1, <2>5, <2>6
  <1> USE DEF RoundSteps
  <1>3. CASE AddFinalizer
    <2>1. api'.fin /\ (api.deleting => api'.deleting)
          /\ UNCHANGED <<status, capi, cstatus, cas, nextId, ghost, pc, ac, orig>>
      BY <1>0, <1>3 DEF AddFinalizer, Meta
    <2>2. /\ Still(status, status) /\ Still(cstatus, cstatus)
          /\ Still(ac, ac) /\ Still(orig, orig)
      BY DEF Still, SameRecords
    <2> QED BY <1>1, <2>1, <2>2, QuietRecords
  <1>4. CASE BeginRoundNotIssued \/ BeginRoundIssued
    <2>1. /\ CacheHolds /\ orig' = cstatus /\ pc' \in {"patch", "probe"}
          /\ UNCHANGED <<api, status, capi, cstatus, cas, nextId>>
      BY <1>4 DEF BeginRoundNotIssued, BeginRoundIssued
    <2>2. Still(ac', cstatus)
      <3>1. CASE BeginRoundNotIssued
        <4>1. Same(AggregateReady([cstatus EXCEPT !.conds.issued = FALSE], capi.spec.upload),
                   cstatus)
          BY <1>0, AggregateSame
        <4> QED BY <3>1, <4>1 DEF BeginRoundNotIssued, Same, Still, SameRecords
      <3>2. CASE BeginRoundIssued
        BY <3>2, <1>0, CondsSame DEF BeginRoundIssued, Same, Still, SameRecords
      <3> QED BY <1>4, <3>1, <3>2
    <2>3. api.fin /\ ~status.cleanup /\ ~cstatus.cleanup
      BY <2>1 DEF CacheHolds, FinalizerHeld, RecordsInv, CleanupRecords
    <2>4. IdsInv'
      <3>1. OwnIds(cas, nextId, ac') /\ OwnIds(cas, nextId, orig')
            /\ OwnIds(cas, nextId, status') /\ OwnIds(cas, nextId, cstatus')
        BY <1>1, <2>1, <2>2, OwnSame DEF Still, SameRecords
      <3> QED BY <1>1, <2>1, <3>1, IdsFrame DEF RecordsInv
    <2>5. CleanupRecords'
      BY <1>a, <2>1, <2>3
    <2>6. RoundRecords'
      <3>1. SameRecords(ac', orig') /\ OnlyReclaimed(cas', ac', orig')
        BY <2>1, <2>2 DEF Still, SameRecords, OnlyReclaimed
      <3> QED BY <2>1, <2>2, <2>3, <3>1 DEF RoundRecords, Still
    <2> QED BY <2>4, <2>5, <2>6 DEF RecordsInv
  <1>5. CASE ProbeSkipped
    <2>1. Still(ac', ac)
      BY <1>5 DEF ProbeSkipped, Still, SameRecords
    <2> QED BY <1>1, <1>5, <1>c, <2>1 DEF ProbeSkipped
  <1>6. CASE ProbeFound
    <2>1. Same([ac EXCEPT !.probed = TRUE], ac)
      BY <1>0, CondsSame
    <2>2. Still(ac', ac)
      BY <1>6, <2>1 DEF ProbeFound, Same, Still, SameRecords
    <2> QED BY <1>1, <1>6, <1>c, <2>2 DEF ProbeFound
  <1>7. CASE ProbeMissing
    <2> DEFINE x == [ac EXCEPT !.cur = NoGen, !.probed = TRUE]
    <2>1. /\ x \in Status /\ x.cur.id = NoId /\ x.hist = ac.hist /\ x.pend = ac.pend
          /\ (x.cleanup <=> ac.cleanup)
      <3>0. NoFP \in FP \cup {NoFP} /\ NoDom \in DomainOrNone
        BY DEF DomainOrNone
      <3>1. x \in Status
        BY <1>0, <3>0, SetPendType
      <3>2. x.cur = NoGen /\ x.hist = ac.hist /\ x.pend = ac.pend /\ (x.cleanup <=> ac.cleanup)
        BY <1>0 DEF Status
      <3> QED BY <3>1, <3>2 DEF NoGen
    <2> HIDE DEF x
    <2>2. /\ status' = MergePatch(status, orig, x) /\ ac' = status' /\ orig' = status'
          /\ pc = "probe" /\ pc' = "ensure" /\ ac.cur.id # NoId
          /\ UNCHANGED <<api, capi, cstatus, cas, nextId>>
      BY <1>7 DEF ProbeMissing, PatchAndReload, ProbeDue, x
    <2>3. SameRecords(ac, orig)
      BY <2>2 DEF RecordsInv, RoundRecords
    <2>4. status'.cur.id = NoId /\ status'.hist = status.hist /\ ~status'.cleanup
      BY <1>0, <1>2, <2>1, <2>2, <2>3, MergeFields DEF SameRecords
    <2>5. OwnIds(cas, nextId, status')
      BY <1>0, <1>1, <2>4, OwnCleared
    <2> QED BY <1>1, <1>b, <2>2, <2>4, <2>5 DEF SameRecords
  <1>8. CASE EnsureShortCircuit
    <2>1. Still(ac', ac)
      BY <1>8, <1>0, AggregateSame DEF EnsureShortCircuit, Same, Still, SameRecords
    <2> QED BY <1>1, <1>8, <1>c, <2>1 DEF EnsureShortCircuit
  <1>9. CASE EnsureRefresh
    <2> DEFINE x == AdoptUploadState(ac, status)
               o == AdoptUploadState(orig, status)
    <2>1. /\ x \in Status /\ o \in Status /\ SameRecords(x, status) /\ SameRecords(o, status)
          /\ pc = "ensure" /\ ~x.cleanup /\ ~o.cleanup
          /\ UNCHANGED <<api, capi, cstatus, cas, nextId>>
      <3>1. pc = "ensure" /\ UNCHANGED <<api, capi, cstatus, cas, nextId>>
        BY <1>9, Zenon DEF EnsureRefresh
      <3>2. x \in Status /\ o \in Status
        BY <1>0, AdoptType
      <3>3. /\ x.cur = status.cur /\ x.hist = status.hist /\ x.pend = status.pend
            /\ (x.cleanup <=> ac.cleanup)
        BY <1>0, AdoptFields
      <3>4. /\ o.cur = status.cur /\ o.hist = status.hist /\ o.pend = status.pend
            /\ (o.cleanup <=> orig.cleanup)
        BY <1>0, AdoptFields
      <3> HIDE DEF x, o
      <3> QED BY <1>2, <3>1, <3>2, <3>3, <3>4 DEF SameRecords
    <2>2. b \in FP
      BY <2>1, MaxGenAssumption DEF TypeOK
    <2> HIDE DEF x, o
    <2>3. CASE /\ ac' = SetUploadedCondition(x, acSpec.upload)
               /\ orig' = o /\ pc' = "reclaim" /\ status' = status
      <3>1. Same(ac', x)
        BY <1>0, <2>1, <2>3, AggregateSame
      <3>2. SameRecords(ac', status) /\ SameRecords(orig', status) /\ ~ac'.cleanup
        BY <2>1, <2>3, <3>1 DEF Same, SameRecords
      <3>3. OwnIds(cas, nextId, ac') /\ OwnIds(cas, nextId, orig')
        BY <1>1, <3>2, OwnSame DEF SameRecords
      <3>4. OnlyReclaimed(cas', ac', orig')
        BY <2>1, <3>2 DEF OnlyReclaimed, SameRecords
      <3> QED BY <1>1, <1>2, <1>b, <2>1, <2>3, <3>2, <3>3, <3>4
    <2>4. CASE /\ ac' = SetUploadedCondition(Advance(x, b, NoId), acSpec.upload)
               /\ orig' = o /\ pc' = "reclaim" /\ status' = status
      <3> DEFINE y == Advance(x, b, NoId)
      <3>1. /\ y \in Status /\ y.cur = [fp |-> b, id |-> NoId]
            /\ y.hist = (IF x.cur.fp # NoFP THEN <<x.cur>> \o x.hist ELSE x.hist)
            /\ y.pend = x.pend /\ ~y.cleanup
        BY <2>1, <2>2, AdvanceType, AdvanceFields
      <3> HIDE DEF y
      <3>2. Same(ac', y)
        BY <1>0, <2>4, <3>1, AggregateSame DEF y
      <3>3. /\ ac'.cur = [fp |-> b, id |-> NoId] /\ ac'.pend = status.pend /\ ~ac'.cleanup
            /\ ac'.hist = IF status.cur.fp # NoFP THEN <<status.cur>> \o status.hist
                                                  ELSE status.hist
        BY <2>1, <3>1, <3>2 DEF Same, SameRecords
      <3>4. OwnIds(cas, nextId, ac')
        BY <1>0, <1>1, <2>2, <3>3, OwnAdvance
      <3>5. OwnIds(cas, nextId, orig')
        BY <1>1, <2>1, <2>4, OwnSame DEF SameRecords
      <3>6. FromFresh(cas', ac', orig', status')
        <4>1. ASSUME NEW f \in FP, cas[f] # NoId, Holds(cas, status, f)
              PROVE  Holds(cas, ac', f)
          <5>1. CASE status.pend = f
            BY <3>3, <5>1 DEF Holds
          <5>2. CASE status.cur.id = cas[f] \/ HasId(status.hist, cas[f])
            BY <1>0, <1>1, <3>3, <4>1, <5>2, AdvanceHolds DEF Holds
          <5> QED BY <4>1, <5>1, <5>2 DEF Holds
        <4> QED BY <2>1, <2>4, <4>1 DEF FromFresh
      <3> QED BY <1>1, <1>2, <1>b, <2>1, <2>4, <3>3, <3>4, <3>5, <3>6
    <2>5. CASE ac' = x /\ orig' = o /\ pc' = "upload" /\ status' = status
      <3>1. OwnIds(cas, nextId, ac') /\ OwnIds(cas, nextId, orig')
        BY <1>1, <2>1, <2>5, OwnSame DEF SameRecords
      <3> QED BY <1>1, <1>2, <1>b, <2>1, <2>5, <3>1 DEF SameRecords
    <2>6. CASE /\ status' = [status EXCEPT !.pend = b, !.hint = acSpec.dom]
               /\ ac' = [x EXCEPT !.pend = b, !.hint = acSpec.dom]
               /\ orig' = [o EXCEPT !.pend = b, !.hint = acSpec.dom]
               /\ pc' = "upload"
      <3>1. /\ status'.cur = status.cur /\ status'.hist = status.hist /\ status'.pend = b
            /\ ac'.cur = x.cur /\ ac'.hist = x.hist /\ ac'.pend = b
            /\ orig'.cur = o.cur /\ orig'.hist = o.hist /\ orig'.pend = b
            /\ ~status'.cleanup /\ ~ac'.cleanup /\ ~orig'.cleanup
        BY <1>0, <1>2, <2>1, <2>6, PendFields
      <3>2. OwnIds(cas, nextId, status') /\ OwnIds(cas, nextId, ac')
            /\ OwnIds(cas, nextId, orig')
        BY <1>1, <2>1, <3>1, OwnSame DEF SameRecords
      <3>3. SameRecords(ac', orig') /\ SameRecords(orig', status')
        BY <2>1, <3>1 DEF SameRecords
      <3> QED BY <1>1, <1>b, <2>1, <2>6, <3>1, <3>2, <3>3
    <2> QED BY <1>9, <2>3, <2>4, <2>5, <2>6, Zenon DEF EnsureRefresh, WriteAhead, x, o
  <1>10. CASE EnsureFails
    <2> DEFINE x == AdoptUploadState(ac, status)
               o == AdoptUploadState(orig, status)
    <2>1. /\ x \in Status /\ o \in Status /\ SameRecords(x, status) /\ SameRecords(o, status)
          /\ pc = "ensure" /\ ~x.cleanup /\ ~o.cleanup /\ pc' = "patch"
          /\ UNCHANGED <<api, capi, cstatus, cas, nextId>>
      <3>1. pc = "ensure" /\ UNCHANGED <<api, capi, cstatus, cas, nextId>> /\ pc' = "patch"
        BY <1>10, Zenon DEF EnsureFails, CloudError
      <3>2. x \in Status /\ o \in Status
        BY <1>0, AdoptType
      <3>3. /\ x.cur = status.cur /\ x.hist = status.hist /\ x.pend = status.pend
            /\ (x.cleanup <=> ac.cleanup)
        BY <1>0, AdoptFields
      <3>4. /\ o.cur = status.cur /\ o.hist = status.hist /\ o.pend = status.pend
            /\ (o.cleanup <=> orig.cleanup)
        BY <1>0, AdoptFields
      <3> HIDE DEF x, o
      <3> QED BY <1>2, <3>1, <3>2, <3>3, <3>4 DEF SameRecords
    <2> HIDE DEF x, o
    <2>2. CASE /\ ac' = AggregateReady([ac EXCEPT !.conds.uploaded = FALSE], acSpec.upload)
               /\ status' = status /\ orig' = orig
      <3>1. Same(ac', ac)
        BY <1>0, <2>2, AggregateSame
      <3>2. Still(ac', ac)
        BY <3>1 DEF Same, Still, SameRecords
      <3> QED BY <1>1, <1>c, <2>1, <2>2, <3>2
    <2>3. CASE /\ ac' = AggregateReady([x EXCEPT !.conds.uploaded = FALSE], acSpec.upload)
               /\ orig' = o
               /\ status' = [status EXCEPT !.pend = b, !.hint = acSpec.dom]
      <3>1. Same(ac', x)
        BY <1>0, <2>1, <2>3, AggregateSame
      <3>2. SameRecords(ac', orig') /\ ~ac'.cleanup /\ ~orig'.cleanup
        BY <2>1, <2>3, <3>1 DEF Same, SameRecords
      <3>3. status'.cur = status.cur /\ status'.hist = status.hist /\ ~status'.cleanup
        BY <1>0, <1>2, <2>1, <2>3, PendFields
      <3>4. OwnIds(cas, nextId, ac') /\ OwnIds(cas, nextId, orig')
            /\ OwnIds(cas, nextId, status')
        BY <1>1, <2>1, <2>3, <3>2, <3>3, OwnSame DEF SameRecords
      <3>5. OnlyReclaimed(cas', ac', orig')
        BY <3>2 DEF OnlyReclaimed, SameRecords
      <3> QED BY <1>1, <1>b, <2>1, <3>2, <3>3, <3>4, <3>5
    <2> QED BY <1>10, <2>2, <2>3, Zenon DEF EnsureFails, CloudError, WriteAhead, x, o
  <1>11. CASE UploadNew
    <2>1. /\ pc = "upload" /\ cas' = [cas EXCEPT ![b] = nextId] /\ nextId' = nextId + 1
          /\ Uploaded(nextId) \/ CloudError
          /\ UNCHANGED <<api, status, capi, cstatus, orig>>
      BY <1>11 DEF UploadNew
    <2>2. b \in FP /\ status.pend = b /\ SameRecords(ac, orig) /\ SameRecords(orig, status)
      BY <2>1, MaxGenAssumption DEF TypeOK, RecordBeforeUpload, RecordsInv, RoundRecords
    <2>3. /\ cas'[b] = nextId /\ \A f \in FP : f # b => cas'[f] = cas[f]
          /\ From(cas, nextId, cas') /\ nextId' \in Nat \ {0} /\ nextId <= nextId'
          /\ nextId \in Nat /\ nextId < nextId'
      BY <1>0, <2>1, <2>2 DEF From
    <2>4. /\ OwnIds(cas', nextId', status') /\ OwnIds(cas', nextId', cstatus')
          /\ OwnIds(cas', nextId', ac) /\ OwnIds(cas', nextId', orig')
      <3>1. \A s \in Status : OwnIds(cas, nextId, s) => OwnIds(cas', nextId', s)
        BY <1>0, <2>3, OwnKept
      <3> QED BY <1>0, <1>1, <2>1, <3>1
    <2>5. /\ \A f \in FP : cas'[f] < nextId'
          /\ \A f, g \in FP : cas'[f] # NoId /\ cas'[f] = cas'[g] => f = g
      <3>1. \A f \in FP : cas[f] \in Nat /\ cas[f] < nextId
        BY <1>0 DEF RecordsInv, IdsInv
      <3>2. \A f \in FP : cas'[f] < nextId'
        BY <1>0, <2>3, <3>1
      <3>3. ASSUME NEW f \in FP, NEW g \in FP, cas'[f] # NoId, cas'[f] = cas'[g]
            PROVE  f = g
        <4>1. CASE f = b
          <5>1. cas'[g] = nextId
            BY <2>3, <3>3, <4>1
          <5> QED BY <1>0, <2>3, <3>1, <4>1, <5>1
        <4>2. CASE g = b
          <5>1. cas'[f] = nextId
            BY <2>3, <3>3, <4>2
          <5> QED BY <1>0, <2>3, <3>1, <4>2, <5>1
        <4>3. CASE f # b /\ g # b
          BY <2>3, <3>3, <4>3 DEF RecordsInv, IdsInv
        <4> QED BY <4>1, <4>2, <4>3
      <3> QED BY <3>2, <3>3
    <2>6. CASE Uploaded(nextId)
      <3>1. /\ ac'.cur = [fp |-> b, id |-> nextId]
            /\ ac'.hist = (IF ac.cur.fp # NoFP THEN <<ac.cur>> \o ac.hist ELSE ac.hist)
            /\ ac'.pend = NoFP /\ ~ac'.cleanup /\ pc' = "reclaim"
        BY <1>2, <2>1, <2>3, <2>6, UploadedFields
      <3>2. OwnIds(cas', nextId', ac')
        <4>1. \A g \in FP : nextId # NoId /\ cas'[g] = nextId => g = b
          BY <1>0, <2>2, <2>3, <2>5
        <4>2. ac \in Status /\ cas' \in [FP -> Nat] /\ OwnIds(cas', nextId', ac)
          BY <1>0, <2>4
        <4>3. nextId \in Nat /\ nextId' \in Nat \ {0} /\ nextId < nextId' /\ b \in FP
          BY <2>2, <2>3
        <4> QED BY <3>1, <4>1, <4>2, <4>3, OwnAdvance
      <3>3. IdsInv'
        BY <2>4, <2>5, <3>2 DEF IdsInv
      <3>4. FromFresh(cas', ac', orig', status')
        <4>1. ASSUME NEW f \in FP, cas'[f] # NoId, Holds(cas', status, f)
              PROVE  Holds(cas', ac', f)
          <5>1. CASE status.pend = f
            BY <2>2, <2>3, <3>1, <5>1 DEF Holds
          <5>2. CASE ac.cur.id = cas'[f] \/ HasId(ac.hist, cas'[f])
            BY <1>0, <2>4, <3>1, <4>1, <5>2, AdvanceHolds DEF Holds
          <5> QED BY <2>2, <4>1, <5>1, <5>2 DEF Holds, SameRecords
        <4> QED BY <2>1, <2>2, <4>1 DEF FromFresh
      <3>5. CleanupRecords'
        BY <1>2, <1>a, <2>1, <3>1
      <3>6. RoundRecords'
        BY <1>2, <2>1, <3>1, <3>4 DEF RoundRecords
      <3> QED BY <3>3, <3>5, <3>6 DEF RecordsInv
    <2>7. CASE CloudError
      <3>1. Same(ac', ac) /\ pc' = "patch"
        BY <1>0, <2>7, AggregateSame DEF CloudError
      <3>2. OwnIds(cas', nextId', ac')
        BY <2>4, <3>1, OwnSame DEF Same
      <3>3. IdsInv'
        BY <2>4, <2>5, <3>2 DEF IdsInv
      <3>4. OnlyReclaimed(cas', ac', orig') /\ ~ac'.cleanup
        BY <1>2, <2>1, <2>2, <3>1 DEF OnlyReclaimed, SameRecords, Same
      <3>5. CleanupRecords'
        BY <1>2, <1>a, <2>1, <3>1
      <3>6. RoundRecords'
        BY <1>2, <2>1, <3>1, <3>4 DEF RoundRecords
      <3> QED BY <3>3, <3>5, <3>6 DEF RecordsInv
    <2> QED BY <2>1, <2>6, <2>7
  <1>12. CASE UploadClaim
    <2>1. PICK k \in FindByName(b) : Uploaded(k)
      BY <1>12 DEF UploadClaim
    <2>2. /\ pc = "upload" /\ UNCHANGED <<api, status, capi, cstatus, cas, nextId, orig>>
          /\ cas[b] # NoId
      BY <1>12 DEF UploadClaim
    <2>3. b \in FP /\ status.pend = b /\ SameRecords(ac, orig) /\ SameRecords(orig, status)
      BY <2>2, MaxGenAssumption DEF TypeOK, RecordBeforeUpload, RecordsInv, RoundRecords
    <2>4. k = cas[b] /\ k \in Nat /\ k < nextId
          /\ \A g \in FP : k # NoId /\ cas[g] = k => g = b
      BY <1>0, <2>1, <2>3 DEF FindByName, RecordsInv, IdsInv
    <2>5. /\ ac'.cur = [fp |-> b, id |-> k]
          /\ ac'.hist = (IF ac.cur.fp # NoFP THEN <<ac.cur>> \o ac.hist ELSE ac.hist)
          /\ ac'.pend = NoFP /\ ~ac'.cleanup /\ pc' = "reclaim"
      BY <1>2, <2>1, <2>2, <2>4, UploadedFields
    <2>6. OwnIds(cas, nextId, ac')
      <3>1. ac \in Status /\ cas \in [FP -> Nat] /\ OwnIds(cas, nextId, ac)
            /\ nextId \in Nat \ {0} /\ b \in FP
        BY <1>0, <1>1, <2>3
      <3>2. cas[b] \in Nat /\ cas[b] < nextId
        BY <2>4
      <3>3. \A g \in FP : cas[b] # NoId /\ cas[g] = cas[b] => g = b
        BY <2>4
      <3>4. /\ ac'.cur = [fp |-> b, id |-> cas[b]]
            /\ ac'.hist = IF ac.cur.fp # NoFP THEN <<ac.cur>> \o ac.hist ELSE ac.hist
        BY <2>4, <2>5
      <3> QED BY <3>1, <3>2, <3>3, <3>4, OwnAdvance
    <2>7. FromFresh(cas', ac', orig', status')
      <3>1. ASSUME NEW f \in FP, cas[f] # NoId, Holds(cas, status, f)
            PROVE  Holds(cas, ac', f)
        <4>1. CASE status.pend = f
          BY <2>3, <2>4, <2>5, <4>1 DEF Holds
        <4>2. CASE ac.cur.id = cas[f] \/ HasId(ac.hist, cas[f])
          BY <1>0, <1>1, <2>5, <3>1, <4>2, AdvanceHolds DEF Holds
        <4> QED BY <2>3, <3>1, <4>1, <4>2 DEF Holds, SameRecords
      <3> QED BY <2>2, <2>3, <3>1 DEF FromFresh
    <2> QED BY <1>1, <1>2, <1>b, <2>2, <2>5, <2>6, <2>7
  <1>13. CASE UploadFails
    <2>1. Same(ac', ac)
      BY <1>0, <1>13, AggregateSame DEF UploadFails, CloudError
    <2>2. Still(ac', ac)
      BY <2>1 DEF Same, Still, SameRecords
    <2> QED BY <1>1, <1>13, <1>c, <2>2 DEF UploadFails, CloudError
  <1>14. CASE ReclaimList \/ ReclaimFails \/ ReclaimStops
    <2>1. Still(ac', ac)
      <3>1. ASSUME GoPatch(ac) PROVE Still(ac', ac)
        <4>1. Same(ac', ac)
          BY <1>0, <3>1, AggregateSame DEF GoPatch
        <4> QED BY <4>1 DEF Same, Still, SameRecords
      <3>2. Still(ac, ac)
        BY DEF Still, SameRecords
      <3> QED BY <1>14, <3>1, <3>2 DEF ReclaimList, ReclaimFails, ReclaimStops
    <2>2. Shrinks(cas, cas')
      BY <1>0, <1>14 DEF ReclaimList, ReclaimFails, ReclaimStops, CasWithout, Shrinks
    <2>3. /\ pc \in {"reclaim", "reclaimLoop"} /\ pc' \in {"reclaimLoop", "patch"}
          /\ UNCHANGED <<api, capi, cstatus, nextId, status, orig>>
      BY <1>14 DEF ReclaimList, ReclaimFails, ReclaimStops, GoPatch
    <2> QED BY <1>c, <2>1, <2>2, <2>3
  <1>15. CASE ReclaimOldest
    <2>1. /\ pc = "reclaimLoop" /\ pc' = "reclaimLoop" /\ ac' = DropOldest(ac)
          /\ ac.hist # <<>>
          /\ UNCHANGED <<api, capi, cstatus, nextId, status, orig>>
      BY <1>15 DEF ReclaimOldest, Excess
    <2>2. /\ Shrinks(cas, cas')
          /\ \A f \in FP : cas'[f] # NoId => cas'[f] = cas[f] /\ cas[f] # Oldest(ac).id
      BY <1>0, <1>15 DEF ReclaimOldest, CasWithout, Shrinks
    <2>3. /\ ac'.hist = SubSeq(ac.hist, 1, Len(ac.hist) - 1)
          /\ ac'.cur = ac.cur /\ ac'.pend = ac.pend /\ ~ac'.cleanup
      BY <1>0, <1>2, <2>1, DropFields
    <2>4. OwnIds(cas, nextId, ac')
      BY <1>0, <1>1, <2>1, OwnDrop
    <2>5. ASSUME NEW f \in FP, cas'[f] # NoId, HasId(ac.hist, cas[f])
          PROVE  HasId(ac'.hist, cas[f])
      <3>1. ac.hist \in Seq(Gen)
        BY <1>0 DEF Status
      <3> QED BY <2>1, <2>2, <2>3, <2>5, <3>1, FrontIds DEF Oldest
    <2>6. OnlyReclaimed(cas, ac, orig) => OnlyReclaimed(cas', ac', orig')
      BY <2>1, <2>2, <2>3, <2>5 DEF OnlyReclaimed
    <2>7. FromFresh(cas, ac, orig, status) => FromFresh(cas', ac', orig', status')
      BY <2>1, <2>2, <2>3, <2>5 DEF FromFresh, Holds
    <2>8. OnlyReclaimed(cas', ac', orig') \/ FromFresh(cas', ac', orig', status')
      BY <2>1, <2>6, <2>7 DEF RecordsInv, RoundRecords
    <2> QED BY <1>1, <1>2, <1>b, <2>1, <2>2, <2>3, <2>4, <2>8
  <1>16. CASE PatchStatus
    <2>1. /\ pc = "patch" /\ pc' = "idle" /\ status' = MergePatch(status, orig, ac)
          /\ ac' = NoStatus /\ orig' = NoStatus
          /\ UNCHANGED <<api, capi, cstatus, cas, nextId>>
      BY <1>16 DEF PatchStatus, EndRound
    <2>2. ~status'.cleanup
      BY <1>0, <1>2, <2>1, MergeFields
    <2>3. OwnIds(cas, nextId, status')
      <3>1. CASE OnlyReclaimed(cas, ac, orig)
        <4>1. status'.cur = status.cur /\ status'.hist \in {status.hist, ac.hist}
          BY <1>0, <2>1, <3>1, MergeFields DEF OnlyReclaimed
        <4> QED BY <1>1, <4>1, OwnParts
      <3>2. CASE FromFresh(cas, ac, orig, status)
        <4>1. status'.cur = ac.cur /\ status'.hist = ac.hist
          BY <1>0, <2>1, <3>2, MergeFields DEF FromFresh, SameRecords
        <4> QED BY <1>1, <4>1, OwnParts
      <3> QED BY <2>1, <3>1, <3>2 DEF RecordsInv, RoundRecords
    <2>4. IdsInv'
      <3>1. OwnIds(cas, nextId, ac') /\ OwnIds(cas, nextId, orig')
            /\ OwnIds(cas, nextId, cstatus')
        BY <1>0, <1>1, <2>1, OwnNone
      <3> QED BY <1>1, <2>1, <2>3, <3>1, IdsFrame DEF RecordsInv
    <2>5. CleanupRecords'
      BY <1>2, <1>a, <2>1, <2>2
    <2>6. RoundRecords'
      BY <2>1 DEF RoundRecords
    <2> QED BY <2>4, <2>5, <2>6 DEF RecordsInv
  <1> QED
    BY <1>3, <1>4, <1>5, <1>6, <1>7, <1>8, <1>9, <1>10, <1>11, <1>12, <1>13, <1>14, <1>15,
       <1>16 DEF Round
-----------------------------------------------------------------------------
(* A deletion round keeps the records *)

\* The patch of a cleanup, whose base may be an older copy: it takes from the
\* server's status only what is no longer in CAS.
LEMMA CleanupMerge ==
  ASSUME NEW c, NEW n \in Nat \ {0}, NEW s \in Status, NEW o \in Status, NEW a \in Status,
         a.cur.fp = o.cur.fp, a.cur.id \in {o.cur.id, NoId}, a.cleanup <=> o.cleanup,
         OwnIds(c, n, s), OwnIds(c, n, a)
  PROVE  LET m == MergePatch(s, o, a)
         IN  /\ OwnIds(c, n, m)
             /\ m.cleanup <=> s.cleanup
             /\ Agree(c, o, s) /\ Agree(c, a, s) => Agree(c, m, s)
  <1> DEFINE m == MergePatch(s, o, a)
  <1>1. /\ m.cur.fp = s.cur.fp
        /\ a.cur.id = o.cur.id => m.cur.id = s.cur.id
        /\ a.cur.id # o.cur.id => m.cur.id = NoId
        /\ m.hist = IF a.hist = o.hist THEN s.hist ELSE a.hist
        /\ m.pend = IF a.pend = o.pend THEN s.pend ELSE a.pend
        /\ m.cleanup <=> s.cleanup
    BY MergeFields
  <1> HIDE DEF m
  <1>2. OwnIds(c, n, m)
    BY <1>1 DEF OwnIds
  <1>3. Agree(c, o, s) /\ Agree(c, a, s) => Agree(c, m, s)
    BY <1>1 DEF Agree
  <1> QED BY <1>1, <1>2, <1>3 DEF m

\* After the cleanup the status holds nothing that is in CAS.
LEMMA NothingHeld ==
  ASSUME NEW c, NEW a, NothingLeft(a)
  PROVE  NoneHeld(c, a)
  BY DEF NothingLeft, HistoryIsClean, HistoryClean, NoneHeld, Holds, HasId

\* Statuses that agree with a third agree; nothing is held in both or in neither.
LEMMA AgreeTransfers ==
  ASSUME NEW c, NEW s, NEW t, NEW u, Agree(c, t, s), Agree(c, u, s)
  PROVE  /\ Agree(c, t, u)
         /\ NoneHeld(c, t) => NoneHeld(c, u)
  BY DEF Agree, NoneHeld, Holds

\* One certificate further: copy and server agree on those that are left.
LEMMA DeletedAgrees ==
  ASSUME TypeOK, OneName, pc = "cleanup", ~NothingLeft(ac), Agree(cas, ac, status)
  PROVE  Agree(CasWithout(NextToDelete(ac)), DeletedNext(ac), status)
  <1> DEFINE a == DeletedNext(ac)
             k == NextToDelete(ac)
             d == CasWithout(k)
  <1>0. ac \in Status /\ cas \in [FP -> Nat] /\ ac.hist \in Seq(Gen) /\ ac.pend \in FP \cup {NoFP}
    BY DEF TypeOK, Status
  <1>1. \A f \in FP : d[f] # NoId => d[f] = cas[f] /\ cas[f] # k
    BY <1>0 DEF CasWithout
  <1>2. CASE ~HistoryIsClean(ac)
    <2> DEFINE j == FirstLeft(ac)
    <2>1. k = ac.hist[j].id
      BY <1>2 DEF NextToDelete
    <2>2. a.hist = [ac.hist EXCEPT ![j].id = NoId] /\ a.cur = ac.cur /\ a.pend = ac.pend
      BY <1>0, <1>2, DeletedFields
    <2> HIDE DEF a, k, d, j
    <2>3. ASSUME NEW f \in FP, d[f] # NoId
          PROVE  HasId(a.hist, d[f]) <=> HasId(ac.hist, d[f])
      <3>1. d[f] # NoId /\ ac.hist[j].id # d[f]
        BY <1>1, <2>1, <2>3
      <3>2. Cleared(ac.hist, a.hist, j)
        BY <1>0, <2>2, ClearedBy
      <3> QED BY <3>1, <3>2, ClearedIds
    <2>4. Agree(d, a, status)
      BY <1>1, <2>2, <2>3 DEF Agree
    <2> QED BY <2>4 DEF a, k, d
  <1>3. CASE HistoryIsClean(ac) /\ ac.cur.id # NoId
    <2>1. k = ac.cur.id
      BY <1>3 DEF NextToDelete
    <2>2. a.hist = ac.hist /\ a.cur = [fp |-> ac.cur.fp, id |-> NoId] /\ a.pend = ac.pend
      BY <1>0, <1>3, DeletedFields
    <2> HIDE DEF a, k, d
    <2>3. Agree(d, a, status)
      BY <1>1, <2>1, <2>2 DEF Agree
    <2> QED BY <2>3 DEF a, k, d
  <1>4. CASE HistoryIsClean(ac) /\ ac.cur.id = NoId
    <2>1. ac.pend \in FP
      BY <1>0, <1>4 DEF NothingLeft
    <2>2. d[ac.pend] = NoId
      BY <1>4, <2>1, PendingFound
    <2>3. a.hist = ac.hist /\ a.cur = ac.cur /\ a.pend = NoFP
      BY <1>0, <1>4, DeletedFields
    <2> HIDE DEF a, k, d
    <2>4. Agree(d, a, status)
      BY <1>1, <2>1, <2>2, <2>3 DEF Agree
    <2> QED BY <2>4 DEF a, k, d
  <1> QED BY <1>2, <1>3, <1>4

\* A step of a deletion round keeps the records.
LEMMA DeletionKeepsRecords ==
  ASSUME TypeOK, TypeOK', FinalizerHeld, MaxRenames = 0 => OneName, RecordsInv, Deletion
  PROVE  RecordsInv'
  <1> USE DEF crVars, cacheVars, issuerVars, cloudVars, roundVars, envVars
  <1>0. /\ status \in Status /\ cstatus \in Status /\ ac \in Status /\ orig \in Status
        /\ cas \in [FP -> Nat] /\ nextId \in Nat \ {0}
        /\ ghost \in Ghost /\ ghost' \in Ghost
    BY DEF TypeOK
  <1>1. /\ OwnIds(cas, nextId, status) /\ OwnIds(cas, nextId, cstatus)
        /\ OwnIds(cas, nextId, ac) /\ OwnIds(cas, nextId, orig)
        /\ OwnIds(cas, nextId, NoStatus) /\ Shrinks(cas, cas)
    BY <1>0, OwnNone DEF RecordsInv, IdsInv, Shrinks
  <1>2. /\ Still(status, status) /\ Still(cstatus, cstatus) /\ Still(ac, ac) /\ Still(orig, orig)
    BY DEF Still, SameRecords
  <1>3. ASSUME pc' \notin RoundSteps PROVE RoundRecords'
    BY <1>3 DEF RoundRecords, RoundSteps
  <1>4. CASE DeleteBlocked
    <2> DEFINE x == [cstatus EXCEPT !.conds.ready = FALSE]
    <2>1. x \in Status /\ Same(x, cstatus)
      BY <1>0, SetCondType, CondsSame
    <2> HIDE DEF x
    <2>2. status' = MergePatch(status, cstatus, x)
          /\ UNCHANGED <<api, capi, cstatus, cas, nextId, ghost, pc, ac, orig>>
      BY <1>4 DEF DeleteBlocked, x
    <2>3. Still(status', status)
      BY <1>0, <2>1, <2>2, MergeFields DEF Same, Still, SameRecords
    <2> QED BY <1>1, <1>2, <2>2, <2>3, QuietRecords
  <1>5. CASE DeleteStarts
    <2> DEFINE x == [cstatus EXCEPT !.cleanup = TRUE]
    <2>1. x \in Status /\ x.cur = cstatus.cur /\ x.hist = cstatus.hist /\ x.pend = cstatus.pend
      BY <1>0 DEF Status
    <2> HIDE DEF x
    <2>2. /\ status' = MergePatch(status, cstatus, x) /\ ac' = status' /\ orig' = status'
          /\ pc' = "cleanup" /\ ~cstatus.cleanup /\ CacheDeleting /\ api.exists
          /\ UNCHANGED <<api, capi, cstatus, cas, nextId, ghost>>
      BY <1>5 DEF DeleteStarts, x
    <2>3. SameRecords(status', status)
      BY <1>0, <2>1, <2>2, MergeFields DEF SameRecords
    <2>4. OwnIds(cas, nextId, status')
      BY <1>1, <2>3, OwnSame DEF SameRecords
    <2>5. IdsInv'
      BY <1>1, <2>2, <2>4, IdsFrame DEF RecordsInv
    <2>6. capi.deleting /\ api.deleting
      BY <2>2 DEF CacheDeleting, FinalizerHeld
    <2>7. Agree(cas', status', status')
      BY DEF Agree
    <2>8. CleanupRecords'
      BY <2>2, <2>6, <2>7 DEF RecordsInv, CleanupRecords
    <2> QED BY <1>3, <2>2, <2>5, <2>8 DEF RecordsInv, RoundSteps
  <1>6. CASE DeleteResumes
    <2>1. /\ ac' = cstatus /\ orig' = cstatus /\ pc' = "cleanup" /\ cstatus.cleanup
          /\ UNCHANGED <<api, status, capi, cstatus, cas, nextId, ghost>>
      BY <1>6 DEF DeleteResumes
    <2>2. IdsInv'
      BY <1>1, <2>1, IdsFrame DEF RecordsInv
    <2>3. CleanupRecords'
      BY <2>1 DEF RecordsInv, CleanupRecords
    <2> QED BY <1>3, <2>1, <2>2, <2>3 DEF RecordsInv, RoundSteps
  <1>7. CASE CleanupDelete
    <2>1. /\ pc = "cleanup" /\ pc' = "cleanup" /\ ~NothingLeft(ac)
          /\ cas' = CasWithout(NextToDelete(ac)) /\ ac' = DeletedNext(ac)
          /\ UNCHANGED <<api, status, capi, cstatus, nextId, ghost, orig>>
      BY <1>7 DEF CleanupDelete
    <2>2. Shrinks(cas, cas')
      BY <1>0, <2>1 DEF CasWithout, Shrinks
    <2>3. OwnIds(cas, nextId, ac')
      BY <1>0, <1>1, <2>1, OwnDeleted
    <2>4. IdsInv'
      BY <1>1, <2>1, <2>2, <2>3, IdsFrame DEF RecordsInv
    <2>5. Tidy => Agree(cas', ac', status') /\ Agree(cas', orig', status')
      <3>1. Tidy => Agree(cas, ac, status) /\ Agree(cas, orig, status)
        BY <2>1 DEF RecordsInv, CleanupRecords
      <3> QED BY <2>1, <2>2, <3>1, DeletedAgrees, RecordsShrink
    <2>6. Tidy /\ cstatus.cleanup => Agree(cas', cstatus', status')
      <3>1. Tidy /\ cstatus.cleanup => Agree(cas, cstatus, status)
        BY DEF RecordsInv, CleanupRecords
      <3> QED BY <2>1, <2>2, <3>1, RecordsShrink
    <2>7. /\ ac'.cleanup <=> orig'.cleanup
          /\ ac'.cur.fp = orig'.cur.fp /\ ac'.cur.id \in {orig'.cur.id, NoId}
      <3> DEFINE x == DeletedNext(ac)
      <3>0. /\ x.cleanup <=> ac.cleanup
            /\ x.cur = ac.cur \/ x.cur = [fp |-> ac.cur.fp, id |-> NoId]
        BY <1>0, DeletedFields
      <3> HIDE DEF x
      <3>1. /\ ac'.cleanup <=> ac.cleanup
            /\ ac'.cur.fp = ac.cur.fp /\ ac'.cur.id \in {ac.cur.id, NoId}
        BY <2>1, <3>0 DEF x
      <3> QED BY <2>1, <3>1 DEF RecordsInv, CleanupRecords
    <2>8. api.exists /\ ~api.fin => \A f \in FP : cas'[f] = NoId
      BY <2>2 DEF RecordsInv, CleanupRecords, Shrinks
    <2>9. CleanupRecords'
      BY <2>1, <2>5, <2>6, <2>7, <2>8 DEF RecordsInv, CleanupRecords
    <2> QED BY <1>3, <2>1, <2>4, <2>9 DEF RecordsInv, RoundSteps
  <1>8. CASE CleanupFails
    <2>1. Shrinks(cas, cas') /\ pc = "cleanup" /\ UNCHANGED <<api, capi, cstatus, nextId>>
      BY <1>0, <1>8 DEF CleanupFails, CasWithout, Shrinks
    <2>2. api.exists /\ ~api.fin => \A f \in FP : cas'[f] = NoId
      BY <2>1 DEF RecordsInv, CleanupRecords, Shrinks
    <2>3. CASE ShouldAbandonCleanup
      <3>1. /\ pc' = "cleaned" /\ ghost' = [ghost EXCEPT !.abandoned = TRUE]
            /\ UNCHANGED <<status, ac, orig>>
        BY <1>8, <2>3 DEF CleanupFails
      <3>2. ghost'.abandoned
        BY <1>0, <3>1 DEF Ghost
      <3>3. IdsInv'
        BY <1>1, <2>1, <3>1, IdsFrame DEF RecordsInv
      <3>4. CleanupRecords'
        BY <2>1, <2>2, <3>1, <3>2 DEF RecordsInv, CleanupRecords
      <3> QED BY <1>3, <3>1, <3>3, <3>4 DEF RecordsInv, RoundSteps
    <2>4. CASE ~ShouldAbandonCleanup
      <3> DEFINE x == [ac EXCEPT !.conds.ready = FALSE]
                 m == MergePatch(status, orig, x)
      <3>1. x \in Status /\ Same(x, ac)
        BY <1>0, SetCondType, CondsSame
      <3> HIDE DEF x
      <3>2. /\ x.cur.fp = orig.cur.fp /\ x.cur.id \in {orig.cur.id, NoId}
            /\ x.cleanup <=> orig.cleanup
            /\ OwnIds(cas, nextId, x)
        BY <1>1, <2>1, <3>1, OwnSame DEF RecordsInv, CleanupRecords, Same
      <3>3. /\ OwnIds(cas, nextId, m) /\ (m.cleanup <=> status.cleanup)
            /\ Agree(cas, orig, status) /\ Agree(cas, x, status) => Agree(cas, m, status)
        BY <1>0, <1>1, <3>1, <3>2, CleanupMerge
      <3> HIDE DEF m
      <3>4. /\ status' = IF api.exists THEN m ELSE status
            /\ pc' = "idle" /\ ac' = NoStatus /\ orig' = NoStatus /\ ghost' = ghost
        BY <1>8, <2>4 DEF CleanupFails, EndRound, m, x
      <3>5. OwnIds(cas, nextId, status') /\ (status'.cleanup <=> status.cleanup)
        BY <1>1, <3>3, <3>4
      <3>6. IdsInv'
        BY <1>1, <2>1, <3>4, <3>5, IdsFrame DEF RecordsInv
      <3>7. Tidy => Agree(cas, status', status)
        <4>1. Agree(cas, status, status)
          BY DEF Agree
        <4>2. Tidy => Agree(cas, ac, status) /\ Agree(cas, orig, status)
          BY <2>1 DEF RecordsInv, CleanupRecords
        <4>3. Agree(cas, ac, status) => Agree(cas, x, status)
          BY <3>1 DEF Agree, Same
        <4> QED BY <3>3, <3>4, <4>1, <4>2, <4>3
      <3>8. Tidy /\ cstatus.cleanup => Agree(cas', cstatus', status')
        <4>1. Tidy /\ cstatus.cleanup => Agree(cas, cstatus, status)
          BY DEF RecordsInv, CleanupRecords
        <4>2. Tidy /\ cstatus.cleanup => Agree(cas, cstatus, status')
          BY <3>7, <4>1, AgreeTransfers
        <4> QED BY <2>1, <4>2, RecordsShrink
      <3>9. CleanupRecords'
        BY <2>1, <2>2, <3>4, <3>5, <3>8 DEF RecordsInv, CleanupRecords
      <3> QED BY <1>3, <3>4, <3>6, <3>9 DEF RecordsInv, RoundSteps
    <2> QED BY <2>3, <2>4
  <1>9. CASE CleanupDone
    <2>1. /\ pc = "cleanup" /\ pc' = "cleaned" /\ NothingLeft(ac)
          /\ UNCHANGED <<api, status, capi, cstatus, cas, nextId, ghost, ac, orig>>
      BY <1>9 DEF CleanupDone
    <2>2. IdsInv'
      BY <1>1, <2>1, IdsFrame DEF RecordsInv
    <2>3. CleanupRecords'
      BY <2>1 DEF RecordsInv, CleanupRecords
    <2> QED BY <1>3, <2>1, <2>2, <2>3 DEF RecordsInv, RoundSteps
  <1>10. CASE PatchCleaned
    <2>1. CASE api.exists
      <3>1. /\ status' = MergePatch(status, orig, ac) /\ ac' = status' /\ orig' = status'
            /\ pc = "cleaned" /\ pc' = "deleteCert"
            /\ UNCHANGED <<api, capi, cstatus, cas, nextId, ghost>>
        BY <1>10, <2>1 DEF PatchCleaned, PatchAndReload
      <3>2. /\ ac.cur.fp = orig.cur.fp /\ ac.cur.id \in {orig.cur.id, NoId}
            /\ ac.cleanup <=> orig.cleanup
        BY <3>1 DEF RecordsInv, CleanupRecords
      <3>3. /\ OwnIds(cas, nextId, status') /\ (status'.cleanup <=> status.cleanup)
            /\ Agree(cas, orig, status) /\ Agree(cas, ac, status) => Agree(cas, status', status)
        BY <1>0, <1>1, <3>1, <3>2, CleanupMerge
      <3>4. IdsInv'
        BY <1>1, <3>1, <3>3, IdsFrame DEF RecordsInv
      <3>5. Tidy => Agree(cas, status', status) /\ NoneHeld(cas, status')
        <4>1. Tidy =>
                Agree(cas, orig, status) /\ Agree(cas, ac, status) /\ NothingLeft(ac)
          BY <3>1 DEF RecordsInv, CleanupRecords
        <4> QED BY <3>3, <4>1, NothingHeld, AgreeTransfers
      <3>6. Tidy /\ cstatus.cleanup => Agree(cas, cstatus, status')
        <4>1. Tidy /\ cstatus.cleanup => Agree(cas, cstatus, status)
          BY DEF RecordsInv, CleanupRecords
        <4> QED BY <3>5, <4>1, AgreeTransfers
      <3>7. CleanupRecords'
        BY <3>1, <3>3, <3>5, <3>6 DEF RecordsInv, CleanupRecords
      <3> QED BY <1>3, <3>1, <3>4, <3>7 DEF RecordsInv, RoundSteps
    <2>2. CASE ~api.exists
      BY <1>1, <1>2, <1>10, <2>2, QuietRecords DEF PatchCleaned, EndRound
    <2> QED BY <2>1, <2>2
  <1>11. CASE DeleteCertificate
    <2>1. /\ pc' = "idle" /\ ac' = NoStatus /\ orig' = NoStatus
          /\ UNCHANGED <<api, status, capi, cstatus, cas, nextId, ghost>>
      BY <1>11 DEF DeleteCertificate, EndRound
    <2> QED BY <1>1, <1>2, <2>1, QuietRecords
  <1>12. CASE DeleteSecret
    <2>1. /\ pc = "deleteCert" /\ pc' = "finalize"
          /\ UNCHANGED <<api, status, capi, cstatus, cas, nextId, ghost, ac, orig>>
      BY <1>12 DEF DeleteSecret
    <2>2. IdsInv'
      BY <1>1, <2>1, IdsFrame DEF RecordsInv
    <2>3. CleanupRecords'
      BY <2>1 DEF RecordsInv, CleanupRecords
    <2> QED BY <1>3, <2>1, <2>2, <2>3 DEF RecordsInv, RoundSteps
  <1>13. CASE RemoveFinalizer
    <2>1. /\ pc = "finalize" /\ pc' = "idle" /\ ac' = NoStatus /\ orig' = NoStatus
          /\ UNCHANGED <<capi, cstatus, cas, nextId, ghost>>
          /\ (api' = Gone /\ status' = NoStatus) \/ UNCHANGED <<api, status>>
      BY <1>13 DEF RemoveFinalizer, EndRound
    <2>2. CASE api' = Gone /\ status' = NoStatus
      <3>1. Tidy => NoneHeld(cas, status)
        BY <2>1 DEF RecordsInv, CleanupRecords
      <3> QED BY <2>1, <2>2, <3>1, GoneRecords
    <2>3. CASE UNCHANGED <<api, status>>
      BY <1>1, <1>2, <2>1, <2>3, QuietRecords
    <2> QED BY <2>1, <2>2, <2>3
  <1> QED
    BY <1>4, <1>5, <1>6, <1>7, <1>8, <1>9, <1>10, <1>11, <1>12, <1>13 DEF Deletion
-----------------------------------------------------------------------------
(* Every certificate in CAS is on record, or its loss is known *)

\* With c in CAS, the status s and the history variable g account for all of it.
Accounted(c, s, g) ==
    \A f \in FP : c[f] # NoId =>
        Holds(c, s, f) \/ f \in g.superseded \cup g.erased \/ g.abandoned

\* OrphansAccounted, in terms of the records.
LEMMA OrphansAre == OrphansAccounted <=> Accounted(cas, status, ghost)
  BY DEF OrphansAccounted, Recorded, Accounted, Holds, HasId

\* Certificates may go, and a status may take the place of one that records no
\* more of those that stay.
LEMMA AccountedKept ==
  ASSUME NEW c, NEW d, Shrinks(c, d), NEW s, NEW t, NEW g, Accounted(c, s, g),
         \A f \in FP : d[f] # NoId /\ Holds(d, s, f) => Holds(d, t, f)
  PROVE  Accounted(d, t, g)
  BY DEF Accounted, Shrinks, Holds

\* The write-ahead record replaces another generation's, which is then known to
\* be lost; its own generation is on record again.
LEMMA WriteAheadAccounts ==
  ASSUME TypeOK, Accounted(cas, status, ghost), WriteAhead, UNCHANGED cas
  PROVE  Accounted(cas', status', ghost')
  <1>0. status \in Status /\ ghost \in Ghost
    BY DEF TypeOK
  <1>1. status'.cur = status.cur /\ status'.hist = status.hist /\ status'.pend = b
    BY <1>0, PendFields DEF WriteAhead
  <1>2. /\ ghost'.superseded = (ghost.superseded \cup Uncovered({status.pend})) \ {b}
        /\ ghost'.erased = ghost.erased \ {b}
        /\ ghost'.abandoned <=> ghost.abandoned
    BY <1>0 DEF WriteAhead, Ghost
  <1>3. ASSUME NEW f \in FP, cas[f] # NoId
        PROVE  Holds(cas, status', f) \/ f \in ghost'.superseded \cup ghost'.erased
               \/ ghost'.abandoned
    <2>1. CASE f = b
      BY <1>1, <2>1 DEF Holds
    <2>2. CASE f # b /\ status.pend = f
      BY <1>2, <1>3, <2>2 DEF Uncovered
    <2>3. CASE f # b /\ status.pend # f
      BY <1>1, <1>2, <1>3, <2>3 DEF Accounted, Holds
    <2> QED BY <2>1, <2>2, <2>3
  <1> QED BY <1>3 DEF Accounted

\* probeCAS drops the current certificate from the record: it is known to be lost.
LEMMA ProbeAccounts ==
  ASSUME TypeOK, RecordsInv, Accounted(cas, status, ghost), ProbeMissing
  PROVE  Accounted(cas', status', ghost')
  <1> USE DEF cloudVars
  <1>0. status \in Status /\ ac \in Status /\ orig \in Status /\ ghost \in Ghost
    BY DEF TypeOK
  <1> DEFINE x == [ac EXCEPT !.cur = NoGen, !.probed = TRUE]
  <1>1. x \in Status /\ x.cur.id = NoId /\ x.hist = ac.hist /\ x.pend = ac.pend
    <2>0. NoFP \in FP \cup {NoFP} /\ NoDom \in DomainOrNone
      BY DEF DomainOrNone
    <2>1. x \in Status
      BY <1>0, <2>0, SetPendType
    <2>2. x.cur = NoGen /\ x.hist = ac.hist /\ x.pend = ac.pend
      BY <1>0 DEF Status
    <2> QED BY <2>1, <2>2 DEF NoGen
  <1> HIDE DEF x
  <1>2. /\ status' = MergePatch(status, orig, x) /\ pc = "probe" /\ ac.cur.id # NoId
        /\ cas' = cas
        /\ ghost' = [ghost EXCEPT !.erased = @ \cup Uncovered({status.cur.fp})]
    BY DEF ProbeMissing, PatchAndReload, ProbeDue, x
  <1>3. SameRecords(ac, orig) /\ OwnIds(cas, nextId, status)
    BY <1>2 DEF RecordsInv, RoundRecords, IdsInv
  <1>4. status'.hist = status.hist /\ status'.pend = status.pend
    BY <1>0, <1>1, <1>2, <1>3, MergeFields DEF SameRecords
  <1>5. /\ ghost'.superseded = ghost.superseded
        /\ ghost'.erased = ghost.erased \cup Uncovered({status.cur.fp})
        /\ ghost'.abandoned <=> ghost.abandoned
    BY <1>0, <1>2 DEF Ghost
  <1>6. ASSUME NEW f \in FP, cas[f] # NoId
        PROVE  Holds(cas, status', f) \/ f \in ghost'.superseded \cup ghost'.erased
               \/ ghost'.abandoned
    <2>1. CASE status.cur.id = cas[f]
      <3>1. status.cur.fp = f
        BY <1>3, <1>6, <2>1 DEF OwnIds
      <3> QED BY <1>5, <1>6, <3>1 DEF Uncovered
    <2>2. CASE status.cur.id # cas[f]
      BY <1>4, <1>5, <1>6, <2>2 DEF Accounted, Holds
    <2> QED BY <2>1, <2>2
  <1> QED BY <1>2, <1>6 DEF Accounted

\* The patch that ends a round keeps every record, or loses what entered the
\* history after the round's copy was taken, which is then known to be lost.
LEMMA PatchAccounts ==
  ASSUME TypeOK, RecordsInv, Accounted(cas, status, ghost), PatchStatus
  PROVE  Accounted(cas', status', ghost')
  <1> USE DEF cloudVars
  <1>0. status \in Status /\ ac \in Status /\ orig \in Status /\ ghost \in Ghost
    BY DEF TypeOK
  <1>1. /\ status' = MergePatch(status, orig, ac) /\ pc = "patch" /\ cas' = cas
        /\ ghost' = [ghost EXCEPT !.erased = @ \cup Uncovered(Overwritten)]
    BY DEF PatchStatus
  <1>2. /\ ghost'.superseded = ghost.superseded
        /\ ghost'.erased = ghost.erased \cup Uncovered(Overwritten)
        /\ ghost'.abandoned <=> ghost.abandoned
    BY <1>0, <1>1 DEF Ghost
  <1>3. ASSUME NEW f \in FP, cas[f] # NoId, Holds(cas, status, f)
        PROVE  Holds(cas, status', f) \/ f \in Uncovered(Overwritten)
    <2>1. CASE FromFresh(cas, ac, orig, status)
      <3>1. status'.cur = ac.cur /\ status'.hist = ac.hist /\ status'.pend = ac.pend
        BY <1>0, <1>1, <2>1, MergeFields DEF FromFresh, SameRecords
      <3> QED BY <1>3, <2>1, <3>1 DEF FromFresh, Holds
    <2>2. CASE OnlyReclaimed(cas, ac, orig)
      <3>1. /\ status'.cur = status.cur /\ status'.pend = status.pend
            /\ status'.hist = IF ac.hist = orig.hist THEN status.hist ELSE ac.hist
        BY <1>0, <1>1, <2>2, MergeFields DEF OnlyReclaimed
      <3>2. CASE status.cur.id = cas[f] \/ status.pend = f \/ ac.hist = orig.hist
        BY <1>3, <3>1, <3>2 DEF Holds
      <3>3. CASE ac.hist # orig.hist /\ HasId(status.hist, cas[f])
        <4>1. PICK i \in 1 .. Len(status.hist) : status.hist[i].id = cas[f]
          BY <3>3 DEF HasId
        <4>2. status.hist[i].fp = f
          BY <1>3, <4>1 DEF RecordsInv, IdsInv, OwnIds, IdMeans
        <4>3. CASE \E j \in 1 .. Len(orig.hist) : orig.hist[j] = status.hist[i]
          <5>1. HasId(orig.hist, cas[f])
            BY <4>1, <4>3 DEF HasId
          <5>2. HasId(ac.hist, cas[f])
            BY <1>3, <2>2, <5>1 DEF OnlyReclaimed
          <5> QED BY <3>1, <3>3, <5>2 DEF Holds
        <4>4. CASE \A j \in 1 .. Len(orig.hist) : orig.hist[j] # status.hist[i]
          <5>1. f \in Overwritten
            BY <3>3, <4>2, <4>4 DEF Overwritten
          <5> QED BY <1>3, <5>1 DEF Uncovered
        <4> QED BY <4>3, <4>4
      <3> QED BY <1>3, <3>2, <3>3 DEF Holds
    <2> QED BY <1>1, <2>1, <2>2 DEF RecordsInv, RoundRecords
  <1> QED BY <1>1, <1>2, <1>3 DEF Accounted

\* A failed cleanup keeps the records of what is left, or gives up.
LEMMA CleanupAccounts ==
  ASSUME MaxRenames = 0, TypeOK, RecordsInv, Accounted(cas, status, ghost), CleanupFails
  PROVE  Accounted(cas', status', ghost')
  <1>0. /\ status \in Status /\ ac \in Status /\ orig \in Status /\ ghost \in Ghost
        /\ cas \in [FP -> Nat] /\ nextId \in Nat \ {0}
    BY DEF TypeOK
  <1>1. CASE ShouldAbandonCleanup
    <2>1. ghost'.abandoned
      BY <1>0, <1>1 DEF CleanupFails, Ghost
    <2> QED BY <2>1 DEF Accounted
  <1>2. CASE ~ShouldAbandonCleanup
    <2> DEFINE x == [ac EXCEPT !.conds.ready = FALSE]
               m == MergePatch(status, orig, x)
    <2>0. x \in Status /\ Same(x, ac)
      BY <1>0, SetCondType, CondsSame
    <2> HIDE DEF x
    <2>1. Shrinks(cas, cas')
      BY <1>0 DEF CleanupFails, CasWithout, Shrinks
    <2>2. pc = "cleanup" /\ ghost' = ghost /\ status' = IF api.exists THEN m ELSE status
      BY <1>2 DEF CleanupFails, x
    <2>3. /\ x.cur.fp = orig.cur.fp /\ x.cur.id \in {orig.cur.id, NoId}
          /\ x.cleanup <=> orig.cleanup
          /\ OwnIds(cas, nextId, status) /\ OwnIds(cas, nextId, x)
      BY <2>0, <2>2, OwnSame DEF RecordsInv, IdsInv, CleanupRecords, Same
    <2>4. Agree(cas, orig, status) /\ Agree(cas, x, status) => Agree(cas, m, status)
      BY <1>0, <2>0, <2>3, CleanupMerge
    <2> HIDE DEF m
    <2>5. CASE ghost.abandoned
      BY <2>2, <2>5 DEF Accounted
    <2>6. CASE ~ghost.abandoned
      <3>1. Agree(cas, orig, status) /\ Agree(cas, x, status)
        BY <2>0, <2>2, <2>6 DEF RecordsInv, CleanupRecords, Agree, Same
      <3>2. Agree(cas, status', status)
        BY <2>2, <2>4, <3>1 DEF Agree
      <3>3. \A f \in FP : cas'[f] # NoId /\ Holds(cas', status, f) => Holds(cas', status', f)
        BY <2>1, <3>2 DEF Agree, Holds, Shrinks
      <3> QED BY <2>1, <2>2, <3>3, AccountedKept
    <2> QED BY <2>5, <2>6
  <1> QED BY <1>1, <1>2

\* No step loses a record in any other way.
LEMMA OrphansStep ==
  ASSUME MaxRenames = 0, TypeOK, FinalizerHeld, RecordBeforeUpload, RecordsInv,
         OrphansAccounted, Next
  PROVE  OrphansAccounted'
  <1> USE DEF crVars, cacheVars, issuerVars, cloudVars, roundVars, envVars
  <1>0. /\ status \in Status /\ cstatus \in Status /\ ac \in Status /\ orig \in Status
        /\ ghost \in Ghost /\ cas \in [FP -> Nat] /\ nextId \in Nat \ {0} /\ api \in Meta
    BY DEF TypeOK
  <1>a. Accounted(cas, status, ghost) /\ Shrinks(cas, cas)
    BY OrphansAre DEF Shrinks
  <1>b. Accounted(cas', status', ghost') => OrphansAccounted'
    BY DEF OrphansAccounted, Recorded, Accounted, Holds, HasId
  \* Steps that leave the records alone.
  <1>c. ASSUME SameRecords(status', status), ghost' = ghost, Shrinks(cas, cas')
        PROVE  OrphansAccounted'
    <2>1. \A f \in FP : Holds(cas', status, f) => Holds(cas', status', f)
      BY <1>c DEF SameRecords, Holds
    <2> QED BY <1>a, <1>b, <1>c, <2>1, AccountedKept
  <1>d. ASSUME UNCHANGED <<status, ghost>>, Shrinks(cas, cas')
        PROVE  OrphansAccounted'
    BY <1>c, <1>d DEF SameRecords
  \* Steps that take the status away when nothing in it is in CAS.
  <1>e. ASSUME UNCHANGED <<cas, ghost>>, ~ghost.abandoned => NoneHeld(cas, status)
        PROVE  OrphansAccounted'
    <2>1. Accounted(cas', status', ghost')
      BY <1>a, <1>e DEF Accounted, NoneHeld
    <2> QED BY <1>b, <2>1
  <1>1. CASE Round
    <2>1. CASE AddFinalizer \/ BeginRoundNotIssued \/ BeginRoundIssued \/ ProbeSkipped
               \/ ProbeFound \/ EnsureShortCircuit \/ UploadClaim \/ UploadFails
               \/ ReclaimList \/ ReclaimStops
      <3>1. UNCHANGED <<status, ghost, cas>>
        BY <2>1, Zenon DEF AddFinalizer, BeginRoundNotIssued, BeginRoundIssued, ProbeSkipped,
             ProbeFound, EnsureShortCircuit, UploadClaim, UploadFails, ReclaimList, ReclaimStops
      <3> QED BY <1>a, <1>d, <3>1
    <2>2. CASE ProbeMissing
      BY <1>a, <1>b, <2>2, ProbeAccounts
    <2>3. CASE EnsureRefresh
      <3>1. cas' = cas /\ (UNCHANGED <<status, ghost>> \/ WriteAhead)
        BY <2>3, Zenon DEF EnsureRefresh
      <3> QED BY <1>a, <1>b, <1>d, <3>1, WriteAheadAccounts
    <2>4. CASE EnsureFails
      <3>1. cas' = cas /\ (UNCHANGED <<status, ghost>> \/ WriteAhead)
        BY <2>4, Zenon DEF EnsureFails
      <3> QED BY <1>a, <1>b, <1>d, <3>1, WriteAheadAccounts
    <2>5. CASE UploadNew
      <3>1. pc = "upload" /\ cas' = [cas EXCEPT ![b] = nextId] /\ UNCHANGED <<status, ghost>>
        BY <2>5 DEF UploadNew
      <3>2. status.pend = b
        BY <3>1 DEF RecordBeforeUpload
      <3>3. \A f \in FP : f # b => cas'[f] = cas[f]
        BY <1>0, <3>1
      <3>4. Accounted(cas', status', ghost')
        BY <1>a, <3>1, <3>2, <3>3 DEF Accounted, Holds
      <3> QED BY <1>b, <3>4
    <2>6. CASE ReclaimOldest \/ ReclaimFails
      <3>1. UNCHANGED <<status, ghost>> /\ (cas' = cas \/ cas' = CasWithout(Oldest(ac).id))
        BY <2>6, Zenon DEF ReclaimOldest, ReclaimFails
      <3>2. Shrinks(cas, cas')
        BY <1>0, <3>1 DEF CasWithout, Shrinks
      <3> QED BY <1>d, <3>1, <3>2
    <2>7. CASE PatchStatus
      BY <1>a, <1>b, <2>7, PatchAccounts
    <2> QED BY <1>1, <2>1, <2>2, <2>3, <2>4, <2>5, <2>6, <2>7 DEF Round
  <1>2. CASE Deletion
    <2>1. CASE DeleteBlocked
      <3> DEFINE x == [cstatus EXCEPT !.conds.ready = FALSE]
      <3>1. x \in Status /\ Same(x, cstatus)
        BY <1>0, SetCondType, CondsSame
      <3> HIDE DEF x
      <3>2. status' = MergePatch(status, cstatus, x) /\ UNCHANGED <<cas, ghost>>
        BY <2>1 DEF DeleteBlocked, x
      <3>3. SameRecords(status', status)
        BY <1>0, <3>1, <3>2, MergeFields DEF Same, SameRecords
      <3> QED BY <1>a, <1>c, <3>2, <3>3
    <2>2. CASE DeleteStarts
      <3> DEFINE x == [cstatus EXCEPT !.cleanup = TRUE]
      <3>1. x \in Status /\ x.cur = cstatus.cur /\ x.hist = cstatus.hist /\ x.pend = cstatus.pend
        BY <1>0 DEF Status
      <3> HIDE DEF x
      <3>2. status' = MergePatch(status, cstatus, x) /\ UNCHANGED <<cas, ghost>>
        BY <2>2 DEF DeleteStarts, x
      <3>3. SameRecords(status', status)
        BY <1>0, <3>1, <3>2, MergeFields DEF SameRecords
      <3> QED BY <1>a, <1>c, <3>2, <3>3
    <2>3. CASE DeleteResumes \/ CleanupDone \/ DeleteCertificate \/ DeleteSecret
      <3>1. UNCHANGED <<status, ghost, cas>>
        BY <2>3, Zenon DEF DeleteResumes, CleanupDone, DeleteCertificate, DeleteSecret
      <3> QED BY <1>a, <1>d, <3>1
    <2>4. CASE CleanupDelete
      <3>1. UNCHANGED <<status, ghost>> /\ cas' = CasWithout(NextToDelete(ac))
        BY <2>4 DEF CleanupDelete
      <3>2. Shrinks(cas, cas')
        BY <1>0, <3>1 DEF CasWithout, Shrinks
      <3> QED BY <1>d, <3>1, <3>2
    <2>5. CASE CleanupFails
      BY <1>a, <1>b, <2>5, CleanupAccounts
    <2>6. CASE PatchCleaned
      <3>1. pc = "cleaned" /\ UNCHANGED <<cas, ghost>>
        BY <2>6 DEF PatchCleaned
      <3>2. ~ghost.abandoned => NoneHeld(cas, status)
        <4>1. ~ghost.abandoned => NothingLeft(ac) /\ Agree(cas, ac, status)
          BY <3>1 DEF RecordsInv, CleanupRecords
        <4>2. Agree(cas, status, status)
          BY DEF Agree
        <4> QED BY <4>1, <4>2, NothingHeld, AgreeTransfers
      <3> QED BY <1>e, <3>1, <3>2
    <2>7. CASE RemoveFinalizer
      <3>1. pc = "finalize" /\ UNCHANGED <<cas, ghost>>
        BY <2>7 DEF RemoveFinalizer
      <3>2. ~ghost.abandoned => NoneHeld(cas, status)
        BY <3>1 DEF RecordsInv, CleanupRecords
      <3> QED BY <1>e, <3>1, <3>2
    <2> QED BY <1>2, <2>1, <2>2, <2>3, <2>4, <2>5, <2>6, <2>7 DEF Deletion
  <1>3. CASE Environment
    <2>1. CASE Crash \/ RoundAborts \/ CacheSync \/ CertCacheSync \/ Issue \/ RollbackSecret
               \/ ToggleUpload \/ RenameDomain \/ CollectCertificate \/ GracePeriodPasses
               \/ Stabilise
      <3>1. UNCHANGED <<status, ghost, cas>>
        BY <2>1, Zenon DEF Crash, RoundAborts, CacheSync, CertCacheSync, Issue, RollbackSecret,
             ToggleUpload, RenameDomain, CollectCertificate, GracePeriodPasses, Stabilise
      <3> QED BY <1>a, <1>d, <3>1
    <2>2. CASE HandDelete
      <3>1. UNCHANGED <<status, ghost>> /\ Shrinks(cas, cas')
        BY <1>0, <2>2 DEF HandDelete, Shrinks
      <3> QED BY <1>d, <3>1
    <2>3. CASE DeleteCR
      <3>1. UNCHANGED <<cas, ghost>> /\ api.exists /\ (api.fin => status' = status)
        BY <2>3 DEF DeleteCR
      <3>2. CASE api.fin
        BY <1>a, <1>d, <3>1, <3>2
      <3>3. CASE ~api.fin
        <4>1. \A f \in FP : cas[f] = NoId
          BY <3>1, <3>3 DEF RecordsInv, CleanupRecords
        <4> QED BY <1>e, <3>1, <4>1 DEF NoneHeld
      <3> QED BY <3>2, <3>3
    <2>4. CASE BindingStep
      <3>1. UNCHANGED <<status, ghost, cas>>
        BY <2>4 DEF BindingStep, EditBinding, BindingApplies, BindingObserves,
                    DeleteBinding, BindingGone, SetBinding
      <3> QED BY <1>a, <1>d, <3>1
    <2>5. CASE ProbeIntervalPasses
      <3>1. \A s \in Status : SameRecords([s EXCEPT !.probed = FALSE], s)
        BY DEF Status, SameRecords
      <3>2. SameRecords(status', status) /\ UNCHANGED <<cas, ghost>>
        BY <1>0, <2>5, <3>1 DEF ProbeIntervalPasses
      <3> QED BY <1>a, <1>c, <3>2
    <2> QED BY <1>3, <2>1, <2>2, <2>3, <2>4, <2>5 DEF Environment
  <1> QED BY <1>1, <1>2, <1>3 DEF Next

\* The records hold in every reachable state.
LEMMA RecordsHold == Spec => [](RecordBeforeUpload /\ RecordsInv)
  <1>1. Init => RecordBeforeUpload /\ RecordsInv
    <2> SUFFICES ASSUME Init PROVE RecordBeforeUpload /\ RecordsInv
      OBVIOUS
    <2>0. /\ status = NoStatus /\ cstatus = NoStatus /\ ac = NoStatus /\ orig = NoStatus
          /\ cas = [f \in FP |-> NoId] /\ nextId = 1 /\ pc = "idle"
      BY DEF Init
    <2>1. OwnIds(cas, nextId, NoStatus)
      BY <2>0, OwnNone
    <2>2. IdsInv
      BY <2>0, <2>1 DEF IdsInv
    <2>3. ~NoStatus.cleanup
      BY DEF NoStatus
    <2>4. RoundRecords /\ CleanupRecords
      BY <2>0, <2>3 DEF RoundRecords, CleanupRecords, RoundSteps
    <2> QED BY <2>0, <2>2, <2>4 DEF RecordsInv, RecordBeforeUpload
  <1>2. TypeOK /\ FinalizerHeld /\ (MaxRenames = 0 => OneName) /\ RecordBeforeUpload
        /\ RecordsInv /\ [Next]_vars => RecordsInv'
    <2> SUFFICES ASSUME TypeOK, FinalizerHeld, MaxRenames = 0 => OneName, RecordBeforeUpload,
                        RecordsInv, [Next]_vars
                 PROVE  RecordsInv'
      OBVIOUS
    <2>0. TypeOK'
      BY TypeStep
    <2>1. CASE UNCHANGED vars
      BY <2>1 DEF vars, crVars, cacheVars, cloudVars, roundVars, RecordsInv, IdsInv,
                  RoundRecords, CleanupRecords, NothingLeft, HistoryIsClean, HistoryClean
    <2> QED BY <2>0, <2>1, RoundKeepsRecords, DeletionKeepsRecords, EnvironmentRecords DEF Next
  <1>3. TypeOK /\ FinalizerHeld /\ RecordBeforeUpload /\ [Next]_vars => RecordBeforeUpload'
    BY RecordInductive
  <1>4. Spec => [](MaxRenames = 0 => OneName)
    <2>1. CASE MaxRenames = 0
      <3>1. OneName => (MaxRenames = 0 => OneName)
        OBVIOUS
      <3>2. Spec => []OneName
        BY <2>1, NamesHold
      <3> QED BY <3>1, <3>2, PTL
    <2>2. CASE MaxRenames # 0
      <3>1. MaxRenames = 0 => OneName
        BY <2>2
      <3> QED BY <3>1, PTL
    <2> QED BY <2>1, <2>2
  <1> QED BY <1>1, <1>2, <1>3, <1>4, TypeCorrect, FinalizerGuards, PTL DEF Spec

\* OrphansAccounted for every number of generations, every policy, every keepLast
\* and any mix of crashes, lost answers, stale caches, rollbacks and deletions by
\* hand, as long as the first DNS name of the spec is not edited: upload.go,
\* probe.go, retention.go and deletion.go lose the record of a certificate in CAS
\* in the four known ways only.
THEOREM EveryOrphanAccounted ==
  ASSUME MaxRenames = 0
  PROVE  Spec => []OrphansAccounted
  <1>1. Init => OrphansAccounted
    BY DEF Init, OrphansAccounted
  <1>2. TypeOK /\ FinalizerHeld /\ RecordBeforeUpload /\ RecordsInv /\ OrphansAccounted
        /\ [Next]_vars => OrphansAccounted'
    <2>1. CASE UNCHANGED vars
      BY <2>1 DEF vars, crVars, cloudVars, OrphansAccounted, Recorded
    <2> QED BY <2>1, OrphansStep
  <1> QED BY <1>1, <1>2, TypeCorrect, FinalizerGuards, RecordsHold, PTL DEF Spec
=============================================================================
