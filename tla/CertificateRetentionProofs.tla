--------------------- MODULE CertificateRetentionProofs ---------------------
(***************************************************************************)
(* What retention may delete, and that the certId published as current is  *)
(* in CAS: the theorems for ReclaimSparesCurrent, ReclaimSparesBound and   *)
(* CurrentIdValid.                                                         *)
(***************************************************************************)
EXTENDS CertificateControllerProofs

USE DEF FP, NoFP, NoId
-----------------------------------------------------------------------------
(* The age of the generations in a status *)

\* Every generation of the history is older than n.
Below(h, n) == \A i \in 1 .. Len(h) : h[i].fp < n

\* Newest first.
Falling(h) == \A i, j \in 1 .. Len(h) : i < j => h[j].fp < h[i].fp

\* Nothing in the status is newer than n, and n itself can only be current.
Old(s, n) == s.cur.fp <= n /\ Below(s.hist, n)

\* The current generation is newer than the history, which is newest first.
Ordered(s) == Falling(s.hist) /\ (s.cur.fp # NoFP => Below(s.hist, s.cur.fp))

\* The newest generation there can be in a status: the bundle's in a round that
\* has read one, the newest issued otherwise.
Newest == IF b # NoFP THEN b ELSE lastGen

\* A round makes the newest generation current, and everything else on record is
\* older; true as long as nobody restores an older Secret.
NewestIsCurrent ==
    /\ secret \in {NoFP, lastGen}
    /\ pc = "idle" => b = NoFP
    /\ Old(status, Newest) /\ Old(cstatus, Newest) /\ Old(ac, Newest) /\ Old(orig, Newest)
    /\ pc = "upload" => ac.cur.fp # b
    /\ pc \in {"reclaim", "reclaimLoop"} => ac.cur.fp = b

\* The newest generation is current, as long as no older Secret is restored.
OrderInv == budget.rollbacks = 0 => NewestIsCurrent

\* A generation a binding has applied is one that liveBindingsFor saw, or it is
\* not older than the bundle of the round that reclaims.
AppliedWasSeen ==
    /\ \A x \in Binding : binding[x].phase = "none" => binding[x].applied = NoFP
    /\ pc = "reclaimLoop" =>
           \A x \in Binding : \/ binding[x].applied \in seen.applied \cup {NoFP}
                              \/ binding[x].applied >= b

\* The certId of the record, if it has one, is in CAS c under its generation.
InCAS(c, g) == g.id # NoId => g.fp # NoFP /\ c[g.fp] = g.id

\* What a round may have made of the current generation: it kept what it read;
\* or it went through reclaim with a current generation that is the server's
\* too, unless a probe has cleared that one; or it has advanced from the
\* server's current generation, which now heads the history.
Unmoved == ac.cur = orig.cur /\ ac.hist = orig.hist
Kept == ac.cur = orig.cur /\ status.cur.fp \in {NoFP, b}
Advanced ==
    /\ SameRecords(orig, status)
    /\ ac.cur.fp = b /\ InCAS(cas, ac.cur)
    /\ status.cur.fp # NoFP => ac.hist # <<>> /\ ac.hist[1] = status.cur

\* Until the CR is deleted, the status is in order, its current certId is in
\* CAS, and no round is about to change that.
StatusInOrder ==
    /\ pc \notin DeleteSteps
    /\ InCAS(cas, status.cur)
    /\ Ordered(status) /\ Ordered(cstatus) /\ Ordered(ac)
    /\ cstatus.cur.fp = Newest => status.cur.fp \in {NoFP, Newest}
    /\ pc \in {"probe", "ensure"} => (ac.cur.fp = b => status.cur.fp \in {NoFP, b})
    /\ pc \in {"reclaim", "reclaimLoop"} => Kept \/ Advanced
    /\ pc = "patch" => Unmoved \/ Kept \/ Advanced

\* The inductive invariant for CurrentIdValid.
ValidInv == budget.rollbacks = 0 /\ api.exists /\ ~api.deleting => StatusInOrder
-----------------------------------------------------------------------------
(* The operators on the status keep the order *)

\* The newest generation is a number.
LEMMA NewestType == TypeOK => Newest \in Nat /\ b \in Nat /\ lastGen \in Nat /\ b <= lastGen
                              /\ Newest <= lastGen
  BY MaxGenAssumption DEF TypeOK, Newest

\* The generations of a status are numbers.
LEMMA FpType ==
  ASSUME NEW s \in Status
  PROVE  /\ s.cur \in Gen /\ s.hist \in Seq(Gen) /\ s.cur.fp \in Nat
         /\ \A i \in 1 .. Len(s.hist) : s.hist[i] \in Gen /\ s.hist[i].fp \in Nat
  <1>1. s.cur \in Gen /\ s.hist \in Seq(Gen)
    BY DEF Status
  <1>2. \A i \in 1 .. Len(s.hist) : s.hist[i] \in Gen
    BY <1>1
  <1>3. \A g \in Gen : g.fp \in Nat
    BY MaxGenAssumption DEF Gen
  <1> QED BY <1>1, <1>2, <1>3

\* A status as old as n is as old as anything newer.
LEMMA OldMore ==
  ASSUME NEW s \in Status, NEW n \in Nat, NEW m \in Nat, n <= m, Old(s, n)
  PROVE  Old(s, m)
  BY FpType DEF Old, Below

\* The empty status has no generation.
LEMMA OldNone == \A n \in Nat : Old(NoStatus, n) /\ Ordered(NoStatus)
  BY DEF Old, Ordered, Below, Falling, NoStatus, NoGen

\* A history with a newer generation in front.
LEMMA ConsOrder ==
  ASSUME NEW h \in Seq(Gen), NEW g \in Gen, NEW n, Below(h, g.fp), Falling(h)
  PROVE  /\ Falling(<<g>> \o h)
         /\ <<g>> \o h # <<>> /\ (<<g>> \o h)[1] = g
         /\ Below(h, n) /\ g.fp < n => Below(<<g>> \o h, n)
  <1> DEFINE k == <<g>> \o h
  <1>1. Len(k) = 1 + Len(h) /\ Len(h) \in Nat
    OBVIOUS
  <1>2. k[1] = g /\ \A i \in 1 .. Len(h) : k[i + 1] = h[i]
    OBVIOUS
  <1>3. \A i \in 1 .. Len(k) : i = 1 \/ (i - 1 \in 1 .. Len(h) /\ k[i] = h[i - 1])
    <2>1. ASSUME NEW i \in 1 .. Len(k), i # 1
          PROVE  i - 1 \in 1 .. Len(h) /\ k[i] = h[i - 1]
      <3>1. i - 1 \in 1 .. Len(h) /\ i = (i - 1) + 1
        BY <1>1, <2>1
      <3> QED BY <1>2, <3>1
    <2> QED BY <2>1
  <1>4. k # <<>>
    BY <1>1
  <1> HIDE DEF k
  <1>5. Falling(k)
    <2> SUFFICES ASSUME NEW i \in 1 .. Len(k), NEW j \in 1 .. Len(k), i < j
                 PROVE  k[j].fp < k[i].fp
      BY DEF Falling
    <2>1. j - 1 \in 1 .. Len(h) /\ k[j] = h[j - 1]
      BY <1>1, <1>3
    <2>2. CASE i = 1
      BY <1>2, <2>1, <2>2 DEF Below
    <2>3. CASE i # 1
      <3>1. i - 1 \in 1 .. Len(h) /\ k[i] = h[i - 1] /\ i - 1 < j - 1
        BY <1>1, <1>3, <2>3
      <3> QED BY <2>1, <3>1 DEF Falling
    <2> QED BY <2>2, <2>3
  <1>6. Below(h, n) /\ g.fp < n => Below(k, n)
    BY <1>2, <1>3 DEF Below
  <1> QED BY <1>2, <1>4, <1>5, <1>6 DEF k

\* The same of its age alone.
LEMMA ConsOld ==
  ASSUME NEW h \in Seq(Gen), NEW g \in Gen, NEW n, Below(h, n), g.fp < n
  PROVE  Below(<<g>> \o h, n)
  <1> DEFINE k == <<g>> \o h
  <1>1. Len(k) = 1 + Len(h) /\ Len(h) \in Nat
    OBVIOUS
  <1>2. k[1] = g /\ \A i \in 1 .. Len(h) : k[i + 1] = h[i]
    OBVIOUS
  <1> HIDE DEF k
  <1>3. ASSUME NEW i \in 1 .. Len(k), i # 1
        PROVE  k[i].fp < n
    <2>1. i - 1 \in 1 .. Len(h) /\ i = (i - 1) + 1
      BY <1>1, <1>3
    <2> QED BY <1>2, <2>1 DEF Below
  <1> QED BY <1>2, <1>3 DEF Below, k

\* A history without its oldest generation is a prefix of it.
LEMMA FrontOrder ==
  ASSUME NEW h \in Seq(Gen), h # <<>>, NEW n
  PROVE  LET k == SubSeq(h, 1, Len(h) - 1)
         IN  /\ Below(h, n) => Below(k, n)
             /\ Falling(h) => Falling(k)
             /\ Len(h) > 1 => k # <<>> /\ k[1] = h[1]
  <1> DEFINE k == SubSeq(h, 1, Len(h) - 1)
             m == Len(h) - 1
  <1>1. Len(h) \in Nat /\ m \in Nat /\ m = Len(h) - 1 /\ \A i \in 1 .. m : h[i] \in Gen
    <2>1. Len(h) \in Nat /\ Len(h) # 0
      OBVIOUS
    <2> QED BY <2>1
  <1> HIDE DEF m
  <1>2. /\ Len(SubSeq(h, 1, m)) = IF 1 <= m THEN m - 1 + 1 ELSE 0
        /\ \A i \in 1 .. m - 1 + 1 : SubSeq(h, 1, m)[i] = h[1 + i - 1]
    BY <1>1, SubSeqProperties
  <1>3. Len(SubSeq(h, 1, m)) = m
    BY <1>1, <1>2
  <1>4. ASSUME NEW i \in 1 .. m PROVE SubSeq(h, 1, m)[i] = h[i]
    <2>1. 1 + i - 1 = i /\ i \in 1 .. m - 1 + 1
      BY <1>1
    <2> QED BY <1>2, <2>1
  <1>5. k = SubSeq(h, 1, m)
    BY <1>1
  <1> HIDE DEF k
  <1>6. Len(k) = m /\ \A i \in 1 .. Len(k) : i \in 1 .. Len(h) /\ k[i] = h[i]
    BY <1>1, <1>3, <1>4, <1>5
  <1>7. Below(h, n) => Below(k, n)
    BY <1>6 DEF Below
  <1>8. Falling(h) => Falling(k)
    BY <1>6 DEF Falling
  <1>9. Len(h) > 1 => k # <<>> /\ k[1] = h[1]
    <2>1. ASSUME Len(h) > 1 PROVE 1 \in 1 .. Len(k) /\ Len(k) # 0
      BY <1>1, <1>6, <2>1
    <2> QED BY <1>6, <2>1
  <1> QED BY <1>7, <1>8, <1>9 DEF k

\* A merge patch is no newer than what it merges.
LEMMA OldMerge ==
  ASSUME NEW s \in Status, NEW o \in Status, NEW a \in Status, NEW n, Old(s, n), Old(a, n)
  PROVE  Old(MergePatch(s, o, a), n)
  BY DEF Old, MergePatch, Merged

\* A status with a new current generation.
LEMMA OldAdvance ==
  ASSUME NEW s \in Status, NEW t, NEW n \in Nat, Old(s, n), s.cur.fp # n, t.cur.fp = n,
         t.hist = IF s.cur.fp # NoFP THEN <<s.cur>> \o s.hist ELSE s.hist
  PROVE  Old(t, n) /\ (Ordered(s) => Ordered(t))
                   /\ (Ordered(s) /\ s.cur.fp # NoFP => t.hist # <<>> /\ t.hist[1] = s.cur)
  <1>1. s.cur \in Gen /\ s.hist \in Seq(Gen) /\ s.cur.fp \in Nat /\ s.cur.fp < n
    BY FpType DEF Old
  <1>2. Old(t, n)
    BY <1>1, ConsOld DEF Old
  <1>3. ASSUME Ordered(s) PROVE Ordered(t)
    <2>1. CASE s.cur.fp # NoFP
      <3>1. Falling(<<s.cur>> \o s.hist)
        BY <1>1, <1>3, <2>1, ConsOrder DEF Ordered
      <3> QED BY <1>2, <2>1, <3>1 DEF Ordered, Old
    <2>2. CASE s.cur.fp = NoFP
      BY <1>2, <1>3, <2>2 DEF Ordered, Old
    <2> QED BY <2>1, <2>2
  <1>4. ASSUME Ordered(s), s.cur.fp # NoFP PROVE t.hist # <<>> /\ t.hist[1] = s.cur
    BY <1>1, <1>4, ConsOrder DEF Ordered
  <1> QED BY <1>2, <1>3, <1>4

\* A status without its oldest generation.
LEMMA OldDrop ==
  ASSUME NEW s \in Status, s.hist # <<>>, NEW n
  PROVE  /\ Old(s, n) => Old(DropOldest(s), n)
         /\ Ordered(s) => Ordered(DropOldest(s))
         /\ Len(s.hist) > 1 => DropOldest(s).hist # <<>> /\ DropOldest(s).hist[1] = s.hist[1]
  <1>1. s.hist \in Seq(Gen)
    BY DEF Status
  <1>2. DropOldest(s).hist = SubSeq(s.hist, 1, Len(s.hist) - 1) /\ DropOldest(s).cur = s.cur
    BY DropFields
  <1>3. \A m : Below(s.hist, m) => Below(DropOldest(s).hist, m)
    BY <1>1, <1>2, FrontOrder
  <1>4. Falling(s.hist) => Falling(DropOldest(s).hist)
    BY <1>1, <1>2, FrontOrder
  <1>5. Len(s.hist) > 1 => DropOldest(s).hist # <<>> /\ DropOldest(s).hist[1] = s.hist[1]
    BY <1>1, <1>2, FrontOrder
  <1> QED BY <1>2, <1>3, <1>4, <1>5 DEF Old, Ordered

\* A status one certificate further in the cleanup holds the same generations.
LEMMA OldDeleted ==
  ASSUME NEW s \in Status, NEW n, Old(s, n)
  PROVE  Old(DeletedNext(s), n)
  <1>1. s.hist \in Seq(Gen)
    BY DEF Status
  <1>2. CASE DeletedNext(s).hist = [s.hist EXCEPT ![FirstLeft(s)].id = NoId]
             /\ DeletedNext(s).cur = s.cur
    <2>1. Cleared(s.hist, DeletedNext(s).hist, FirstLeft(s))
      BY <1>1, <1>2, ClearedBy
    <2> QED BY <1>2, <2>1 DEF Old, Below, Cleared
  <1>3. CASE DeletedNext(s).hist = s.hist
             /\ (DeletedNext(s).cur = s.cur \/ DeletedNext(s).cur = [fp |-> s.cur.fp, id |-> NoId])
    BY <1>3 DEF Old
  <1> QED BY <1>2, <1>3, DeletedFields
-----------------------------------------------------------------------------
(* The newest generation is current *)

\* Rollbacks of the Secret are counted, and nothing else counts as one.
LEMMA RollbacksCounted ==
  ASSUME TypeOK, [Next]_vars
  PROVE  \/ budget'.rollbacks = budget.rollbacks
         \/ RollbackSecret /\ budget'.rollbacks = budget.rollbacks + 1
                           /\ budget.rollbacks < MaxRollbacks
  <1>0. budget \in [rollbacks : Nat, handDeletes : Nat, toggles : Nat, renames : Nat]
    BY DEF TypeOK
  <1> USE DEF envVars
  <1>1. CASE UNCHANGED vars
    BY <1>1 DEF vars
  <1>2. CASE Round
    BY <1>2, Zenon DEF Round, AddFinalizer, BeginRoundNotIssued, BeginRoundIssued,
            ProbeSkipped, ProbeFound, ProbeMissing, EnsureShortCircuit, EnsureRefresh,
            EnsureFails, UploadNew, UploadClaim, UploadFails, ReclaimList, ReclaimOldest,
            ReclaimFails, ReclaimStops, PatchStatus
  <1>3. CASE Deletion
    BY <1>3, Zenon DEF Deletion, DeleteBlocked, DeleteStarts, DeleteResumes, CleanupDelete,
            CleanupFails, CleanupDone, PatchCleaned, DeleteCertificate, DeleteSecret,
            RemoveFinalizer
  <1>4. CASE Environment
    <2>1. CASE RollbackSecret
      BY <1>0, <2>1 DEF RollbackSecret
    <2>2. CASE HandDelete \/ ToggleUpload \/ RenameDomain
      BY <1>0, <2>2 DEF HandDelete, ToggleUpload, RenameDomain
    <2>3. CASE BindingStep
      BY <2>3 DEF BindingStep, EditBinding, BindingApplies, BindingObserves,
                  DeleteBinding, BindingGone, SetBinding
    <2>4. CASE Crash \/ RoundAborts \/ CacheSync \/ CertCacheSync \/ Issue \/ DeleteCR
               \/ CollectCertificate \/ ProbeIntervalPasses \/ GracePeriodPasses \/ Stabilise
      BY <2>4, Zenon DEF Crash, RoundAborts, CacheSync, CertCacheSync, Issue, DeleteCR,
            CollectCertificate, ProbeIntervalPasses, GracePeriodPasses, Stabilise
    <2> QED BY <1>4, <2>1, <2>2, <2>3, <2>4 DEF Environment
  <1> QED BY <1>1, <1>2, <1>3, <1>4 DEF Next

\* The round goes on with the bundle it has.
LEMMA OrderGoesOn ==
  ASSUME NewestIsCurrent, UNCHANGED <<b, lastGen>>, secret' \in {secret, NoFP},
         pc' = "idle" => pc = "idle",
         Old(status', Newest), Old(cstatus', Newest), Old(ac', Newest), Old(orig', Newest),
         pc' = "upload" => ac'.cur.fp # b,
         pc' \in {"reclaim", "reclaimLoop"} => ac'.cur.fp = b
  PROVE  NewestIsCurrent'
  <1>1. Newest' = Newest
    BY DEF Newest
  <1> QED BY <1>1 DEF NewestIsCurrent

\* The round ends.
LEMMA OrderEnds ==
  ASSUME TypeOK, TypeOK', NewestIsCurrent, EndRound, UNCHANGED <<lastGen, secret>>,
         Old(status', Newest), Old(cstatus', Newest)
  PROVE  NewestIsCurrent'
  <1>1. Newest' = lastGen /\ Newest \in Nat /\ lastGen \in Nat /\ Newest <= lastGen
    BY NewestType DEF Newest, EndRound
  <1>2. status' \in Status /\ cstatus' \in Status
    BY DEF TypeOK
  <1>3. Old(status', lastGen) /\ Old(cstatus', lastGen)
    BY <1>1, <1>2, OldMore
  <1>4. Old(NoStatus, lastGen)
    BY <1>1, OldNone
  <1> QED BY <1>1, <1>3, <1>4 DEF NewestIsCurrent, EndRound

\* Statuses with the same generations have the same age.
LEMMA OldSame ==
  ASSUME NEW s, NEW t, t.cur = s.cur, t.hist = s.hist
  PROVE  \A n : (Old(s, n) => Old(t, n)) /\ (Ordered(s) => Ordered(t))
  BY DEF Old, Ordered

\* What ensureUploaded makes of the working copy after the live read.
LEMMA RefreshFields ==
  ASSUME TypeOK, EnsureRefresh
  PROVE  /\ ac.cur.fp # b
         /\ orig'.cur = status.cur /\ orig'.hist = status.hist
         /\ status'.cur = status.cur /\ status'.hist = status.hist
         /\ SameRecords(orig', status')
         /\ \/ pc' = "reclaim" /\ status.cur.fp = b
               /\ ac'.cur = status.cur /\ ac'.hist = status.hist
            \/ /\ pc' = "reclaim" /\ status.cur.fp # b
               /\ ac'.cur = [fp |-> b, id |-> NoId]
               /\ ac'.hist = IF status.cur.fp # NoFP THEN <<status.cur>> \o status.hist
                                                     ELSE status.hist
            \/ pc' = "upload" /\ status.cur.fp # b
               /\ ac'.cur = status.cur /\ ac'.hist = status.hist
  <1> DEFINE a == AdoptUploadState(ac, status)
             o == AdoptUploadState(orig, status)
  <1>0. /\ status \in Status /\ ac \in Status /\ orig \in Status /\ acSpec.upload \in BOOLEAN
        /\ b \in FP \cup {NoFP} /\ NoId \in Nat
    BY MaxGenAssumption DEF TypeOK, SpecFields
  <1>1. /\ a.cur = status.cur /\ a.hist = status.hist /\ a.pend = status.pend
        /\ o.cur = status.cur /\ o.hist = status.hist /\ o.pend = status.pend
    BY <1>0, AdoptFields
  <1>2. a \in Status /\ o \in Status
    BY <1>0, AdoptType
  <1>3. Advance(a, b, NoId) \in Status
    BY <1>0, <1>2, AdvanceType
  <1>4. /\ Advance(a, b, NoId).cur = [fp |-> b, id |-> NoId]
        /\ Advance(a, b, NoId).hist = IF a.cur.fp # NoFP THEN <<a.cur>> \o a.hist ELSE a.hist
    BY <1>2, AdvanceFields
  <1>5. /\ Same(SetUploadedCondition(a, acSpec.upload), a)
        /\ Same(SetUploadedCondition(Advance(a, b, NoId), acSpec.upload), Advance(a, b, NoId))
    BY <1>0, <1>2, <1>3, AggregateSame
  <1>6. LET s == [status EXCEPT !.pend = b, !.hint = acSpec.dom]
            x == [a EXCEPT !.pend = b, !.hint = acSpec.dom]
            y == [o EXCEPT !.pend = b, !.hint = acSpec.dom]
        IN  /\ s.cur = status.cur /\ s.hist = status.hist /\ s.pend = b
            /\ x.cur = a.cur /\ x.hist = a.hist
            /\ y.cur = o.cur /\ y.hist = o.hist /\ y.pend = b
    BY <1>0, <1>2, PendFields
  <1>7. /\ ac.cur.fp # b
        /\ \/ /\ a.cur.fp = b /\ ac' = SetUploadedCondition(a, acSpec.upload)
              /\ orig' = o /\ pc' = "reclaim" /\ status' = status
           \/ /\ a.cur.fp # b
              /\ ac' = SetUploadedCondition(Advance(a, b, NoId), acSpec.upload)
              /\ orig' = o /\ pc' = "reclaim" /\ status' = status
           \/ /\ a.cur.fp # b
              /\ ac' = a /\ orig' = o /\ pc' = "upload" /\ status' = status
           \/ /\ a.cur.fp # b
              /\ status' = [status EXCEPT !.pend = b, !.hint = acSpec.dom]
              /\ ac' = [a EXCEPT !.pend = b, !.hint = acSpec.dom]
              /\ orig' = [o EXCEPT !.pend = b, !.hint = acSpec.dom]
              /\ pc' = "upload"
    BY DEF EnsureRefresh, RefreshedIsCurrent, WriteAhead
  <1> DEFINE v == Advance(a, b, NoId)
  <1> HIDE DEF a, o, v
  <1>8. CASE a.cur.fp = b /\ ac' = SetUploadedCondition(a, acSpec.upload)
             /\ orig' = o /\ pc' = "reclaim" /\ status' = status
    BY <1>1, <1>5, <1>7, <1>8 DEF Same, SameRecords
  <1>9. CASE a.cur.fp # b /\ ac' = SetUploadedCondition(v, acSpec.upload)
             /\ orig' = o /\ pc' = "reclaim" /\ status' = status
    <2>1. ac'.cur = v.cur /\ ac'.hist = v.hist
      BY <1>5, <1>9 DEF Same, v
    <2>2. v.cur = [fp |-> b, id |-> NoId]
      BY <1>4 DEF v
    <2>3. v.hist = IF status.cur.fp # NoFP THEN <<status.cur>> \o status.hist ELSE status.hist
      BY <1>1, <1>4 DEF v
    <2> QED BY <1>1, <1>7, <1>9, <2>1, <2>2, <2>3 DEF SameRecords
  <1>10. CASE a.cur.fp # b /\ ac' = a /\ orig' = o /\ pc' = "upload" /\ status' = status
    BY <1>1, <1>7, <1>10 DEF SameRecords
  <1>11. CASE /\ a.cur.fp # b
              /\ status' = [status EXCEPT !.pend = b, !.hint = acSpec.dom]
              /\ ac' = [a EXCEPT !.pend = b, !.hint = acSpec.dom]
              /\ orig' = [o EXCEPT !.pend = b, !.hint = acSpec.dom]
              /\ pc' = "upload"
    BY <1>1, <1>6, <1>7, <1>11 DEF SameRecords
  <1> QED BY <1>7, <1>8, <1>9, <1>10, <1>11 DEF v

\* handleCloudError keeps the records of the working copy, and so does the end of
\* a round.
LEMMA CloudErrorSame ==
  ASSUME TypeOK, CloudError \/ GoPatch(ac)
  PROVE  pc' = "patch" /\ Same(ac', ac)
  <1>1. ac \in Status /\ acSpec.upload \in BOOLEAN
    BY DEF TypeOK, SpecFields
  <1> QED BY <1>1, AggregateSame DEF CloudError, GoPatch

\* A failure of ensureUploaded: the generations are what the round had, or what
\* the live read returned.
LEMMA FailFields ==
  ASSUME TypeOK, EnsureFails
  PROVE  /\ pc' = "patch"
         /\ status'.cur = status.cur /\ status'.hist = status.hist
         /\ \/ /\ ac'.cur = ac.cur /\ ac'.hist = ac.hist /\ orig' = orig
            \/ /\ ac'.cur = status.cur /\ ac'.hist = status.hist
               /\ orig'.cur = status.cur /\ orig'.hist = status.hist
  <1> DEFINE a == AdoptUploadState(ac, status)
             o == AdoptUploadState(orig, status)
  <1>0. /\ status \in Status /\ ac \in Status /\ orig \in Status /\ acSpec.upload \in BOOLEAN
    BY DEF TypeOK, SpecFields
  <1>1. CASE CloudError /\ UNCHANGED <<status, orig>>
    BY <1>1, CloudErrorSame DEF Same
  <1>2. CASE /\ ac' = AggregateReady([a EXCEPT !.conds.uploaded = FALSE], acSpec.upload)
             /\ orig' = o /\ pc' = "patch"
             /\ status' = [status EXCEPT !.pend = b, !.hint = acSpec.dom]
    <2>1. /\ a.cur = status.cur /\ a.hist = status.hist
          /\ o.cur = status.cur /\ o.hist = status.hist
      BY <1>0, AdoptFields
    <2>2. a \in Status
      BY <1>0, AdoptType
    <2> HIDE DEF a, o
    <2>3. Same(ac', a)
      BY <1>0, <1>2, <2>2, AggregateSame
    <2>4. status'.cur = status.cur /\ status'.hist = status.hist
      BY <1>0, <1>2, PendFields
    <2> QED BY <1>2, <2>1, <2>3, <2>4 DEF Same
  <1> QED BY <1>1, <1>2 DEF EnsureFails, WriteAhead

\* Where a normal round starts: with the statuses the cache holds.
LEMMA BeginFields ==
  ASSUME TypeOK, BeginRoundNotIssued \/ BeginRoundIssued
  PROVE  /\ pc = "idle" /\ ac'.cur = cstatus.cur /\ ac'.hist = cstatus.hist /\ orig' = cstatus
         /\ \/ pc' = "patch" /\ b' = b
            \/ pc' = "probe" /\ b' = secret /\ secret # NoFP
         /\ UNCHANGED <<api, status, cstatus, secret, lastGen, cas, budget, binding>>
  <1> USE DEF crVars, cacheVars, cloudVars, envVars
  <1>0. cstatus \in Status /\ capi.spec.upload \in BOOLEAN
    BY DEF TypeOK, Meta, SpecFields
  <1>1. CASE BeginRoundNotIssued
    <2>1. Same(AggregateReady([cstatus EXCEPT !.conds.issued = FALSE], capi.spec.upload),
               cstatus)
      BY <1>0, AggregateSame
    <2> QED BY <1>1, <2>1 DEF BeginRoundNotIssued, Same
  <1>2. CASE BeginRoundIssued
    <2>1. ac'.cur = cstatus.cur /\ ac'.hist = cstatus.hist
      BY <1>0, <1>2, CondsSame DEF BeginRoundIssued, Same
    <2> QED BY <1>2, <2>1 DEF BeginRoundIssued, MaterialValid
  <1> QED BY <1>1, <1>2

\* A probe that misses the current certificate clears it, here and on the server.
LEMMA ProbeMissingFields ==
  ASSUME TypeOK, SameRecords(ac, orig), ProbeMissing
  PROVE  /\ status'.cur = NoGen \/ (status'.cur.fp \in {NoFP, status.cur.fp} /\ ac.cur.fp = NoFP)
         /\ status'.hist = status.hist /\ status'.cur.id = NoId
         /\ ac' = status' /\ orig' = status' /\ pc' = "ensure"
  <1> DEFINE a == [ac EXCEPT !.cur = NoGen, !.probed = TRUE]
  <1>0. status \in Status /\ ac \in Status /\ orig \in Status
    BY DEF TypeOK
  <1>1. a \in Status /\ a.cur = NoGen /\ a.hist = ac.hist
    BY <1>0, NoStatusType DEF Status
  <1> HIDE DEF a
  <1>2. /\ status' = MergePatch(status, orig, a) /\ ac' = status' /\ orig' = status'
        /\ pc' = "ensure" /\ ac.cur.id # NoId
    BY DEF ProbeMissing, PatchAndReload, ProbeDue, a
  <1>3. /\ status'.cur = [fp |-> Merged(status.cur.fp, orig.cur.fp, NoFP),
                          id |-> Merged(status.cur.id, orig.cur.id, NoId)]
        /\ status'.hist = Merged(status.hist, orig.hist, ac.hist)
    BY <1>1, <1>2 DEF MergePatch, NoGen
  <1> QED BY <1>2, <1>3 DEF Merged, SameRecords, NoGen

\* A step of a normal round keeps the order.
LEMMA RoundOrder ==
  ASSUME TypeOK, TypeOK', RecordsInv, NewestIsCurrent, Round
  PROVE  NewestIsCurrent'
  <1> USE DEF crVars, cacheVars, issuerVars, cloudVars, roundVars, envVars
  <1>0. /\ status \in Status /\ cstatus \in Status /\ ac \in Status /\ orig \in Status
        /\ acSpec.upload \in BOOLEAN /\ cas \in [FP -> Nat] /\ nextId \in Nat
        /\ Newest \in Nat /\ (pc \in {"probe", "ensure", "upload", "reclaim", "reclaimLoop"}
                                => Newest = b)
    BY NewestType DEF TypeOK, SpecFields, Newest
  <1>1. /\ Old(status, Newest) /\ Old(cstatus, Newest) /\ Old(ac, Newest) /\ Old(orig, Newest)
    BY DEF NewestIsCurrent
  \* Steps in which the working copy keeps its generations.
  <1>a. ASSUME UNCHANGED <<b, lastGen, secret, status, cstatus, orig>>, pc' # "idle",
               ac'.cur = ac.cur, ac'.hist = ac.hist, pc' # "upload",
               pc' \in {"reclaim", "reclaimLoop"} => ac.cur.fp = b
        PROVE  NewestIsCurrent'
    <2>1. Old(ac', Newest)
      BY <1>1, <1>a DEF Old
    <2> QED BY <1>1, <1>a, <2>1, OrderGoesOn
  <1>2. CASE AddFinalizer
    BY <1>2, <1>1, OrderGoesOn DEF AddFinalizer, NewestIsCurrent
  <1>3. CASE BeginRoundNotIssued \/ BeginRoundIssued
    <2>1. /\ pc = "idle" /\ ac'.cur = cstatus.cur /\ ac'.hist = cstatus.hist /\ orig' = cstatus
          /\ \/ pc' = "patch" /\ b' = b
             \/ pc' = "probe" /\ b' = secret /\ secret # NoFP
          /\ UNCHANGED <<status, cstatus, secret, lastGen>>
      BY <1>3, BeginFields
    <2>2. Newest' = Newest
      BY <2>1 DEF NewestIsCurrent, Newest
    <2>3. Old(ac', Newest)
      BY <1>1, <2>1 DEF Old
    <2> QED BY <1>1, <2>1, <2>2, <2>3 DEF NewestIsCurrent
  <1>4. CASE ProbeSkipped \/ ProbeFound
    <2>1. ac'.cur = ac.cur /\ ac'.hist = ac.hist
      <3>1. Same([ac EXCEPT !.probed = TRUE], ac)
        BY <1>0, CondsSame
      <3> QED BY <1>4, <3>1 DEF ProbeSkipped, ProbeFound, Same
    <2> QED BY <1>4, <2>1, <1>a DEF ProbeSkipped, ProbeFound
  <1>5. CASE ProbeMissing
    <2>1. pc = "probe" /\ UNCHANGED <<b, lastGen, secret, cstatus>>
      BY <1>5 DEF ProbeMissing
    <2>2. SameRecords(ac, orig)
      BY <2>1 DEF RecordsInv, RoundRecords
    <2>3. /\ status'.cur = NoGen \/ status'.cur.fp \in {NoFP, status.cur.fp}
          /\ status'.hist = status.hist
          /\ ac' = status' /\ orig' = status' /\ pc' = "ensure"
      BY <1>5, <2>2, ProbeMissingFields
    <2>4. Old(status', Newest)
      BY <1>0, <1>1, <2>3 DEF Old, NoGen
    <2> QED BY <1>1, <2>1, <2>3, <2>4, OrderGoesOn
  <1>6. CASE EnsureShortCircuit
    <2>1. ac'.cur = ac.cur /\ ac'.hist = ac.hist
      BY <1>0, <1>6, AggregateSame DEF EnsureShortCircuit, Same
    <2> QED BY <1>6, <2>1, <1>a DEF EnsureShortCircuit
  <1>7. CASE EnsureRefresh
    <2>0. UNCHANGED <<b, lastGen, secret, cstatus>> /\ Newest = b
      BY <1>0, <1>7 DEF EnsureRefresh
    <2>1. /\ orig'.cur = status.cur /\ orig'.hist = status.hist
          /\ status'.cur = status.cur /\ status'.hist = status.hist
          /\ \/ pc' = "reclaim" /\ status.cur.fp = b
                /\ ac'.cur = status.cur /\ ac'.hist = status.hist
             \/ /\ pc' = "reclaim" /\ status.cur.fp # b
                /\ ac'.cur = [fp |-> b, id |-> NoId]
                /\ ac'.hist = IF status.cur.fp # NoFP THEN <<status.cur>> \o status.hist
                                                      ELSE status.hist
             \/ pc' = "upload" /\ status.cur.fp # b
                /\ ac'.cur = status.cur /\ ac'.hist = status.hist
      BY <1>7, RefreshFields
    <2>2. Old(status', Newest) /\ Old(orig', Newest)
      BY <1>1, <2>1 DEF Old
    <2>3. Old(ac', Newest)
      <3>1. CASE ac'.cur = status.cur /\ ac'.hist = status.hist
        BY <1>1, <3>1 DEF Old
      <3>2. CASE /\ status.cur.fp # b /\ ac'.cur = [fp |-> b, id |-> NoId]
                 /\ ac'.hist = IF status.cur.fp # NoFP THEN <<status.cur>> \o status.hist
                                                       ELSE status.hist
        BY <1>0, <1>1, <2>0, <3>2, OldAdvance
      <3> QED BY <2>1, <3>1, <3>2
    <2>4. /\ pc' # "idle" /\ (pc' = "upload" => ac'.cur.fp # b)
          /\ (pc' \in {"reclaim", "reclaimLoop"} => ac'.cur.fp = b)
      BY <2>1
    <2> QED BY <1>1, <2>0, <2>2, <2>3, <2>4, OrderGoesOn
  <1>8. CASE EnsureFails
    <2>0. UNCHANGED <<b, lastGen, secret, cstatus>>
      BY <1>8 DEF EnsureFails
    <2>1. /\ pc' = "patch" /\ status'.cur = status.cur /\ status'.hist = status.hist
          /\ \/ /\ ac'.cur = ac.cur /\ ac'.hist = ac.hist /\ orig' = orig
             \/ /\ ac'.cur = status.cur /\ ac'.hist = status.hist
                /\ orig'.cur = status.cur /\ orig'.hist = status.hist
      BY <1>8, FailFields
    <2>2. Old(status', Newest) /\ Old(orig', Newest) /\ Old(ac', Newest)
      BY <1>1, <2>1 DEF Old
    <2> QED BY <1>1, <2>0, <2>1, <2>2, OrderGoesOn
  <1>9. CASE UploadNew \/ UploadClaim \/ UploadFails
    <2>0. UNCHANGED <<b, lastGen, secret, status, cstatus, orig>> /\ pc = "upload"
      BY <1>9 DEF UploadNew, UploadClaim, UploadFails
    <2>1. CASE CloudError
      BY <2>0, <2>1, <1>a, CloudErrorSame DEF Same
    <2>2. ASSUME NEW id \in Nat, Uploaded(id) PROVE NewestIsCurrent'
      <3>1. /\ ac'.cur = [fp |-> b, id |-> id] /\ pc' = "reclaim"
            /\ ac'.hist = IF ac.cur.fp # NoFP THEN <<ac.cur>> \o ac.hist ELSE ac.hist
        BY <2>2, UploadedFields
      <3>2. ac.cur.fp # b /\ Newest = b
        BY <1>0, <2>0 DEF NewestIsCurrent
      <3>3. Old(ac', Newest)
        BY <1>0, <1>1, <3>1, <3>2, OldAdvance
      <3> QED BY <1>1, <2>0, <3>1, <3>3, OrderGoesOn
    <2>3. \A id \in FindByName(b) : id \in Nat
      BY <1>0 DEF FindByName, Listed
    <2> QED BY <1>0, <1>9, <2>1, <2>2, <2>3 DEF UploadNew, UploadClaim, UploadFails
  <1>10. CASE ReclaimList \/ ReclaimFails \/ ReclaimStops
    <2>0. UNCHANGED <<b, lastGen, secret, status, cstatus, orig>>
          /\ pc \in {"reclaim", "reclaimLoop"}
          /\ (GoPatch(ac) \/ (ac' = ac /\ pc' = "reclaimLoop"))
      BY <1>10 DEF ReclaimList, ReclaimFails, ReclaimStops
    <2>1. ac'.cur = ac.cur /\ ac'.hist = ac.hist /\ pc' \in {"patch", "reclaimLoop"}
      BY <2>0, CloudErrorSame DEF Same
    <2>2. ac.cur.fp = b
      BY <2>0 DEF NewestIsCurrent
    <2> QED BY <2>0, <2>1, <2>2, <1>a
  <1>11. CASE ReclaimOldest
    <2>0. /\ UNCHANGED <<b, lastGen, secret, status, cstatus, orig, pc>>
          /\ pc = "reclaimLoop" /\ ac' = DropOldest(ac) /\ ac.hist # <<>>
      BY <1>11 DEF ReclaimOldest, Excess
    <2>1. Old(ac', Newest) /\ ac'.cur = ac.cur
      BY <1>0, <1>1, <2>0, OldDrop, DropFields
    <2> QED BY <1>1, <2>0, <2>1, OrderGoesOn DEF NewestIsCurrent
  <1>12. CASE PatchStatus
    <2>1. Old(status', Newest)
      BY <1>0, <1>1, <1>12, OldMerge DEF PatchStatus
    <2> QED BY <1>1, <1>12, <2>1, OrderEnds DEF PatchStatus
  <1> QED BY <1>2, <1>3, <1>4, <1>5, <1>6, <1>7, <1>8, <1>9, <1>10, <1>11, <1>12 DEF Round

\* A step of the deletion branch keeps the order.
LEMMA DeletionOrder ==
  ASSUME TypeOK, TypeOK', NewestIsCurrent, Deletion
  PROVE  NewestIsCurrent'
  <1> USE DEF crVars, cacheVars, issuerVars, cloudVars, roundVars, envVars
  <1>0. /\ status \in Status /\ cstatus \in Status /\ ac \in Status /\ orig \in Status
        /\ Newest \in Nat
    BY NewestType DEF TypeOK
  <1>1. /\ Old(status, Newest) /\ Old(cstatus, Newest) /\ Old(ac, Newest) /\ Old(orig, Newest)
    BY DEF NewestIsCurrent
  <1>2. CASE DeleteBlocked \/ DeleteStarts
    <2> DEFINE x == [cstatus EXCEPT !.conds.ready = FALSE]
               y == [cstatus EXCEPT !.cleanup = TRUE]
    <2>1. x \in Status /\ y \in Status
      BY <1>0, SetCondType DEF Status
    <2>2. x.cur = cstatus.cur /\ x.hist = cstatus.hist /\ y.cur = cstatus.cur
          /\ y.hist = cstatus.hist
      BY <1>0 DEF Status
    <2>3. status' = MergePatch(status, cstatus, x) \/ status' = MergePatch(status, cstatus, y)
      BY <1>2 DEF DeleteBlocked, DeleteStarts
    <2> HIDE DEF x, y
    <2>4. Old(x, Newest) /\ Old(y, Newest)
      BY <1>1, <2>2 DEF Old
    <2>5. Old(status', Newest)
      BY <1>0, <1>1, <2>1, <2>3, <2>4, OldMerge
    <2>6. /\ UNCHANGED <<b, lastGen, secret, cstatus>> /\ pc = "idle"
          /\ \/ UNCHANGED <<ac, orig, pc>>
             \/ ac' = status' /\ orig' = status' /\ pc' = "cleanup"
      BY <1>2 DEF DeleteBlocked, DeleteStarts, CacheDeleting
    <2> QED BY <1>1, <2>5, <2>6, OrderGoesOn
  <1>3. CASE DeleteResumes
    BY <1>1, <1>3, OrderGoesOn DEF DeleteResumes
  <1>4. CASE CleanupDelete
    <2>1. Old(DeletedNext(ac), Newest)
      BY <1>0, <1>1, OldDeleted
    <2> QED BY <1>1, <1>4, <2>1, OrderGoesOn DEF CleanupDelete
  <1>5. CASE CleanupFails
    <2> DEFINE x == [ac EXCEPT !.conds.ready = FALSE]
    <2>1. x \in Status /\ x.cur = ac.cur /\ x.hist = ac.hist
      BY <1>0, SetCondType DEF Status
    <2>2. Old(x, Newest)
      BY <1>1, <2>1 DEF Old
    <2>3. \/ UNCHANGED <<status, ac, orig, b>> /\ pc' = "cleaned"
          \/ status' \in {status, MergePatch(status, orig, x)} /\ EndRound
      BY <1>5 DEF CleanupFails
    <2>4. UNCHANGED <<lastGen, secret, cstatus>>
      BY <1>5 DEF CleanupFails
    <2> HIDE DEF x
    <2>5. Old(MergePatch(status, orig, x), Newest)
      BY <1>0, <1>1, <2>1, <2>2, OldMerge
    <2>6. CASE UNCHANGED <<status, ac, orig, b>> /\ pc' = "cleaned"
      BY <1>1, <2>4, <2>6, OrderGoesOn
    <2>7. CASE status' \in {status, MergePatch(status, orig, x)} /\ EndRound
      BY <1>1, <2>4, <2>5, <2>7, OrderEnds
    <2> QED BY <2>3, <2>6, <2>7
  <1>6. CASE CleanupDone
    BY <1>1, <1>6, OrderGoesOn DEF CleanupDone
  <1>7. CASE PatchCleaned
    <2>1. Old(MergePatch(status, orig, ac), Newest)
      BY <1>0, <1>1, OldMerge
    <2>2. UNCHANGED <<lastGen, secret, cstatus>>
      BY <1>7 DEF PatchCleaned
    <2>3. CASE PatchAndReload(ac) /\ pc' = "deleteCert" /\ UNCHANGED b
      BY <1>1, <2>1, <2>2, <2>3, OrderGoesOn DEF PatchAndReload
    <2>4. CASE EndRound /\ UNCHANGED status
      BY <1>1, <2>2, <2>4, OrderEnds
    <2> QED BY <1>7, <2>3, <2>4 DEF PatchCleaned
  <1>8. CASE DeleteCertificate
    BY <1>1, <1>8, OrderEnds DEF DeleteCertificate
  <1>9. CASE DeleteSecret
    BY <1>1, <1>9, OrderGoesOn DEF DeleteSecret
  <1>10. CASE RemoveFinalizer
    <2>1. Old(status', Newest)
      BY <1>0, <1>1, <1>10, OldNone DEF RemoveFinalizer
    <2> QED BY <1>1, <1>10, <2>1, OrderEnds DEF RemoveFinalizer
  <1> QED BY <1>2, <1>3, <1>4, <1>5, <1>6, <1>7, <1>8, <1>9, <1>10 DEF Deletion

\* What happens around the round keeps the order, a restored Secret aside.
LEMMA EnvironmentOrder ==
  ASSUME TypeOK, TypeOK', NewestIsCurrent, Environment, ~RollbackSecret
  PROVE  NewestIsCurrent'
  <1> USE DEF crVars, cacheVars, issuerVars, cloudVars, roundVars, envVars
  <1>0. /\ status \in Status /\ cstatus \in Status /\ ac \in Status /\ orig \in Status
        /\ Newest \in Nat
    BY NewestType DEF TypeOK
  <1>1. /\ Old(status, Newest) /\ Old(cstatus, Newest) /\ Old(ac, Newest) /\ Old(orig, Newest)
    BY DEF NewestIsCurrent
  <1>a. ASSUME UNCHANGED <<b, lastGen, secret, ac, orig, pc>>, Old(status', Newest),
               Old(cstatus', Newest)
        PROVE  NewestIsCurrent'
    BY <1>1, <1>a, OrderGoesOn DEF NewestIsCurrent
  <1>2. CASE Crash \/ RoundAborts
    BY <1>1, <1>2, OrderEnds DEF Crash, RoundAborts
  <1>3. CASE CacheSync \/ CertCacheSync \/ HandDelete \/ ToggleUpload \/ RenameDomain
             \/ CollectCertificate \/ GracePeriodPasses \/ Stabilise
    BY <1>1, <1>3, <1>a DEF CacheSync, CertCacheSync, HandDelete, ToggleUpload, RenameDomain,
          CollectCertificate, GracePeriodPasses, Stabilise
  <1>4. CASE BindingStep
    BY <1>1, <1>4, <1>a DEF BindingStep, EditBinding, BindingApplies, BindingObserves,
          DeleteBinding, BindingGone, SetBinding
  <1>5. CASE DeleteCR
    <2>1. Old(status', Newest)
      BY <1>0, <1>1, <1>5, OldNone DEF DeleteCR
    <2> QED BY <1>1, <1>5, <2>1, <1>a DEF DeleteCR
  <1>6. CASE Issue
    <2>1. /\ lastGen' = lastGen + 1 /\ secret' = lastGen'
          /\ UNCHANGED <<status, cstatus, ac, orig, b, pc>>
      BY <1>6 DEF Issue
    <2>2. Newest' \in Nat /\ Newest <= Newest'
      BY <2>1, NewestType DEF Newest
    <2>3. /\ Old(status, Newest') /\ Old(cstatus, Newest') /\ Old(ac, Newest')
          /\ Old(orig, Newest')
      BY <1>0, <1>1, <2>2, OldMore
    <2> QED BY <2>1, <2>3 DEF NewestIsCurrent
  <1>7. CASE ProbeIntervalPasses
    <2>1. /\ Same(status', status) /\ Same(cstatus', cstatus) /\ Same(ac', ac)
          /\ Same(orig', orig)
      BY <1>0, <1>7, CondsSame DEF ProbeIntervalPasses
    <2>2. /\ Old(status', Newest) /\ Old(cstatus', Newest) /\ Old(ac', Newest)
          /\ Old(orig', Newest)
      BY <1>1, <2>1 DEF Same, Old
    <2>3. UNCHANGED <<b, lastGen, secret, pc>>
      BY <1>7 DEF ProbeIntervalPasses
    <2> QED BY <2>1, <2>2, <2>3, OrderGoesOn DEF NewestIsCurrent, Same
  <1> QED BY <1>2, <1>3, <1>4, <1>5, <1>6, <1>7 DEF Environment

\* As long as no older Secret is restored the newest generation is current.
LEMMA OrderHolds == Spec => []OrderInv
  <1>1. Init => OrderInv
    <2> SUFFICES ASSUME Init PROVE NewestIsCurrent
      BY DEF OrderInv
    <2>1. Old(NoStatus, 0)
      BY OldNone
    <2> QED BY <2>1 DEF Init, NewestIsCurrent, Newest
  <1>2. TypeOK /\ RecordsInv /\ OrderInv /\ [Next]_vars => OrderInv'
    <2> SUFFICES ASSUME TypeOK, RecordsInv, OrderInv, [Next]_vars, budget'.rollbacks = 0
                 PROVE  NewestIsCurrent'
      BY DEF OrderInv
    <2>0. budget.rollbacks \in Nat
      BY DEF TypeOK
    <2>1. budget.rollbacks = 0 /\ budget'.rollbacks = budget.rollbacks
      BY <2>0, RollbacksCounted
    <2>2. ~RollbackSecret
      <3>1. RollbackSecret => budget'.rollbacks = budget.rollbacks + 1
        BY DEF RollbackSecret, TypeOK
      <3> QED BY <2>0, <2>1, <3>1
    <2>3. TypeOK' /\ NewestIsCurrent
      BY <2>1, TypeStep DEF OrderInv
    <2>4. CASE UNCHANGED vars
      BY <2>3, <2>4 DEF vars, crVars, cacheVars, issuerVars, roundVars, NewestIsCurrent, Newest
    <2> QED BY <2>2, <2>3, <2>4, RoundOrder, DeletionOrder, EnvironmentOrder DEF Next
  <1>3. RecordBeforeUpload /\ RecordsInv => RecordsInv
    OBVIOUS
  <1> QED BY <1>1, <1>2, <1>3, TypeCorrect, RecordsHold, PTL DEF Spec
-----------------------------------------------------------------------------
(* Retention deletes old generations only *)

\* What the retention loop takes out of CAS is the oldest generation of the
\* working copy, and no binding had applied it when the bindings were listed.
LEMMA ReclaimsOldest ==
  ASSUME TypeOK, RecordsInv, [Next]_vars, NEW f \in FP, Reclaims(f)
  PROVE  /\ ac.hist # <<>> /\ Len(ac.hist) \in 1 .. Len(ac.hist)
         /\ Oldest(ac).fp = f /\ f \notin seen.applied
         /\ Excess(ac)
  <1>0. cas \in [FP -> Nat] /\ ac.hist \in Seq(Gen) /\ pc = "reclaimLoop" /\ cas[f] # NoId
        /\ cas'[f] = NoId /\ budget' = budget
        /\ budget \in [rollbacks : Nat, handDeletes : Nat, toggles : Nat, renames : Nat]
    BY DEF TypeOK, Status, Reclaims
  <1>a. ASSUME UNCHANGED cas PROVE FALSE
    BY <1>0, <1>a
  <1>b. ASSUME pc # "reclaimLoop" PROVE FALSE
    BY <1>0, <1>b
  <1> USE DEF cloudVars
  <1>1. CASE ReclaimOldest \/ ReclaimFails
    <2>1. cas' = CasWithout(Oldest(ac).id) /\ Excess(ac) /\ Reclaimable(Oldest(ac))
      BY <1>0, <1>1 DEF ReclaimOldest, ReclaimFails
    <2>2. cas[f] = Oldest(ac).id
      BY <1>0, <2>1 DEF CasWithout
    <2>3. ac.hist # <<>> /\ Len(ac.hist) \in 1 .. Len(ac.hist)
      BY <1>0, <2>1 DEF Excess
    <2>4. IdMeans(ac.hist, cas[f], f)
      BY <1>0 DEF RecordsInv, IdsInv, OwnIds
    <2>5. Oldest(ac).fp = f
      BY <2>2, <2>3, <2>4 DEF IdMeans, Oldest
    <2> QED BY <2>1, <2>3, <2>5 DEF Reclaimable
  <1>2. CASE UNCHANGED vars
    BY <1>2, <1>a DEF vars
  <1>3. CASE Round /\ ~(ReclaimOldest \/ ReclaimFails)
    BY <1>3, <1>a, <1>b, Zenon DEF Round, AddFinalizer, BeginRoundNotIssued,
            BeginRoundIssued, ProbeSkipped, ProbeFound, ProbeMissing, EnsureShortCircuit,
            EnsureRefresh, EnsureFails, UploadNew, UploadClaim, UploadFails, ReclaimList,
            ReclaimStops, PatchStatus
  <1>4. CASE Deletion
    BY <1>4, <1>a, <1>b, Zenon DEF Deletion, DeleteBlocked, DeleteStarts, DeleteResumes,
            CleanupDelete, CleanupFails, CleanupDone, PatchCleaned, DeleteCertificate,
            DeleteSecret, RemoveFinalizer
  <1>5. CASE Environment
    <2>1. CASE HandDelete
      <3>1. budget'.handDeletes = budget.handDeletes + 1
        BY <1>0, <2>1 DEF HandDelete
      <3> QED BY <1>0, <3>1
    <2>2. CASE BindingStep
      BY <2>2, <1>a DEF BindingStep, EditBinding, BindingApplies, BindingObserves,
                        DeleteBinding, BindingGone, SetBinding
    <2>3. CASE Crash \/ RoundAborts \/ CacheSync \/ CertCacheSync \/ Issue \/ RollbackSecret
               \/ ToggleUpload \/ RenameDomain \/ DeleteCR \/ CollectCertificate
               \/ ProbeIntervalPasses \/ GracePeriodPasses \/ Stabilise
      BY <2>3, <1>a, Zenon DEF Crash, RoundAborts, CacheSync, CertCacheSync, Issue,
            RollbackSecret, ToggleUpload, RenameDomain, DeleteCR, CollectCertificate,
            ProbeIntervalPasses, GracePeriodPasses, Stabilise
    <2> QED BY <1>5, <2>1, <2>2, <2>3 DEF Environment
  <1> QED BY <1>1, <1>2, <1>3, <1>4, <1>5 DEF Next

\* Without rollbacks the budget says so.
LEMMA NoRollbacks ==
  ASSUME MaxRollbacks = 0 PROVE Spec => [](budget.rollbacks = 0)
  <1>1. Init => budget.rollbacks = 0
    BY DEF Init
  <1>2. TypeOK /\ budget.rollbacks = 0 /\ [Next]_vars => (budget.rollbacks = 0)'
    BY RollbacksCounted
  <1> QED BY <1>1, <1>2, TypeCorrect, PTL DEF Spec

\* retention.go never deletes the generation the round has just made current,
\* for every keepLast and any number of generations, crashes, lost answers and
\* stale caches, as long as nobody restores an older Secret: the ids of the
\* history are those of older generations.
THEOREM CurrentIsSpared ==
  ASSUME MaxRollbacks = 0 PROVE Spec => ReclaimSparesCurrent
  <1>1. TypeOK /\ RecordsInv /\ OrderInv /\ budget.rollbacks = 0 /\ [Next]_vars =>
          [\A f \in FP : Reclaims(f) => f # ac.cur.fp]_vars
    <2> SUFFICES ASSUME TypeOK, RecordsInv, NewestIsCurrent, [Next]_vars, NEW f \in FP,
                        Reclaims(f)
                 PROVE  f # ac.cur.fp
      BY DEF OrderInv
    <2>1. Len(ac.hist) \in 1 .. Len(ac.hist) /\ Oldest(ac).fp = f
      BY ReclaimsOldest
    <2>2. pc = "reclaimLoop" /\ b # NoFP
      BY DEF Reclaims, TypeOK
    <2>3. ac.cur.fp = b /\ Below(ac.hist, b)
      BY <2>2 DEF NewestIsCurrent, Newest, Old
    <2>4. f < b
      BY <2>1, <2>3 DEF Below, Oldest
    <2>5. f \in Nat /\ b \in Nat
      BY MaxGenAssumption, NewestType
    <2> QED BY <2>3, <2>4, <2>5
  <1>2. RecordBeforeUpload /\ RecordsInv => RecordsInv
    OBVIOUS
  <1> QED BY <1>1, <1>2, TypeCorrect, RecordsHold, OrderHolds, NoRollbacks, PTL
          DEF Spec, ReclaimSparesCurrent

\* What the bindings have applied stays within what was listed, or is newer.
LEMMA BoundStep ==
  ASSUME TypeOK, TypeOK', NewestIsCurrent, AppliedWasSeen, [Next]_vars
  PROVE  AppliedWasSeen'
  <1>0. binding \in [Binding -> BindingState] /\ b \in Nat /\ lastGen \in Nat /\ b <= lastGen
    BY NewestType DEF TypeOK
  <1> USE DEF crVars, cacheVars, issuerVars, cloudVars, roundVars, envVars, EndRound
  <1>a. ASSUME UNCHANGED binding, pc' # "reclaimLoop" PROVE AppliedWasSeen'
    BY <1>a DEF AppliedWasSeen
  <1>b. ASSUME UNCHANGED <<binding, b, seen, pc>> PROVE AppliedWasSeen'
    BY <1>b DEF AppliedWasSeen
  <1>1. CASE UNCHANGED vars
    BY <1>1, <1>b DEF vars
  <1>2. CASE Round
    <2>1. CASE ReclaimList
      <3>1. CASE seen' = LiveBindingsFor /\ UNCHANGED binding
        <4>1. \A x \in Binding : binding[x].applied \in seen'.applied \cup {NoFP}
          <5>1. \A x \in Binding : binding[x].phase # "none" => binding[x].applied \in seen'.applied
            BY <3>1 DEF LiveBindingsFor, LiveBindings
          <5> QED BY <5>1 DEF AppliedWasSeen
        <4> QED BY <3>1, <4>1 DEF AppliedWasSeen
      <3>2. CASE GoPatch(ac) /\ UNCHANGED binding
        BY <3>2, <1>a DEF GoPatch
      <3> QED BY <2>1, <3>1, <3>2 DEF ReclaimList
    <2>2. CASE ReclaimOldest
      BY <2>2, <1>b DEF ReclaimOldest
    <2>3. CASE AddFinalizer
      BY <2>3, <1>b DEF AddFinalizer
    <2>4. CASE BeginRoundNotIssued \/ BeginRoundIssued \/ ProbeSkipped \/ ProbeFound
               \/ ProbeMissing \/ EnsureShortCircuit \/ EnsureRefresh \/ EnsureFails
               \/ UploadNew \/ UploadClaim \/ UploadFails \/ ReclaimFails \/ ReclaimStops
               \/ PatchStatus
      <3>1. UNCHANGED binding /\ pc' # "reclaimLoop"
        BY <2>4, Zenon DEF BeginRoundNotIssued, BeginRoundIssued, ProbeSkipped, ProbeFound,
              ProbeMissing, EnsureShortCircuit, EnsureRefresh, EnsureFails, CloudError,
              UploadNew, UploadClaim, UploadFails, Uploaded, ReclaimFails, ReclaimStops,
              GoPatch, PatchStatus
      <3> QED BY <3>1, <1>a
    <2> QED BY <1>2, <2>1, <2>2, <2>3, <2>4 DEF Round
  <1>3. CASE Deletion
    <2>1. UNCHANGED binding /\ (pc' # "reclaimLoop" \/ UNCHANGED <<b, seen, pc>>)
      BY <1>3, Zenon DEF Deletion, DeleteBlocked, DeleteStarts, DeleteResumes, CleanupDelete,
            CleanupFails, CleanupDone, PatchCleaned, DeleteCertificate, DeleteSecret,
            RemoveFinalizer
    <2> QED BY <2>1, <1>a, <1>b
  <1>4. CASE Environment
    <2>1. CASE Crash \/ RoundAborts \/ CacheSync \/ CertCacheSync \/ Issue \/ RollbackSecret
               \/ HandDelete \/ ToggleUpload \/ RenameDomain \/ DeleteCR \/ CollectCertificate
               \/ ProbeIntervalPasses \/ GracePeriodPasses \/ Stabilise
      <3>1. UNCHANGED binding /\ (pc' # "reclaimLoop" \/ UNCHANGED <<b, seen, pc>>)
        BY <2>1, Zenon DEF Crash, RoundAborts, CacheSync, CertCacheSync, Issue, RollbackSecret,
              HandDelete, ToggleUpload, RenameDomain, DeleteCR, CollectCertificate,
              ProbeIntervalPasses, GracePeriodPasses, Stabilise
      <3> QED BY <3>1, <1>a, <1>b
    <2>2. CASE BindingStep
      <3>1. PICK x \in Binding : \/ EditBinding(x) \/ BindingApplies(x) \/ BindingObserves(x)
                                 \/ DeleteBinding(x) \/ BindingGone(x)
        BY <2>2 DEF BindingStep
      <3>0. binding[x] \in BindingState
        BY <1>0
      <3>a. ASSUME NEW s, SetBinding(x, s),
                   s.applied \in {binding[x].applied, NoFP, lastGen},
                   s.phase = "none" => s.applied = NoFP
            PROVE  AppliedWasSeen'
        <4>1. binding' = [binding EXCEPT ![x] = s] /\ UNCHANGED <<b, seen, pc>>
          BY <3>a DEF SetBinding
        <4>2. \A y \in Binding : binding'[y] = IF y = x THEN s ELSE binding[y]
          BY <1>0, <4>1
        <4> QED BY <1>0, <3>a, <4>1, <4>2 DEF AppliedWasSeen
      <3>2. CASE EditBinding(x)
        <4> DEFINE s == [binding[x] EXCEPT !.phase = "live", !.observed = FALSE]
        <4>1. s.applied = binding[x].applied /\ s.phase = "live"
          BY <3>0 DEF BindingState
        <4>2. SetBinding(x, s)
          BY <3>2 DEF EditBinding
        <4> HIDE DEF s
        <4> QED BY <4>1, <4>2, <3>a
      <3>3. CASE BindingApplies(x)
        <4> DEFINE s == [phase |-> "live", observed |-> TRUE, applied |-> secret]
        <4>1. s.applied = lastGen /\ s.phase = "live"
          BY <3>3 DEF BindingApplies, NewestIsCurrent
        <4>2. SetBinding(x, s)
          BY <3>3 DEF BindingApplies
        <4> HIDE DEF s
        <4> QED BY <4>1, <4>2, <3>a
      <3>4. CASE BindingObserves(x)
        <4> DEFINE s == [binding[x] EXCEPT !.observed = TRUE]
        <4>1. s.applied = binding[x].applied /\ s.phase = "live"
          BY <3>0, <3>4 DEF BindingState, BindingObserves
        <4>2. SetBinding(x, s)
          BY <3>4 DEF BindingObserves
        <4> HIDE DEF s
        <4> QED BY <4>1, <4>2, <3>a
      <3>5. CASE DeleteBinding(x)
        <4> DEFINE s == [binding[x] EXCEPT !.phase = "deleting"]
        <4>1. s.applied = binding[x].applied /\ s.phase = "deleting"
          BY <3>0 DEF BindingState
        <4>2. SetBinding(x, s)
          BY <3>5 DEF DeleteBinding
        <4> HIDE DEF s
        <4> QED BY <4>1, <4>2, <3>a
      <3>6. CASE BindingGone(x)
        <4>1. SetBinding(x, NoBinding) /\ NoBinding.applied = NoFP
          BY <3>6 DEF BindingGone, NoBinding
        <4> QED BY <4>1, <3>a
      <3> QED BY <3>1, <3>2, <3>3, <3>4, <3>5, <3>6
    <2> QED BY <1>4, <2>1, <2>2 DEF Environment
  <1> QED BY <1>1, <1>2, <1>3, <1>4 DEF Next

\* retention.go never deletes a generation that a binding has applied, not even
\* one that a binding applied after liveBindingsFor listed the bindings: what is
\* applied since is the newest generation, and what is reclaimed is older.
THEOREM BoundAreSpared ==
  ASSUME MaxRollbacks = 0 PROVE Spec => ReclaimSparesBound
  <1>1. Init => AppliedWasSeen
    BY DEF Init, AppliedWasSeen, NoBinding
  <1>2. TypeOK /\ OrderInv /\ budget.rollbacks = 0 /\ AppliedWasSeen /\ [Next]_vars
          => AppliedWasSeen'
    BY TypeStep, BoundStep DEF OrderInv
  <1>3. TypeOK /\ RecordsInv /\ OrderInv /\ budget.rollbacks = 0 /\ AppliedWasSeen
        /\ [Next]_vars =>
          [\A f \in FP : Reclaims(f) =>
              \A x \in Binding : binding[x].phase # "none" => binding[x].applied # f]_vars
    <2> SUFFICES ASSUME TypeOK, RecordsInv, NewestIsCurrent, AppliedWasSeen, [Next]_vars,
                        NEW f \in FP, Reclaims(f), NEW x \in Binding
                 PROVE  binding[x].applied # f
      BY DEF OrderInv
    <2>1. Len(ac.hist) \in 1 .. Len(ac.hist) /\ Oldest(ac).fp = f /\ f \notin seen.applied
      BY ReclaimsOldest
    <2>2. pc = "reclaimLoop" /\ b # NoFP
      BY DEF Reclaims, TypeOK
    <2>3. Below(ac.hist, b)
      BY <2>2 DEF NewestIsCurrent, Newest, Old
    <2>4. f < b
      BY <2>1, <2>3 DEF Below, Oldest
    <2>5. f \in Nat /\ f # NoFP /\ b \in Nat
      BY MaxGenAssumption, NewestType
    <2> QED BY <2>1, <2>2, <2>4, <2>5 DEF AppliedWasSeen
  <1>4. RecordBeforeUpload /\ RecordsInv => RecordsInv
    OBVIOUS
  <1> QED BY <1>1, <1>2, <1>3, <1>4, TypeCorrect, RecordsHold, OrderHolds, NoRollbacks, PTL
          DEF Spec, ReclaimSparesBound
-----------------------------------------------------------------------------
(* The current certId is in CAS *)

\* A CR that exists and is not being deleted was so before.
LEMMA ApiOnlyEnds ==
  ASSUME TypeOK, [Next]_vars, api'.exists, ~api'.deleting
  PROVE  api.exists /\ ~api.deleting
  <1>0. api \in Meta
    BY DEF TypeOK
  <1>a. ASSUME UNCHANGED api PROVE api.exists /\ ~api.deleting
    BY <1>a
  <1> USE DEF crVars
  <1>1. CASE UNCHANGED vars
    BY <1>1, <1>a DEF vars
  <1>2. CASE Round
    <2>1. CASE AddFinalizer
      BY <1>0, <2>1 DEF AddFinalizer, Meta
    <2>2. CASE Round /\ ~AddFinalizer
      BY <2>2, <1>a, Zenon DEF Round, BeginRoundNotIssued, BeginRoundIssued, ProbeSkipped,
            ProbeFound, ProbeMissing, EnsureShortCircuit, EnsureRefresh, EnsureFails, UploadNew,
            UploadClaim, UploadFails, ReclaimList, ReclaimOldest, ReclaimFails, ReclaimStops,
            PatchStatus
    <2> QED BY <1>2, <2>1, <2>2
  <1>3. CASE Deletion
    <2>1. CASE RemoveFinalizer
      BY <2>1, <1>a DEF RemoveFinalizer, Gone
    <2>2. CASE Deletion /\ ~RemoveFinalizer
      BY <2>2, <1>a, Zenon DEF Deletion, DeleteBlocked, DeleteStarts, DeleteResumes,
            CleanupDelete, CleanupFails, CleanupDone, PatchCleaned, DeleteCertificate,
            DeleteSecret
    <2> QED BY <1>3, <2>1, <2>2
  <1>4. CASE Environment
    <2>1. CASE ToggleUpload \/ RenameDomain
      BY <1>0, <2>1 DEF ToggleUpload, RenameDomain, Meta
    <2>2. CASE DeleteCR
      BY <1>0, <2>2 DEF DeleteCR, Meta, Gone
    <2>3. CASE BindingStep
      BY <2>3, <1>a DEF BindingStep, EditBinding, BindingApplies, BindingObserves,
                        DeleteBinding, BindingGone, SetBinding
    <2>4. CASE Crash \/ RoundAborts \/ CacheSync \/ CertCacheSync \/ Issue \/ RollbackSecret
               \/ HandDelete \/ CollectCertificate \/ ProbeIntervalPasses
               \/ GracePeriodPasses \/ Stabilise
      BY <2>4, <1>a, Zenon DEF Crash, RoundAborts, CacheSync, CertCacheSync, Issue,
            RollbackSecret, HandDelete, CollectCertificate, ProbeIntervalPasses,
            GracePeriodPasses, Stabilise
    <2> QED BY <1>4, <2>1, <2>2, <2>3, <2>4 DEF Environment
  <1> QED BY <1>1, <1>2, <1>3, <1>4 DEF Next

\* The round goes on, and the server's generations stay.
LEMMA ValidGoesOn ==
  ASSUME StatusInOrder, UNCHANGED <<b, lastGen>>,
         status'.cur = status.cur, status'.hist = status.hist,
         cstatus'.cur = cstatus.cur, cstatus'.hist = cstatus.hist,
         InCAS(cas', status'.cur), Ordered(ac'), pc' \notin DeleteSteps,
         pc' \in {"probe", "ensure"} => (ac'.cur.fp = b => status.cur.fp \in {NoFP, b}),
         pc' \in {"reclaim", "reclaimLoop"} => Kept' \/ Advanced',
         pc' = "patch" => Unmoved' \/ Kept' \/ Advanced'
  PROVE  StatusInOrder'
  <1>1. Newest' = Newest
    BY DEF Newest
  <1>2. Ordered(status') /\ Ordered(cstatus')
    BY DEF StatusInOrder, Ordered
  <1> QED BY <1>1, <1>2 DEF StatusInOrder

\* The round ends: the current generation on the server is what it was, or the
\* bundle's.
LEMMA ValidEnds ==
  ASSUME TypeOK, TypeOK', NewestIsCurrent, StatusInOrder, EndRound, lastGen' = lastGen,
         Ordered(status'), InCAS(cas', status'.cur),
         status'.cur.fp \in {status.cur.fp, b},
         cstatus' \in {cstatus, status'}
  PROVE  StatusInOrder'
  <1>1. /\ Newest' = lastGen /\ Newest \in Nat /\ lastGen \in Nat /\ Newest <= lastGen
        /\ b \in Nat /\ (b # NoFP => Newest = b)
    BY NewestType DEF Newest, EndRound
  <1>2. Ordered(NoStatus) /\ NoStatus \in Status
    BY OldNone, NoStatusType
  <1>3. Ordered(cstatus')
    BY DEF StatusInOrder
  <1>4. cstatus'.cur.fp = Newest' => status'.cur.fp \in {NoFP, Newest'}
    <2>1. CASE cstatus' = status'
      BY <2>1
    <2>2. CASE cstatus' = cstatus
      <3>1. cstatus.cur.fp \in Nat /\ cstatus.cur.fp <= Newest
        BY FpType DEF TypeOK, NewestIsCurrent, Old
      <3>2. ASSUME cstatus.cur.fp = lastGen PROVE Newest = lastGen
        BY <1>1, <3>1, <3>2
      <3> QED BY <1>1, <2>2, <3>2 DEF StatusInOrder
    <2> QED BY <2>1, <2>2
  <1>5. pc' = "idle" /\ ac' = NoStatus /\ "idle" \notin DeleteSteps
    BY DEF EndRound, DeleteSteps
  <1> QED BY <1>2, <1>3, <1>4, <1>5 DEF StatusInOrder

\* With keepLast above one the retention loop leaves the generation current on
\* the server alone, and the one the round has made current.
LEMMA ReclaimKeeps ==
  ASSUME KeepLast > 1, TypeOK, RecordsInv, NewestIsCurrent, StatusInOrder,
         pc = "reclaimLoop", Excess(ac), cas' = CasWithout(Oldest(ac).id),
         NEW f \in FP, f \in {b, status.cur.fp}
  PROVE  cas'[f] = cas[f]
  <1>0. /\ cas \in [FP -> Nat] /\ ac \in Status /\ b # NoFP /\ b \in Nat /\ f \in Nat
        /\ Len(ac.hist) \in Nat /\ KeepLast \in Nat
    BY NewestType, KeepLastAssumption, MaxGenAssumption DEF TypeOK, Status
  <1>1. Len(ac.hist) > 1 /\ 1 \in 1 .. Len(ac.hist) /\ Len(ac.hist) \in 1 .. Len(ac.hist)
    BY <1>0 DEF Excess
  <1>2. CASE cas[f] = NoId \/ cas[f] # Oldest(ac).id
    BY <1>0, <1>2 DEF CasWithout
  <1>3. CASE cas[f] # NoId /\ cas[f] = Oldest(ac).id
    <2>1. Oldest(ac).fp = f
      <3>1. IdMeans(ac.hist, cas[f], f)
        BY <1>3 DEF RecordsInv, IdsInv, OwnIds
      <3> QED BY <1>1, <1>3, <3>1 DEF IdMeans, Oldest
    <2>2. f < b
      <3>1. Below(ac.hist, b)
        BY <1>0 DEF NewestIsCurrent, Newest, Old
      <3> QED BY <1>1, <2>1, <3>1 DEF Below, Oldest
    <2>3. f = status.cur.fp /\ f # b /\ f # NoFP
      BY <1>0, <2>2
    <2>4. Advanced
      BY <2>3 DEF StatusInOrder, Kept
    <2>5. ac.hist[1].fp = f
      BY <2>3, <2>4 DEF Advanced
    <2>6. Oldest(ac).fp < ac.hist[1].fp
      BY <1>1 DEF StatusInOrder, Ordered, Falling, Oldest
    <2> QED BY <1>0, <2>1, <2>5, <2>6
  <1> QED BY <1>2, <1>3

\* A certId that is in CAS stays so when the certificate stays.
LEMMA InCASKept ==
  ASSUME NEW g \in Gen, NEW c, NEW d, InCAS(c, g), g.fp \in FP => d[g.fp] = c[g.fp]
  PROVE  InCAS(d, g)
  BY DEF InCAS, Gen

\* A step of a normal round keeps the status in order.
LEMMA RoundValid ==
  ASSUME KeepLast > 1, TypeOK, TypeOK', RecordsInv, NewestIsCurrent, StatusInOrder, Round
  PROVE  StatusInOrder'
  <1> USE DEF crVars, cacheVars, issuerVars, cloudVars, roundVars, envVars
  <1>0. /\ status \in Status /\ cstatus \in Status /\ ac \in Status /\ orig \in Status
        /\ status.cur \in Gen /\ ac.cur \in Gen /\ b \in Nat
        /\ cas \in [FP -> Nat] /\ nextId \in Nat /\ Newest \in Nat
        /\ (pc \in {"probe", "ensure", "upload", "reclaim", "reclaimLoop"}
              => Newest = b /\ b \in FP)
    <2>1. b \in 0 .. lastGen /\ lastGen \in 0 .. MaxGen
      BY DEF TypeOK
    <2>2. b # NoFP => b \in FP
      BY <2>1, MaxGenAssumption
    <2> QED BY <2>2, NewestType DEF TypeOK, Status, Newest
  <1>1. /\ Ordered(status) /\ Ordered(cstatus) /\ Ordered(ac) /\ InCAS(cas, status.cur)
        /\ Old(status, Newest) /\ Old(ac, Newest)
    BY DEF StatusInOrder, NewestIsCurrent
  \* Steps in which the working copy keeps its generations.
  <1>a. ASSUME UNCHANGED <<b, lastGen, status, cstatus, orig>>, pc' \notin DeleteSteps,
               ac'.cur = ac.cur, ac'.hist = ac.hist, InCAS(cas', status.cur),
               pc' \in {"probe", "ensure"} => pc \in {"probe", "ensure"},
               pc' \in {"reclaim", "reclaimLoop"} => Kept' \/ Advanced',
               pc' = "patch" => Unmoved' \/ Kept' \/ Advanced'
        PROVE  StatusInOrder'
    <2>1. Ordered(ac')
      BY <1>1, <1>a DEF Ordered
    <2> QED BY <1>a, <2>1, ValidGoesOn DEF StatusInOrder
  <1>2. CASE AddFinalizer
    <2>1. UNCHANGED <<b, lastGen, status, cstatus, orig, ac, pc, cas>>
      BY <1>2 DEF AddFinalizer
    <2> QED BY <2>1 DEF StatusInOrder, Newest, Kept, Advanced, Unmoved
  <1>3. CASE BeginRoundNotIssued \/ BeginRoundIssued
    <2>1. /\ pc = "idle" /\ ac'.cur = cstatus.cur /\ ac'.hist = cstatus.hist /\ orig' = cstatus
          /\ \/ pc' = "patch" /\ b' = b
             \/ pc' = "probe" /\ b' = secret /\ secret # NoFP
          /\ UNCHANGED <<status, cstatus, secret, lastGen, cas>>
      BY <1>3, BeginFields
    <2>2. Newest' = Newest /\ (pc' = "probe" => b' = Newest)
      BY <2>1 DEF NewestIsCurrent, Newest
    <2>3. Ordered(ac') /\ pc' \notin DeleteSteps
      BY <1>1, <2>1 DEF Ordered, DeleteSteps
    <2>4. pc' = "patch" => Unmoved'
      BY <2>1 DEF Unmoved
    <2> QED BY <1>1, <2>1, <2>2, <2>3, <2>4 DEF StatusInOrder
  <1>4. CASE ProbeSkipped \/ ProbeFound
    <2>1. ac'.cur = ac.cur /\ ac'.hist = ac.hist
      <3>1. Same([ac EXCEPT !.probed = TRUE], ac)
        BY <1>0, CondsSame
      <3> QED BY <1>4, <3>1 DEF ProbeSkipped, ProbeFound, Same
    <2> QED BY <1>1, <1>4, <2>1, <1>a DEF ProbeSkipped, ProbeFound, DeleteSteps
  <1>5. CASE ProbeMissing
    <2>1. pc = "probe" /\ UNCHANGED <<b, lastGen, cstatus, cas>>
      BY <1>5 DEF ProbeMissing
    <2>2. SameRecords(ac, orig)
      BY <2>1 DEF RecordsInv, RoundRecords
    <2>3. /\ status'.cur.fp \in {NoFP, status.cur.fp} /\ status'.cur.id = NoId
          /\ status'.hist = status.hist
          /\ ac' = status' /\ orig' = status' /\ pc' = "ensure"
      BY <1>5, <2>2, ProbeMissingFields DEF NoGen
    <2>4. Ordered(status') /\ InCAS(cas', status'.cur)
      BY <1>1, <2>3 DEF Ordered, InCAS
    <2>5. Newest' = Newest
      BY <2>1 DEF Newest
    <2> QED BY <2>1, <2>3, <2>4, <2>5 DEF StatusInOrder, DeleteSteps
  <1>6. CASE EnsureShortCircuit
    <2>1. ac'.cur = ac.cur /\ ac'.hist = ac.hist
      <3>1. acSpec.upload \in BOOLEAN
        BY DEF TypeOK, SpecFields
      <3> QED BY <1>0, <1>6, <3>1, AggregateSame DEF EnsureShortCircuit, Same
    <2>2. Kept'
      BY <1>6, <2>1 DEF EnsureShortCircuit, Kept, StatusInOrder, RecordsInv, RoundRecords,
                        SameRecords
    <2> QED BY <1>1, <1>6, <2>1, <2>2, <1>a DEF EnsureShortCircuit, DeleteSteps
  <1>7. CASE EnsureRefresh
    <2>0. UNCHANGED <<b, lastGen, cstatus, cas>> /\ Newest = b
      BY <1>0, <1>7 DEF EnsureRefresh
    <2>1. /\ orig'.cur = status.cur /\ orig'.hist = status.hist
          /\ status'.cur = status.cur /\ status'.hist = status.hist
          /\ SameRecords(orig', status')
          /\ \/ pc' = "reclaim" /\ status.cur.fp = b
                /\ ac'.cur = status.cur /\ ac'.hist = status.hist
             \/ /\ pc' = "reclaim" /\ status.cur.fp # b
                /\ ac'.cur = [fp |-> b, id |-> NoId]
                /\ ac'.hist = IF status.cur.fp # NoFP THEN <<status.cur>> \o status.hist
                                                      ELSE status.hist
             \/ pc' = "upload" /\ status.cur.fp # b
                /\ ac'.cur = status.cur /\ ac'.hist = status.hist
      BY <1>7, RefreshFields
    <2>2. CASE ac'.cur = status.cur /\ ac'.hist = status.hist
      <3>1. Ordered(ac')
        BY <1>1, <2>2 DEF Ordered
      <3>2. pc' = "reclaim" => Kept'
        BY <2>0, <2>1, <2>2 DEF Kept
      <3>3. pc' \in {"reclaim", "upload"} /\ pc' \notin DeleteSteps
        BY <2>1 DEF DeleteSteps
      <3> QED BY <1>1, <2>0, <2>1, <3>1, <3>2, <3>3, ValidGoesOn
    <2>3. CASE /\ pc' = "reclaim" /\ status.cur.fp # b
               /\ ac'.cur = [fp |-> b, id |-> NoId]
               /\ ac'.hist = IF status.cur.fp # NoFP THEN <<status.cur>> \o status.hist
                                                     ELSE status.hist
      <3>1. /\ Ordered(ac')
            /\ status.cur.fp # NoFP => ac'.hist # <<>> /\ ac'.hist[1] = status.cur
        BY <1>0, <1>1, <2>0, <2>3, OldAdvance
      <3>2. Advanced'
        BY <2>0, <2>1, <2>3, <3>1 DEF Advanced, InCAS
      <3> QED BY <1>1, <2>0, <2>1, <2>3, <3>1, <3>2, ValidGoesOn DEF DeleteSteps
    <2> QED BY <2>1, <2>2, <2>3
  <1>8. CASE EnsureFails
    <2>0. UNCHANGED <<b, lastGen, cstatus, cas>> /\ pc = "ensure"
      BY <1>8 DEF EnsureFails
    <2>1. /\ pc' = "patch" /\ status'.cur = status.cur /\ status'.hist = status.hist
          /\ \/ /\ ac'.cur = ac.cur /\ ac'.hist = ac.hist /\ orig' = orig
             \/ /\ ac'.cur = status.cur /\ ac'.hist = status.hist
                /\ orig'.cur = status.cur /\ orig'.hist = status.hist
      BY <1>8, FailFields
    <2>2. Unmoved'
      BY <2>0, <2>1 DEF Unmoved, RecordsInv, RoundRecords, SameRecords
    <2>3. Ordered(ac')
      BY <1>1, <2>1 DEF Ordered
    <2> QED BY <1>1, <2>0, <2>1, <2>2, <2>3, ValidGoesOn DEF DeleteSteps
  <1>9. CASE UploadNew \/ UploadClaim \/ UploadFails
    <2>0. /\ UNCHANGED <<b, lastGen, status, cstatus, orig>> /\ pc = "upload"
          /\ cas' = cas \/ (cas[b] = NoId /\ cas' = [cas EXCEPT ![b] = nextId])
      BY <1>9 DEF UploadNew, UploadClaim, UploadFails
    <2>1. /\ ac.cur.fp # b /\ Newest = b /\ b \in FP
          /\ SameRecords(ac, orig) /\ SameRecords(orig, status)
      BY <1>0, <2>0 DEF NewestIsCurrent, RecordsInv, RoundRecords
    <2>2. InCAS(cas', status.cur)
      <3>1. status.cur.fp \in FP => cas'[status.cur.fp] = cas[status.cur.fp]
        BY <1>0, <2>0, <2>1 DEF SameRecords
      <3> QED BY <1>0, <1>1, <3>1, InCASKept
    <2>3. CASE CloudError
      <3>1. pc' = "patch" /\ ac'.cur = ac.cur /\ ac'.hist = ac.hist
        BY <2>3, CloudErrorSame DEF Same
      <3>2. Unmoved'
        BY <2>0, <2>1, <3>1 DEF Unmoved, SameRecords
      <3> QED BY <2>0, <2>2, <3>1, <3>2, <1>a DEF DeleteSteps
    <2>4. ASSUME NEW id \in Nat, Uploaded(id), cas'[b] = id PROVE StatusInOrder'
      <3>1. /\ ac'.cur = [fp |-> b, id |-> id] /\ pc' = "reclaim"
            /\ ac'.hist = IF ac.cur.fp # NoFP THEN <<ac.cur>> \o ac.hist ELSE ac.hist
        BY <2>4, UploadedFields
      <3>2. /\ Ordered(ac')
            /\ ac.cur.fp # NoFP => ac'.hist # <<>> /\ ac'.hist[1] = ac.cur
        BY <1>0, <1>1, <2>1, <3>1, OldAdvance
      <3>3. InCAS(cas', ac'.cur)
        BY <2>1, <2>4, <3>1 DEF InCAS
      <3>4. SameRecords(orig', status') /\ ac.cur = status.cur
        BY <2>0, <2>1 DEF SameRecords
      <3>5. Advanced'
        BY <2>0, <3>1, <3>2, <3>3, <3>4 DEF Advanced
      <3> QED BY <2>0, <2>2, <3>1, <3>2, <3>5, ValidGoesOn DEF DeleteSteps
    <2>5. CASE UploadNew
      <3>1. cas'[b] = nextId
        BY <1>0, <2>1, <2>5 DEF UploadNew
      <3> QED BY <1>0, <2>3, <2>4, <2>5, <3>1 DEF UploadNew
    <2>6. CASE UploadClaim
      <3>1. \A id \in FindByName(b) : id \in Nat /\ id = cas[b]
        BY <1>0, <2>1 DEF FindByName
      <3>2. cas' = cas
        BY <2>6 DEF UploadClaim
      <3> QED BY <2>4, <2>6, <3>1, <3>2 DEF UploadClaim
    <2>7. CASE UploadFails
      BY <2>3, <2>7 DEF UploadFails
    <2> QED BY <1>9, <2>5, <2>6, <2>7
  <1>10. CASE ReclaimList \/ ReclaimFails \/ ReclaimStops \/ ReclaimOldest
    <2>0. /\ UNCHANGED <<b, lastGen, status, cstatus, orig>>
          /\ pc \in {"reclaim", "reclaimLoop"}
          /\ \/ GoPatch(ac)
             \/ ac' = ac /\ pc' = "reclaimLoop"
             \/ ac' = DropOldest(ac) /\ pc' = "reclaimLoop" /\ Excess(ac)
      BY <1>10 DEF ReclaimList, ReclaimFails, ReclaimStops, ReclaimOldest
    <2>1. /\ ac'.cur = ac.cur /\ pc' \in {"patch", "reclaimLoop"} /\ Ordered(ac')
          /\ ac'.hist = ac.hist \/ (ac'.hist # <<>> /\ ac'.hist[1] = ac.hist[1])
      <3>1. CASE GoPatch(ac) \/ (ac' = ac /\ pc' = "reclaimLoop")
        BY <1>1, <3>1, CloudErrorSame DEF Same, Ordered
      <3>2. CASE ac' = DropOldest(ac) /\ pc' = "reclaimLoop" /\ Excess(ac)
        <4>1. ac.hist # <<>> /\ Len(ac.hist) > 1
          BY <1>0, <3>2, KeepLastAssumption DEF Excess, Status
        <4> QED BY <1>0, <1>1, <3>2, <4>1, OldDrop, DropFields
      <3> QED BY <2>0, <3>1, <3>2
    <2>2. \A f \in FP : f \in {b, status.cur.fp} => cas'[f] = cas[f]
      <3>1. \/ cas' = cas
            \/ pc = "reclaimLoop" /\ Excess(ac) /\ cas' = CasWithout(Oldest(ac).id)
        BY <1>10 DEF ReclaimList, ReclaimFails, ReclaimStops, ReclaimOldest
      <3> QED BY <3>1, ReclaimKeeps
    <2>3. InCAS(cas', status.cur)
      BY <1>0, <1>1, <2>2, InCASKept
    <2>4. Kept \/ Advanced
      BY <2>0 DEF StatusInOrder
    <2>5. Kept => Kept'
      BY <2>0, <2>1 DEF Kept
    <2>6. Advanced => Advanced'
      <3> SUFFICES ASSUME Advanced PROVE Advanced'
        OBVIOUS
      <3>1. InCAS(cas', ac.cur)
        BY <1>0, <2>2, InCASKept DEF Advanced
      <3>2. status.cur.fp # NoFP => ac'.hist # <<>> /\ ac'.hist[1] = status.cur
        BY <2>1 DEF Advanced
      <3> QED BY <2>0, <2>1, <3>1, <3>2 DEF Advanced
    <2> QED BY <2>0, <2>1, <2>3, <2>4, <2>5, <2>6, ValidGoesOn DEF DeleteSteps
  <1>11. CASE PatchStatus
    <2>0. /\ pc = "patch" /\ status' = MergePatch(status, orig, ac) /\ EndRound
          /\ UNCHANGED <<lastGen, cstatus, cas>>
      BY <1>11 DEF PatchStatus
    <2>1. /\ ac.cur = orig.cur => status'.cur = status.cur
          /\ status.cur = orig.cur => status'.cur = ac.cur
          /\ status'.hist = IF ac.hist = orig.hist THEN status.hist ELSE ac.hist
      BY <1>0, <2>0, MergeFields
    <2>2. /\ Ordered(status') /\ InCAS(cas', status'.cur)
          /\ status'.cur.fp \in {status.cur.fp, b}
      <3>1. CASE Unmoved
        BY <1>1, <2>0, <2>1, <3>1 DEF Unmoved, Ordered
      <3>2. CASE Kept
        <4>1. status'.cur = status.cur
          BY <2>1, <3>2 DEF Kept
        <4>2. status.cur.fp # NoFP => Below(ac.hist, status.cur.fp)
          BY <1>1, <3>2 DEF Kept, Old, Newest
        <4> QED BY <1>1, <2>0, <2>1, <4>1, <4>2 DEF Ordered
      <3>3. CASE Advanced
        <4>1. status'.cur = ac.cur /\ status'.hist = ac.hist
          BY <2>1, <3>3 DEF Advanced, SameRecords
        <4> QED BY <1>1, <2>0, <3>3, <4>1 DEF Advanced, Ordered
      <3> QED BY <2>0, <3>1, <3>2, <3>3 DEF StatusInOrder
    <2> QED BY <2>0, <2>2, ValidEnds
  <1> QED BY <1>2, <1>3, <1>4, <1>5, <1>6, <1>7, <1>8, <1>9, <1>10, <1>11 DEF Round

\* No deletion round runs on a CR that is not being deleted.
LEMMA DeletionNotValid ==
  ASSUME FinalizerHeld, StatusInOrder, api.exists, ~api.deleting, Deletion
  PROVE  FALSE
  <1>1. pc \notin DeleteSteps /\ ~capi.deleting
    BY DEF StatusInOrder, FinalizerHeld
  <1> QED BY <1>1 DEF Deletion, DeleteBlocked, DeleteStarts, DeleteResumes, CacheDeleting,
        CleanupDelete, CleanupFails, CleanupDone, PatchCleaned, DeleteCertificate,
        DeleteSecret, RemoveFinalizer, DeleteSteps

\* What happens around the round keeps the status in order.
LEMMA EnvironmentValid ==
  ASSUME MaxHandDeletes = 0, TypeOK, TypeOK', NewestIsCurrent, StatusInOrder,
         api'.exists, ~api'.deleting, Environment
  PROVE  StatusInOrder'
  <1> USE DEF crVars, cacheVars, issuerVars, cloudVars, roundVars, envVars
  <1>0. /\ status \in Status /\ cstatus \in Status /\ ac \in Status /\ orig \in Status
        /\ api \in Meta
    BY DEF TypeOK
  <1>1. Ordered(status) /\ InCAS(cas, status.cur)
    BY DEF StatusInOrder
  <1>a. ASSUME UNCHANGED <<b, lastGen, status, cstatus, ac, orig, pc, cas>>
        PROVE  StatusInOrder'
    BY <1>a DEF StatusInOrder, Newest, Kept, Advanced, Unmoved
  <1>2. CASE Crash \/ RoundAborts
    <2>1. EndRound /\ UNCHANGED <<lastGen, status, cas>> /\ cstatus' \in {cstatus, status'}
      BY <1>2 DEF Crash, RoundAborts
    <2> QED BY <1>1, <2>1, ValidEnds
  <1>3. CASE CacheSync
    <2>1. UNCHANGED <<b, lastGen, status, ac, orig, pc, cas>> /\ cstatus' = status
      BY <1>3 DEF CacheSync
    <2>2. Newest' = Newest
      BY <2>1 DEF Newest
    <2> QED BY <2>1, <2>2 DEF StatusInOrder, Kept, Advanced, Unmoved
  <1>4. CASE CertCacheSync \/ RollbackSecret \/ ToggleUpload \/ RenameDomain
             \/ CollectCertificate \/ GracePeriodPasses \/ Stabilise
    BY <1>4, <1>a DEF CertCacheSync, RollbackSecret, ToggleUpload, RenameDomain,
          CollectCertificate, GracePeriodPasses, Stabilise
  <1>5. CASE BindingStep
    BY <1>5, <1>a DEF BindingStep, EditBinding, BindingApplies, BindingObserves,
          DeleteBinding, BindingGone, SetBinding
  <1>6. CASE HandDelete
    <2>1. budget.handDeletes < 0 /\ budget.handDeletes \in Nat
      BY <1>6 DEF HandDelete, TypeOK
    <2> QED BY <2>1
  <1>7. CASE DeleteCR
    <2>1. api'.deleting \/ ~api'.exists
      BY <1>0, <1>7 DEF DeleteCR, Meta, Gone
    <2> QED BY <2>1
  <1>8. CASE Issue
    <2>1. /\ lastGen' = lastGen + 1
          /\ UNCHANGED <<status, cstatus, ac, orig, b, pc, cas>>
      BY <1>8 DEF Issue
    <2>2. Newest' = Newest \/ (Newest = lastGen /\ Newest' = lastGen + 1)
      BY <2>1 DEF Newest
    <2>3. cstatus.cur.fp \in Nat /\ cstatus.cur.fp <= Newest /\ lastGen \in Nat
      BY <1>0, FpType, NewestType DEF NewestIsCurrent, Old
    <2>4. cstatus.cur.fp = Newest' => status.cur.fp \in {NoFP, Newest'}
      BY <2>2, <2>3 DEF StatusInOrder
    <2> QED BY <2>1, <2>4 DEF StatusInOrder, Kept, Advanced, Unmoved
  <1>9. CASE ProbeIntervalPasses
    <2>1. /\ Same(status', status) /\ Same(cstatus', cstatus) /\ Same(ac', ac)
          /\ Same(orig', orig)
      BY <1>0, <1>9, CondsSame DEF ProbeIntervalPasses
    <2>2. UNCHANGED <<b, lastGen, pc, cas>>
      BY <1>9 DEF ProbeIntervalPasses
    <2>3. /\ Newest' = Newest /\ (Kept => Kept') /\ (Unmoved => Unmoved')
          /\ (Advanced => Advanced')
      BY <2>1, <2>2 DEF Same, Newest, Kept, Unmoved, Advanced, SameRecords
    <2>4. Ordered(status') /\ Ordered(cstatus') /\ Ordered(ac')
      BY <2>1 DEF StatusInOrder, Ordered, Same
    <2> QED BY <2>1, <2>2, <2>3, <2>4 DEF StatusInOrder, Same
  <1> QED BY <1>2, <1>3, <1>4, <1>5, <1>6, <1>7, <1>8, <1>9 DEF Environment

\* The certId published as status.current is in CAS under its generation, in
\* every state of a renewal and until the CR is deleted, for any number of
\* generations, crashes, lost answers, stale caches and edits of the spec.  It
\* takes keepLast above one (with one, retention.go deletes the previous
\* generation before the patch that replaces it), nobody who deletes CAS
\* certificates by hand, and no older Secret restored.
THEOREM CurrentIsInCAS ==
  ASSUME KeepLast > 1, MaxHandDeletes = 0
  PROVE  Spec => []CurrentIdValid
  <1>1. Init => ValidInv
    <2> SUFFICES ASSUME Init PROVE StatusInOrder
      BY DEF ValidInv
    <2>1. /\ status = NoStatus /\ cstatus = NoStatus /\ ac = NoStatus /\ pc = "idle"
      BY DEF Init
    <2>2. Ordered(NoStatus) /\ NoStatus.cur = NoGen /\ NoGen.id = NoId /\ NoGen.fp = NoFP
      BY OldNone DEF NoStatus, NoGen
    <2> QED BY <2>1, <2>2 DEF StatusInOrder, InCAS, DeleteSteps
  <1>2. TypeOK /\ FinalizerHeld /\ RecordsInv /\ OrderInv /\ ValidInv /\ [Next]_vars
          => ValidInv'
    <2> SUFFICES ASSUME TypeOK, FinalizerHeld, RecordsInv, OrderInv, ValidInv, [Next]_vars,
                        budget'.rollbacks = 0, api'.exists, ~api'.deleting
                 PROVE  StatusInOrder'
      BY DEF ValidInv
    <2>0. budget.rollbacks \in Nat
      BY DEF TypeOK
    <2>1. budget.rollbacks = 0
      BY <2>0, RollbacksCounted
    <2>2. api.exists /\ ~api.deleting
      BY ApiOnlyEnds
    <2>3. TypeOK' /\ NewestIsCurrent /\ StatusInOrder
      BY <2>1, <2>2, TypeStep DEF OrderInv, ValidInv
    <2>4. CASE UNCHANGED vars
      BY <2>3, <2>4 DEF vars, crVars, cacheVars, issuerVars, cloudVars, roundVars,
            StatusInOrder, Newest, Kept, Advanced, Unmoved
    <2>5. ~Deletion
      BY <2>2, <2>3, DeletionNotValid
    <2> QED BY <2>3, <2>4, <2>5, RoundValid, EnvironmentValid DEF Next
  <1>3. ValidInv => CurrentIdValid
    BY DEF ValidInv, StatusInOrder, InCAS, CurrentIdValid
  <1>4. RecordBeforeUpload /\ RecordsInv => RecordsInv
    OBVIOUS
  <1> QED BY <1>1, <1>2, <1>3, <1>4, TypeCorrect, FinalizerGuards, RecordsHold, OrderHolds, PTL
          DEF Spec
=============================================================================
