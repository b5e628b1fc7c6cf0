---------------------------- MODULE GaugesProofs -----------------------------
(***************************************************************************)
(* Theorems about the gauges and the lives of their objects, for every     *)
(* number of failed calls and restarts.                                    *)
(***************************************************************************)
EXTENDS Gauges, TLAPS

USE KindAssumption
-----------------------------------------------------------------------------
(* The inductive invariant, of one object: k the kind, o the object, c the
   cached copy, s its series, r the round, l the lag last measured, u whether
   the last verdict was not saved. *)

\* The finalizer a round or the cache has seen is on the object as long as there
\* is one: only the round that ends a deletion takes it off, and with it the object.
FinalizerStays(o, c, r) ==
    o.there /\ (r.pc # "idle" \/ (c.there /\ c.fin)) => o.fin

\* A series is held by an object with a finalizer, which Finish will take off.
\* Of a certificate, only when its last verdict reached the server.
SeriesHeld(k, o, s, u) ==
    s.on /\ (k = "bind" \/ ~u) => o.there /\ o.fin

\* A round of the binding controller works on the object as it is: nobody else
\* removes it or writes its status.
BindingLive(o, r) ==
    /\ r.pc # "idle" => o.there /\ r.base.ready = o.ready /\ r.base.started = o.started
    /\ r.pc \in {"start", "cleanup"} => r.ready = o.ready

\* A binding's gauges show its lag, and its readiness unless a patch failed.
BindingShown(o, s, l, u) ==
    /\ s.age \in {NoAge, l}
    /\ s.on /\ ~u => s.ready = o.ready

\* What holds of one object: live o, cached c, series s, round r, lag l, unsaved u.
Good(k, o, c, s, r, l, u) ==
    /\ FinalizerStays(o, c, r)
    /\ SeriesHeld(k, o, s, u)
    /\ k = "bind" => BindingLive(o, r) /\ BindingShown(o, s, l, u)

\* It holds of every object.
AllGood == \A k \in Kind : Good(k, obj[k], cached[k], series[k], rd[k], lag[k], unsaved[k])

\* The inductive invariant.
GaugesInv == TypeOK /\ AllGood

\* A step that is about one object.
OnlyAbout(k) ==
    /\ obj' \in [Kind -> Object] /\ cached' \in [Kind -> Object] /\ series' \in [Kind -> Series]
    /\ rd' \in [Kind -> Round] /\ lag' \in [Kind -> Lag \cup {NoAge}]
    /\ unsaved' \in [Kind -> BOOLEAN] /\ faults' \in 0 .. MaxFaults
    /\ \A j \in Kind \ {k} :
          /\ obj'[j] = obj[j] /\ cached'[j] = cached[j] /\ series'[j] = series[j]
          /\ rd'[j] = rd[j] /\ lag'[j] = lag[j] /\ unsaved'[j] = unsaved[j]
    /\ obj'[k].there \/ obj'[k] = Gone

\* It holds of the object after the step.
GoodNext(k) == Good(k, obj'[k], cached'[k], series'[k], rd'[k], lag'[k], unsaved'[k])

\* Such a step keeps the invariant if it keeps that object's part of it.
LEMMA OneObject ==
  ASSUME GaugesInv, NEW k \in Kind, OnlyAbout(k), GoodNext(k)
  PROVE  GaugesInv'
  <1>1. TypeOK'
    BY DEF OnlyAbout, GaugesInv, TypeOK
  <1>2. AllGood'
    <2> SUFFICES ASSUME NEW j \in Kind, j # k
                 PROVE  Good(j, obj'[j], cached'[j], series'[j], rd'[j], lag'[j], unsaved'[j])
      BY DEF AllGood, GoodNext
    <2> QED BY DEF OnlyAbout, GaugesInv, AllGood
  <1> QED BY <1>1, <1>2 DEF GaugesInv

\* The values of absent things.
LEMMA ConstantTypes ==
  /\ Gone \in Object /\ NoSeries \in Series /\ Idle \in Round
  /\ ~Gone.there /\ ~NoSeries.on /\ NoSeries.age = NoAge /\ Idle.pc = "idle"
  BY DEF Gone, Object, NoSeries, Series, Idle, Round, Lag, NoAge

\* The invariant read for one object.
LEMMA AtObject ==
  ASSUME GaugesInv, NEW k \in Kind
  PROVE  /\ obj[k] \in Object /\ cached[k] \in Object /\ series[k] \in Series
         /\ rd[k] \in Round /\ lag[k] \in Lag \cup {NoAge} /\ unsaved[k] \in BOOLEAN
         /\ obj[k].there \/ obj[k] = Gone
         /\ Good(k, obj[k], cached[k], series[k], rd[k], lag[k], unsaved[k])
  BY DEF GaugesInv, TypeOK, AllGood

\* A round begins on the object (binding) or on its cached copy (certificate).
LEMMA BeginStep ==
  ASSUME GaugesInv, NEW k \in Kind, Begin(k)
  PROVE  GaugesInv'
  <1> USE AtObject
  <1> DEFINE b == Read(k)
  <1>1. /\ rd[k].pc = "idle" /\ b.there /\ b.fin
        /\ UNCHANGED <<obj, cached, series, faults, lag, unsaved>>
    BY DEF Begin
  <1>2. PICK r \in Round :
            /\ rd' = [rd EXCEPT ![k] = r] /\ r.base = b
            /\ r.pc \in {"start", "cleanup"} => r.ready = b.ready
    <2>1. b \in Object
      BY DEF Read
    <2>2. CASE b.deleting
      <3> DEFINE r == [pc |-> IF b.started THEN "cleanup" ELSE "start",
                       base |-> b, ready |-> b.ready, lag |-> 0]
      <3>1. rd' = [rd EXCEPT ![k] = r]
        BY <2>2 DEF Begin
      <3>2. r \in Round
        BY <2>1 DEF Round, Lag, Object
      <3> QED BY <3>1, <3>2
    <2>3. CASE ~b.deleting
      <3>1. PICK v \in BOOLEAN, l \in Lag :
               rd' = [rd EXCEPT ![k] = [pc |-> "normal", base |-> b, ready |-> v,
                                        lag |-> IF k = "bind" THEN l ELSE NoAge]]
        BY <2>3 DEF Begin
      <3>2. [pc |-> "normal", base |-> b, ready |-> v, lag |-> IF k = "bind" THEN l ELSE NoAge] \in Round
        BY <2>1 DEF Round
      <3> QED BY <3>1, <3>2
    <2> QED BY <2>2, <2>3
  <1>3. rd'[k] = r /\ rd' \in [Kind -> Round] /\ \A j \in Kind \ {k} : rd'[j] = rd[j]
    BY <1>2 DEF GaugesInv, TypeOK
  <1>4. OnlyAbout(k)
    BY <1>1, <1>3 DEF OnlyAbout, GaugesInv, TypeOK
  <1>5. GoodNext(k)
    <2>1. FinalizerStays(obj[k], cached[k], r)
      BY <1>1 DEF Good, FinalizerStays, Read
    <2>2. k = "bind" => BindingLive(obj[k], r)
      BY <1>1, <1>2 DEF BindingLive, Read
    <2> QED BY <1>1, <1>3, <2>1, <2>2 DEF GoodNext, Good
  <1> QED BY <1>4, <1>5, OneObject

\* The finalizer is put on.
LEMMA AddFinalizerStep ==
  ASSUME GaugesInv, NEW k \in Kind, AddFinalizer(k)
  PROVE  GaugesInv'
  <1> USE AtObject
  <1> DEFINE b == Read(k)
             n == [b EXCEPT !.fin = TRUE]
  <1>1. /\ rd[k].pc = "idle" /\ b = obj[k] /\ obj' = [obj EXCEPT ![k].fin = TRUE] /\ b.there
        /\ ~b.fin
        /\ UNCHANGED <<cached, series, faults, lag, unsaved>>
    BY DEF AddFinalizer
  <1>2. /\ n \in Object /\ n.there /\ n.fin /\ n.ready = b.ready /\ n.started = b.started
        /\ obj'[k] = n /\ obj' \in [Kind -> Object] /\ \A j \in Kind \ {k} : obj'[j] = obj[j]
    <2>1. n \in Object /\ n.there /\ n.fin /\ n.ready = b.ready /\ n.started = b.started
      BY <1>1 DEF Object
    <2>2. obj' = [obj EXCEPT ![k] = n]
      BY <1>1
    <2> QED BY <2>1, <2>2 DEF GaugesInv, TypeOK
  <1>3. PICK r \in Round :
            /\ rd'[k] = r /\ rd' \in [Kind -> Round] /\ \A j \in Kind \ {k} : rd'[j] = rd[j]
            /\ k # "bind" => r = rd[k]
            /\ k = "bind" => r.pc = "normal" /\ r.base = n
    <2>1. CASE k = "bind"
      <3>1. PICK v \in BOOLEAN, l \in Lag :
               rd' = [rd EXCEPT ![k] = [pc |-> "normal", base |-> n, ready |-> v, lag |-> l]]
        BY <2>1 DEF AddFinalizer
      <3>2. [pc |-> "normal", base |-> n, ready |-> v, lag |-> l] \in Round
        BY <1>2 DEF Round
      <3> QED BY <2>1, <3>1, <3>2 DEF GaugesInv, TypeOK
    <2>2. CASE k # "bind"
      BY <2>2 DEF AddFinalizer, GaugesInv, TypeOK
    <2> QED BY <2>1, <2>2
  <1>4. OnlyAbout(k)
    BY <1>1, <1>2, <1>3 DEF OnlyAbout, GaugesInv, TypeOK
  <1>5. GoodNext(k)
    <2>1. FinalizerStays(n, cached[k], r) /\ SeriesHeld(k, n, series[k], unsaved[k])
      BY <1>2 DEF FinalizerStays, SeriesHeld
    <2>2. k = "bind" => BindingLive(n, r)
      BY <1>2, <1>3 DEF BindingLive
    <2>3. k = "bind" => BindingShown(n, series[k], lag[k], unsaved[k])
      <3>1. n.ready = obj[k].ready
        BY <1>1, <1>2
      <3> QED BY <3>1 DEF Good, BindingShown
    <2> QED BY <1>1, <1>2, <1>3, <2>1, <2>2, <2>3 DEF GoodNext, Good
  <1> QED BY <1>4, <1>5, OneObject

\* A status patch that reaches the object sets what the round changed.
LEMMA PatchLandsEffect ==
  ASSUME GaugesInv, NEW k \in Kind, NEW st \in BOOLEAN, NEW v \in BOOLEAN, PatchLands(k, st, v)
  PROVE  /\ obj[k].there /\ faults' = faults
         /\ obj' \in [Kind -> Object] /\ \A j \in Kind \ {k} : obj'[j] = obj[j]
         /\ obj'[k] \in Object /\ obj'[k].there /\ (obj'[k].fin <=> obj[k].fin)
         /\ obj'[k].ready = IF v # rd[k].base.ready THEN v ELSE obj[k].ready
         /\ obj'[k].started = IF st # rd[k].base.started THEN st ELSE obj[k].started
  <1> DEFINE o == obj[k]
             n == [o EXCEPT !.started = IF st # rd[k].base.started THEN st ELSE o.started,
                            !.ready = IF v # rd[k].base.ready THEN v ELSE o.ready]
  <1>1. o \in Object /\ obj \in [Kind -> Object]
    BY DEF GaugesInv, TypeOK
  <1>2. o.there /\ faults' = faults /\ obj' = [obj EXCEPT ![k] = n]
    BY <1>1 DEF PatchLands, Patched
  <1>3. /\ n \in Object /\ n.there = o.there /\ n.fin = o.fin
        /\ n.ready = IF v # rd[k].base.ready THEN v ELSE o.ready
        /\ n.started = IF st # rd[k].base.started THEN st ELSE o.started
    BY <1>1 DEF Object
  <1> HIDE DEF n
  <1>4. obj'[k] = n
    BY <1>1, <1>2
  <1> QED BY <1>1, <1>2, <1>3, <1>4

\* A status patch that does not leaves it as it is.
LEMMA PatchFailsEffect ==
  ASSUME GaugesInv, NEW k \in Kind, PatchFails(k)
  PROVE  obj' = obj /\ faults' \in 0 .. MaxFaults
  BY DEF PatchFails, GaugesInv, TypeOK

\* The verdict of a round is recorded and patched.
LEMMA RecordAndPatchStep ==
  ASSUME GaugesInv, NEW k \in Kind, NEW st \in BOOLEAN, NEW v \in BOOLEAN,
         NEW l \in Lag \cup {NoAge}, NEW landed \in Round,
         RecordAndPatch(k, st, v, l, landed, Idle), rd[k].pc # "idle",
         lag' \in [Kind -> Lag \cup {NoAge}], \A j \in Kind \ {k} : lag'[j] = lag[j],
         k = "bind" => landed = Idle /\ lag'[k] = l
  PROVE  GaugesInv'
  <1> USE AtObject
  <1> DEFINE ns == [on |-> TRUE, ready |-> v, age |-> l]
  <1>1. /\ cached' = cached /\ ns \in Series /\ series'[k] = ns /\ series' \in [Kind -> Series]
        /\ ns.on /\ ns.ready = v /\ ns.age = l
        /\ \A j \in Kind \ {k} : series'[j] = series[j]
    BY DEF RecordAndPatch, recordMetrics, Series, GaugesInv, TypeOK
  <1> HIDE DEF ns
  <1>2. CASE /\ PatchLands(k, st, v) /\ rd' = [rd EXCEPT ![k] = landed]
             /\ unsaved' = [unsaved EXCEPT ![k] = FALSE]
    <2>1. /\ rd'[k] = landed /\ rd' \in [Kind -> Round] /\ \A j \in Kind \ {k} : rd'[j] = rd[j]
          /\ ~unsaved'[k] /\ unsaved' \in [Kind -> BOOLEAN]
          /\ \A j \in Kind \ {k} : unsaved'[j] = unsaved[j]
      BY <1>2 DEF GaugesInv, TypeOK
    <2>2. OnlyAbout(k)
      BY <1>1, <1>2, <2>1, PatchLandsEffect DEF OnlyAbout, GaugesInv, TypeOK
    <2>3. obj'[k].there /\ obj'[k].fin
      BY <1>2, PatchLandsEffect DEF Good, FinalizerStays
    <2>4. k = "bind" => obj'[k].ready = v /\ landed.pc = "idle" /\ lag'[k] = l
      BY <1>2, PatchLandsEffect, ConstantTypes DEF Good, BindingLive
    <2>5. GoodNext(k)
      BY <1>1, <2>1, <2>3, <2>4
         DEF GoodNext, Good, FinalizerStays, SeriesHeld, BindingLive, BindingShown
    <2> QED BY <2>2, <2>5, OneObject
  <1>3. CASE /\ PatchFails(k) /\ rd' = [rd EXCEPT ![k] = Idle]
             /\ unsaved' = [unsaved EXCEPT ![k] = TRUE]
    <2>1. /\ rd'[k] = Idle /\ rd' \in [Kind -> Round] /\ \A j \in Kind \ {k} : rd'[j] = rd[j]
          /\ unsaved'[k] = TRUE /\ unsaved' \in [Kind -> BOOLEAN]
          /\ \A j \in Kind \ {k} : unsaved'[j] = unsaved[j]
      BY <1>3, ConstantTypes DEF GaugesInv, TypeOK
    <2>2. OnlyAbout(k)
      BY <1>1, <1>3, <2>1, PatchFailsEffect DEF OnlyAbout, GaugesInv, TypeOK
    <2>3. obj'[k] = obj[k] /\ (k = "bind" => obj[k].there /\ obj[k].fin /\ lag'[k] = l)
      BY <1>3, PatchFailsEffect DEF Good, BindingLive, FinalizerStays
    <2>4. GoodNext(k)
      BY <1>1, <2>1, <2>3, ConstantTypes
         DEF GoodNext, Good, FinalizerStays, SeriesHeld, BindingLive, BindingShown
    <2> QED BY <2>2, <2>4, OneObject
  <1> QED BY <1>2, <1>3 DEF RecordAndPatch

\* The end of a round on an object that is alive.
LEMMA EndNormalStep ==
  ASSUME GaugesInv, NEW k \in Kind, EndNormal(k)
  PROVE  GaugesInv'
  <1> DEFINE st == rd[k].base.started
             v == rd[k].ready
             l == rd[k].lag
  <1>1. st \in BOOLEAN /\ v \in BOOLEAN /\ l \in Lag \cup {NoAge} /\ rd[k].pc # "idle"
    BY AtObject DEF Round, Object, EndNormal
  <1>2. /\ lag' \in [Kind -> Lag \cup {NoAge}] /\ \A j \in Kind \ {k} : lag'[j] = lag[j]
        /\ lag'[k] = l
    BY <1>1 DEF EndNormal, GaugesInv, TypeOK
  <1>3. RecordAndPatch(k, st, v, l, Idle, Idle)
    BY DEF EndNormal
  <1> HIDE DEF st, v, l
  <1>4. Idle \in Round
    BY ConstantTypes
  <1> QED BY <1>1, <1>2, <1>3, <1>4, RecordAndPatchStep

\* The steps of a certificate's deletion that record.
LEMMA CertificateRecordSteps ==
  ASSUME GaugesInv, "cert" \in Kind,
         CertificateBlocked \/ CertificateStart \/ CertificateRetry \/ CertificateCleaned
  PROVE  GaugesInv'
  <1> DEFINE r == rd["cert"]
             started == [r EXCEPT !.pc = "cleanup", !.base.started = TRUE]
             cleaned == [r EXCEPT !.pc = "cleaned"]
  <1>1. r \in Round /\ r.base.started \in BOOLEAN /\ r.ready \in BOOLEAN /\ "cert" # "bind"
    BY AtObject DEF Round, Object
  <1>2. r.pc # "idle" /\ lag' = lag
    BY DEF CertificateBlocked, CertificateStart, CertificateRetry, CertificateCleaned
  <1>3. lag' \in [Kind -> Lag \cup {NoAge}] /\ \A j \in Kind \ {"cert"} : lag'[j] = lag[j]
    BY <1>2 DEF GaugesInv, TypeOK
  <1>4. started \in Round /\ cleaned \in Round
    BY <1>1 DEF Round, Object
  <1>5. \/ RecordAndPatch("cert", r.base.started, FALSE, NoAge, Idle, Idle)
        \/ RecordAndPatch("cert", TRUE, r.ready, NoAge, started, Idle)
        \/ RecordAndPatch("cert", TRUE, FALSE, NoAge, Idle, Idle)
        \/ RecordAndPatch("cert", TRUE, r.ready, NoAge, cleaned, Idle)
    BY DEF CertificateBlocked, CertificateStart, CertificateRetry, CertificateCleaned
  <1> HIDE DEF started, cleaned
  <1> QED BY <1>1, <1>2, <1>3, <1>4, <1>5, ConstantTypes, RecordAndPatchStep

\* Steps that only move the round on, or end it.
LEMMA RoundMoves ==
  ASSUME GaugesInv, NEW k \in Kind, NEW r \in Round, rd' = [rd EXCEPT ![k] = r],
         UNCHANGED <<obj, cached, series, lag, unsaved>>, faults' \in 0 .. MaxFaults,
         \/ r.pc = "idle"
         \/ /\ rd[k].pc # "idle" /\ r.base = rd[k].base
            /\ r.pc \notin {"start", "cleanup"}
  PROVE  GaugesInv'
  <1> USE AtObject
  <1>1. rd'[k] = r /\ rd' \in [Kind -> Round] /\ \A j \in Kind \ {k} : rd'[j] = rd[j]
    BY DEF GaugesInv, TypeOK
  <1>2. OnlyAbout(k)
    BY <1>1 DEF OnlyAbout, GaugesInv, TypeOK
  <1>3. GoodNext(k)
    BY <1>1 DEF GoodNext, Good, FinalizerStays, SeriesHeld, BindingLive, BindingShown
  <1> QED BY <1>2, <1>3, OneObject

\* Steps that only take a round to its finalizer.
LEMMA MoveSteps ==
  ASSUME GaugesInv,
         \/ "bind" \in Kind /\ (BindingOrphan \/ BindingUnbound)
         \/ "cert" \in Kind /\ (CertificateWaits \/ CertificateSecretGone)
         \/ \E k \in Kind : FinishFails(k)
  PROVE  GaugesInv'
  <1>1. ASSUME NEW k \in Kind, rd[k].pc # "idle", rd' = [rd EXCEPT ![k].pc = "finish"],
               UNCHANGED <<obj, cached, series, faults, lag, unsaved>>
        PROVE  GaugesInv'
    <2> DEFINE r == [rd[k] EXCEPT !.pc = "finish"]
    <2>1. r \in Round /\ r.pc = "finish" /\ r.base = rd[k].base
      BY AtObject DEF Round
    <2>2. rd' = [rd EXCEPT ![k] = r] /\ faults' \in 0 .. MaxFaults
      BY <1>1 DEF GaugesInv, TypeOK
    <2> HIDE DEF r
    <2> QED BY <1>1, <2>1, <2>2, RoundMoves
  <1>2. ASSUME "cert" \in Kind, CertificateWaits PROVE GaugesInv'
    BY <1>2, ConstantTypes, RoundMoves DEF CertificateWaits, GaugesInv, TypeOK
  <1>3. ASSUME NEW k \in Kind, FinishFails(k) PROVE GaugesInv'
    <2>1. faults' \in 0 .. MaxFaults
      BY <1>3 DEF FinishFails, GaugesInv, TypeOK
    <2> QED BY <1>3, <2>1, ConstantTypes, RoundMoves DEF FinishFails
  <1>4. ASSUME "bind" \in Kind, BindingOrphan \/ BindingUnbound PROVE GaugesInv'
    BY <1>1, <1>4 DEF BindingOrphan, BindingUnbound
  <1>5. ASSUME "cert" \in Kind, CertificateSecretGone PROVE GaugesInv'
    BY <1>1, <1>5 DEF CertificateSecretGone
  <1> QED BY <1>2, <1>3, <1>4, <1>5

\* A binding's cleanupStartedAt is saved: its verdict is not touched.
LEMMA BindingStartStep ==
  ASSUME GaugesInv, "bind" \in Kind, BindingStart
  PROVE  GaugesInv'
  <1> DEFINE k == "bind"
             r == [rd[k] EXCEPT !.pc = "cleanup", !.base.started = TRUE]
  <1>0. /\ rd[k].pc = "start" /\ rd[k] \in Round /\ rd[k].ready \in BOOLEAN
        /\ UNCHANGED <<cached, series, lag, unsaved>>
    BY AtObject DEF BindingStart, Round
  <1>1. CASE PatchFails(k) /\ rd' = [rd EXCEPT ![k] = Idle]
    BY <1>0, <1>1, ConstantTypes, PatchFailsEffect, RoundMoves
  <1>2. CASE PatchLands(k, TRUE, rd[k].ready) /\ rd' = [rd EXCEPT ![k] = r]
    <2>1. /\ r \in Round /\ r.pc = "cleanup" /\ r.ready = rd[k].ready
          /\ r.base.started = TRUE /\ r.base.ready = rd[k].base.ready
      BY <1>0 DEF Round, Object
    <2> HIDE DEF r
    <2>2. rd'[k] = r /\ rd' \in [Kind -> Round] /\ \A j \in Kind \ {k} : rd'[j] = rd[j]
      BY <1>2, <2>1 DEF GaugesInv, TypeOK
    <2>3. OnlyAbout(k)
      <3>1. /\ faults' = faults /\ obj' \in [Kind -> Object] /\ obj'[k].there
            /\ \A j \in Kind \ {k} : obj'[j] = obj[j]
        BY <1>0, <1>2, PatchLandsEffect
      <3> QED BY <1>0, <2>2, <3>1 DEF OnlyAbout, GaugesInv, TypeOK
    <2>4. /\ obj[k].there /\ rd[k].base.ready = obj[k].ready /\ rd[k].base.started = obj[k].started
          /\ rd[k].ready = obj[k].ready /\ obj[k].fin
      BY <1>0, AtObject DEF Good, BindingLive, FinalizerStays
    <2>5. /\ obj'[k].there /\ obj'[k].fin /\ obj'[k].ready = obj[k].ready
          /\ obj'[k].started = TRUE
      <3>1. rd[k].base.started \in BOOLEAN
        BY <1>0 DEF Round, Object
      <3>2. /\ obj'[k].there /\ (obj'[k].fin <=> obj[k].fin)
            /\ obj'[k].ready = IF rd[k].ready # rd[k].base.ready THEN rd[k].ready ELSE obj[k].ready
            /\ obj'[k].started = IF TRUE # rd[k].base.started THEN TRUE ELSE obj[k].started
        BY <1>0, <1>2, PatchLandsEffect
      <3> QED BY <2>4, <3>1, <3>2
    <2>6. FinalizerStays(obj'[k], cached'[k], rd'[k]) /\ SeriesHeld(k, obj'[k], series'[k], unsaved'[k])
      BY <2>5 DEF FinalizerStays, SeriesHeld
    <2>7. BindingLive(obj'[k], rd'[k])
      BY <2>1, <2>2, <2>4, <2>5 DEF BindingLive
    <2>8. BindingShown(obj'[k], series'[k], lag'[k], unsaved'[k])
      BY <1>0, <2>5, AtObject DEF Good, BindingShown
    <2>9. GoodNext(k)
      BY <2>6, <2>7, <2>8 DEF GoodNext, Good
    <2> QED BY <2>3, <2>9, OneObject
  <1> QED BY <1>1, <1>2 DEF BindingStart

\* A binding's cleanup is to be retried: Ready=False is saved and shown.
LEMMA BindingRetryStep ==
  ASSUME GaugesInv, "bind" \in Kind, BindingRetry
  PROVE  GaugesInv'
  <1> DEFINE k == "bind"
  <1>0. /\ rd[k].pc = "cleanup" /\ rd[k] \in Round /\ UNCHANGED <<cached, lag>>
        /\ rd' = [rd EXCEPT ![k] = Idle]
    BY AtObject DEF BindingRetry
  <1>1. CASE PatchFails(k) /\ UNCHANGED <<series, unsaved>>
    BY <1>0, <1>1, ConstantTypes, PatchFailsEffect, RoundMoves
  <1>2. CASE /\ PatchLands(k, TRUE, FALSE) /\ recordBindingReadiness(FALSE)
             /\ unsaved' = [unsaved EXCEPT ![k] = FALSE]
    <2> DEFINE ns == [series[k] EXCEPT !.on = TRUE, !.ready = FALSE]
    <2>1. ns \in Series /\ ns.on /\ ns.ready = FALSE /\ ns.age = series[k].age
      BY AtObject DEF Series
    <2>2. series' = [series EXCEPT ![k] = ns]
      BY <1>2 DEF recordBindingReadiness
    <2> HIDE DEF ns
    <2>3. /\ series'[k] = ns /\ series' \in [Kind -> Series]
          /\ \A j \in Kind \ {k} : series'[j] = series[j]
      BY <2>1, <2>2 DEF GaugesInv, TypeOK
    <2>4. /\ rd'[k].pc = "idle" /\ rd' \in [Kind -> Round] /\ \A j \in Kind \ {k} : rd'[j] = rd[j]
          /\ ~unsaved'[k] /\ unsaved' \in [Kind -> BOOLEAN]
          /\ \A j \in Kind \ {k} : unsaved'[j] = unsaved[j]
      BY <1>0, <1>2, ConstantTypes DEF GaugesInv, TypeOK
    <2>5. OnlyAbout(k)
      <3>1. /\ faults' = faults /\ obj' \in [Kind -> Object] /\ obj'[k].there
            /\ \A j \in Kind \ {k} : obj'[j] = obj[j]
        BY <1>0, <1>2, PatchLandsEffect
      <3> QED BY <1>0, <2>3, <2>4, <3>1 DEF OnlyAbout, GaugesInv, TypeOK
    <2>6. obj[k].there /\ rd[k].base.ready = obj[k].ready /\ obj[k].fin /\ obj[k].ready \in BOOLEAN
      BY <1>0, AtObject DEF Good, BindingLive, FinalizerStays, Object
    <2>7. obj'[k].there /\ obj'[k].fin /\ obj'[k].ready = FALSE
      BY <1>2, <2>6, PatchLandsEffect
    <2>8. series[k].age \in {NoAge, lag[k]}
      BY AtObject DEF Good, BindingShown
    <2>9. GoodNext(k)
      BY <1>0, <2>1, <2>3, <2>4, <2>7, <2>8
         DEF GoodNext, Good, FinalizerStays, SeriesHeld, BindingLive, BindingShown
    <2> QED BY <2>5, <2>9, OneObject
  <1> QED BY <1>1, <1>2 DEF BindingRetry

\* The end of a deletion takes the object and its series together.
LEMMA FinishStep ==
  ASSUME GaugesInv, NEW k \in Kind, Finish(k)
  PROVE  GaugesInv'
  <1>1. /\ obj'[k] = Gone /\ obj' \in [Kind -> Object] /\ \A j \in Kind \ {k} : obj'[j] = obj[j]
        /\ rd'[k] = Idle /\ rd' \in [Kind -> Round] /\ \A j \in Kind \ {k} : rd'[j] = rd[j]
        /\ UNCHANGED <<cached, faults, lag>>
    BY ConstantTypes DEF Finish, GaugesInv, TypeOK
  <1>2. /\ series'[k] = NoSeries /\ series' \in [Kind -> Series]
        /\ \A j \in Kind \ {k} : series'[j] = series[j]
        /\ unsaved' \in [Kind -> BOOLEAN] /\ \A j \in Kind \ {k} : unsaved'[j] = unsaved[j]
    BY ConstantTypes DEF Finish, clearMetrics, GaugesInv, TypeOK
  <1>3. OnlyAbout(k)
    BY <1>1, <1>2 DEF OnlyAbout, GaugesInv, TypeOK
  <1>4. GoodNext(k)
    BY <1>1, <1>2, ConstantTypes
       DEF GoodNext, Good, FinalizerStays, SeriesHeld, BindingLive, BindingShown
  <1> QED BY <1>3, <1>4, OneObject

\* An object is made where the cache sees none and no round is under way.
LEMMA CreateStep ==
  ASSUME GaugesInv, NEW k \in Kind, Create(k)
  PROVE  GaugesInv'
  <1> DEFINE n == [Gone EXCEPT !.there = TRUE]
  <1>1. n \in Object /\ n.there /\ n.ready = FALSE /\ ~n.fin
    BY DEF Gone, Object
  <1>2. obj' = [obj EXCEPT ![k] = n] /\ ~obj[k].there /\ ~cached[k].there /\ rd[k].pc = "idle"
        /\ UNCHANGED <<cached, series, rd, faults, lag, unsaved>>
    BY DEF Create
  <1> HIDE DEF n
  <1>3. obj'[k] = n /\ obj' \in [Kind -> Object] /\ \A j \in Kind \ {k} : obj'[j] = obj[j]
    BY <1>1, <1>2 DEF GaugesInv, TypeOK
  <1>4. OnlyAbout(k)
    BY <1>1, <1>2, <1>3 DEF OnlyAbout, GaugesInv, TypeOK
  <1>5. /\ series[k].on => k # "bind" /\ unsaved[k]
        /\ k = "bind" => series[k].age \in {NoAge, lag[k]}
    BY <1>2, AtObject DEF Good, SeriesHeld, BindingShown
  <1>6. GoodNext(k)
    BY <1>1, <1>2, <1>3, <1>5
       DEF GoodNext, Good, FinalizerStays, SeriesHeld, BindingLive, BindingShown
  <1> QED BY <1>4, <1>6, OneObject

\* A deletion by the user marks an object that has a finalizer; one that has none
\* has no series either.
LEMMA DeleteStep ==
  ASSUME GaugesInv, NEW k \in Kind, Delete(k)
  PROVE  GaugesInv'
  <1> DEFINE o == obj[k]
             n == [o EXCEPT !.deleting = TRUE]
  <1>0. /\ o \in Object /\ o.there /\ UNCHANGED <<cached, series, rd, faults, lag, unsaved>>
        /\ FinalizerStays(o, cached[k], rd[k]) /\ SeriesHeld(k, o, series[k], unsaved[k])
        /\ k = "bind" => BindingLive(o, rd[k]) /\ BindingShown(o, series[k], lag[k], unsaved[k])
    BY AtObject DEF Delete, Good
  <1>1. CASE o.fin
    <2>1. /\ n \in Object /\ n.there /\ n.fin /\ n.ready = o.ready /\ n.started = o.started
      BY <1>0, <1>1 DEF Object
    <2>2. obj' = [obj EXCEPT ![k] = n]
      BY <1>1 DEF Delete
    <2> HIDE DEF n
    <2>3. obj'[k] = n /\ obj' \in [Kind -> Object] /\ \A j \in Kind \ {k} : obj'[j] = obj[j]
      BY <2>1, <2>2 DEF GaugesInv, TypeOK
    <2>4. OnlyAbout(k)
      BY <1>0, <2>1, <2>3 DEF OnlyAbout, GaugesInv, TypeOK
    <2>5. GoodNext(k)
      BY <1>0, <2>1, <2>3
         DEF GoodNext, Good, FinalizerStays, SeriesHeld, BindingLive, BindingShown
    <2> QED BY <2>4, <2>5, OneObject
  <1>2. CASE ~o.fin
    <2>1. obj'[k] = Gone /\ obj' \in [Kind -> Object] /\ \A j \in Kind \ {k} : obj'[j] = obj[j]
      BY <1>2, ConstantTypes DEF Delete, GaugesInv, TypeOK
    <2>2. OnlyAbout(k)
      BY <1>0, <2>1 DEF OnlyAbout, GaugesInv, TypeOK
    <2>3. rd[k].pc = "idle" /\ (series[k].on => k # "bind" /\ unsaved[k])
      BY <1>0, <1>2 DEF FinalizerStays, SeriesHeld
    <2>4. GoodNext(k)
      BY <1>0, <2>1, <2>3, ConstantTypes
         DEF GoodNext, Good, FinalizerStays, SeriesHeld, BindingLive, BindingShown
    <2> QED BY <2>2, <2>4, OneObject
  <1> QED BY <1>1, <1>2

\* The cache catches up with the server.
LEMMA SyncCacheStep ==
  ASSUME GaugesInv, NEW k \in Kind, SyncCache(k)
  PROVE  GaugesInv'
  <1>1. /\ cached'[k] = obj[k] /\ cached' \in [Kind -> Object]
        /\ \A j \in Kind \ {k} : cached'[j] = cached[j]
        /\ UNCHANGED <<obj, series, rd, faults, lag, unsaved>>
    BY DEF SyncCache, GaugesInv, TypeOK
  <1>2. OnlyAbout(k)
    BY <1>1 DEF OnlyAbout, GaugesInv, TypeOK
  <1>3. GoodNext(k)
    BY <1>1, AtObject DEF GoodNext, Good, FinalizerStays
  <1> QED BY <1>2, <1>3, OneObject

\* A new process starts without rounds and without series.
LEMMA RestartStep ==
  ASSUME GaugesInv, Restart
  PROVE  GaugesInv'
  <1>1. \A k \in Kind : /\ rd'[k] = Idle /\ series'[k] = NoSeries /\ cached'[k] = obj[k]
                        /\ obj'[k] = obj[k]
    BY DEF Restart, GaugesInv, TypeOK
  <1>2. TypeOK'
    BY ConstantTypes DEF Restart, GaugesInv, TypeOK
  <1>3. AllGood'
    BY <1>1, ConstantTypes DEF AllGood, Good, FinalizerStays, SeriesHeld, BindingLive, BindingShown
  <1> QED BY <1>2, <1>3 DEF GaugesInv

\* The invariant holds throughout.
LEMMA GaugesInvariant == Spec => []GaugesInv
  <1>1. Init => GaugesInv
    <2> SUFFICES ASSUME Init PROVE GaugesInv
      OBVIOUS
    <2>1. \A k \in Kind : /\ rd[k] = Idle /\ series[k] = NoSeries /\ cached[k] = Gone
                          /\ obj[k] = Gone
      BY DEF Init
    <2>2. TypeOK
      BY ConstantTypes DEF Init, TypeOK, Lag
    <2>3. AllGood
      BY <2>1, ConstantTypes DEF AllGood, Good, FinalizerStays, SeriesHeld, BindingLive, BindingShown
    <2> QED BY <2>2, <2>3 DEF GaugesInv
  <1>2. GaugesInv /\ [Next]_vars => GaugesInv'
    <2> SUFFICES ASSUME GaugesInv, [Next]_vars PROVE GaugesInv'
      OBVIOUS
    <2>1. CASE UNCHANGED vars
      BY <2>1 DEF vars, GaugesInv, TypeOK, AllGood
    <2>2. ASSUME NEW k \in Kind,
                 \/ Begin(k) \/ AddFinalizer(k) \/ EndNormal(k) \/ Finish(k) \/ FinishFails(k)
                 \/ Create(k) \/ Delete(k) \/ SyncCache(k)
          PROVE  GaugesInv'
      BY <2>2, BeginStep, AddFinalizerStep, EndNormalStep, FinishStep, MoveSteps,
         CreateStep, DeleteStep, SyncCacheStep
    <2>3. CASE "bind" \in Kind /\ BindingDeletion
      BY <2>3, MoveSteps, BindingStartStep, BindingRetryStep DEF BindingDeletion
    <2>4. CASE "cert" \in Kind /\ CertificateDeletion
      BY <2>4, MoveSteps, CertificateRecordSteps DEF CertificateDeletion
    <2> QED BY <2>1, <2>2, <2>3, <2>4, RestartStep DEF Next
  <1> QED BY <1>1, <1>2, PTL DEF Spec
-----------------------------------------------------------------------------
(* The theorems *)

\* A binding that is gone leaves no series behind, after any sequence of rounds,
\* failed patches and restarts (binding_deletion.go:91, metrics.go:192).
THEOREM BindingSeriesEnds == Spec => []BindingSeriesEnd
  <1>1. GaugesInv => BindingSeriesEnd
    BY AtObject DEF Good, SeriesHeld, BindingSeriesEnd, Tombstone
  <1> QED BY <1>1, GaugesInvariant, PTL

\* A certificate's series outlives it only when its last verdict was recorded and
\* not saved: that order, record then patch, is the one way to a tombstone
\* (status.go:52, deletion.go:203).
THEOREM TombstonesUnsaved == Spec => []TombstoneUnsaved
  <1>1. GaugesInv => TombstoneUnsaved
    BY AtObject DEF Good, SeriesHeld, TombstoneUnsaved, Tombstone
  <1> QED BY <1>1, GaugesInvariant, PTL

\* A binding's gauges say what its status says unless the patch failed
\* (binding_status.go:164, metrics.go:180).
THEOREM GaugesAreTruthful == Spec => []GaugesTruthful
  <1>1. GaugesInv => GaugesTruthful
    BY AtObject DEF Good, BindingShown, GaugesTruthful
  <1> QED BY <1>1, GaugesInvariant, PTL
=============================================================================
