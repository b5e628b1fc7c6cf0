----------------------- MODULE BindingControllerProofs -----------------------
(***************************************************************************)
(* Theorems about the binding controller, for every set of bindings,       *)
(* certificates and accounts, both kinds of target, every number of        *)
(* renewals, outside changes, moves of the credentials and crashes.  In    *)
(* three parts: the types; the safety theorems, and that the controller    *)
(* implements BindingLifecycle, what retention relies on; what the work    *)
(* queue and the watches owe the bindings of the target, namely that no    *)
(* verdict and no certId is left behind when nothing more is on its way.   *)
(***************************************************************************)
EXTENDS BindingController, FiniteSetTheorems, TLAPS

USE DEF bindingVars, certVars, cacheVars, cloudVars, worldVars, envVars, queueVars
-----------------------------------------------------------------------------
(* Type correctness *)

\* The values that stand for "nothing" have their types.
LEMMA NoTypes ==
  /\ NoStatus \in Status /\ NoMaterial \in Material /\ NoRound \in Round
  /\ Absent \in Object /\ NoCert \in Gen /\ NoCert \in OnTarget
  /\ Foreign \in OnTarget /\ Garbage \in OnTarget /\ Gen \subseteq OnTarget
  <1>1. NoCert \in Gen /\ NoCert \in OnTarget /\ Foreign \in OnTarget /\ Garbage \in OnTarget
        /\ Gen \subseteq OnTarget
    <2>1. MaxGen \in Nat
      BY LimitAssumption
    <2> QED BY <2>1 DEF NoCert, Gen, OnTarget, Foreign, Garbage
  <1>2. NoStatus \in Status
    BY <1>1 DEF NoStatus, Status
  <1>3. NoMaterial \in Material
    BY <1>1 DEF NoMaterial, Material
  <1>4. NoRound \in Round
    BY <1>2, <1>3 DEF NoRound, Round, Protocol
  <1> QED BY <1>1, <1>2, <1>3, <1>4 DEF Absent, Object, Phase

\* The operators on a status return a status, and keep what they do not name.
Keeps(v, w) ==
    v.og = w.og /\ v.applied = w.applied /\ v.ref = w.ref /\ v.bound = w.bound

\* The Ready condition is derived from the others (binding_status.go).
LEMMA AggregateReadyType ==
  ASSUME NEW w \in Status
  PROVE  AggregateReady(w) \in Status /\ Keeps(AggregateReady(w), w)
  <1>1. (w.cApplied = "True" /\ w.conflict = "no") \in BOOLEAN
    OBVIOUS
  <1> QED BY <1>1 DEF AggregateReady, Status, Keeps

\* Ready becomes False.
LEMMA ReadyFalseType ==
  ASSUME NEW w \in Status
  PROVE  ReadyFalse(w) \in Status /\ Keeps(ReadyFalse(w), w)
  BY DEF ReadyFalse, Status, Keeps

\* Applied becomes False, and Ready with it.
LEMMA AppliedFalseType ==
  ASSUME NEW w \in Status
  PROVE  AppliedFalse(w) \in Status /\ Keeps(AppliedFalse(w), w)
  <1> DEFINE v == [w EXCEPT !.cApplied = "False", !.obsFailed = FALSE]
  <1>1. v \in Status /\ Keeps(v, w)
    BY DEF Status, Keeps
  <1> HIDE DEF v
  <1>2. AppliedFalse(w) = AggregateReady(v)
    BY DEF AppliedFalse, v
  <1> QED BY <1>1, <1>2, AggregateReadyType DEF Keeps

\* A failed Observe is noted in the Applied condition, if there is one.
LEMMA NoteObserveFailedType ==
  ASSUME NEW w \in Status
  PROVE  NoteObserveFailed(w) \in Status /\ Keeps(NoteObserveFailed(w), w)
  <1>1. (w.cApplied # "absent") \in BOOLEAN
    OBVIOUS
  <1> QED BY <1>1 DEF NoteObserveFailed, Status, Keeps

\* The Conflict condition is set or cleared.
LEMMA ConflictType ==
  ASSUME NEW w \in Status, NEW x \in {"no", "peer", "account"}
  PROVE  /\ [w EXCEPT !.conflict = x] \in Status
         /\ Keeps([w EXCEPT !.conflict = x], w)
  BY DEF Status, Keeps

\* What somebody else put on the target is noted, or the note is cleared.
LEMMA NoteDriftType ==
  ASSUME NEW w \in Status, NEW cur \in OnTarget, NEW want
  PROVE  NoteDrift(w, cur, want) \in Status /\ Keeps(NoteDrift(w, cur, want), w)
  <1> DEFINE d == IF cur \in {NoCert, Applied(w), want} THEN NoCert ELSE cur
  <1>1. d \in OnTarget
    BY NoTypes
  <1>2. NoteDrift(w, cur, want) = [w EXCEPT !.drifted = d]
    BY DEF NoteDrift
  <1> HIDE DEF d
  <1> QED BY <1>1, <1>2 DEF Status, Keeps

\* A successful round records what it applied, and where the binding is bound.
LEMMA FreezeAppliedType ==
  ASSUME NEW w \in Status, NEW m \in Material, NEW a \in Account \cup {NoAcc}
  PROVE  /\ FreezeApplied(w, m, a) \in Status
         /\ FreezeApplied(w, m, a).og = w.og /\ FreezeApplied(w, m, a).applied = m.fp
  <1> DEFINE ref == IF ByRef THEN m.id ELSE w.ref
             bound == IF w.bound = NoAcc THEN a ELSE w.bound
             v == [w EXCEPT !.applied = m.fp, !.ref = ref, !.drifted = NoCert,
                            !.cApplied = "True", !.obsFailed = FALSE, !.bound = bound]
  <1>1. ref \in Gen /\ bound \in Account \cup {NoAcc} /\ m.fp \in Gen
    BY DEF Status, Material
  <1>2. FreezeApplied(w, m, a) = v
    BY DEF FreezeApplied
  <1>3. NoCert \in OnTarget
    BY NoTypes
  <1> HIDE DEF ref, bound
  <1>4. v \in Status
    BY <1>1, <1>3 DEF Status
  <1>5. v.og = w.og /\ v.applied = m.fp
    BY DEF Status
  <1> QED BY <1>2, <1>4, <1>5

\* A round that starts, one about to be patched, and one that goes on deleting.
Started(b, g, w, m, next) ==
    [NoRound EXCEPT !.b = b, !.gen = g, !.w = w, !.m = m, !.next = next]
Patching(b, g, w, next) == [NoRound EXCEPT !.b = b, !.gen = g, !.w = w, !.next = next]
GoesOn(b, g, w) == [NoRound EXCEPT !.b = b, !.gen = g, !.w = w]

\* A round that has loaded its material.
LEMMA StartedRound ==
  ASSUME NEW b \in Binding, NEW g \in Nat, NEW w \in Status, NEW m \in Material,
         NEW next \in {"none", "drift", "now"}
  PROVE  /\ Started(b, g, w, m, next) \in Round /\ Started(b, g, w, m, next).b = b
         /\ Started(b, g, w, m, next).w = w /\ Started(b, g, w, m, next).m = m
  BY NoTypes DEF Started, NoRound, Round, Protocol

\* A round that ended before the material.
LEMMA PatchingRound ==
  ASSUME NEW b \in Binding, NEW g \in Nat, NEW w \in Status,
         NEW next \in {"none", "drift", "now"}
  PROVE  /\ Patching(b, g, w, next) \in Round /\ Patching(b, g, w, next).b = b
         /\ Patching(b, g, w, next).w = w
  BY NoTypes DEF Patching, NoRound, Round, Protocol

\* A round of a binding that is being deleted.
LEMMA DeletingRound ==
  ASSUME NEW b \in Binding, NEW g \in Nat, NEW w \in Status
  PROVE  /\ GoesOn(b, g, w) \in Round /\ GoesOn(b, g, w).b = b /\ GoesOn(b, g, w).w = w
  BY NoTypes DEF GoesOn, NoRound, Round, Protocol

\* What a typed state gives of the round and its parts.
LEMMA RoundParts ==
  ASSUME TypeOK
  PROVE  /\ rd.gen \in Nat /\ rd.w \in Status /\ rd.m \in Material
         /\ rd.proto \in Protocol /\ rd.other \in Nat /\ Want(rd.m) \in Gen
         /\ rd.oacct \in Account \cup {NoAcc} /\ rd.acct \in Account \cup {NoAcc}
         /\ rd.next \in {"none", "drift", "now"}
  BY DEF TypeOK, Round, Material, Want

\* The first step of a round on a live binding.
LEMMA BeginType ==
  ASSUME TypeOK, NEW b \in Binding, NEW step \in {"patch", "observe"}, NEW w \in Status,
         NEW m \in Material, NEW next \in {"none", "drift", "now"}, Begin(b, step, w, m, next)
  PROVE  TypeOK'
  <1>1. obj[b] \in Object /\ obj[b].gen \in Nat
    BY DEF TypeOK, Object
  <1>2. rd' \in Round /\ rd'.b = b
    <2>1. rd' = Started(b, obj[b].gen, w, m, next)
      BY DEF Begin, Started
    <2> QED BY <1>1, <2>1, StartedRound
  <1>3. obj' \in [Binding -> Object]
    <2>1. [obj[b] EXCEPT !.fin = TRUE] \in Object
      BY <1>1 DEF Object
    <2>2. obj' = [obj EXCEPT ![b] = [obj[b] EXCEPT !.fin = TRUE]]
      BY DEF Begin
    <2> QED BY <2>1, <2>2 DEF TypeOK
  <1>4. wake' \in [Binding -> {"none", "drift", "now"}] /\ unheard' \subseteq Binding
    BY DEF Begin, Dequeue, TypeOK
  <1>5. pc' \in Step /\ pc' \notin {"get", "write", "clearGet", "clear"}
    BY DEF Begin, Step
  <1>6. UNCHANGED <<st, certVars, cacheVars, cloudVars, moved, envVars>>
    BY DEF Begin
  <1> QED BY <1>2, <1>3, <1>4, <1>5, <1>6 DEF TypeOK

\* The round is over but for its patch.
LEMMA ConcludeType ==
  ASSUME TypeOK, pc # "idle", NEW w \in Status, NEW next \in {"none", "drift", "now"},
         Conclude(w, next)
  PROVE  TypeOK'
  <1>1. rd.b \in Binding /\ rd.gen \in Nat
    BY RoundParts DEF TypeOK
  <1>2. rd' \in Round /\ rd'.b = rd.b
    <2>1. rd' = Patching(rd.b, rd.gen, w, next)
      BY DEF Conclude, Patching
    <2> QED BY <1>1, <2>1, PatchingRound
  <1>3. pc' = "patch" /\ moved' = {}
        /\ UNCHANGED <<bindingVars, certVars, cacheVars, cloudVars, queueVars, envVars>>
    BY DEF Conclude
  <1> QED BY <1>1, <1>2, <1>3 DEF TypeOK, Step

\* The deletion goes on to another step.
LEMMA GoToType ==
  ASSUME TypeOK, pc # "idle", NEW step \in {"failed", "finish"}, GoTo(step)
  PROVE  TypeOK'
  <1>1. rd.b \in Binding /\ rd.gen \in Nat /\ rd.w \in Status
    BY RoundParts DEF TypeOK
  <1>2. rd' \in Round /\ rd'.b = rd.b
    <2>1. rd' = GoesOn(rd.b, rd.gen, rd.w)
      BY DEF GoTo, GoesOn
    <2> QED BY <1>1, <2>1, DeletingRound
  <1>3. pc' = step /\ moved' = {}
        /\ UNCHANGED <<bindingVars, certVars, cacheVars, cloudVars, queueVars, envVars>>
    BY DEF GoTo
  <1> QED BY <1>1, <1>2, <1>3 DEF TypeOK, Step

\* The round ends and is requeued.
LEMMA EndRoundType ==
  ASSUME TypeOK, pc # "idle", NEW next \in {"none", "drift", "now"}, EndRound(next),
         obj' \in [Binding -> Object], st' \in [Binding -> Status]
  PROVE  TypeOK'
  <1>1. wake' \in [Binding -> {"none", "drift", "now"}]
    BY DEF EndRound, Requeued, TypeOK
  <1>2. pc' = "idle" /\ rd' \in Round /\ moved' = {} /\ unheard' = unheard
        /\ UNCHANGED <<certVars, cacheVars, cloudVars, envVars>>
    BY NoTypes DEF EndRound
  <1> QED BY <1>1, <1>2 DEF TypeOK, Step

\* The first step of a round.
LEMMA StartRoundType ==
  ASSUME TypeOK, NEW b \in Binding, StartRound(b)
  PROVE  TypeOK'
  <1>0. /\ obj[b] \in Object /\ st[b] \in Status /\ obj[b].gen \in Nat
        /\ CertOf[b] \in Certificate
    BY OrderAssumption DEF TypeOK, Object
  <1>1. Base(b) \in Status
    BY <1>0 DEF Base, Status
  <1>2. BaseOfWinner(b) \in Status
    BY <1>1, ConflictType DEF BaseOfWinner
  <1>3. MaterialOf(b) \in Material
    <2>1. SecretOf(b) \in Gen /\ Cert(b).id \in Gen /\ NoCert \in Gen
      BY <1>0, NoTypes DEF SecretOf, Cert, TypeOK, Current
    <2> QED BY <2>1 DEF MaterialOf, Material
  <1>4. CASE RoundOfNothing(b)
    <2>1. wake' \in [Binding -> {"none", "drift", "now"}] /\ unheard' \subseteq Binding
      BY <1>4 DEF RoundOfNothing, Dequeue, TypeOK
    <2> QED BY <1>4, <2>1 DEF RoundOfNothing, TypeOK
  <1>5. CASE CertificateNotFound(b) \/ CertificateNotReady(b)
    BY <1>1, <1>5, NoTypes, ReadyFalseType, BeginType DEF CertificateNotFound, CertificateNotReady
  <1>6. CASE ConflictingBinding(b)
    <2>1. AggregateReady([Base(b) EXCEPT !.conflict = "peer"]) \in Status
      BY <1>1, ConflictType, AggregateReadyType
    <2> QED BY <1>6, <2>1, NoTypes, BeginType DEF ConflictingBinding
  <1>7. CASE MaterialRejected(b) \/ CertificateGateHolds(b) \/ CasUploadRequired(b)
    BY <1>2, <1>7, NoTypes, ReadyFalseType, AppliedFalseType, BeginType
       DEF MaterialRejected, CertificateGateHolds, CasUploadRequired
  <1>8. CASE StartObserve(b)
    BY <1>2, <1>3, <1>8, BeginType DEF StartObserve
  <1>9. CASE DeleteKeepsTarget(b)
    <2>1. wake' \in [Binding -> {"none", "drift", "now"}] /\ unheard' \subseteq Binding
      BY <1>9 DEF DeleteKeepsTarget, Dequeue, TypeOK
    <2>2. rd' \in Round /\ rd'.b = b
      <3>1. rd' = GoesOn(b, obj[b].gen, st[b])
        BY <1>9 DEF DeleteKeepsTarget, GoesOn
      <3> QED BY <1>0, <3>1, DeletingRound
    <2> QED BY <1>9, <2>1, <2>2 DEF DeleteKeepsTarget, TypeOK, Step
  <1>10. CASE DeleteStarts(b)
    <2>1. wake' \in [Binding -> {"none", "drift", "now"}] /\ unheard' \subseteq Binding
      BY <1>10 DEF DeleteStarts, Dequeue, TypeOK
    <2>2. [st[b] EXCEPT !.cleanup = TRUE] \in Status
      BY <1>0 DEF Status
    <2>3. st' = [st EXCEPT ![b] = [st[b] EXCEPT !.cleanup = TRUE]]
      BY <1>10 DEF DeleteStarts
    <2>4. st' \in [Binding -> Status] /\ st'[b] \in Status
      BY <2>2, <2>3 DEF TypeOK
    <2>5. rd' \in Round /\ rd'.b = b
      <3>1. rd' = GoesOn(b, obj[b].gen, st'[b])
        BY <1>10 DEF DeleteStarts, GoesOn
      <3> QED BY <1>0, <2>4, <3>1, DeletingRound
    <2> QED BY <1>10, <2>1, <2>4, <2>5 DEF DeleteStarts, TypeOK, Step
  <1> QED BY <1>4, <1>5, <1>6, <1>7, <1>8, <1>9, <1>10 DEF StartRound

\* What Observe and its errors end in.
LEMMA ObserveType ==
  ASSUME TypeOK,
         \/ FactoryError \/ ObserveTargetNotFound \/ ObserveAuthFails \/ ObserveFails
         \/ ObserveFenced \/ ObserveAsWanted \/ ApplyFails \/ ApplyTargetNotFound
  PROVE  TypeOK'
  <1>0. pc # "idle" /\ rd.w \in Status /\ rd.m \in Material
    BY RoundParts DEF FactoryError, ObserveTargetNotFound, ObserveAuthFails, ObserveFails,
       ObserveFenced, ObserveAsWanted, ApplyFails, ApplyTargetNotFound
  <1> DEFINE Ok(w) == w \in Status /\ \E next \in {"none", "drift", "now"} : Conclude(w, next)
  <1>1. ASSUME NEW w, Ok(w) PROVE TypeOK'
    BY <1>0, <1>1, ConcludeType
  <1>2. ReadyFalse(rd.w) \in Status /\ AppliedFalse(rd.w) \in Status
    BY <1>0, ReadyFalseType, AppliedFalseType
  <1>3. CASE FactoryError \/ ObserveAuthFails
    BY <1>1, <1>2, <1>3 DEF FactoryError, ObserveAuthFails
  <1>4. CASE ObserveTargetNotFound \/ ApplyTargetNotFound \/ ApplyFails
    BY <1>1, <1>2, <1>4 DEF ObserveTargetNotFound, ApplyTargetNotFound, ApplyFails
  <1>5. CASE ObserveFails
    <2>1. AggregateReady(NoteObserveFailed(rd.w)) \in Status
      BY <1>0, NoteObserveFailedType, AggregateReadyType
    <2> QED BY <1>1, <1>5, <2>1 DEF ObserveFails
  <1>6. CASE ObserveFenced
    <2>1. AggregateReady([rd.w EXCEPT !.conflict = "account"]) \in Status
      BY <1>0, ConflictType, AggregateReadyType
    <2> QED BY <1>1, <1>6, <2>1 DEF ObserveFenced
  <1>7. CASE ObserveAsWanted
    <2>1. PICK oacct \in Reported : Conclude(AggregateReady(FreezeApplied(rd.w, rd.m, oacct)), "drift")
      BY <1>7 DEF ObserveAsWanted
    <2>2. oacct \in Account \cup {NoAcc}
      BY DEF Reported, TypeOK
    <2>3. AggregateReady(FreezeApplied(rd.w, rd.m, oacct)) \in Status
      BY <1>0, <2>2, FreezeAppliedType, AggregateReadyType
    <2> QED BY <1>1, <2>1, <2>3
  <1> QED BY <1>3, <1>4, <1>5, <1>6, <1>7

\* The requests are writes to an account.
LEMMA RequestTypes ==
  ASSUME TypeOK, pc \in {"write", "clear"}
  PROVE  PutRequest \in Write /\ ClearRequest \in Write
  <1>1. /\ rd.acct \in Account /\ Want(rd.m) \in Gen /\ rd.proto \in Protocol
        /\ rd.other \in Nat
    BY RoundParts DEF TypeOK
  <1>2. ProtocolFor(rd.proto) \in Protocol /\ ProtocolWithout(rd.proto) \in Protocol
    BY <1>1 DEF ProtocolFor, ProtocolWithout, Protocol
  <1> QED BY <1>1, <1>2, NoTypes DEF PutRequest, ClearRequest, Write

\* A target after a request is a target.
LEMMA WrittenType ==
  ASSUME NEW t \in TargetState, NEW req \in Write
  PROVE  Written(t, req) \in TargetState
  <1>1. req.cert \in OnTarget /\ req.proto \in Protocol /\ req.other \in Nat
    BY NoTypes DEF Write
  <1> QED BY <1>1 DEF Written, TargetState

\* A request that is given up.
LEMMA MayComeLateType ==
  ASSUME TypeOK, NEW req \in Write, MayComeLate(req)
  PROVE  late' \subseteq Write /\ budget' \in [outside : Nat, moves : Nat]
  <1>1. late' \subseteq Write
    BY DEF MayComeLate, TypeOK
  <1>2. budget \in [outside : Nat, moves : Nat]
    BY DEF TypeOK
  <1> QED BY <1>1, <1>2 DEF MayComeLate, OutsideChange

\* The steps between Observe and the answer of the cloud to a write.
LEMMA WriteType ==
  ASSUME TypeOK,
         \/ ObserveDiffers \/ ApplyGet \/ ApplyWrite \/ ApplyTimesOut
         \/ UnbindOwn \/ ClearGet \/ ClearWrite \/ ClearTimesOut
  PROVE  TypeOK'
  <1>0. /\ pc # "idle" /\ rd \in Round /\ rd.b \in Binding /\ rd.gen \in Nat
        /\ rd.w \in Status /\ rd.m \in Material /\ rd.oacct \in Account \cup {NoAcc}
    BY RoundParts DEF TypeOK, ObserveDiffers, ApplyGet, ApplyWrite, ApplyTimesOut,
       UnbindOwn, ClearGet, ClearWrite, ClearTimesOut
  <1>1. CASE ObserveDiffers
    <2>1. PICK oacct \in Reported :
             rd' = [rd EXCEPT !.acct = account, !.oacct = oacct,
                              !.w = NoteDrift(@, Seen(tgt[account]), Want(rd.m))]
      BY <1>1 DEF ObserveDiffers
    <2>2. account \in Account /\ oacct \in Account \cup {NoAcc}
      BY <1>1 DEF ObserveDiffers, Reported, TypeOK
    <2>3. Seen(tgt[account]) \in OnTarget
      BY <2>2, NoTypes DEF Seen, TypeOK, TargetState
    <2>4. NoteDrift(rd.w, Seen(tgt[account]), Want(rd.m)) \in Status
      BY <1>0, <2>3, NoteDriftType
    <2>5. rd' \in Round /\ rd'.b = rd.b /\ rd'.acct = account
      BY <1>0, <2>1, <2>2, <2>4 DEF Round
    <2>6. pc' \in Step /\ moved' = {}
          /\ UNCHANGED <<bindingVars, certVars, cacheVars, cloudVars, queueVars, envVars>>
      BY <1>1 DEF ObserveDiffers, ReadBack, Step
    <2> QED BY <1>0, <2>2, <2>5, <2>6 DEF TypeOK
  <1>2. CASE ApplyGet \/ ClearGet
    <2>1. rd.acct \in Account /\ tgt[rd.acct] \in TargetState
      BY <1>2 DEF ApplyGet, ClearGet, TypeOK
    <2>2. rd' \in Round /\ rd'.b = rd.b /\ rd'.acct = rd.acct
      BY <1>0, <1>2, <2>1 DEF ApplyGet, ClearGet, Echo, Round, TargetState
    <2>3. pc' \in Step /\ moved' \subseteq moved
          /\ UNCHANGED <<bindingVars, certVars, cacheVars, cloudVars, queueVars, envVars>>
      BY <1>2 DEF ApplyGet, ClearGet, Step
    <2> QED BY <1>0, <2>1, <2>2, <2>3 DEF TypeOK
  <1>3. CASE UnbindOwn
    <2>1. account \in Account
      BY <1>3 DEF UnbindOwn, CredsFound, TypeOK
    <2>2. rd' \in Round /\ rd'.b = rd.b /\ rd'.acct = account
      BY <1>0, <1>3, <2>1 DEF UnbindOwn, Round
    <2>3. pc' \in Step /\ moved' = {}
          /\ UNCHANGED <<bindingVars, certVars, cacheVars, cloudVars, queueVars, envVars>>
      BY <1>3 DEF UnbindOwn, ReadBack, Step
    <2> QED BY <1>0, <2>1, <2>2, <2>3 DEF TypeOK
  <1>4. CASE ApplyWrite \/ ClearWrite
    <2>1. rd.acct \in Account /\ PutRequest \in Write /\ ClearRequest \in Write
      BY <1>4, RequestTypes DEF ApplyWrite, ClearWrite, TypeOK
    <2>2. tgt' \in [Account -> TargetState]
      <3>1. /\ tgt \in [Account -> TargetState]
            /\ Written(tgt[rd.acct], PutRequest) \in TargetState
            /\ Written(tgt[rd.acct], ClearRequest) \in TargetState
        BY <2>1, WrittenType DEF TypeOK
      <3> QED BY <1>4, <2>1, <3>1 DEF ApplyWrite, ClearWrite
    <2>3. rd' \in Round /\ rd'.b = rd.b
      <3>1. CASE ApplyWrite
        <4>1. AggregateReady(FreezeApplied(rd.w, rd.m, rd.oacct)) \in Status
          BY <1>0, FreezeAppliedType, AggregateReadyType
        <4>2. rd' = Patching(rd.b, rd.gen, AggregateReady(FreezeApplied(rd.w, rd.m, rd.oacct)), "drift")
          BY <3>1 DEF ApplyWrite, Patching, NoRound
        <4> QED BY <1>0, <4>1, <4>2, PatchingRound
      <3>2. CASE ClearWrite
        <4>1. rd' = GoesOn(rd.b, rd.gen, rd.w)
          BY <3>2 DEF ClearWrite, GoesOn
        <4> QED BY <1>0, <4>1, DeletingRound
      <3> QED BY <1>4, <3>1, <3>2
    <2>4. pc' \in {"patch", "finish"} /\ moved' = {}
          /\ UNCHANGED <<bindingVars, certVars, cacheVars, late, queueVars, envVars>>
      BY <1>4 DEF ApplyWrite, ClearWrite
    <2> QED BY <1>0, <2>2, <2>3, <2>4 DEF TypeOK, Step
  <1>5. CASE ApplyTimesOut \/ ClearTimesOut
    <2>1. late' \subseteq Write /\ budget' \in [outside : Nat, moves : Nat]
      BY <1>5, RequestTypes, MayComeLateType DEF ApplyTimesOut, ClearTimesOut
    <2>2. rd' \in Round /\ rd'.b = rd.b
      <3>1. CASE ApplyTimesOut
        <4>1. rd' = Patching(rd.b, rd.gen, AppliedFalse(rd.w), "now")
          BY <3>1 DEF ApplyTimesOut, Patching
        <4> QED BY <1>0, <4>1, AppliedFalseType, PatchingRound
      <3>2. CASE ClearTimesOut
        <4>1. rd' = GoesOn(rd.b, rd.gen, rd.w)
          BY <3>2 DEF ClearTimesOut, GoesOn
        <4> QED BY <1>0, <4>1, DeletingRound
      <3> QED BY <1>5, <3>1, <3>2
    <2>3. pc' \in {"patch", "failed"} /\ moved' = {}
          /\ UNCHANGED <<bindingVars, certVars, cacheVars, tgt, queueVars, worldVars>>
      BY <1>5 DEF ApplyTimesOut, ClearTimesOut
    <2> QED BY <1>0, <2>1, <2>2, <2>3 DEF TypeOK, Step
  <1> QED BY <1>1, <1>2, <1>3, <1>4, <1>5

\* The ends of rounds, and the rest of a deletion.
LEMMA EndType ==
  ASSUME TypeOK,
         \/ PatchBinding \/ PatchFails \/ UnbindFails \/ UnbindSkips \/ ClearNotFound
         \/ CleanupRetries \/ CleanupPatchFails \/ CleanupAbandoned
         \/ RemoveFinalizer \/ RemoveFinalizerFails
  PROVE  TypeOK'
  <1>0. /\ pc # "idle" /\ rd.b \in Binding /\ rd.w \in Status
        /\ rd.next \in {"none", "drift", "now"}
        /\ obj \in [Binding -> Object] /\ st \in [Binding -> Status]
    BY RoundParts DEF TypeOK, PatchBinding, PatchFails, UnbindFails, UnbindSkips, ClearNotFound,
       CleanupRetries, CleanupPatchFails, CleanupAbandoned, RemoveFinalizer, RemoveFinalizerFails
  <1>1. CASE UnbindFails \/ UnbindSkips \/ ClearNotFound \/ CleanupAbandoned
    BY <1>0, <1>1, GoToType DEF UnbindFails, UnbindSkips, ClearNotFound, CleanupAbandoned
  <1>2. CASE PatchFails \/ CleanupPatchFails \/ RemoveFinalizerFails
    BY <1>0, <1>2, EndRoundType DEF PatchFails, CleanupPatchFails, RemoveFinalizerFails
  <1>3. CASE PatchBinding
    <2>1. st' \in [Binding -> Status] /\ obj' = obj /\ EndRound(rd.next)
      BY <1>0, <1>3 DEF PatchBinding
    <2> QED BY <1>0, <2>1, EndRoundType
  <1>4. CASE CleanupRetries
    <2>1. st' \in [Binding -> Status] /\ obj' = obj /\ EndRound("now")
      BY <1>0, <1>4, ReadyFalseType DEF CleanupRetries
    <2> QED BY <1>0, <2>1, EndRoundType
  <1>5. CASE RemoveFinalizer
    <2>1. [Absent EXCEPT !.phase = "gone"] \in Object
      BY DEF Absent, Object, Phase
    <2>2. obj' \in [Binding -> Object] /\ st' \in [Binding -> Status] /\ EndRound("none")
      BY <1>0, <1>5, <2>1, NoTypes DEF RemoveFinalizer
    <2> QED BY <1>0, <2>2, EndRoundType
  <1> QED BY <1>1, <1>2, <1>3, <1>4, <1>5

\* Whoever is woken, the queue keeps its type.
LEMMA WakeType ==
  ASSUME TypeOK, NEW S \in SUBSET Binding, NEW T \in SUBSET Binding, WakeOnly(S, T)
  PROVE  wake' \in [Binding -> {"none", "drift", "now"}] /\ unheard' \subseteq Binding
  BY DEF WakeOnly, TypeOK

\* The watches queue bindings.
LEMMA WatchesType ==
  ASSUME TypeOK, Watches
  PROVE  TypeOK'
  <1>1. ASSUME NEW b \in Binding, SyncPeer(b) PROVE TypeOK'
    <2>1. wake' \in [Binding -> {"none", "drift", "now"}] /\ unheard' \subseteq Binding
      <3>1. Woken(b) \in SUBSET Binding /\ {b} \in SUBSET Binding
        BY DEF Woken, InCache
      <3>2. WakeOnly(Woken(b), Woken(b)) \/ WakeOnly({b}, Woken(b))
        BY <1>1 DEF SyncPeer, Wake
      <3> QED BY <3>1, <3>2, WakeType
    <2>2. peers' \in [Binding -> [phase : Phase, gen : Nat]]
      BY <1>1 DEF SyncPeer, TypeOK, Object
    <2>3. UNCHANGED <<bindingVars, certVars, ccr, cloudVars, pc, rd, moved, envVars>>
      BY <1>1 DEF SyncPeer
    <2> QED BY <2>1, <2>2, <2>3 DEF TypeOK
  <1>2. ASSUME NEW b \in Binding, TimerFires(b) PROVE TypeOK'
    <2>1. wake' \in [Binding -> {"none", "drift", "now"}] /\ unheard' \subseteq Binding
      BY <1>2, WakeType DEF TimerFires, Wake
    <2> QED BY <1>2, <2>1 DEF TimerFires, TypeOK
  <1>3. ASSUME NEW c \in Certificate, SyncCertificate(c) PROVE TypeOK'
    <2>1. wake' \in [Binding -> {"none", "drift", "now"}] /\ unheard' \subseteq Binding
      <3> DEFINE users == {x \in InCache : CertOf[x] = c}
      <3>1. users \in SUBSET Binding /\ {} \in SUBSET Binding
        BY DEF InCache
      <3>2. WakeOnly(users, users) \/ WakeOnly({}, users)
        BY <1>3 DEF SyncCertificate, Wake
      <3> HIDE DEF users
      <3> QED BY <3>1, <3>2, WakeType
    <2>2. ccr' \in [Certificate -> Current]
      BY <1>3 DEF SyncCertificate, TypeOK
    <2>3. UNCHANGED <<bindingVars, certVars, peers, cloudVars, pc, rd, moved, envVars>>
      BY <1>3 DEF SyncCertificate
    <2> QED BY <2>1, <2>2, <2>3 DEF TypeOK
  <1> QED BY <1>1, <1>2, <1>3 DEF Watches

\* A change that MaxOutside counts.
LEMMA OutsideType ==
  ASSUME TypeOK, OutsideChange
  PROVE  budget' \in [outside : Nat, moves : Nat]
  BY DEF OutsideChange, TypeOK

\* The steps of the certificate controller, as far as bindings see them.
LEMMA CertificateStepType ==
  ASSUME TypeOK, CertificateStep
  PROVE  TypeOK'
  <1>0. MaxGen \in Nat /\ Gen = 0 .. MaxGen /\ NoCert = 0
    BY LimitAssumption DEF Gen, NoCert
  <1>1. ASSUME NEW c \in Certificate, Issue(c) PROVE TypeOK'
    <2>1. last.fp + 1 \in Gen /\ last \in [fp : Gen, id : Gen]
      BY <1>0, <1>1 DEF Issue, TypeOK
    <2>2. last' \in [fp : Gen, id : Gen] /\ secret' \in [Certificate -> Gen]
      BY <1>1, <2>1 DEF Issue, TypeOK
    <2> QED BY <1>1, <2>2 DEF Issue, TypeOK
  <1>2. ASSUME NEW c \in Certificate, Adopt(c) PROVE TypeOK'
    <2> DEFINE new == last.id + 1
               old == [fp |-> cr[c].fp, id |-> cr[c].id]
    <2>1. /\ cr[c] \in Current /\ secret[c] \in Gen /\ last \in [fp : Gen, id : Gen]
          /\ secret[c] # NoCert
      BY <1>2 DEF Adopt, TypeOK
    <2>2. adopted' \subseteq 1 .. MaxGen
      BY <1>0, <1>2, <2>1 DEF Adopt, TypeOK
    <2>3. UNCHANGED <<bindingVars, secret, cacheVars, cloudVars, pc, rd, moved, queueVars, envVars>>
      BY <1>2 DEF Adopt
    <2>4. CASE cr[c].fp = secret[c]
      <3>1. cr' = [cr EXCEPT ![c] = [cr[c] EXCEPT !.issued = TRUE]] /\ UNCHANGED <<hist, last, cas>>
        BY <1>2, <2>4 DEF Adopt
      <3>2. [cr[c] EXCEPT !.issued = TRUE] \in Current
        BY <2>1 DEF Current
      <3>3. cr' \in [Certificate -> Current]
        BY <3>1, <3>2 DEF TypeOK
      <3> QED BY <2>2, <2>3, <3>1, <3>3 DEF TypeOK
    <2>5. CASE cr[c].fp # secret[c]
      <3> DEFINE id == IF cr[c].upload THEN new ELSE NoCert
      <3>1. /\ cr[c].upload => new <= MaxGen
            /\ cr' = [cr EXCEPT ![c] = [cr[c] EXCEPT !.issued = TRUE, !.fp = secret[c], !.id = id]]
            /\ hist' = [hist EXCEPT ![c] = IF old.fp = NoCert THEN @ ELSE @ \cup {old}]
            /\ last' = IF cr[c].upload THEN [last EXCEPT !.id = new] ELSE last
            /\ cas' = IF cr[c].upload THEN cas \cup {new} ELSE cas
        BY <1>2, <2>5 DEF Adopt
      <3>2. new \in Nat \ {0} /\ (cr[c].upload => new \in Gen /\ new \in 1 .. MaxGen)
        BY <1>0, <2>1, <3>1
      <3>3. id \in Gen
        BY <1>0, <3>2
      <3>4. old \in Material
        BY <2>1 DEF Material, Current
      <3> HIDE DEF id, old
      <3>5. cr' \in [Certificate -> Current]
        <4>1. [cr[c] EXCEPT !.issued = TRUE, !.fp = secret[c], !.id = id] \in Current
          BY <2>1, <3>3 DEF Current
        <4> QED BY <3>1, <4>1 DEF TypeOK
      <3>6. hist' \in [Certificate -> SUBSET Material]
        <4>1. hist \in [Certificate -> SUBSET Material]
          BY DEF TypeOK
        <4>2. (IF old.fp = NoCert THEN hist[c] ELSE hist[c] \cup {old}) \in SUBSET Material
          BY <3>4, <4>1
        <4>3. hist' = [hist EXCEPT ![c] = IF old.fp = NoCert THEN hist[c] ELSE hist[c] \cup {old}]
          BY <3>1
        <4> QED BY <4>1, <4>2, <4>3
      <3>7. last' \in [fp : Gen, id : Gen] /\ cas' \subseteq 1 .. MaxGen
        <4>1. CASE cr[c].upload
          BY <2>1, <3>1, <3>2, <4>1 DEF TypeOK
        <4>2. CASE ~cr[c].upload
          BY <3>1, <4>2 DEF TypeOK
        <4> QED BY <4>1, <4>2
      <3> QED BY <2>2, <2>3, <3>5, <3>6, <3>7 DEF TypeOK
    <2> QED BY <2>4, <2>5
  <1>3. ASSUME NEW c \in Certificate, Reclaim(c) PROVE TypeOK'
    <2>1. PICK g \in hist[c] : hist' = [hist EXCEPT ![c] = @ \ {g}] /\ cas' = cas \ {g.id}
      BY <1>3 DEF Reclaim
    <2>2. hist \in [Certificate -> SUBSET Material] /\ cas \subseteq 1 .. MaxGen
      BY DEF TypeOK
    <2>3. hist' \in [Certificate -> SUBSET Material] /\ cas' \subseteq 1 .. MaxGen
      <3>1. hist[c] \ {g} \in SUBSET Material
        BY <2>2
      <3> QED BY <2>1, <2>2, <3>1
    <2>4. UNCHANGED <<bindingVars, cr, secret, last, adopted, cacheVars, cloudVars, pc, rd, moved,
                      queueVars, envVars>>
      BY <1>3 DEF Reclaim
    <2> QED BY <2>3, <2>4 DEF TypeOK
  <1>4. ASSUME NEW c \in Certificate, Unissue(c) \/ EnableUpload(c) PROVE TypeOK'
    <2>1. cr[c] \in Current /\ cr \in [Certificate -> Current]
      BY DEF TypeOK
    <2>2. [cr[c] EXCEPT !.issued = FALSE] \in Current /\ [cr[c] EXCEPT !.upload = TRUE] \in Current
      BY <2>1 DEF Current
    <2>3. cr' \in [Certificate -> Current]
      BY <1>4, <2>1, <2>2 DEF Unissue, EnableUpload
    <2>4. budget' \in [outside : Nat, moves : Nat]
      BY <1>4, OutsideType DEF Unissue, EnableUpload
    <2>5. UNCHANGED <<bindingVars, secret, hist, cas, last, adopted, cacheVars, cloudVars, pc, rd,
                      moved, queueVars, worldVars>>
      BY <1>4 DEF Unissue, EnableUpload
    <2> QED BY <2>3, <2>4, <2>5 DEF TypeOK
  <1>5. ASSUME NEW c \in Certificate, RemoveSecret(c) PROVE TypeOK'
    <2>1. secret' \in [Certificate -> Gen] /\ budget' \in [outside : Nat, moves : Nat]
      BY <1>5, NoTypes, OutsideType DEF RemoveSecret, TypeOK
    <2> QED BY <1>5, <2>1 DEF RemoveSecret, TypeOK
  <1>6. ASSUME NEW c \in Certificate, RemoveCertificate(c) PROVE TypeOK'
    <2>1. [exists |-> FALSE, issued |-> FALSE, upload |-> FALSE, fp |-> NoCert, id |-> NoCert]
             \in Current
      BY NoTypes DEF Current
    <2>2. /\ cr' \in [Certificate -> Current] /\ secret' \in [Certificate -> Gen]
          /\ hist' \in [Certificate -> SUBSET Material] /\ cas' \subseteq 1 .. MaxGen
      BY <1>6, <2>1, NoTypes DEF RemoveCertificate, TypeOK
    <2>3. budget' \in [outside : Nat, moves : Nat]
      BY <1>6, OutsideType DEF RemoveCertificate
    <2> QED BY <1>6, <2>2, <2>3 DEF RemoveCertificate, TypeOK
  <1> QED BY <1>1, <1>2, <1>3, <1>4, <1>5, <1>6 DEF CertificateStep

\* Somebody changes an object, or a target.
LEMMA SetObjectType ==
  ASSUME TypeOK, NEW b \in Binding, NEW o \in Object, SetObject(b, o),
         budget' \in [outside : Nat, moves : Nat]
  PROVE  TypeOK'
  <1>1. obj' \in [Binding -> Object]
    BY DEF SetObject, TypeOK
  <1> QED BY <1>1 DEF SetObject, TypeOK

\* Whoever changes a target leaves a domain there.
LEMMA SetTargetType ==
  ASSUME TypeOK, NEW a \in Account, NEW t \in TargetState, SetTarget(a, t),
         budget' \in [outside : Nat, moves : Nat], late' \subseteq Write
  PROVE  TypeOK'
  <1>1. tgt' \in [Account -> TargetState] /\ moved' \subseteq {"observed", "read"}
    BY DEF SetTarget, TypeOK
  <1> QED BY <1>1 DEF SetTarget, TypeOK

\* A crash ends the round; the write it was in may still arrive.
LEMMA CrashType ==
  ASSUME TypeOK, Crash
  PROVE  TypeOK'
  <1>1. late' \subseteq Write /\ budget' \in [outside : Nat, moves : Nat]
    <2>1. CASE UNCHANGED <<late, budget>>
      BY <2>1 DEF TypeOK
    <2>2. CASE pc = "write" /\ MayComeLate(PutRequest)
      BY <2>2, RequestTypes, MayComeLateType
    <2>3. CASE pc = "clear" /\ MayComeLate(ClearRequest)
      BY <2>3, RequestTypes, MayComeLateType
    <2> QED BY <2>1, <2>2, <2>3 DEF Crash
  <1>2. peers' \in [Binding -> [phase : Phase, gen : Nat]]
    BY DEF Crash, TypeOK, Object
  <1>3. wake' \in [Binding -> {"none", "drift", "now"}]
    BY DEF Crash
  <1>4. /\ pc' = "idle" /\ rd' \in Round /\ moved' = {} /\ unheard' = {} /\ ccr' = cr
        /\ UNCHANGED <<obj, st, certVars, tgt, worldVars>>
    BY NoTypes DEF Crash
  <1> QED BY <1>1, <1>2, <1>3, <1>4 DEF TypeOK, Step

\* What Console and a late write make of a target.
LEMMA ConsoleTarget ==
  ASSUME TypeOK, NEW a \in Account, Console(a)
  PROVE  \E t \in TargetState :
            /\ SetTarget(a, t)
            /\ t.cert \in {NoCert, Foreign, Garbage, tgt[a].cert}
  <1>0. tgt[a] \in TargetState
    BY DEF TypeOK
  <1>1. ASSUME NEW f \in {NoCert, Foreign, Garbage}, SetTarget(a, [tgt[a] EXCEPT !.cert = f])
        PROVE  \E t \in TargetState : SetTarget(a, t) /\ t.cert \in {NoCert, Foreign, Garbage, tgt[a].cert}
    <2>1. [tgt[a] EXCEPT !.cert = f] \in TargetState /\ [tgt[a] EXCEPT !.cert = f].cert = f
      BY <1>0, NoTypes DEF TargetState
    <2> QED BY <1>1, <2>1
  <1>2. ASSUME NEW p \in Protocol, SetTarget(a, [tgt[a] EXCEPT !.proto = p])
        PROVE  \E t \in TargetState : SetTarget(a, t) /\ t.cert \in {NoCert, Foreign, Garbage, tgt[a].cert}
    <2>1. /\ [tgt[a] EXCEPT !.proto = p] \in TargetState
          /\ [tgt[a] EXCEPT !.proto = p].cert = tgt[a].cert
      BY <1>0 DEF TargetState
    <2> QED BY <1>2, <2>1
  <1>3. ASSUME SetTarget(a, [tgt[a] EXCEPT !.other = @ + 1])
        PROVE  \E t \in TargetState : SetTarget(a, t) /\ t.cert \in {NoCert, Foreign, Garbage, tgt[a].cert}
    <2>1. /\ [tgt[a] EXCEPT !.other = @ + 1] \in TargetState
          /\ [tgt[a] EXCEPT !.other = @ + 1].cert = tgt[a].cert
      BY <1>0 DEF TargetState
    <2> QED BY <1>3, <2>1
  <1>4. ASSUME SetTarget(a, [tgt[a] EXCEPT !.exists = ~@, !.cert = NoCert])
        PROVE  \E t \in TargetState : SetTarget(a, t) /\ t.cert \in {NoCert, Foreign, Garbage, tgt[a].cert}
    <2>1. /\ [tgt[a] EXCEPT !.exists = ~@, !.cert = NoCert] \in TargetState
          /\ [tgt[a] EXCEPT !.exists = ~@, !.cert = NoCert].cert = NoCert
      BY <1>0, NoTypes DEF TargetState
    <2> QED BY <1>4, <2>1
  <1> QED BY <1>1, <1>2, <1>3, <1>4 DEF Console

\* The steps of users, cloud and clock.
LEMMA EnvironmentType ==
  ASSUME TypeOK, Environment
  PROVE  TypeOK'
  <1>0. budget \in [outside : Nat, moves : Nat] /\ late \subseteq Write
    BY DEF TypeOK
  <1>1. ASSUME NEW b \in Binding, CreateBinding(b) PROVE TypeOK'
    <2>1. \A u \in BOOLEAN : NewBinding(u) \in Object
      BY DEF NewBinding, Object, Phase
    <2>2. UnbindInit \subseteq BOOLEAN
      BY SwitchAssumption
    <2> QED BY <1>0, <1>1, <2>1, <2>2, SetObjectType DEF CreateBinding
  <1>2. ASSUME NEW b \in Binding, EditPolicy(b) PROVE TypeOK'
    <2>1. [obj[b] EXCEPT !.unbind = ~@, !.gen = @ + 1] \in Object
      <3>1. obj[b] \in Object /\ obj[b].gen + 1 \in Nat /\ (~obj[b].unbind) \in BOOLEAN
        BY DEF TypeOK, Object
      <3> QED BY <3>1 DEF Object
    <2> QED BY <1>2, <2>1, OutsideType, SetObjectType DEF EditPolicy
  <1>3. ASSUME NEW b \in Binding, DeleteBinding(b) PROVE TypeOK'
    <2>1. /\ [obj[b] EXCEPT !.phase = "deleting", !.gen = @ + 1] \in Object
          /\ [Absent EXCEPT !.phase = "gone"] \in Object
      <3>1. obj[b] \in Object /\ obj[b].gen + 1 \in Nat
        BY DEF TypeOK, Object
      <3> QED BY <3>1 DEF Object, Absent, Phase
    <2> QED BY <1>0, <1>3, <2>1, SetObjectType DEF DeleteBinding
  <1>4. ASSUME NEW b \in Binding, GracePeriodPasses(b) PROVE TypeOK'
    BY <1>4 DEF GracePeriodPasses, TypeOK
  <1>5. ASSUME NEW a \in Account, Console(a) PROVE TypeOK'
    <2>1. PICK t \in TargetState : SetTarget(a, t)
      BY <1>5, ConsoleTarget
    <2>2. budget' \in [outside : Nat, moves : Nat] /\ late' = late
      BY <1>5, OutsideType DEF Console
    <2> QED BY <1>0, <2>1, <2>2, SetTargetType
  <1>6. CASE LateWriteLands
    <2>1. PICK req \in late :
             /\ late' = late \ {req} /\ budget' = budget
             /\ \/ SetTarget(req.acct, Written(tgt[req.acct], req))
                \/ UNCHANGED <<tgt, moved, bindingVars, certVars, cacheVars, pc, rd, queueVars,
                               worldVars>>
      BY <1>6 DEF LateWriteLands
    <2>2. req \in Write /\ req.acct \in Account /\ Written(tgt[req.acct], req) \in TargetState
      BY <1>0, WrittenType DEF TypeOK, Write
    <2>3. CASE SetTarget(req.acct, Written(tgt[req.acct], req))
      BY <1>0, <2>1, <2>2, <2>3, SetTargetType
    <2>4. CASE UNCHANGED <<tgt, moved, bindingVars, certVars, cacheVars, pc, rd, queueVars, worldVars>>
      BY <1>0, <2>1, <2>4 DEF TypeOK
    <2> QED BY <2>1, <2>3, <2>4
  <1>7. CASE MoveCredentials
    <2>1. budget' \in [outside : Nat, moves : Nat] /\ account' \in Account \cup {NoAcc}
      BY <1>0, <1>7 DEF MoveCredentials
    <2> QED BY <1>7, <2>1 DEF MoveCredentials, TypeOK
  <1>8. CASE Stabilise
    BY <1>8 DEF Stabilise, TypeOK
  <1> QED BY <1>1, <1>2, <1>3, <1>4, <1>5, <1>6, <1>7, <1>8, CrashType DEF Environment

\* The initial states are typed: Certificate is an initial segment of the generations.
LEMMA CertificateBound == Certificate \subseteq 1 .. MaxGen /\ Cardinality(Certificate) \in Gen
  <1>1. PICK n \in 0 .. MaxGen : Certificate = 1 .. n
    BY OrderAssumption
  <1>2. MaxGen \in Nat
    BY LimitAssumption
  <1>3. Cardinality(1 .. n) = IF 1 > n THEN 0 ELSE n - 1 + 1
    BY <1>1, <1>2, FS_Interval
  <1> QED BY <1>1, <1>2, <1>3 DEF Gen

\* The first state is typed.
LEMMA InitType == Init => TypeOK
  <1> SUFFICES ASSUME Init PROVE TypeOK
    OBVIOUS
  <1>1. obj \in [Binding -> Object]
    <2>1. \A u \in BOOLEAN : NewBinding(u) \in Object
      BY DEF NewBinding, Object, Phase
    <2>2. PICK u \in UnbindInit :
             obj = [x \in Binding |-> IF x \in Existing THEN NewBinding(u) ELSE Absent]
      BY DEF Init
    <2>3. u \in BOOLEAN
      BY SwitchAssumption
    <2> QED BY <2>1, <2>2, <2>3, NoTypes
  <1>2. peers \in [Binding -> [phase : Phase, gen : Nat]]
    BY <1>1 DEF Init, Object
  <1>3. Certificate \subseteq Gen /\ Certificate \subseteq 1 .. MaxGen
    BY CertificateBound, LimitAssumption DEF Gen
  <1>4. cr \in [Certificate -> Current] /\ ccr = cr /\ cas \subseteq 1 .. MaxGen
    <2>1. PICK u \in BOOLEAN :
             /\ cr = [c \in Certificate |-> [exists |-> TRUE, issued |-> TRUE, upload |-> u,
                                             fp |-> c, id |-> IF u THEN c ELSE NoCert]]
             /\ cas = IF u THEN Certificate ELSE {}
      BY SwitchAssumption DEF Init
    <2>2. ccr = cr
      BY DEF Init
    <2> QED BY <1>3, <2>1, <2>2, NoTypes DEF Current
  <1>5. /\ secret \in [Certificate -> Gen] /\ hist \in [Certificate -> SUBSET Material]
        /\ last \in [fp : Gen, id : Gen] /\ adopted \subseteq 1 .. MaxGen
    BY <1>3, CertificateBound DEF Init
  <1>6. tgt \in [Account -> TargetState]
    <2>1. [exists : {TRUE}, cert : {NoCert}, other : {0}, proto : ProtocolInit] \subseteq TargetState
      <3>1. ProtocolInit \subseteq Protocol /\ NoCert \in OnTarget
        BY NoTypes, SwitchAssumption DEF Protocol
      <3> SUFFICES ASSUME NEW t \in [exists : {TRUE}, cert : {NoCert}, other : {0}, proto : ProtocolInit]
                   PROVE  t \in TargetState
        OBVIOUS
      <3>2. t = [exists |-> TRUE, cert |-> NoCert, other |-> 0, proto |-> t.proto]
        OBVIOUS
      <3>3. t.proto \in Protocol
        BY <3>1
      <3>4. ASSUME NEW p \in Protocol
            PROVE  [exists |-> TRUE, cert |-> NoCert, other |-> 0, proto |-> p] \in TargetState
        BY <3>1 DEF TargetState
      <3> QED BY <3>2, <3>3, <3>4
    <2> QED BY <2>1 DEF Init
  <1>7. wake \in [Binding -> {"none", "drift", "now"}]
    BY DEF Init
  <1> QED BY <1>1, <1>2, <1>4, <1>5, <1>6, <1>7, NoTypes DEF Init, TypeOK, Step

\* Every step keeps the types.
LEMMA NextType == TypeOK /\ [Next]_vars => TypeOK'
  <1> SUFFICES ASSUME TypeOK, [Next]_vars PROVE TypeOK'
    OBVIOUS
  <1>1. CASE UNCHANGED vars
    BY <1>1 DEF vars, TypeOK
  <1>2. CASE ContinueRound
    BY <1>2, ObserveType, WriteType, EndType DEF ContinueRound
  <1> QED BY <1>1, <1>2, StartRoundType, WatchesType, CertificateStepType, EnvironmentType
          DEF Next, Worker

\* The controller's variables keep their types: in particular every round past
\* Observe has a client of a real account, and every write that was given up is
\* one the controller sent.
THEOREM BindingTypes == Spec => []TypeOK
  <1> QED BY InitType, NextType, PTL DEF Spec
-----------------------------------------------------------------------------
(* Safety: the inductive invariant *)

\* An object is deleted in stages only if it has the finalizer, and has recorded
\* nothing in its status before it has one; no status is ahead of its object.
ObjectInv ==
    \A b \in Binding :
        /\ obj[b].phase = "deleting" => obj[b].fin
        /\ obj[b].fin => obj[b].phase \in {"live", "deleting"}
        /\ ~obj[b].fin => st[b].og = 0 /\ st[b].applied = NoCert
        /\ st[b].og <= obj[b].gen

\* The places of a deletion round.
Deleting == {"unbind", "clearGet", "clear", "failed", "finish"}

\* While a round is under way its object cannot go, and the working copy agrees
\* with the status, which only this worker writes, on what has been applied and
\* where; only the copy that is about to be patched may say something new.
RoundInv ==
    pc # "idle" =>
        /\ obj[rd.b].fin
        /\ st[rd.b].og <= rd.w.og /\ rd.w.og <= obj[rd.b].gen
        /\ pc # "patch" => /\ rd.w.applied = st[rd.b].applied /\ rd.w.ref = st[rd.b].ref
                           /\ rd.w.bound = st[rd.b].bound
        /\ pc = "patch" => rd.w.applied \in {st[rd.b].applied} \cup adopted
        /\ pc \in Deleting => rd.w.og = st[rd.b].og /\ obj[rd.b].phase = "deleting"

\* What is read of a certificate's status was adopted by its controller.
CertsAdopted ==
    \A c \in Certificate : {cr[c].fp, ccr[c].fp} \subseteq {NoCert} \cup adopted

\* What a round goes on with was adopted and covers the domain.
MaterialAdopted ==
    pc \in {"observe", "get", "write"} => rd.m.fp \in adopted \ Uncovered

\* So is what a write that was given up may still put there.
LateAdopted ==
    ~ByRef => \A req \in late : req.cert \in {NoCert} \cup (adopted \ Uncovered)

\* Past the fence the client is one of the account the binding is bound to.
FenceInv ==
    pc \in {"get", "write", "clearGet", "clear"} => st[rd.b].bound \in {NoAcc, rd.acct}

\* Past the comparison the target shows what the binding applied, and past the
\* read-back the round holds the rest of the domain, until somebody else changes it.
OwnInv ==
    pc \in {"clearGet", "clear"} /\ "observed" \notin moved =>
        Seen(tgt[rd.acct]) = Applied(st[rd.b])

\* Between the read-back and the write the copy of the domain is the domain.
EchoInv ==
    ~ByRef /\ pc \in {"write", "clear"} /\ "read" \notin moved =>
        rd.proto = tgt[rd.acct].proto /\ rd.other = tgt[rd.acct].other

\* The inductive invariant.
SafetyInv ==
    /\ ObjectInv /\ RoundInv
    /\ CertsAdopted /\ MaterialAdopted /\ LateAdopted /\ OnlyAdopted
    /\ FenceInv /\ OwnInv /\ EchoInv
-----------------------------------------------------------------------------
(* Steps, by what they touch *)

\* Steps that leave the objects, the round and the cloud alone.
LEMMA WorldKeeps ==
  ASSUME SafetyInv, UNCHANGED <<obj, st, pc, rd, tgt, late, moved>>,
         adopted \subseteq adopted', CertsAdopted'
  PROVE  SafetyInv'
  <1>1. ObjectInv'
    BY DEF SafetyInv, ObjectInv
  <1>2. RoundInv'
    BY DEF SafetyInv, RoundInv
  <1>3. MaterialAdopted' /\ LateAdopted' /\ OnlyAdopted'
    BY DEF SafetyInv, MaterialAdopted, LateAdopted, OnlyAdopted
  <1>4. FenceInv' /\ OwnInv' /\ EchoInv'
    BY DEF SafetyInv, FenceInv, OwnInv, EchoInv
  <1> QED BY <1>1, <1>2, <1>3, <1>4 DEF SafetyInv

\* Steps of the worker that end in the patch.
LEMMA ToPatch ==
  ASSUME TypeOK, SafetyInv, pc \notin Deleting \cup {"idle"}, UNCHANGED <<obj, st, cr, ccr, adopted>>,
         pc' = "patch", rd'.b = rd.b, rd'.w.og = rd.w.og,
         rd'.w.applied \in {st[rd.b].applied} \cup adopted, LateAdopted', OnlyAdopted'
  PROVE  SafetyInv'
  <1>1. ObjectInv' /\ CertsAdopted'
    BY DEF SafetyInv, ObjectInv, CertsAdopted
  <1>2. RoundInv'
    BY DEF SafetyInv, RoundInv, Deleting
  <1>3. MaterialAdopted' /\ FenceInv' /\ OwnInv' /\ EchoInv'
    BY DEF MaterialAdopted, FenceInv, OwnInv, EchoInv
  <1> QED BY <1>1, <1>2, <1>3 DEF SafetyInv

\* Steps of a deletion that end a call to the cloud.
LEMMA ToDeletion ==
  ASSUME TypeOK, SafetyInv, pc \in Deleting, UNCHANGED <<obj, st, cr, ccr, adopted>>,
         pc' \in {"failed", "finish"}, rd'.b = rd.b, rd'.w = rd.w, LateAdopted', OnlyAdopted'
  PROVE  SafetyInv'
  <1>1. ObjectInv' /\ CertsAdopted'
    BY DEF SafetyInv, ObjectInv, CertsAdopted
  <1>2. RoundInv'
    BY DEF SafetyInv, RoundInv, Deleting
  <1>3. MaterialAdopted' /\ FenceInv' /\ OwnInv' /\ EchoInv'
    BY DEF MaterialAdopted, FenceInv, OwnInv, EchoInv
  <1> QED BY <1>1, <1>2, <1>3 DEF SafetyInv

\* Steps that leave no round.
LEMMA ToIdle ==
  ASSUME pc' = "idle", ObjectInv', CertsAdopted', LateAdopted', OnlyAdopted'
  PROVE  SafetyInv'
  BY DEF SafetyInv, RoundInv, MaterialAdopted, FenceInv, OwnInv, EchoInv

\* The cloud part is kept by whoever leaves the cloud alone.
LEMMA CloudKept ==
  ASSUME SafetyInv, UNCHANGED <<tgt, late>>, adopted \subseteq adopted'
  PROVE  LateAdopted' /\ OnlyAdopted'
  BY DEF SafetyInv, LateAdopted, OnlyAdopted
-----------------------------------------------------------------------------
(* The worker *)

\* A round on a live binding starts.
LEMMA BeginKeeps ==
  ASSUME TypeOK, SafetyInv, NEW b \in Binding, NEW step \in {"patch", "observe"}, NEW w \in Status,
         NEW m \in Material, NEW next \in {"none", "drift", "now"}, Begin(b, step, w, m, next),
         Keeps(w, Base(b)), step = "observe" => m.fp \in adopted \ Uncovered
  PROVE  SafetyInv'
  <1>1. st[b] \in Status /\ obj[b] \in Object /\ obj[b].gen \in Nat
    BY DEF TypeOK, Object
  <1>2. /\ w.og = obj[b].gen /\ w.applied = st[b].applied /\ w.ref = st[b].ref
        /\ w.bound = st[b].bound
    BY <1>1 DEF Keeps, Base, Status
  <1>3. rd'.b = b /\ rd'.w = w /\ rd'.m = m
    <2>1. rd' = Started(b, obj[b].gen, w, m, next)
      BY DEF Begin, Started
    <2> QED BY <1>1, <2>1, StartedRound
  <1>4. /\ obj'[b].fin = TRUE /\ obj'[b].phase = "live" /\ obj[b].phase = "live" /\ obj'[b].gen = obj[b].gen
        /\ \A x \in Binding \ {b} : obj'[x] = obj[x]
    BY <1>1 DEF Begin, TypeOK, Object
  <1>5. /\ pc' = step /\ UNCHANGED <<st, cr, ccr, adopted, tgt, late>>
    BY DEF Begin
  <1>6. ObjectInv'
    BY <1>4, <1>5 DEF SafetyInv, ObjectInv
  <1>7. RoundInv'
    BY <1>1, <1>2, <1>3, <1>4, <1>5 DEF SafetyInv, ObjectInv, RoundInv, Deleting
  <1>8. CertsAdopted' /\ MaterialAdopted'
    BY <1>3, <1>5 DEF SafetyInv, CertsAdopted, MaterialAdopted
  <1>9. FenceInv' /\ OwnInv' /\ EchoInv'
    BY <1>5 DEF FenceInv, OwnInv, EchoInv
  <1> QED BY <1>5, <1>6, <1>7, <1>8, <1>9, CloudKept DEF SafetyInv

\* A deletion round starts.
LEMMA DeletionBegins ==
  ASSUME TypeOK, SafetyInv, NEW b \in Binding, DeleteKeepsTarget(b) \/ DeleteStarts(b)
  PROVE  SafetyInv'
  <1>1. /\ st[b] \in Status /\ obj[b].gen \in Nat /\ obj[b].phase = "deleting"
        /\ UNCHANGED <<obj, cr, ccr, adopted, tgt, late>>
    BY DEF TypeOK, Object, DeleteKeepsTarget, DeleteStarts
  <1>2. /\ Keeps(st'[b], st[b]) /\ st'[b] \in Status
        /\ \A x \in Binding \ {b} : st'[x] = st[x]
    <2>1. CASE DeleteKeepsTarget(b)
      BY <1>1, <2>1 DEF DeleteKeepsTarget, Keeps
    <2>2. CASE DeleteStarts(b)
      <3>1. st'[b] = [st[b] EXCEPT !.cleanup = TRUE] /\ \A x \in Binding \ {b} : st'[x] = st[x]
        BY <2>2 DEF DeleteStarts, TypeOK
      <3> QED BY <1>1, <3>1 DEF Keeps, Status
    <2> QED BY <2>1, <2>2
  <1>3. rd'.b = b /\ rd'.w = st'[b] /\ pc' \in {"finish", "unbind"}
    <2>1. rd' = GoesOn(b, obj[b].gen, st'[b]) /\ pc' \in {"finish", "unbind"}
      BY DEF DeleteKeepsTarget, DeleteStarts, GoesOn
    <2> QED BY <1>1, <1>2, <2>1, DeletingRound
  <1>4. ObjectInv'
    BY <1>1, <1>2 DEF SafetyInv, ObjectInv, Keeps
  <1>5. RoundInv'
    <2>1. st'[b].og \in Nat /\ obj[b].fin /\ st'[b].og <= obj[b].gen
      BY <1>1, <1>2, <1>4 DEF SafetyInv, ObjectInv, Status
    <2> QED BY <1>1, <1>3, <2>1 DEF RoundInv, Deleting
  <1>6. CertsAdopted' /\ MaterialAdopted' /\ FenceInv' /\ OwnInv' /\ EchoInv'
    BY <1>1, <1>3 DEF SafetyInv, CertsAdopted, MaterialAdopted, FenceInv, OwnInv, EchoInv
  <1> QED BY <1>1, <1>4, <1>5, <1>6, CloudKept DEF SafetyInv

\* The first step of a round.
LEMMA StartRoundKeeps ==
  ASSUME TypeOK, SafetyInv, NEW b \in Binding, StartRound(b)
  PROVE  SafetyInv'
  <1>0. /\ obj[b] \in Object /\ st[b] \in Status /\ obj[b].gen \in Nat
        /\ CertOf[b] \in Certificate
    BY OrderAssumption DEF TypeOK, Object
  <1>1. Base(b) \in Status
    BY <1>0 DEF Base, Status
  <1>2. BaseOfWinner(b) \in Status /\ Keeps(BaseOfWinner(b), Base(b))
    BY <1>1, ConflictType DEF BaseOfWinner
  <1>3. MaterialOf(b) \in Material /\ MaterialOf(b).fp = SecretOf(b)
    <2>1. SecretOf(b) \in Gen /\ Cert(b).id \in Gen /\ NoCert \in Gen
      BY <1>0, NoTypes DEF SecretOf, Cert, TypeOK, Current
    <2> QED BY <2>1 DEF MaterialOf, Material
  <1>4. CASE RoundOfNothing(b)
    BY <1>4, WorldKeeps DEF RoundOfNothing, SafetyInv, CertsAdopted
  <1>5. CASE CertificateNotFound(b) \/ CertificateNotReady(b)
    BY <1>1, <1>5, NoTypes, ReadyFalseType, BeginKeeps DEF CertificateNotFound, CertificateNotReady
  <1>6. CASE ConflictingBinding(b)
    <2> DEFINE v == [Base(b) EXCEPT !.conflict = "peer"]
    <2>1. v \in Status /\ Keeps(v, Base(b))
      BY <1>1, ConflictType
    <2> HIDE DEF v
    <2>2. AggregateReady(v) \in Status /\ Keeps(AggregateReady(v), Base(b))
      BY <2>1, AggregateReadyType DEF Keeps
    <2>3. Begin(b, "patch", AggregateReady(v), NoMaterial, "drift")
      BY <1>6 DEF ConflictingBinding, v
    <2> QED BY <2>2, <2>3, NoTypes, BeginKeeps
  <1>7. CASE MaterialRejected(b) \/ CertificateGateHolds(b) \/ CasUploadRequired(b)
    <2>1. /\ ReadyFalse(BaseOfWinner(b)) \in Status /\ AppliedFalse(BaseOfWinner(b)) \in Status
          /\ Keeps(ReadyFalse(BaseOfWinner(b)), Base(b))
          /\ Keeps(AppliedFalse(BaseOfWinner(b)), Base(b))
      BY <1>2, ReadyFalseType, AppliedFalseType DEF Keeps
    <2> QED BY <1>7, <2>1, NoTypes, BeginKeeps
       DEF MaterialRejected, CertificateGateHolds, CasUploadRequired
  <1>8. CASE StartObserve(b)
    <2>1. SecretOf(b) \in adopted \ Uncovered
      <3>1. SecretOf(b) # NoCert /\ SecretOf(b) \notin Uncovered /\ Cert(b).fp = SecretOf(b)
        BY <1>8 DEF StartObserve, MaterialUsable, CertificateGate
      <3> QED BY <1>0, <3>1 DEF Cert, SafetyInv, CertsAdopted
    <2> QED BY <1>2, <1>3, <1>8, <2>1, BeginKeeps DEF StartObserve
  <1> QED BY <1>4, <1>5, <1>6, <1>7, <1>8, DeletionBegins DEF StartRound

\* What Observe and its errors end in: what is recorded is what was applied before,
\* or the material that was found on the target.
LEMMA ObserveKeeps ==
  ASSUME TypeOK, SafetyInv,
         \/ FactoryError \/ ObserveTargetNotFound \/ ObserveAuthFails \/ ObserveFails
         \/ ObserveFenced \/ ObserveAsWanted \/ ApplyFails \/ ApplyTargetNotFound
  PROVE  SafetyInv'
  <1>0. /\ pc \in {"observe", "get", "write"} /\ rd.w \in Status /\ rd.m \in Material
        /\ rd.b \in Binding /\ rd.gen \in Nat
        /\ rd.w.applied = st[rd.b].applied /\ rd.m.fp \in adopted
    <2>1. pc \in {"observe", "get", "write"}
      BY DEF FactoryError, ObserveTargetNotFound, ObserveAuthFails, ObserveFails,
         ObserveFenced, ObserveAsWanted, ApplyFails, ApplyTargetNotFound
    <2> QED BY <2>1, RoundParts DEF TypeOK, SafetyInv, RoundInv, MaterialAdopted
  <1> DEFINE Ok(w) == /\ w \in Status /\ w.og = rd.w.og
                      /\ w.applied \in {st[rd.b].applied} \cup adopted
                      /\ \E next \in {"none", "drift", "now"} : Conclude(w, next)
  <1>1. ASSUME NEW w, Ok(w) PROVE SafetyInv'
    <2>1. PICK next \in {"none", "drift", "now"} : Conclude(w, next)
      BY <1>1
    <2>2. rd' = Patching(rd.b, rd.gen, w, next) /\ pc' = "patch"
          /\ UNCHANGED <<obj, st, cr, ccr, adopted, tgt, late>>
      BY <2>1 DEF Conclude, Patching
    <2>3. rd'.b = rd.b /\ rd'.w = w
      BY <1>0, <1>1, <2>2, PatchingRound
    <2> QED BY <1>0, <1>1, <2>2, <2>3, CloudKept, ToPatch DEF Deleting
  <1>2. /\ ReadyFalse(rd.w) \in Status /\ AppliedFalse(rd.w) \in Status
        /\ Keeps(ReadyFalse(rd.w), rd.w) /\ Keeps(AppliedFalse(rd.w), rd.w)
    BY <1>0, ReadyFalseType, AppliedFalseType
  <1>3. CASE FactoryError \/ ObserveAuthFails
    BY <1>0, <1>1, <1>2, <1>3 DEF FactoryError, ObserveAuthFails, Keeps
  <1>4. CASE ObserveTargetNotFound \/ ApplyTargetNotFound \/ ApplyFails
    BY <1>0, <1>1, <1>2, <1>4 DEF ObserveTargetNotFound, ApplyTargetNotFound, ApplyFails, Keeps
  <1>5. CASE ObserveFails
    <2>1. /\ AggregateReady(NoteObserveFailed(rd.w)) \in Status
          /\ Keeps(AggregateReady(NoteObserveFailed(rd.w)), rd.w)
      BY <1>0, NoteObserveFailedType, AggregateReadyType DEF Keeps
    <2> QED BY <1>0, <1>1, <1>5, <2>1 DEF ObserveFails, Keeps
  <1>6. CASE ObserveFenced
    <2> DEFINE v == [rd.w EXCEPT !.conflict = "account"]
    <2>1. v \in Status /\ Keeps(v, rd.w)
      BY <1>0, ConflictType
    <2>2. Conclude(AggregateReady(v), "drift")
      BY <1>6 DEF ObserveFenced
    <2> HIDE DEF v
    <2>3. AggregateReady(v) \in Status /\ Keeps(AggregateReady(v), rd.w)
      BY <2>1, AggregateReadyType DEF Keeps
    <2> QED BY <1>0, <1>1, <2>2, <2>3 DEF Keeps
  <1>7. CASE ObserveAsWanted
    <2>1. PICK oacct \in Reported : Conclude(AggregateReady(FreezeApplied(rd.w, rd.m, oacct)), "drift")
      BY <1>7 DEF ObserveAsWanted
    <2>2. oacct \in Account \cup {NoAcc}
      BY DEF Reported, TypeOK
    <2> DEFINE v == FreezeApplied(rd.w, rd.m, oacct)
    <2>3. v \in Status /\ v.og = rd.w.og /\ v.applied = rd.m.fp
      BY <1>0, <2>2, FreezeAppliedType
    <2> HIDE DEF v
    <2>4. /\ AggregateReady(v) \in Status /\ AggregateReady(v).og = rd.w.og
          /\ AggregateReady(v).applied = rd.m.fp
      BY <2>3, AggregateReadyType DEF Keeps
    <2>5. Conclude(AggregateReady(v), "drift")
      BY <2>1 DEF v
    <2> QED BY <1>0, <1>1, <2>4, <2>5
  <1> QED BY <1>3, <1>4, <1>5, <1>6, <1>7

\* What a read of the target leaves of the round.
SameRound(q) == q.b = rd.b /\ q.m = rd.m /\ Keeps(q.w, rd.w)

\* Steps that go on to the next call with the same round.
LEMMA RoundGoesOn ==
  ASSUME TypeOK, SafetyInv, UNCHANGED <<obj, st, cr, ccr, adopted, tgt, late>>, SameRound(rd'),
         \/ pc \in {"observe", "get"} /\ pc' \in {"get", "write"}
         \/ pc \in {"unbind", "clearGet"} /\ pc' \in {"clearGet", "clear"},
         FenceInv', OwnInv', EchoInv'
  PROVE  SafetyInv'
  <1>1. ObjectInv' /\ CertsAdopted'
    BY DEF SafetyInv, ObjectInv, CertsAdopted
  <1>2. RoundInv'
    BY DEF SafetyInv, RoundInv, Deleting, SameRound, Keeps
  <1>3. MaterialAdopted'
    BY DEF SafetyInv, MaterialAdopted, SameRound
  <1> QED BY <1>1, <1>2, <1>3, CloudKept DEF SafetyInv

\* The fence was passed in the account of the client.
LEMMA PastTheFence ==
  ASSUME TypeOK, NEW w \in Status, NEW oacct \in Reported, ~Fenced(w, oacct)
  PROVE  w.bound \in {NoAcc, account}
  BY DEF Fenced, Reported

\* The fence is passed, and the target is to be written.
LEMMA ObserveDiffersKeeps ==
  ASSUME TypeOK, SafetyInv, ObserveDiffers
  PROVE  SafetyInv'
  <1>0. /\ pc = "observe" /\ rd \in Round /\ rd.b \in Binding /\ rd.w \in Status
        /\ account \in Account /\ tgt[account] \in TargetState
        /\ pc' = ReadBack("get", "write") /\ moved' = {}
        /\ UNCHANGED <<obj, st, cr, ccr, adopted, tgt, late>>
    BY RoundParts DEF ObserveDiffers, TypeOK
  <1>1. PICK oacct \in Reported :
           /\ ~Fenced(rd.w, oacct)
           /\ rd' = [rd EXCEPT !.acct = account, !.oacct = oacct,
                               !.w = NoteDrift(@, Seen(tgt[account]), Want(rd.m))]
    BY DEF ObserveDiffers
  <1>2. Keeps(NoteDrift(rd.w, Seen(tgt[account]), Want(rd.m)), rd.w)
    <2>1. Seen(tgt[account]) \in OnTarget
      BY <1>0, NoTypes DEF Seen, TargetState
    <2> QED BY <1>0, <2>1, NoteDriftType
  <1>3. SameRound(rd') /\ rd'.acct = account
    BY <1>0, <1>1, <1>2 DEF SameRound, Round
  <1>4. FenceInv'
    <2>1. rd.w.bound \in {NoAcc, account} /\ rd.w.bound = st[rd.b].bound
      BY <1>0, <1>1, PastTheFence DEF SafetyInv, RoundInv
    <2> QED BY <1>0, <1>3, <2>1 DEF FenceInv, SameRound
  <1>5. pc' \in {"get", "write"} /\ (~ByRef => pc' = "get")
    BY <1>0 DEF ReadBack
  <1>6. OwnInv' /\ EchoInv'
    BY <1>5 DEF OwnInv, EchoInv
  <1> QED BY <1>0, <1>3, <1>4, <1>5, <1>6, RoundGoesOn

\* The target shows the certificate the binding applied, and is to be cleared.
LEMMA UnbindOwnKeeps ==
  ASSUME TypeOK, SafetyInv, UnbindOwn
  PROVE  SafetyInv'
  <1>0. /\ pc = "unbind" /\ rd \in Round /\ rd.b \in Binding /\ rd.w \in Status
        /\ st[rd.b] \in Status
        /\ pc' = ReadBack("clearGet", "clear") /\ moved' = {}
        /\ rd' = [rd EXCEPT !.acct = account]
        /\ UNCHANGED <<obj, st, cr, ccr, adopted, tgt, late>>
    BY RoundParts DEF UnbindOwn, TypeOK
  <1>1. PICK oacct \in Reported : Own(rd.w, tgt[account], oacct)
    BY DEF UnbindOwn
  <1>2. SameRound(rd') /\ rd'.acct = account
    BY <1>0 DEF SameRound, Round, Keeps
  <1>3. /\ rd.w.bound = st[rd.b].bound /\ rd.w.applied = st[rd.b].applied
        /\ rd.w.ref = st[rd.b].ref
    BY <1>0 DEF SafetyInv, RoundInv
  <1>4. FenceInv'
    <2>1. rd.w.bound \in {NoAcc, account}
      BY <1>0, <1>1, PastTheFence DEF Own
    <2> QED BY <1>0, <1>2, <1>3, <2>1 DEF FenceInv, SameRound
  <1>5. pc' \in {"clearGet", "clear"} /\ (~ByRef => pc' = "clearGet")
    BY <1>0 DEF ReadBack
  <1>6. OwnInv'
    <2>1. Seen(tgt[account]) = Applied(rd.w)
      BY <1>1 DEF Own
    <2>2. Applied(rd.w) = Applied(st[rd.b])
      BY <1>3 DEF Applied
    <2> QED BY <1>0, <1>2, <2>1, <2>2 DEF OwnInv, SameRound
  <1>7. EchoInv'
    BY <1>5 DEF EchoInv
  <1> QED BY <1>0, <1>2, <1>4, <1>5, <1>6, <1>7, RoundGoesOn

\* The domain is read back.
LEMMA GetKeeps ==
  ASSUME TypeOK, SafetyInv, ApplyGet \/ ClearGet
  PROVE  SafetyInv'
  <1>0. /\ rd \in Round /\ rd' = Echo(tgt[rd.acct])
        /\ moved' = moved \ {"read"}
        /\ UNCHANGED <<obj, st, cr, ccr, adopted, tgt, late>>
        /\ \/ pc = "get" /\ pc' = "write"
           \/ pc = "clearGet" /\ pc' = "clear"
    BY DEF ApplyGet, ClearGet, TypeOK
  <1>1. /\ SameRound(rd') /\ rd'.acct = rd.acct
        /\ rd'.proto = tgt[rd.acct].proto /\ rd'.other = tgt[rd.acct].other
    BY <1>0 DEF Echo, Round, SameRound, Keeps
  <1>2. FenceInv' /\ OwnInv' /\ EchoInv'
    BY <1>0, <1>1 DEF SafetyInv, FenceInv, OwnInv, EchoInv, SameRound
  <1> QED BY <1>0, <1>1, <1>2, RoundGoesOn

\* The certificate a request carries, and what it makes of the target.
LEMMA RequestCert ==
  /\ PutRequest.cert = Want(rd.m) /\ ClearRequest.cert = NoCert
  /\ PutRequest.proto = ProtocolFor(rd.proto) /\ ClearRequest.proto = ProtocolWithout(rd.proto)
  /\ PutRequest.other = rd.other /\ ClearRequest.other = rd.other
  BY DEF PutRequest, ClearRequest

\* What a write puts on a target.
LEMMA WrittenCert ==
  ASSUME NEW t \in TargetState, NEW req \in Write
  PROVE  /\ Written(t, req).cert \in {t.cert, req.cert}
         /\ t.exists /\ ~ByRef => /\ Written(t, req).proto = req.proto
                                  /\ Written(t, req).other = req.other
         /\ ByRef => Written(t, req).proto = t.proto /\ Written(t, req).other = t.other
  BY DEF Written, TargetState

\* The writes, answered or not: what is sent is adopted and covers the domain.
LEMMA WriteKeeps ==
  ASSUME TypeOK, SafetyInv, ApplyWrite \/ ApplyTimesOut \/ ClearWrite \/ ClearTimesOut
  PROVE  SafetyInv'
  <1>0. /\ pc \in {"write", "clear"} /\ rd.b \in Binding /\ rd.gen \in Nat /\ rd.acct \in Account
        /\ rd.w \in Status /\ rd.m \in Material /\ rd.oacct \in Account \cup {NoAcc}
        /\ PutRequest \in Write /\ ClearRequest \in Write
    BY RoundParts, RequestTypes DEF TypeOK, ApplyWrite, ApplyTimesOut, ClearWrite, ClearTimesOut
  <1>1. PICK req \in Write :
           /\ req \in {PutRequest, ClearRequest} /\ (pc = "write" => req = PutRequest)
           /\ pc = "clear" => req = ClearRequest
           /\ \/ tgt' = [tgt EXCEPT ![rd.acct] = Written(@, req)] /\ late' = late
              \/ tgt' = tgt /\ late' = late \cup {req}
    BY <1>0 DEF ApplyWrite, ApplyTimesOut, ClearWrite, ClearTimesOut, MayComeLate
  <1>2. ~ByRef => req.cert \in {NoCert} \cup (adopted \ Uncovered)
    BY <1>0, <1>1, RequestCert DEF SafetyInv, MaterialAdopted, Want
  <1>3. UNCHANGED <<obj, st, cr, ccr, adopted>>
    BY DEF ApplyWrite, ApplyTimesOut, ClearWrite, ClearTimesOut
  <1>4. LateAdopted'
    BY <1>1, <1>2, <1>3 DEF SafetyInv, LateAdopted
  <1>5. OnlyAdopted'
    <2> SUFFICES ASSUME ~ByRef, NEW a \in Account
                 PROVE  tgt'[a].cert \in {NoCert, Foreign, Garbage} \cup (adopted \ Uncovered)
      BY <1>3 DEF OnlyAdopted
    <2>1. tgt[a].cert \in {NoCert, Foreign, Garbage} \cup (adopted \ Uncovered)
      BY DEF SafetyInv, OnlyAdopted
    <2>2. tgt'[a] = tgt[a] \/ tgt'[a] = Written(tgt[a], req)
      BY <1>0, <1>1 DEF TypeOK
    <2>3. tgt'[a].cert \in {tgt[a].cert, req.cert}
      BY <2>2, WrittenCert DEF TypeOK
    <2> QED BY <1>2, <2>1, <2>3
  <1>6. CASE ApplyWrite \/ ApplyTimesOut
    <2> DEFINE v == FreezeApplied(rd.w, rd.m, rd.oacct)
    <2>1. v \in Status /\ v.og = rd.w.og /\ v.applied = rd.m.fp
      BY <1>0, FreezeAppliedType
    <2>2. \/ rd' = Patching(rd.b, rd.gen, AggregateReady(v), "drift")
          \/ rd' = Patching(rd.b, rd.gen, AppliedFalse(rd.w), "now")
      BY <1>6 DEF ApplyWrite, ApplyTimesOut, Patching, NoRound
    <2> HIDE DEF v
    <2>3. /\ AggregateReady(v) \in Status /\ AggregateReady(v).og = rd.w.og
          /\ AggregateReady(v).applied = rd.m.fp
      BY <2>1, AggregateReadyType DEF Keeps
    <2>4. /\ AppliedFalse(rd.w) \in Status /\ Keeps(AppliedFalse(rd.w), rd.w)
      BY <1>0, AppliedFalseType
    <2>5. pc = "write" /\ pc' = "patch"
      BY <1>6 DEF ApplyWrite, ApplyTimesOut
    <2>6. rd.w.applied = st[rd.b].applied /\ rd.m.fp \in adopted
      BY <2>5 DEF SafetyInv, RoundInv, MaterialAdopted
    <2>7. /\ rd'.b = rd.b /\ rd'.w.og = rd.w.og
          /\ rd'.w.applied \in {st[rd.b].applied} \cup adopted
      BY <1>0, <2>2, <2>3, <2>4, <2>6, PatchingRound DEF Keeps
    <2> QED BY <1>3, <1>4, <1>5, <2>5, <2>7, ToPatch DEF Deleting
  <1>7. CASE ClearWrite \/ ClearTimesOut
    <2>1. rd' = GoesOn(rd.b, rd.gen, rd.w) /\ pc = "clear" /\ pc' \in {"failed", "finish"}
      BY <1>7 DEF ClearWrite, ClearTimesOut, GoesOn
    <2>2. rd'.b = rd.b /\ rd'.w = rd.w
      BY <1>0, <2>1, DeletingRound
    <2> QED BY <1>3, <1>4, <1>5, <2>1, <2>2, ToDeletion DEF Deleting
  <1> QED BY <1>6, <1>7

\* The ends of rounds, and the rest of a deletion.
LEMMA EndKeeps ==
  ASSUME TypeOK, SafetyInv,
         \/ PatchBinding \/ PatchFails \/ UnbindFails \/ UnbindSkips \/ ClearNotFound
         \/ CleanupRetries \/ CleanupPatchFails \/ CleanupAbandoned
         \/ RemoveFinalizer \/ RemoveFinalizerFails
  PROVE  SafetyInv'
  <1>0. /\ pc # "idle" /\ rd.b \in Binding /\ rd.w \in Status /\ rd.gen \in Nat
        /\ obj \in [Binding -> Object] /\ st \in [Binding -> Status]
    BY RoundParts DEF TypeOK, PatchBinding, PatchFails, UnbindFails, UnbindSkips, ClearNotFound,
       CleanupRetries, CleanupPatchFails, CleanupAbandoned, RemoveFinalizer, RemoveFinalizerFails
  <1>1. CASE UnbindFails \/ UnbindSkips \/ ClearNotFound \/ CleanupAbandoned
    <2>1. /\ pc \in Deleting /\ pc' \in {"failed", "finish"} /\ rd' = GoesOn(rd.b, rd.gen, rd.w)
          /\ UNCHANGED <<obj, st, cr, ccr, adopted, tgt, late>>
      BY <1>1 DEF UnbindFails, UnbindSkips, ClearNotFound, CleanupAbandoned, GoTo, GoesOn, Deleting
    <2>2. rd'.b = rd.b /\ rd'.w = rd.w
      BY <1>0, <2>1, DeletingRound
    <2> QED BY <2>1, <2>2, CloudKept, ToDeletion
  <1>2. CASE \/ PatchBinding \/ PatchFails \/ CleanupRetries \/ CleanupPatchFails
             \/ RemoveFinalizer \/ RemoveFinalizerFails
    <2>1. pc' = "idle" /\ UNCHANGED <<cr, ccr, adopted, tgt, late>>
      BY <1>2 DEF PatchBinding, PatchFails, CleanupRetries, CleanupPatchFails, RemoveFinalizer,
                  RemoveFinalizerFails, EndRound
    <2>2. CertsAdopted' /\ LateAdopted' /\ OnlyAdopted'
      BY <2>1, CloudKept DEF SafetyInv, CertsAdopted
    <2>3. ObjectInv'
      <3>1. /\ obj[rd.b].fin /\ rd.w.og <= obj[rd.b].gen
        BY <1>0 DEF SafetyInv, RoundInv
      <3>2. CASE PatchFails \/ CleanupPatchFails \/ RemoveFinalizerFails
        BY <3>2 DEF PatchFails, CleanupPatchFails, RemoveFinalizerFails, SafetyInv, ObjectInv
      <3>3. CASE PatchBinding \/ CleanupRetries
        <4>1. /\ st'[rd.b] \in {rd.w, ReadyFalse(rd.w)} /\ obj' = obj
              /\ \A x \in Binding \ {rd.b} : st'[x] = st[x]
          BY <1>0, <3>3 DEF PatchBinding, CleanupRetries
        <4>2. st'[rd.b].og = rd.w.og
          BY <1>0, <4>1, ReadyFalseType DEF Keeps
        <4> QED BY <1>0, <3>1, <4>1, <4>2 DEF SafetyInv, ObjectInv
      <3>4. CASE RemoveFinalizer
        <4> DEFINE gone == [Absent EXCEPT !.phase = "gone"]
        <4>1. gone.phase = "gone" /\ ~gone.fin /\ gone.gen = 0 /\ NoStatus.og = 0 /\ NoStatus.applied = NoCert
          BY DEF Absent, NoStatus
        <4>2. /\ obj'[rd.b] = gone /\ st'[rd.b] = NoStatus
              /\ \A x \in Binding \ {rd.b} : obj'[x] = obj[x] /\ st'[x] = st[x]
          BY <1>0, <3>4 DEF RemoveFinalizer
        <4> HIDE DEF gone
        <4>3. ASSUME NEW x \in Binding
              PROVE  /\ obj'[x].phase = "deleting" => obj'[x].fin
                     /\ obj'[x].fin => obj'[x].phase \in {"live", "deleting"}
                     /\ ~obj'[x].fin => st'[x].og = 0 /\ st'[x].applied = NoCert
                     /\ st'[x].og <= obj'[x].gen
          <5>1. CASE x = rd.b
            BY <4>1, <4>2, <5>1
          <5>2. CASE x # rd.b
            BY <4>2, <5>2 DEF SafetyInv, ObjectInv
          <5> QED BY <5>1, <5>2
        <4> QED BY <4>3 DEF ObjectInv
      <3> QED BY <1>2, <3>2, <3>3, <3>4
    <2> QED BY <2>1, <2>2, <2>3, ToIdle
  <1> QED BY <1>1, <1>2
-----------------------------------------------------------------------------
(* The watches, the certificates, the users and the cloud *)

\* The watches touch the caches alone: what the cache shows was the status.
LEMMA WatchesKeep ==
  ASSUME TypeOK, SafetyInv, Watches
  PROVE  SafetyInv'
  <1>1. ASSUME NEW b \in Binding, SyncPeer(b) \/ TimerFires(b) PROVE SafetyInv'
    <2>1. UNCHANGED <<obj, st, cr, ccr, adopted, pc, rd, tgt, late, moved>>
      BY <1>1 DEF SyncPeer, TimerFires
    <2> QED BY <2>1, WorldKeeps DEF SafetyInv, CertsAdopted
  <1>2. ASSUME NEW c \in Certificate, SyncCertificate(c) PROVE SafetyInv'
    <2>1. /\ UNCHANGED <<obj, st, cr, adopted, pc, rd, tgt, late, moved>>
          /\ ccr' = [ccr EXCEPT ![c] = cr[c]] /\ ccr \in [Certificate -> Current]
      BY <1>2 DEF SyncCertificate, TypeOK
    <2>2. CertsAdopted'
      BY <2>1 DEF SafetyInv, CertsAdopted
    <2> QED BY <2>1, <2>2, WorldKeeps
  <1> QED BY <1>1, <1>2 DEF Watches

\* The certificates: a generation is in a status once it has been adopted.
LEMMA CertificateStepKeeps ==
  ASSUME TypeOK, SafetyInv, CertificateStep
  PROVE  SafetyInv'
  <1>0. cr \in [Certificate -> Current]
    BY DEF TypeOK
  <1>1. UNCHANGED <<obj, st, ccr, pc, rd, tgt, late, moved>>
    BY DEF CertificateStep, Issue, Adopt, Reclaim, Unissue, EnableUpload, RemoveSecret,
           RemoveCertificate
  <1>2. ASSUME NEW c \in Certificate, Issue(c) \/ Reclaim(c) \/ RemoveSecret(c) PROVE SafetyInv'
    <2>1. UNCHANGED <<cr, adopted>>
      BY <1>2 DEF Issue, Reclaim, RemoveSecret
    <2> QED BY <1>1, <2>1, WorldKeeps DEF SafetyInv, CertsAdopted
  <1>3. ASSUME NEW c \in Certificate, Unissue(c) \/ EnableUpload(c) \/ RemoveCertificate(c)
        PROVE  SafetyInv'
    <2>1. /\ cr'[c].fp \in {cr[c].fp, NoCert} /\ adopted' = adopted
          /\ \A d \in Certificate \ {c} : cr'[d] = cr[d]
      <3>1. cr[c] \in Current
        BY <1>0
      <3> QED BY <1>0, <1>3, <3>1 DEF Unissue, EnableUpload, RemoveCertificate, Current
    <2>2. CertsAdopted'
      BY <1>1, <2>1 DEF SafetyInv, CertsAdopted
    <2> QED BY <1>1, <2>1, <2>2, WorldKeeps
  <1>4. ASSUME NEW c \in Certificate, Adopt(c) PROVE SafetyInv'
    <2>1. /\ cr'[c].fp = secret[c] /\ adopted' = adopted \cup {secret[c]}
          /\ \A d \in Certificate \ {c} : cr'[d] = cr[d]
      <3>1. cr[c] \in Current
        BY <1>0
      <3> QED BY <1>0, <1>4, <3>1 DEF Adopt, Current
    <2>2. CertsAdopted'
      BY <1>1, <2>1 DEF SafetyInv, CertsAdopted
    <2> QED BY <1>1, <2>1, <2>2, WorldKeeps
  <1> QED BY <1>2, <1>3, <1>4 DEF CertificateStep

\* Somebody changes an object: it keeps its finalizer, if it has one it stays, and
\* a deletion is not taken back.
LEMMA ObjectKeeps ==
  ASSUME TypeOK, SafetyInv, NEW b \in Binding, NEW o \in Object, SetObject(b, o),
         o.fin <=> obj[b].fin, o.phase = "deleting" => o.fin,
         o.fin => /\ obj[b].gen <= o.gen /\ o.phase \in {"live", "deleting"}
                  /\ obj[b].phase = "deleting" => o.phase = "deleting"
  PROVE  SafetyInv'
  <1>1. /\ obj'[b] = o /\ \A x \in Binding \ {b} : obj'[x] = obj[x]
        /\ UNCHANGED <<st, cr, ccr, adopted, tgt, late, pc, rd, moved>>
    BY DEF SetObject, TypeOK
  <1>2. /\ o.gen \in Nat /\ obj[b].gen \in Nat /\ st[b].og \in Nat
    BY DEF TypeOK, Object, Status
  <1>3. ObjectInv'
    <2> SUFFICES ASSUME NEW x \in Binding
                 PROVE  /\ obj'[x].phase = "deleting" => obj'[x].fin
                        /\ obj'[x].fin => obj'[x].phase \in {"live", "deleting"}
                        /\ ~obj'[x].fin => st'[x].og = 0 /\ st'[x].applied = NoCert
                        /\ st'[x].og <= obj'[x].gen
      BY DEF ObjectInv
    <2>1. CASE x = b
      BY <1>1, <1>2, <2>1 DEF SafetyInv, ObjectInv
    <2>2. CASE x # b
      BY <1>1, <2>2 DEF SafetyInv, ObjectInv
    <2> QED BY <2>1, <2>2
  <1>4. RoundInv'
    <2> SUFFICES ASSUME pc # "idle"
                 PROVE  /\ obj'[rd.b].fin /\ rd.w.og <= obj'[rd.b].gen
                        /\ obj[rd.b].phase = "deleting" => obj'[rd.b].phase = "deleting"
      BY <1>1 DEF SafetyInv, RoundInv
    <2>1. /\ rd.b \in Binding /\ obj[rd.b].fin /\ rd.w.og <= obj[rd.b].gen /\ rd.w.og \in Nat
      BY RoundParts DEF TypeOK, SafetyInv, RoundInv, Status
    <2>2. CASE rd.b = b
      BY <1>1, <1>2, <2>1, <2>2
    <2>3. CASE rd.b # b
      BY <1>1, <2>1, <2>3
    <2> QED BY <2>2, <2>3
  <1>5. CertsAdopted' /\ MaterialAdopted'
    BY <1>1 DEF SafetyInv, CertsAdopted, MaterialAdopted
  <1>6. FenceInv' /\ OwnInv' /\ EchoInv'
    BY <1>1 DEF SafetyInv, FenceInv, OwnInv, EchoInv
  <1> QED BY <1>1, <1>3, <1>4, <1>5, <1>6, CloudKept DEF SafetyInv

\* Somebody changes the target: a round that has read it is told so.
LEMMA TargetKeeps ==
  ASSUME TypeOK, SafetyInv, NEW a \in Account, NEW t \in TargetState, SetTarget(a, t),
         late' \subseteq late,
         ~ByRef => t.cert \in {NoCert, Foreign, Garbage} \cup (adopted \ Uncovered)
  PROVE  SafetyInv'
  <1>1. /\ tgt'[a] = t /\ \A x \in Account \ {a} : tgt'[x] = tgt[x]
        /\ UNCHANGED <<obj, st, cr, ccr, adopted, pc, rd>>
        /\ moved' = IF pc # "idle" /\ rd.acct = a THEN {"observed", "read"} ELSE moved
    BY DEF SetTarget, TypeOK
  <1>2. ObjectInv' /\ RoundInv'
    BY <1>1 DEF SafetyInv, ObjectInv, RoundInv
  <1>3. CertsAdopted' /\ MaterialAdopted' /\ LateAdopted' /\ FenceInv'
    BY <1>1 DEF SafetyInv, CertsAdopted, MaterialAdopted, LateAdopted, FenceInv
  <1>4. OnlyAdopted'
    BY <1>1 DEF SafetyInv, OnlyAdopted
  <1>5. pc \in {"write", "clearGet", "clear"} =>
           \/ moved' = {"observed", "read"}
           \/ moved' = moved /\ tgt'[rd.acct] = tgt[rd.acct]
    <2>1. pc \in {"write", "clearGet", "clear"} => rd.acct \in Account
      BY DEF TypeOK
    <2> QED BY <1>1, <2>1
  <1>6. OwnInv' /\ EchoInv'
    BY <1>1, <1>5 DEF SafetyInv, OwnInv, EchoInv
  <1> QED BY <1>2, <1>3, <1>4, <1>6 DEF SafetyInv

\* The process dies: a write under way may have been sent.
LEMMA CrashKeeps ==
  ASSUME TypeOK, SafetyInv, Crash
  PROVE  SafetyInv'
  <1>1. pc' = "idle" /\ ccr' = cr /\ UNCHANGED <<obj, st, cr, adopted, tgt>>
    BY DEF Crash
  <1>2. ObjectInv' /\ CertsAdopted' /\ OnlyAdopted'
    BY <1>1 DEF SafetyInv, ObjectInv, CertsAdopted, OnlyAdopted
  <1>3. /\ pc = "write" /\ ~ByRef => PutRequest.cert \in adopted \ Uncovered
        /\ ClearRequest.cert = NoCert
    BY RequestCert DEF SafetyInv, MaterialAdopted, Want
  <1>4. \/ late' = late
        \/ pc = "write" /\ late' = late \cup {PutRequest}
        \/ late' = late \cup {ClearRequest}
    BY DEF Crash, MayComeLate
  <1>5. LateAdopted'
    BY <1>1, <1>3, <1>4 DEF SafetyInv, LateAdopted
  <1> QED BY <1>1, <1>2, <1>5, ToIdle

\* Users, the cloud, time.
LEMMA EnvironmentKeeps ==
  ASSUME TypeOK, SafetyInv, Environment
  PROVE  SafetyInv'
  <1>1. ASSUME NEW b \in Binding, CreateBinding(b) PROVE SafetyInv'
    <2>1. PICK u \in BOOLEAN : SetObject(b, NewBinding(u))
      BY <1>1, SwitchAssumption DEF CreateBinding
    <2>2. /\ NewBinding(u) \in Object /\ NewBinding(u).fin = FALSE /\ NewBinding(u).phase = "live"
      BY DEF NewBinding, Object, Phase
    <2>3. obj[b].fin = FALSE
      BY <1>1 DEF CreateBinding, Absent
    <2> QED BY <2>1, <2>2, <2>3, ObjectKeeps
  <1>2. ASSUME NEW b \in Binding, EditPolicy(b) PROVE SafetyInv'
    <2> DEFINE o == [obj[b] EXCEPT !.unbind = ~@, !.gen = @ + 1]
    <2>1. obj[b] \in Object /\ obj[b].gen \in Nat /\ obj[b].gen + 1 \in Nat /\ (~obj[b].unbind) \in BOOLEAN
      BY DEF TypeOK, Object
    <2>2. /\ o \in Object /\ o.fin = obj[b].fin /\ o.phase = obj[b].phase /\ o.gen = obj[b].gen + 1
      BY <2>1 DEF Object
    <2>3. SetObject(b, o) /\ obj[b].phase \in {"live", "deleting"}
      BY <1>2 DEF EditPolicy, Exists
    <2>4. obj[b].phase = "deleting" => obj[b].fin
      BY DEF SafetyInv, ObjectInv
    <2> HIDE DEF o
    <2> QED BY <2>1, <2>2, <2>3, <2>4, ObjectKeeps
  <1>3. ASSUME NEW b \in Binding, DeleteBinding(b) PROVE SafetyInv'
    <2>0. obj[b] \in Object /\ obj[b].gen \in Nat /\ obj[b].gen + 1 \in Nat /\ obj[b].fin \in BOOLEAN
      BY DEF TypeOK, Object
    <2>1. CASE obj[b].fin
      <3> DEFINE o == [obj[b] EXCEPT !.phase = "deleting", !.gen = @ + 1]
      <3>1. /\ o \in Object /\ o.fin = obj[b].fin /\ o.phase = "deleting" /\ o.gen = obj[b].gen + 1
        BY <2>0 DEF Object, Phase
      <3>2. SetObject(b, o)
        BY <1>3, <2>1 DEF DeleteBinding
      <3> HIDE DEF o
      <3>3. /\ o.fin <=> obj[b].fin /\ o.phase = "deleting" => o.fin
            /\ obj[b].gen <= o.gen /\ o.phase \in {"live", "deleting"}
        BY <2>0, <2>1, <3>1
      <3> QED BY <3>1, <3>2, <3>3, ObjectKeeps
    <2>2. CASE ~obj[b].fin
      <3> DEFINE o == [Absent EXCEPT !.phase = "gone"]
      <3>1. o \in Object /\ o.fin = FALSE /\ o.phase = "gone"
        BY DEF Object, Phase, Absent
      <3>2. SetObject(b, o)
        BY <1>3, <2>2 DEF DeleteBinding
      <3> HIDE DEF o
      <3> QED BY <2>2, <3>1, <3>2, ObjectKeeps
    <2> QED BY <2>1, <2>2
  <1>4. ASSUME NEW a \in Account, Console(a) PROVE SafetyInv'
    <2>1. PICK t \in TargetState :
             SetTarget(a, t) /\ t.cert \in {NoCert, Foreign, Garbage, tgt[a].cert}
      BY <1>4, ConsoleTarget
    <2>2. late' = late
      BY <1>4 DEF Console
    <2>3. ~ByRef => t.cert \in {NoCert, Foreign, Garbage} \cup (adopted \ Uncovered)
      BY <2>1 DEF SafetyInv, OnlyAdopted
    <2> QED BY <2>1, <2>2, <2>3, TargetKeeps
  <1>5. CASE LateWriteLands
    <2>1. PICK req \in late :
             /\ late' = late \ {req}
             /\ \/ SetTarget(req.acct, Written(tgt[req.acct], req))
                \/ UNCHANGED <<tgt, moved, bindingVars, certVars, cacheVars, pc, rd>>
      BY <1>5 DEF LateWriteLands
    <2>2. CASE SetTarget(req.acct, Written(tgt[req.acct], req))
      <3>1. /\ req \in Write /\ req.acct \in Account /\ tgt[req.acct] \in TargetState
            /\ Written(tgt[req.acct], req) \in TargetState
        BY WrittenType DEF TypeOK, Write
      <3>2. Written(tgt[req.acct], req).cert \in {tgt[req.acct].cert, req.cert}
        BY <3>1, WrittenCert
      <3>3. ~ByRef => Written(tgt[req.acct], req).cert
                          \in {NoCert, Foreign, Garbage} \cup (adopted \ Uncovered)
        BY <3>1, <3>2 DEF SafetyInv, OnlyAdopted, LateAdopted
      <3> QED BY <2>1, <2>2, <3>1, <3>3, TargetKeeps
    <2>3. CASE UNCHANGED <<tgt, moved, bindingVars, certVars, cacheVars, pc, rd>>
      <3>1. LateAdopted'
        BY <2>1, <2>3 DEF SafetyInv, LateAdopted
      <3>2. ObjectInv' /\ RoundInv' /\ CertsAdopted' /\ MaterialAdopted' /\ OnlyAdopted'
        BY <2>3 DEF SafetyInv, ObjectInv, RoundInv, CertsAdopted, MaterialAdopted, OnlyAdopted
      <3>3. FenceInv' /\ OwnInv' /\ EchoInv'
        BY <2>3 DEF SafetyInv, FenceInv, OwnInv, EchoInv
      <3> QED BY <3>1, <3>2, <3>3 DEF SafetyInv
    <2> QED BY <2>1, <2>2, <2>3
  <1>6. ASSUME \/ MoveCredentials \/ Stabilise \/ \E b \in Binding : GracePeriodPasses(b)
        PROVE  SafetyInv'
    <2>1. UNCHANGED <<obj, st, cr, ccr, adopted, pc, rd, tgt, late, moved>>
      BY <1>6 DEF MoveCredentials, Stabilise, GracePeriodPasses
    <2> QED BY <2>1, WorldKeeps DEF SafetyInv, CertsAdopted
  <1> QED BY <1>1, <1>2, <1>3, <1>4, <1>5, <1>6, CrashKeeps DEF Environment
-----------------------------------------------------------------------------
(* The invariant *)

\* A process that starts has no round, and what certificates show is adopted.
LEMMA SafetyInit == Init => SafetyInv
  <1> SUFFICES ASSUME Init PROVE SafetyInv
    OBVIOUS
  <1>1. ObjectInv
    <2>1. PICK u \in UnbindInit :
             obj = [x \in Binding |-> IF x \in Existing THEN NewBinding(u) ELSE Absent]
      BY DEF Init
    <2>2. \A x \in Binding : /\ obj[x].phase # "deleting" /\ ~obj[x].fin /\ obj[x].gen \in {0, 1}
      BY <2>1 DEF NewBinding, Absent
    <2>3. \A x \in Binding : st[x].og = 0 /\ st[x].applied = NoCert
      BY DEF Init, NoStatus
    <2> QED BY <2>2, <2>3 DEF ObjectInv
  <1>2. CertsAdopted
    BY DEF Init, CertsAdopted
  <1>3. pc = "idle" /\ late = {} /\ \A a \in Account : tgt[a].cert = NoCert
    BY DEF Init
  <1>4. RoundInv /\ MaterialAdopted /\ FenceInv /\ OwnInv /\ EchoInv
    BY <1>3 DEF RoundInv, MaterialAdopted, FenceInv, OwnInv, EchoInv
  <1>5. LateAdopted /\ OnlyAdopted
    BY <1>3 DEF LateAdopted, OnlyAdopted
  <1> QED BY <1>1, <1>2, <1>4, <1>5 DEF SafetyInv

\* Every step keeps the invariant.
LEMMA SafetyNext == TypeOK /\ SafetyInv /\ [Next]_vars => SafetyInv'
  <1> SUFFICES ASSUME TypeOK, SafetyInv, [Next]_vars PROVE SafetyInv'
    OBVIOUS
  <1>1. CASE UNCHANGED vars
    <2>1. UNCHANGED <<obj, st, cr, ccr, adopted, pc, rd, tgt, late, moved>>
      BY <1>1 DEF vars
    <2> QED BY <2>1, WorldKeeps DEF SafetyInv, CertsAdopted
  <1>2. CASE ContinueRound
    BY <1>2, ObserveKeeps, ObserveDiffersKeeps, UnbindOwnKeeps, GetKeeps, WriteKeeps, EndKeeps
       DEF ContinueRound
  <1> QED BY <1>1, <1>2, StartRoundKeeps, WatchesKeep, CertificateStepKeeps, EnvironmentKeeps
          DEF Next, Worker

\* Both invariants hold together.
LEMMA SafetyHolds == Spec => [](TypeOK /\ SafetyInv)
  <1>1. Init => TypeOK /\ SafetyInv
    BY InitType, SafetyInit
  <1>2. TypeOK /\ SafetyInv /\ [Next]_vars => (TypeOK /\ SafetyInv)'
    BY NextType, SafetyNext
  <1> QED BY <1>1, <1>2, PTL DEF Spec

\* No run of the controller, however long and with however many accounts, bindings
\* and generations, puts a PEM on the target that was not accepted or does not
\* cover the domain, at once or late (certificateGate, checkDomainCoverage).
THEOREM TargetsServeAdopted == Spec => []OnlyAdopted
  BY SafetyHolds, PTL DEF SafetyInv

\* Once bound, always in the same account: whenever credentials are moved between
\* two steps of a round, what the round sends goes to the account it was fenced to
\* (fenceAccount, unbindTarget).
THEOREM WritesStayFenced == Spec => AccountFence
  <1>1. SafetyInv => [ControllerWrites => st[rd.b].bound \in {NoAcc, rd.acct}]_vars
    BY DEF SafetyInv, FenceInv, ControllerWrites
  <1> QED BY <1>1, SafetyHolds, PTL DEF AccountFence

\* Cleanup takes away the binding's own certificate only, unless somebody else
\* changed the target after the comparison (unbindTarget).
THEOREM CleanupTakesOwn == Spec => UnbindOnlyOwn
  <1>1. SafetyInv => [ControllerWrites /\ pc = "clear" /\ tgt' # tgt =>
                        "observed" \in moved \/ Seen(tgt[rd.acct]) = Applied(st[rd.b])]_vars
    BY DEF SafetyInv, OwnInv
  <1> QED BY <1>1, SafetyHolds, PTL DEF UnbindOnlyOwn

\* The steps of the worker that change the target are the two writes.
LEMMA TheWrites ==
  ASSUME TypeOK, [Next]_vars, pc' # pc, tgt' # tgt
  PROVE  ApplyWrite \/ ClearWrite
  <1>1. ~UNCHANGED vars
    BY DEF vars
  <1>2. ASSUME NEW b \in Binding PROVE ~StartRound(b)
    BY DEF StartRound, RoundOfNothing, CertificateNotFound, CertificateNotReady, ConflictingBinding,
           MaterialRejected, CertificateGateHolds, CasUploadRequired, StartObserve, Begin,
           DeleteKeepsTarget, DeleteStarts
  <1>3. ContinueRound => ApplyWrite \/ ClearWrite
    BY DEF ContinueRound, FactoryError, ObserveTargetNotFound, ObserveAuthFails, ObserveFails,
           ObserveFenced, ObserveAsWanted, ObserveDiffers, ApplyGet, ApplyFails,
           ApplyTargetNotFound, ApplyTimesOut, Conclude, PatchBinding, PatchFails, UnbindFails,
           UnbindSkips, UnbindOwn, ClearGet, ClearNotFound, ClearTimesOut, CleanupRetries,
           CleanupPatchFails, CleanupAbandoned, RemoveFinalizer, RemoveFinalizerFails, GoTo, EndRound
  <1>4. ~Watches
    BY DEF Watches, SyncPeer, TimerFires, SyncCertificate
  <1>5. ~CertificateStep
    BY DEF CertificateStep, Issue, Adopt, Reclaim, Unissue, EnableUpload, RemoveSecret,
           RemoveCertificate
  <1>6. ~Environment
    <2>1. ASSUME NEW a \in Account PROVE ~Console(a)
      BY ConsoleTarget DEF SetTarget
    <2> QED BY <2>1 DEF Environment, CreateBinding, EditPolicy, DeleteBinding, SetObject,
                        GracePeriodPasses, Crash, LateWriteLands, SetTarget, MoveCredentials, Stabilise
  <1> QED BY <1>1, <1>2, <1>3, <1>4, <1>5, <1>6 DEF Next, Worker

\* A write of FC3 replaces the whole domain and yet changes nothing but the
\* certificate and what is asked of the protocol, if nobody else changed the domain
\* since it was read back (fc3 Apply and Cleanup).
THEOREM WritesEchoDomain == Spec => EchoKept
  <1> DEFINE Kept == ControllerWrites /\ tgt' # tgt /\ "read" \notin moved =>
                       LET t == tgt[rd.acct]  u == tgt'[rd.acct]
                       IN  /\ u.other = t.other
                           /\ pc = "write" /\ t.proto = "HTTPS" => u.proto = "HTTPS"
                           /\ pc = "clear" /\ ~ByRef => u.proto # "HTTPS"
  <1>1. ASSUME TypeOK, SafetyInv, [Next]_vars PROVE Kept
    <2> SUFFICES ASSUME ControllerWrites, tgt' # tgt, "read" \notin moved
                 PROVE  LET t == tgt[rd.acct]  u == tgt'[rd.acct]
                        IN  /\ u.other = t.other
                            /\ pc = "write" /\ t.proto = "HTTPS" => u.proto = "HTTPS"
                            /\ pc = "clear" /\ ~ByRef => u.proto # "HTTPS"
      OBVIOUS
    <2>1. ApplyWrite \/ ClearWrite
      BY <1>1, TheWrites DEF ControllerWrites
    <2>2. /\ rd.acct \in Account /\ tgt[rd.acct] \in TargetState
          /\ PutRequest \in Write /\ ClearRequest \in Write
      BY <1>1, <2>1, RequestTypes DEF TypeOK, ApplyWrite, ClearWrite
    <2>3. ~ByRef => rd.proto = tgt[rd.acct].proto /\ rd.other = tgt[rd.acct].other
      BY <1>1, <2>1 DEF ApplyWrite, ClearWrite, SafetyInv, EchoInv
    <2>4. CASE ApplyWrite
      <3>1. pc = "write" /\ tgt[rd.acct].exists /\ tgt'[rd.acct] = Written(tgt[rd.acct], PutRequest)
        BY <1>1, <2>2, <2>4 DEF ApplyWrite, TypeOK
      <3>2. ProtocolFor("HTTPS") = "HTTPS"
        BY DEF ProtocolFor, HasHTTPS
      <3> QED BY <2>2, <2>3, <3>1, <3>2, RequestCert, WrittenCert
    <2>5. CASE ClearWrite
      <3>1. pc = "clear" /\ tgt[rd.acct].exists /\ tgt'[rd.acct] = Written(tgt[rd.acct], ClearRequest)
        BY <1>1, <2>2, <2>5 DEF ClearWrite, TypeOK
      <3>2. ProtocolWithout(rd.proto) # "HTTPS"
        BY DEF ProtocolWithout
      <3> QED BY <2>2, <2>3, <3>1, <3>2, RequestCert, WrittenCert
    <2> QED BY <2>1, <2>4, <2>5
  <1>2. TypeOK /\ SafetyInv /\ [Next]_vars => [Kept]_vars
    BY <1>1
  <1> QED BY <1>2, SafetyHolds, PTL DEF Spec, EchoKept
-----------------------------------------------------------------------------
(* The refinement *)

\* What retention sees of an object with its status, and of all of them.
View(o, s) == [phase |-> o.phase, gen |-> o.gen, observed |-> s.og, applied |-> s.applied]
\* The bindings as retention and deletion of a CR see them.
Views == [b \in Binding |-> View(obj[b], st[b])]

\* A step that changes nothing retention sees.
LEMMA Stutters ==
  ASSUME adopted' = adopted,
         \A x \in Binding : /\ obj'[x].phase = obj[x].phase /\ obj'[x].gen = obj[x].gen
                            /\ st'[x].og = st[x].og /\ st'[x].applied = st[x].applied
  PROVE  UNCHANGED <<Views, adopted>>
  BY DEF Views, View

\* A step that changes one binding.
LEMMA OneViewChanges ==
  ASSUME NEW b \in Binding, \A x \in Binding \ {b} : obj'[x] = obj[x] /\ st'[x] = st[x]
  PROVE  Views' = [Views EXCEPT ![b] = View(obj'[b], st'[b])]
  BY DEF Views

\* What becomes of a view when the deletion of the binding begins.
StartsDeleting(v) == [v EXCEPT !.phase = "deleting", !.gen = @ + 1]

\* The view of a binding whose deletion begins.
LEMMA ViewDeleted ==
  ASSUME NEW o \in Object, NEW p, NEW s \in Status, p.phase = "deleting", p.gen = o.gen + 1
  PROVE  View(p, s) = StartsDeleting(View(o, s))
  <1> DEFINE Viewed == [phase : Phase, gen : Nat, observed : Nat, applied : Gen]
  <1>0. o.phase \in Phase /\ o.gen \in Nat
    BY DEF Object
  <1>1. s.og \in Nat /\ s.applied \in Gen /\ p.phase \in Phase /\ p.gen \in Nat
    BY <1>0 DEF Status, Phase
  <1>2. ASSUME NEW x, NEW y, x.phase \in Phase, x.gen \in Nat, y.og \in Nat, y.applied \in Gen
        PROVE  View(x, y) \in Viewed
    BY <1>2 DEF View
  <1>3. ASSUME NEW x, NEW y
        PROVE  /\ View(x, y).phase = x.phase /\ View(x, y).gen = x.gen
               /\ View(x, y).observed = y.og /\ View(x, y).applied = y.applied
    BY DEF View
  <1>4. ASSUME NEW v \in Viewed, NEW w \in Viewed, w.phase = "deleting", w.gen = v.gen + 1,
               w.observed = v.observed, w.applied = v.applied
        PROVE  w = StartsDeleting(v)
    BY <1>4 DEF StartsDeleting
  <1> HIDE DEF Viewed
  <1>5. View(o, s) \in Viewed /\ View(p, s) \in Viewed
    BY <1>0, <1>1, <1>2
  <1>6. /\ View(p, s).phase = "deleting" /\ View(p, s).gen = View(o, s).gen + 1
        /\ View(p, s).observed = View(o, s).observed /\ View(p, s).applied = View(o, s).applied
    BY <1>3
  <1> QED BY <1>4, <1>5, <1>6

\* A binding that has just been created, seen from retention.
LEMMA NewView ==
  Lifecycle!New = [phase |-> "live", gen |-> 1, observed |-> 0, applied |-> NoCert]
  <1> DEFINE S == [phase : {"absent", "live"}, gen : {0, 1}, observed : {0}, applied : {NoCert}]
             n == Lifecycle!Nothing
  <1>1. n \in S
    BY DEF Lifecycle!Nothing
  <1>2. n.observed = 0 /\ n.applied = NoCert
    BY DEF Lifecycle!Nothing
  <1>3. Lifecycle!New = [n EXCEPT !.phase = "live", !.gen = 1]
    BY DEF Lifecycle!New
  <1> HIDE DEF n
  <1>4. ASSUME NEW t \in S
        PROVE  t = [phase |-> t.phase, gen |-> t.gen, observed |-> t.observed, applied |-> t.applied]
    OBVIOUS
  <1>5. /\ Lifecycle!New \in S /\ Lifecycle!New.phase = "live" /\ Lifecycle!New.gen = 1
        /\ Lifecycle!New.observed = n.observed /\ Lifecycle!New.applied = n.applied
    BY <1>1, <1>3
  <1> HIDE DEF S
  <1>6. Lifecycle!New = [phase |-> Lifecycle!New.phase, gen |-> Lifecycle!New.gen,
                         observed |-> Lifecycle!New.observed, applied |-> Lifecycle!New.applied]
    BY <1>4, <1>5
  <1> QED BY <1>2, <1>5, <1>6

\* What the abstract actions need of a binding, in terms of Views.
LEMMA AbstractSteps ==
  ASSUME NEW b \in Binding, adopted' = adopted
  PROVE  /\ /\ Views[b] = Lifecycle!Nothing
            /\ Views' = [Views EXCEPT ![b] = Lifecycle!New]
            => Lifecycle!Create(b)
         /\ /\ Views[b].phase \in {"live", "deleting"}
            /\ Views' = [Views EXCEPT ![b].gen = @ + 1]
            => Lifecycle!Edit(b)
         /\ /\ Views[b].phase \in {"live", "deleting"}
            /\ \E og \in Views[b].observed .. Views[b].gen, g \in {Views[b].applied} \cup adopted :
                  Views' = [Views EXCEPT ![b].observed = og, ![b].applied = g]
            => Lifecycle!Record(b)
         /\ /\ Views[b].phase = "live"
            /\ Views' = [Views EXCEPT ![b] = StartsDeleting(Views[b])]
            => Lifecycle!Delete(b)
         /\ /\ \/ Views[b].phase = "deleting"
               \/ Views[b].phase = "live" /\ Views[b].applied = NoCert
            /\ Views' = [Views EXCEPT ![b] = [Lifecycle!Nothing EXCEPT !.phase = "gone"]]
            => Lifecycle!Gone(b)
  BY DEF Lifecycle!Create, Lifecycle!Edit, Lifecycle!Record, Lifecycle!Delete, Lifecycle!Gone,
         Views, View, StartsDeleting

\* The worker: a patch records, the last Update lets the object go, and nothing else
\* it does is seen.
LEMMA WorkerImplements ==
  ASSUME TypeOK, SafetyInv, Worker
  PROVE  [Lifecycle!Next]_<<Views, adopted>>
  <1>0. obj \in [Binding -> Object] /\ st \in [Binding -> Status]
    BY DEF TypeOK
  <1>1. adopted' = adopted
    <2>1. ASSUME NEW b \in Binding, StartRound(b) PROVE adopted' = adopted
      BY <2>1 DEF StartRound, RoundOfNothing, CertificateNotFound, CertificateNotReady,
           ConflictingBinding, MaterialRejected, CertificateGateHolds, CasUploadRequired, StartObserve,
           Begin, DeleteKeepsTarget, DeleteStarts, GoTo, EndRound
    <2>2. CASE FactoryError \/ ObserveTargetNotFound \/ ObserveAuthFails \/ ObserveFails
               \/ ObserveFenced \/ ObserveAsWanted \/ ObserveDiffers \/ ApplyGet
      BY <2>2 DEF FactoryError, ObserveTargetNotFound, ObserveAuthFails, ObserveFails,
           ObserveFenced, ObserveAsWanted, ObserveDiffers, ApplyGet, Conclude, GoTo, EndRound
    <2>3. CASE ApplyWrite \/ ApplyFails \/ ApplyTargetNotFound \/ ApplyTimesOut
               \/ PatchBinding \/ PatchFails \/ UnbindFails \/ UnbindSkips \/ UnbindOwn
      BY <2>3 DEF ApplyWrite, ApplyFails, ApplyTargetNotFound, ApplyTimesOut, Conclude,
           PatchBinding, PatchFails, UnbindFails, UnbindSkips, UnbindOwn, GoTo, EndRound
    <2>4. CASE ClearGet \/ ClearNotFound \/ ClearWrite \/ ClearTimesOut \/ CleanupRetries
               \/ CleanupPatchFails \/ CleanupAbandoned \/ RemoveFinalizer \/ RemoveFinalizerFails
      BY <2>4 DEF ClearGet, ClearNotFound, ClearWrite, ClearTimesOut, CleanupRetries,
           CleanupPatchFails, CleanupAbandoned, RemoveFinalizer, RemoveFinalizerFails, GoTo, EndRound
    <2> QED BY <2>1, <2>2, <2>3, <2>4 DEF Worker, ContinueRound
  <1>2. ASSUME NEW b \in Binding, StartRound(b) PROVE UNCHANGED <<Views, adopted>>
    <2>1. \/ obj' = obj \/ obj' = [obj EXCEPT ![b].fin = TRUE]
      BY <1>2 DEF StartRound, RoundOfNothing, CertificateNotFound, CertificateNotReady,
           ConflictingBinding, MaterialRejected, CertificateGateHolds, CasUploadRequired, StartObserve,
           Begin, DeleteKeepsTarget, DeleteStarts
    <2>2. \/ st' = st \/ st' = [st EXCEPT ![b].cleanup = TRUE]
      BY <1>2 DEF StartRound, RoundOfNothing, CertificateNotFound, CertificateNotReady,
           ConflictingBinding, MaterialRejected, CertificateGateHolds, CasUploadRequired, StartObserve,
           Begin, DeleteKeepsTarget, DeleteStarts
    <2>3. \A x \in Binding : obj'[x].phase = obj[x].phase /\ obj'[x].gen = obj[x].gen
      BY <1>0, <2>1 DEF Object
    <2>4. \A x \in Binding : st'[x].og = st[x].og /\ st'[x].applied = st[x].applied
      BY <1>0, <2>2 DEF Status
    <2> QED BY <1>1, <2>3, <2>4, Stutters
  <1>3. CASE PatchBinding
    <2>1. /\ rd.b \in Binding /\ obj' = obj /\ st'[rd.b] = rd.w /\ st[rd.b] \in Status /\ rd.w \in Status
          /\ \A x \in Binding \ {rd.b} : st'[x] = st[x]
      BY <1>0, <1>3, RoundParts DEF PatchBinding, TypeOK
    <2>2. /\ obj[rd.b].phase \in {"live", "deleting"} /\ st[rd.b].og <= rd.w.og
          /\ rd.w.og <= obj[rd.b].gen /\ rd.w.applied \in {st[rd.b].applied} \cup adopted
      BY <1>3, <2>1 DEF PatchBinding, SafetyInv, ObjectInv, RoundInv
    <2>3. st[rd.b].og \in Nat /\ rd.w.og \in Nat /\ obj[rd.b].gen \in Nat
      BY <1>0, <2>1 DEF Status, Object
    <2>4. rd.w.og \in st[rd.b].og .. obj[rd.b].gen
      BY <2>2, <2>3
    <2>5. Views' = [Views EXCEPT ![rd.b] = View(obj[rd.b], rd.w)]
      BY <2>1, OneViewChanges
    <2>6. Views' = [Views EXCEPT ![rd.b].observed = rd.w.og, ![rd.b].applied = rd.w.applied]
      BY <2>1, <2>5 DEF Views, View
    <2>7. /\ Views[rd.b].phase = obj[rd.b].phase /\ Views[rd.b].observed = st[rd.b].og
          /\ Views[rd.b].gen = obj[rd.b].gen /\ Views[rd.b].applied = st[rd.b].applied
      BY <2>1 DEF Views, View
    <2>8. PICK b \in Binding : b = rd.b
      BY <2>1
    <2>9. Lifecycle!Record(b)
      BY <1>1, <2>2, <2>4, <2>6, <2>7, <2>8, AbstractSteps
    <2> QED BY <2>9 DEF Lifecycle!Next
  <1>4. CASE RemoveFinalizer
    <2>1. /\ rd.b \in Binding /\ obj'[rd.b] = [Absent EXCEPT !.phase = "gone"] /\ st'[rd.b] = NoStatus
          /\ \A x \in Binding \ {rd.b} : obj'[x] = obj[x] /\ st'[x] = st[x]
      BY <1>0, <1>4 DEF RemoveFinalizer, TypeOK
    <2>2. obj[rd.b].phase = "deleting"
      BY <1>4 DEF RemoveFinalizer, SafetyInv, RoundInv, Deleting
    <2>3. View(obj'[rd.b], st'[rd.b]) = [Lifecycle!Nothing EXCEPT !.phase = "gone"]
      BY <2>1 DEF View, Lifecycle!Nothing, Absent, NoStatus
    <2>4. Views' = [Views EXCEPT ![rd.b] = [Lifecycle!Nothing EXCEPT !.phase = "gone"]]
      BY <2>1, <2>3, OneViewChanges
    <2>5. Views[rd.b].phase = "deleting"
      BY <2>1, <2>2 DEF Views, View
    <2>6. PICK b \in Binding : b = rd.b
      BY <2>1
    <2>7. Lifecycle!Gone(b)
      BY <1>1, <2>4, <2>5, <2>6, AbstractSteps
    <2> QED BY <2>7 DEF Lifecycle!Next
  <1>5. CASE CleanupRetries
    <2>1. /\ rd.b \in Binding /\ obj' = obj /\ st'[rd.b] = ReadyFalse(rd.w) /\ rd.w \in Status
          /\ \A x \in Binding \ {rd.b} : st'[x] = st[x]
      BY <1>0, <1>5, RoundParts DEF CleanupRetries, TypeOK
    <2>2. rd.w.og = st[rd.b].og /\ rd.w.applied = st[rd.b].applied
      BY <1>5 DEF CleanupRetries, SafetyInv, RoundInv, Deleting
    <2>3. st'[rd.b].og = st[rd.b].og /\ st'[rd.b].applied = st[rd.b].applied
      BY <2>1, <2>2, ReadyFalseType DEF Keeps
    <2>4. \A x \in Binding : st'[x].og = st[x].og /\ st'[x].applied = st[x].applied
      BY <2>1, <2>3
    <2> QED BY <1>1, <2>1, <2>4, Stutters
  <1>6. ASSUME ContinueRound, ~PatchBinding, ~RemoveFinalizer, ~CleanupRetries
        PROVE  UNCHANGED <<Views, adopted>>
    <2>1. UNCHANGED <<obj, st>>
      BY <1>6 DEF ContinueRound, FactoryError, ObserveTargetNotFound, ObserveAuthFails, ObserveFails,
           ObserveFenced, ObserveAsWanted, ObserveDiffers, ApplyGet, ApplyWrite, ApplyFails,
           ApplyTargetNotFound, ApplyTimesOut, Conclude, PatchFails, UnbindFails,
           UnbindSkips, UnbindOwn, ClearGet, ClearNotFound, ClearWrite, ClearTimesOut,
           CleanupPatchFails, CleanupAbandoned, RemoveFinalizerFails, GoTo
    <2> QED BY <1>1, <2>1, Stutters
  <1> QED BY <1>2, <1>3, <1>4, <1>5, <1>6 DEF Worker

\* The others: users create, edit and delete, and the certificate controller offers.
LEMMA OthersImplement ==
  ASSUME TypeOK, SafetyInv, Watches \/ CertificateStep \/ Environment
  PROVE  [Lifecycle!Next]_<<Views, adopted>>
  <1>0. obj \in [Binding -> Object] /\ st \in [Binding -> Status]
    BY DEF TypeOK
  <1>1. CASE Watches
    <2>1. UNCHANGED <<obj, st, adopted>>
      BY <1>1 DEF Watches, SyncPeer, TimerFires, SyncCertificate
    <2> QED BY <2>1, Stutters
  <1>2. CASE CertificateStep
    <2>1. UNCHANGED <<obj, st>>
      BY <1>2 DEF CertificateStep, Issue, Adopt, Reclaim, Unissue, EnableUpload, RemoveSecret,
                  RemoveCertificate
    <2>2. UNCHANGED Views
      BY <2>1 DEF Views
    <2>3. ASSUME NEW c \in Certificate, Adopt(c) PROVE Lifecycle!Next
      <3>1. secret[c] \in 1 .. MaxGen
        <4>1. secret[c] \in Gen /\ secret[c] # NoCert /\ MaxGen \in Nat
          BY <2>3, LimitAssumption DEF Adopt, TypeOK
        <4> QED BY <4>1 DEF Gen, NoCert
      <3>2. adopted' = adopted \cup {secret[c]}
        BY <2>3 DEF Adopt
      <3>3. Lifecycle!Offer
        BY <2>2, <3>1, <3>2 DEF Lifecycle!Offer, Views, View
      <3> QED BY <3>3 DEF Lifecycle!Next
    <2>4. ASSUME NEW c \in Certificate, \/ Issue(c) \/ Reclaim(c) \/ Unissue(c) \/ EnableUpload(c)
                                        \/ RemoveSecret(c) \/ RemoveCertificate(c)
          PROVE  adopted' = adopted
      BY <2>4 DEF Issue, Reclaim, Unissue, EnableUpload, RemoveSecret, RemoveCertificate
    <2> QED BY <1>2, <2>2, <2>3, <2>4 DEF CertificateStep
  <1>3. ASSUME NEW b \in Binding, CreateBinding(b) PROVE Lifecycle!Next
    <2>1. PICK u \in UnbindInit : SetObject(b, NewBinding(u))
      BY <1>3 DEF CreateBinding
    <2>2. /\ obj[b] = Absent /\ obj'[b] = NewBinding(u) /\ st' = st /\ adopted' = adopted
          /\ \A x \in Binding \ {b} : obj'[x] = obj[x]
      BY <1>0, <1>3, <2>1 DEF CreateBinding, SetObject
    <2>3. st[b].og = 0 /\ st[b].applied = NoCert
      BY <2>2 DEF SafetyInv, ObjectInv, Absent
    <2>4. Views[b] = Lifecycle!Nothing
      BY <2>2, <2>3 DEF Views, View, Absent, Lifecycle!Nothing
    <2>5. View(obj'[b], st'[b]) = Lifecycle!New
      BY <2>2, <2>3, NewView DEF View, NewBinding
    <2>6. Views' = [Views EXCEPT ![b] = Lifecycle!New]
      BY <2>2, <2>5, OneViewChanges
    <2>7. Lifecycle!Create(b)
      BY <2>2, <2>4, <2>6, AbstractSteps
    <2> QED BY <2>7 DEF Lifecycle!Next
  <1>4. ASSUME NEW b \in Binding, EditPolicy(b) PROVE Lifecycle!Next
    <2>1. /\ obj[b].phase \in {"live", "deleting"} /\ st' = st /\ adopted' = adopted
          /\ obj'[b] = [obj[b] EXCEPT !.unbind = ~@, !.gen = @ + 1]
          /\ \A x \in Binding \ {b} : obj'[x] = obj[x]
      BY <1>0, <1>4 DEF EditPolicy, SetObject, Exists
    <2>2. obj'[b].phase = obj[b].phase /\ obj'[b].gen = obj[b].gen + 1
      BY <1>0, <2>1 DEF Object
    <2>3. Views' = [Views EXCEPT ![b] = View(obj'[b], st'[b])]
      BY <2>1, OneViewChanges
    <2>4. Views' = [Views EXCEPT ![b].gen = @ + 1]
      <3>1. View(obj'[b], st'[b]) = [Views[b] EXCEPT !.gen = @ + 1]
        BY <2>1, <2>2 DEF Views, View
      <3> QED BY <2>3, <3>1
    <2>5. Views[b].phase \in {"live", "deleting"}
      BY <2>1 DEF Views, View
    <2>6. Lifecycle!Edit(b)
      BY <2>1, <2>4, <2>5, AbstractSteps
    <2> QED BY <2>6 DEF Lifecycle!Next
  <1>5. ASSUME NEW b \in Binding, DeleteBinding(b) PROVE Lifecycle!Next
    <2>1. /\ obj[b].phase = "live" /\ st' = st /\ adopted' = adopted
          /\ obj'[b] = IF obj[b].fin THEN [obj[b] EXCEPT !.phase = "deleting", !.gen = @ + 1]
                       ELSE [Absent EXCEPT !.phase = "gone"]
          /\ \A x \in Binding \ {b} : obj'[x] = obj[x]
      BY <1>0, <1>5 DEF DeleteBinding, SetObject
    <2>2. Views' = [Views EXCEPT ![b] = View(obj'[b], st'[b])]
      BY <2>1, OneViewChanges
    <2>3. Views[b].phase = "live" /\ Views[b].applied = st[b].applied
      BY <2>1 DEF Views, View
    <2>4. CASE obj[b].fin
      <3>1. obj'[b].phase = "deleting" /\ obj'[b].gen = obj[b].gen + 1
        BY <1>0, <2>1, <2>4 DEF Object
      <3>2. Views' = [Views EXCEPT ![b] = StartsDeleting(Views[b])]
        <4>1. View(obj'[b], st'[b]) = StartsDeleting(Views[b])
          <5>1. Views[b] = View(obj[b], st[b])
            BY DEF Views
          <5>2. obj[b] \in Object /\ st[b] \in Status
            BY <1>0
          <5>3. View(obj'[b], st[b]) = StartsDeleting(View(obj[b], st[b]))
            BY <3>1, <5>2, ViewDeleted
          <5> QED BY <2>1, <5>1, <5>3
        <4> QED BY <2>2, <4>1
      <3>3. Lifecycle!Delete(b)
        BY <2>1, <2>3, <3>2, AbstractSteps
      <3> QED BY <3>3 DEF Lifecycle!Next
    <2>5. CASE ~obj[b].fin
      <3>1. st[b].og = 0 /\ st[b].applied = NoCert
        BY <2>5 DEF SafetyInv, ObjectInv
      <3>2. View(obj'[b], st'[b]) = [Lifecycle!Nothing EXCEPT !.phase = "gone"]
        BY <2>1, <2>5, <3>1 DEF View, Lifecycle!Nothing, Absent
      <3>3. Lifecycle!Gone(b)
        BY <2>1, <2>2, <2>3, <3>1, <3>2, AbstractSteps
      <3> QED BY <3>3 DEF Lifecycle!Next
    <2> QED BY <2>4, <2>5
  <1>6. ASSUME \/ \E b \in Binding : GracePeriodPasses(b)
               \/ \E a \in Account : Console(a)
               \/ Crash \/ LateWriteLands \/ MoveCredentials \/ Stabilise
        PROVE  UNCHANGED <<Views, adopted>>
    <2>1. ASSUME NEW a \in Account, Console(a) PROVE UNCHANGED <<obj, st, adopted>>
      BY <2>1, ConsoleTarget DEF SetTarget
    <2>2. UNCHANGED <<obj, st, adopted>>
      BY <1>6, <2>1 DEF GracePeriodPasses, Crash, LateWriteLands, SetTarget, MoveCredentials, Stabilise
    <2> QED BY <2>2, Stutters
  <1> QED BY <1>1, <1>2, <1>3, <1>4, <1>5, <1>6 DEF Environment

\* What retention relies on, for every instance: the bindings never record a
\* generation that was not offered, never withdraw a record, and go only through
\* their deletion once they have recorded something.
THEOREM BindingsImplementLifecycle == Spec => ImplementsLifecycle
  <1>1. Init => Lifecycle!Init
    <2> SUFFICES ASSUME Init PROVE Lifecycle!Init
      OBVIOUS
    <2>1. PICK u \in UnbindInit :
             obj = [x \in Binding |-> IF x \in Existing THEN NewBinding(u) ELSE Absent]
      BY DEF Init
    <2>2. st = [x \in Binding |-> NoStatus]
      BY DEF Init
    <2>3. \A x \in Binding : View(obj[x], st[x]) \in {Lifecycle!Nothing, Lifecycle!New}
      <3>1. ASSUME NEW x \in Binding
            PROVE  View(obj[x], st[x]) \in {Lifecycle!Nothing, Lifecycle!New}
        <4>1. CASE x \in Existing
          BY <2>1, <2>2, <4>1, NewView DEF View, NewBinding, NoStatus
        <4>2. CASE x \notin Existing
          BY <2>1, <2>2, <4>2 DEF View, Absent, NoStatus, Lifecycle!Nothing
        <4> QED BY <4>1, <4>2
      <3> QED BY <3>1
    <2>4. Views \in [Binding -> {Lifecycle!Nothing, Lifecycle!New}]
      BY <2>3 DEF Views
    <2>5. adopted \subseteq 1 .. MaxGen
      BY InitType DEF TypeOK
    <2> QED BY <2>4, <2>5 DEF Lifecycle!Init, Views, View
  <1>2. TypeOK /\ SafetyInv /\ [Next]_vars => [Lifecycle!Next]_<<Views, adopted>>
    <2>1. UNCHANGED vars => UNCHANGED <<Views, adopted>>
      BY Stutters DEF vars
    <2> QED BY <2>1, WorkerImplements, OthersImplement DEF Next
  <1>3. Views = [b \in Binding |-> [phase |-> obj[b].phase, gen |-> obj[b].gen,
                                    observed |-> st[b].og, applied |-> st[b].applied]]
    BY DEF Views, View
  <1> QED BY <1>1, <1>2, SafetyHolds, PTL DEF Spec, ImplementsLifecycle, Lifecycle!Spec, Views, View
-----------------------------------------------------------------------------
(* The queue: the inductive invariants *)

\* A binding the cache has not seen has had no round: nothing queues it but the
\* event that brings it into the cache.
UnseenInv ==
    \A b \in Binding : peers[b].phase = "absent" =>
        wake[b] = "none" /\ rd.b # b /\ st[b] = NoStatus

\* The cache lags behind the objects, and never runs ahead of them.
LagInv ==
    \A b \in Binding :
        /\ obj[b].phase = "absent" =>
               obj[b] = Absent /\ peers[b] = [phase |-> "absent", gen |-> 0]
        /\ obj[b].phase = "live" => peers[b].phase \in {"absent", "live"}

\* No round, no binding in hand.
IdleInv == pc = "idle" => rd.b = NoBinding

\* A live binding that no round is owed to, other than the one under way.
Settled(b) == obj[b].phase = "live" /\ wake[b] # "now" /\ b \notin unheard

\* A round of b has got past the arbitration and the gates.
Past(b) == rd.b = b /\ pc \in {"observe", "get", "write"}

\* The verdict of a status is the one the cache gives now.
Judged(w, b) ==
    /\ w.ready => Arbitrate(b) = b
    /\ w.conflict = "peer" => Arbitrate(b) # b

\* What the status of b says, or will say once the round under way is patched.
Saying(b) == IF rd.b = b THEN rd.w ELSE st[b]

\* A certId that is recorded as served is the one of the certificate in the cache.
RefersTo(w, b) ==
    w.ready /\ ~w.obsFailed => w.ref = Cert(b).id /\ w.ref # NoCert

\* Whoever is settled carries the verdict of the present cache, unless its
\* certificate keeps it from being judged, ...
VerdictOf(b) ==
    Settled(b) /\ CertUsable(b) =>
        /\ Judged(Saying(b), b)
        /\ Past(b) => Arbitrate(b) = b /\ rd.w.conflict = "no"

\* ... and, where the target refers to a certId, the certId of the present cache.
ReferenceOf(b) ==
    ByRef /\ Settled(b) =>
        /\ Past(b) => rd.m.id = Cert(b).id /\ rd.m.id # NoCert
        /\ ~Past(b) => RefersTo(Saying(b), b)

\* CAS holds every current certId; no two certificates, and no current and old
\* generation, share one; and the next one is new.
IdsInv ==
    /\ \A c \in Certificate : cr[c].id <= last.id /\ (cr[c].id # NoCert => cr[c].id \in cas)
    /\ \A c, d \in Certificate : c # d /\ cr[c].id = cr[d].id => cr[c].id = NoCert
    /\ \A c \in Certificate : \A h \in hist[c] :
           h.id <= last.id /\ \A d \in Certificate : h.id = cr[d].id => h.id = NoCert

\* The inductive invariant.
QueueInv ==
    /\ UnseenInv /\ LagInv /\ IdleInv /\ IdsInv
    /\ \A b \in Binding : VerdictOf(b) /\ ReferenceOf(b)
-----------------------------------------------------------------------------
(* The fields of a status that a verdict is about *)

\* Ready is derived; the rest stays.
LEMMA AggregateReadyFields ==
  ASSUME NEW w \in Status
  PROVE  /\ AggregateReady(w).ready <=> w.cApplied = "True" /\ w.conflict = "no"
         /\ AggregateReady(w).conflict = w.conflict /\ AggregateReady(w).ref = w.ref
         /\ AggregateReady(w).obsFailed = w.obsFailed
  BY DEF AggregateReady, Status

\* Only Ready falls.
LEMMA ReadyFalseFields ==
  ASSUME NEW w \in Status
  PROVE  ~ReadyFalse(w).ready /\ ReadyFalse(w).conflict = w.conflict
  BY DEF ReadyFalse, Status

\* Applied falls, and Ready with it.
LEMMA AppliedFalseFields ==
  ASSUME NEW w \in Status
  PROVE  ~AppliedFalse(w).ready /\ AppliedFalse(w).conflict = w.conflict
  <1> DEFINE v == [w EXCEPT !.cApplied = "False", !.obsFailed = FALSE]
  <1>1. v \in Status /\ v.cApplied = "False" /\ v.conflict = w.conflict
    BY DEF Status
  <1>2. AppliedFalse(w) = AggregateReady(v)
    BY DEF AppliedFalse
  <1> HIDE DEF v
  <1> QED BY <1>1, <1>2, AggregateReadyFields

\* An Applied condition, whatever it says, carries the failure.
LEMMA NoteObserveFailedFields ==
  ASSUME NEW w \in Status
  PROVE  /\ NoteObserveFailed(w).conflict = w.conflict
         /\ NoteObserveFailed(w).cApplied = w.cApplied
         /\ NoteObserveFailed(w).obsFailed <=> w.cApplied # "absent"
  BY DEF NoteObserveFailed, Status

\* The conflict is the one given; nothing else changes.
LEMMA ConflictFields ==
  ASSUME NEW w \in Status, NEW x \in {"no", "peer", "account"}
  PROVE  /\ [w EXCEPT !.conflict = x].conflict = x
         /\ [w EXCEPT !.conflict = x].ready = w.ready
  BY DEF Status

\* A note of drift is no verdict.
LEMMA NoteDriftFields ==
  ASSUME NEW w \in Status, NEW cur, NEW want
  PROVE  NoteDrift(w, cur, want).conflict = w.conflict
  BY DEF NoteDrift, Status

\* What is recorded as applied on an OSS target is the certId of the round.
LEMMA FreezeAppliedFields ==
  ASSUME NEW w \in Status, NEW m \in Material, NEW a \in Account \cup {NoAcc}
  PROVE  /\ FreezeApplied(w, m, a).conflict = w.conflict
         /\ ByRef => FreezeApplied(w, m, a).ref = m.id
  BY DEF FreezeApplied, Status
-----------------------------------------------------------------------------
(* Steps, by what they touch *)

\* The arbitration reads the cache alone.
LEMMA ArbitrateKept ==
  ASSUME NEW b, UNCHANGED peers
  PROVE  Arbitrate(b)' = Arbitrate(b)
  BY DEF Arbitrate, First

\* The certIds are the certificate controller's.
LEMMA IdsKept ==
  ASSUME IdsInv, UNCHANGED <<cr, hist, cas, last>>
  PROVE  IdsInv'
  BY DEF IdsInv

\* A binding whose round, if it has one, goes on, or which the step does not touch.
LEMMA OfKeptBy ==
  ASSUME NEW b \in Binding, VerdictOf(b), ReferenceOf(b), UNCHANGED peers, Cert(b)' = Cert(b),
         Settled(b)' => Settled(b), Past(b)' <=> Past(b),
         Past(b) => rd'.b = b /\ rd'.m = rd.m /\ rd'.w.conflict = rd.w.conflict,
         ~Past(b) => Saying(b)' = Saying(b)
  PROVE  VerdictOf(b)' /\ ReferenceOf(b)'
  <1>1. Arbitrate(b)' = Arbitrate(b) /\ Cert(b)' = Cert(b) /\ (CertUsable(b)' <=> CertUsable(b))
    BY ArbitrateKept DEF CertUsable
  <1>2. Past(b) => Saying(b)' = rd'.w
    BY DEF Saying
  <1>3. VerdictOf(b)'
    BY <1>1, <1>2 DEF VerdictOf, Judged
  <1>4. ReferenceOf(b)'
    BY <1>1 DEF ReferenceOf, RefersTo
  <1> QED BY <1>3, <1>4

\* ... in a step that leaves both caches alone.
LEMMA OfKept ==
  ASSUME NEW b \in Binding, VerdictOf(b), ReferenceOf(b), UNCHANGED <<peers, ccr>>,
         Settled(b)' => Settled(b), Past(b)' <=> Past(b),
         Past(b) => rd'.b = b /\ rd'.m = rd.m /\ rd'.w.conflict = rd.w.conflict,
         ~Past(b) => Saying(b)' = Saying(b)
  PROVE  VerdictOf(b)' /\ ReferenceOf(b)'
  BY OfKeptBy DEF Cert

\* A binding that has a round to come is owed nothing else.
LEMMA OfUnsettled ==
  ASSUME NEW b \in Binding, ~Settled(b)'
  PROVE  VerdictOf(b)' /\ ReferenceOf(b)'
  BY DEF VerdictOf, ReferenceOf

\* A binding that has nothing to say.
LEMMA OfSilent ==
  ASSUME NEW b \in Binding, rd'.b # b, st'[b] = NoStatus
  PROVE  VerdictOf(b)' /\ ReferenceOf(b)'
  <1>1. Saying(b)' = NoStatus /\ ~Past(b)'
    BY DEF Saying, Past
  <1>2. ~NoStatus.ready /\ NoStatus.conflict = "no"
    BY DEF NoStatus
  <1> QED BY <1>1, <1>2 DEF VerdictOf, ReferenceOf, Judged, RefersTo
-----------------------------------------------------------------------------
(* The worker *)

\* Nobody has the number of no binding.
LEMMA BindingIsOne ==
  ASSUME NEW b \in Binding
  PROVE  b # NoBinding
  BY OrderAssumption

\* A round on a live binding starts: it was in the cache, it is judged by the cache.
LEMMA BeginQueue ==
  ASSUME TypeOK, QueueInv, NEW b \in Binding, NEW step \in {"patch", "observe"}, NEW w \in Status,
         NEW m \in Material, NEW next \in {"none", "drift", "now"}, Begin(b, step, w, m, next),
         CertUsable(b) => Judged(w, b),
         step = "observe" => /\ Arbitrate(b) = b /\ w.conflict = "no"
                             /\ ByRef => m.id = Cert(b).id /\ m.id # NoCert,
         step = "patch" => RefersTo(w, b)
  PROVE  QueueInv'
  <1>1. /\ pc = "idle" /\ wake[b] = "now" /\ obj[b].phase = "live" /\ obj[b] \in Object
        /\ pc' = step /\ UNCHANGED <<st, peers, ccr, cr, hist, cas, last>>
        /\ \A x \in Binding \ {b} : obj'[x] = obj[x] /\ wake'[x] = wake[x]
        /\ wake'[b] = "none" /\ unheard' = unheard \ {b}
    BY DEF Begin, Idle, Dequeue, TypeOK
  <1>2. obj'[b].phase = "live"
    BY <1>1 DEF Begin, TypeOK, Object
  <1>3. rd'.b = b /\ rd'.w = w /\ rd'.m = m
    <2>1. rd' = Started(b, obj[b].gen, w, m, next) /\ obj[b].gen \in Nat
      BY <1>1 DEF Begin, Started, Object
    <2> QED BY <2>1, StartedRound
  <1>4. rd.b = NoBinding
    BY <1>1 DEF QueueInv, IdleInv
  <1>5. UnseenInv' /\ LagInv' /\ IdleInv' /\ IdsInv'
    <2>1. UnseenInv'
      BY <1>1, <1>3 DEF QueueInv, UnseenInv
    <2>2. LagInv'
      BY <1>1, <1>2 DEF QueueInv, LagInv
    <2>3. IdleInv'
      BY <1>1 DEF IdleInv
    <2> QED BY <1>1, <2>1, <2>2, <2>3, IdsKept DEF QueueInv
  <1>6. VerdictOf(b)' /\ ReferenceOf(b)'
    <2>1. Arbitrate(b)' = Arbitrate(b) /\ Cert(b)' = Cert(b) /\ (CertUsable(b)' <=> CertUsable(b))
      BY <1>1, ArbitrateKept DEF Cert, CertUsable
    <2>2. Saying(b)' = w /\ (Past(b)' <=> step = "observe")
      BY <1>1, <1>3 DEF Saying, Past
    <2>3. VerdictOf(b)'
      BY <1>3, <2>1, <2>2 DEF VerdictOf, Judged
    <2>4. ReferenceOf(b)'
      BY <1>3, <2>1, <2>2 DEF ReferenceOf, RefersTo
    <2> QED BY <2>3, <2>4
  <1>7. ASSUME NEW x \in Binding, x # b PROVE VerdictOf(x)' /\ ReferenceOf(x)'
    <2>1. rd.b # x /\ rd'.b # x
      BY <1>3, <1>4, <1>7, BindingIsOne
    <2>2. ~Past(x) /\ ~Past(x)' /\ Saying(x)' = Saying(x)
      BY <1>1, <2>1 DEF Past, Saying
    <2>3. Settled(x)' => Settled(x)
      BY <1>1, <1>7 DEF Settled
    <2> QED BY <1>1, <2>2, <2>3, OfKept DEF QueueInv
  <1> QED BY <1>5, <1>6, <1>7 DEF QueueInv

\* The verdicts of the first step of a round.
LEMMA StartRoundQueue ==
  ASSUME TypeOK, SafetyInv, QueueInv, NEW b \in Binding,
         \/ CertificateNotFound(b) \/ CertificateNotReady(b) \/ ConflictingBinding(b)
         \/ MaterialRejected(b) \/ CertificateGateHolds(b) \/ CasUploadRequired(b)
         \/ StartObserve(b)
  PROVE  QueueInv'
  <1>0. /\ obj[b] \in Object /\ st[b] \in Status /\ obj[b].gen \in Nat
        /\ CertOf[b] \in Certificate
    BY OrderAssumption DEF TypeOK, Object
  <1>1. Base(b) \in Status
    BY <1>0 DEF Base, Status
  <1>2. BaseOfWinner(b) \in Status /\ BaseOfWinner(b).conflict = "no"
    BY <1>1, ConflictType, ConflictFields DEF BaseOfWinner
  <1>3. MaterialOf(b) \in Material
    <2>1. SecretOf(b) \in Gen /\ Cert(b).id \in Gen /\ NoCert \in Gen
      BY <1>0, NoTypes DEF SecretOf, Cert, TypeOK, Current
    <2> QED BY <2>1 DEF MaterialOf, Material
  <1>4. CASE CertificateNotFound(b) \/ CertificateNotReady(b)
    <2>1. ReadyFalse(Base(b)) \in Status /\ RefersTo(ReadyFalse(Base(b)), b)
      BY <1>1, ReadyFalseType, ReadyFalseFields DEF RefersTo
    <2>2. ~CertUsable(b) /\ Begin(b, "patch", ReadyFalse(Base(b)), NoMaterial, "drift")
      BY <1>4 DEF CertificateNotFound, CertificateNotReady, CertUsable
    <2> QED BY <2>1, <2>2, NoTypes, BeginQueue
  <1>5. CASE ConflictingBinding(b)
    <2> DEFINE v == [Base(b) EXCEPT !.conflict = "peer"]
    <2>1. v \in Status /\ v.conflict = "peer"
      BY <1>1, ConflictType, ConflictFields
    <2>2. Begin(b, "patch", AggregateReady(v), NoMaterial, "drift") /\ Arbitrate(b) # b
      BY <1>5 DEF ConflictingBinding
    <2> HIDE DEF v
    <2>3. AggregateReady(v) \in Status /\ ~AggregateReady(v).ready
      BY <2>1, AggregateReadyType, AggregateReadyFields
    <2>4. Judged(AggregateReady(v), b) /\ RefersTo(AggregateReady(v), b)
      BY <2>2, <2>3 DEF Judged, RefersTo
    <2> QED BY <2>2, <2>3, <2>4, NoTypes, BeginQueue
  <1>6. CASE MaterialRejected(b) \/ CertificateGateHolds(b) \/ CasUploadRequired(b)
    <2>1. PICK w \in {ReadyFalse(BaseOfWinner(b)), AppliedFalse(BaseOfWinner(b))},
               next \in {"none", "drift", "now"} : Begin(b, "patch", w, NoMaterial, next)
      BY <1>6 DEF MaterialRejected, CertificateGateHolds, CasUploadRequired
    <2>2. w \in Status /\ ~w.ready /\ w.conflict = "no"
      BY <1>2, <2>1, ReadyFalseType, AppliedFalseType, ReadyFalseFields, AppliedFalseFields
    <2>3. Judged(w, b) /\ RefersTo(w, b)
      BY <2>2 DEF Judged, RefersTo
    <2> QED BY <2>1, <2>2, <2>3, NoTypes, BeginQueue
  <1>7. CASE StartObserve(b)
    <2>1. /\ Begin(b, "observe", BaseOfWinner(b), MaterialOf(b), "none")
          /\ Arbitrate(b) = b /\ Cert(b).fp = SecretOf(b)
          /\ ByRef => MaterialOf(b).id # NoCert
      BY <1>7 DEF StartObserve, Wins, CertificateGate, CasUploadGate
    <2>2. MaterialOf(b).id = Cert(b).id
      BY <2>1 DEF MaterialOf
    <2>3. Judged(BaseOfWinner(b), b)
      BY <1>2, <2>1 DEF Judged
    <2> QED BY <1>2, <1>3, <2>1, <2>2, <2>3, BeginQueue
  <1> QED BY <1>4, <1>5, <1>6, <1>7

\* The steps of rounds on bindings that are not live: of the others nothing changes.
LEMMA NotLiveQueue ==
  ASSUME TypeOK, QueueInv, NEW b \in Binding, obj[b].phase # "live",
         \A x \in Binding \ {b} : obj'[x] = obj[x] /\ st'[x] = st[x] /\ wake'[x] = wake[x],
         obj'[b].phase # "live", obj'[b].phase = "absent" => obj[b] = Absent /\ obj'[b] = Absent,
         UNCHANGED <<peers, ccr, cr, hist, cas, last>>, unheard \subseteq unheard' \cup {b},
         rd.b \in {b, NoBinding}, rd'.b \in {b, NoBinding}, IdleInv',
         peers[b].phase = "absent" => wake'[b] = "none" /\ rd'.b # b /\ st'[b] = NoStatus
  PROVE  QueueInv'
  <1>1. UnseenInv' /\ LagInv'
    <2>1. UnseenInv'
      <3> SUFFICES ASSUME NEW x \in Binding, peers[x].phase = "absent"
                   PROVE  wake'[x] = "none" /\ rd'.b # x /\ st'[x] = NoStatus
        BY DEF UnseenInv
      <3>1. CASE x = b
        BY <3>1
      <3>2. CASE x # b
        BY <3>2, BindingIsOne DEF QueueInv, UnseenInv
      <3> QED BY <3>1, <3>2
    <2>2. LagInv'
      <3> SUFFICES ASSUME NEW x \in Binding
                   PROVE  /\ obj'[x].phase = "absent" =>
                                obj'[x] = Absent /\ peers[x] = [phase |-> "absent", gen |-> 0]
                          /\ obj'[x].phase = "live" => peers[x].phase \in {"absent", "live"}
        BY DEF LagInv
      <3>1. CASE x = b
        BY <3>1 DEF QueueInv, LagInv, Absent
      <3>2. CASE x # b
        BY <3>2 DEF QueueInv, LagInv
      <3> QED BY <3>1, <3>2
    <2> QED BY <2>1, <2>2
  <1>2. ASSUME NEW x \in Binding PROVE VerdictOf(x)' /\ ReferenceOf(x)'
    <2>1. CASE x = b
      BY <2>1, OfUnsettled DEF Settled
    <2>2. CASE x # b
      <3>1. ~Past(x) /\ ~Past(x)' /\ Saying(x)' = Saying(x)
        BY <2>2, BindingIsOne DEF Past, Saying
      <3>2. Settled(x)' => Settled(x)
        BY <2>2 DEF Settled
      <3> QED BY <3>1, <3>2, OfKept DEF QueueInv
    <2> QED BY <2>1, <2>2
  <1> QED BY <1>1, <1>2, IdsKept DEF QueueInv

\* A deletion round, and a round of what is no longer there.
LEMMA DeletionQueue ==
  ASSUME TypeOK, SafetyInv, QueueInv,
         \/ \E b \in Binding : RoundOfNothing(b) \/ DeleteKeepsTarget(b) \/ DeleteStarts(b)
         \/ UnbindFails \/ UnbindSkips \/ UnbindOwn
         \/ ClearGet \/ ClearNotFound \/ ClearWrite \/ ClearTimesOut
         \/ CleanupRetries \/ CleanupPatchFails \/ CleanupAbandoned
         \/ RemoveFinalizer \/ RemoveFinalizerFails
  PROVE  QueueInv'
  <1>0. obj \in [Binding -> Object] /\ st \in [Binding -> Status] /\ rd \in Round
        /\ wake \in [Binding -> {"none", "drift", "now"}]
    BY DEF TypeOK
  <1>1. ASSUME NEW b \in Binding, RoundOfNothing(b) \/ DeleteKeepsTarget(b) \/ DeleteStarts(b)
        PROVE  QueueInv'
    <2>1. /\ pc = "idle" /\ wake[b] = "now" /\ obj[b].phase # "live" /\ obj' = obj
          /\ UNCHANGED <<peers, ccr, cr, hist, cas, last>>
          /\ \A x \in Binding \ {b} : wake'[x] = wake[x] /\ st'[x] = st[x]
          /\ unheard' = unheard \ {b}
      BY <1>0, <1>1 DEF RoundOfNothing, DeleteKeepsTarget, DeleteStarts, Idle, Dequeue, Exists
    <2>2. rd.b = NoBinding /\ peers[b].phase # "absent"
      BY <2>1 DEF QueueInv, IdleInv, UnseenInv
    <2>3. rd'.b \in {b, NoBinding} /\ IdleInv'
      <3>1. CASE RoundOfNothing(b)
        BY <2>2, <3>1 DEF RoundOfNothing, IdleInv
      <3>2. CASE DeleteKeepsTarget(b) \/ DeleteStarts(b)
        <4>1. rd' = GoesOn(b, obj[b].gen, st'[b]) /\ pc' \in {"finish", "unbind"}
          BY <3>2 DEF DeleteKeepsTarget, DeleteStarts, GoesOn
        <4>2. rd'.b = b
          BY <4>1 DEF GoesOn, NoRound
        <4> QED BY <4>1, <4>2 DEF IdleInv
      <3> QED BY <1>1, <3>1, <3>2
    <2>4. obj[b].phase = "absent" => obj[b] = Absent
      BY DEF QueueInv, LagInv
    <2> QED BY <2>1, <2>2, <2>3, <2>4, NotLiveQueue
  <1>2. ASSUME pc \in Deleting, UNCHANGED <<peers, ccr, cr, hist, cas, last, unheard>>,
               rd'.b \in {rd.b, NoBinding}, IdleInv', obj'[rd.b].phase \in {"deleting", "gone"},
               \A x \in Binding \ {rd.b} : obj'[x] = obj[x] /\ st'[x] = st[x] /\ wake'[x] = wake[x]
        PROVE  QueueInv'
    <2>1. /\ rd.b \in Binding /\ obj[rd.b].phase = "deleting"
      BY <1>2 DEF TypeOK, SafetyInv, RoundInv, Deleting
    <2>2. peers[rd.b].phase # "absent"
      BY <2>1 DEF QueueInv, UnseenInv
    <2> QED BY <1>2, <2>1, <2>2, NotLiveQueue
  <1>3. CASE UnbindFails \/ UnbindSkips \/ ClearNotFound \/ CleanupAbandoned
             \/ ClearWrite \/ ClearTimesOut
    <2>1. /\ pc \in Deleting /\ pc' # "idle" /\ rd' = GoesOn(rd.b, rd.gen, rd.w)
          /\ UNCHANGED <<obj, st, peers, ccr, cr, hist, cas, last, wake, unheard>>
      BY <1>3 DEF UnbindFails, UnbindSkips, ClearNotFound, CleanupAbandoned, GoTo, GoesOn, Deleting,
         ClearWrite, ClearTimesOut
    <2>2. rd'.b = rd.b /\ obj[rd.b].phase = "deleting"
      BY <2>1 DEF GoesOn, NoRound, SafetyInv, RoundInv, Deleting
    <2> QED BY <1>2, <2>1, <2>2 DEF IdleInv
  <1>4. CASE UnbindOwn \/ ClearGet
    <2>1. /\ pc \in Deleting /\ pc' # "idle"
          /\ UNCHANGED <<obj, st, peers, ccr, cr, hist, cas, last, wake, unheard>>
      BY <1>4 DEF UnbindOwn, ClearGet, ReadBack, Deleting
    <2>2. rd'.b = rd.b
      BY <1>0, <1>4 DEF UnbindOwn, ClearGet, Echo, Round
    <2>3. obj[rd.b].phase = "deleting"
      BY <2>1 DEF SafetyInv, RoundInv, Deleting
    <2> QED BY <1>2, <2>1, <2>2, <2>3 DEF IdleInv
  <1>5. CASE CleanupRetries \/ CleanupPatchFails \/ RemoveFinalizer \/ RemoveFinalizerFails
    <2>1. /\ pc \in Deleting /\ pc' = "idle" /\ rd' = NoRound
          /\ UNCHANGED <<peers, ccr, cr, hist, cas, last, unheard>>
          /\ \E next \in {"none", "now"} : wake' = Requeued(rd.b, next)
      BY <1>5 DEF CleanupRetries, CleanupPatchFails, RemoveFinalizer, RemoveFinalizerFails, EndRound,
                  Deleting
    <2>2. rd.b \in Binding /\ obj[rd.b].phase = "deleting"
      BY <2>1 DEF TypeOK, SafetyInv, RoundInv, Deleting
    <2>3. \A x \in Binding \ {rd.b} : obj'[x] = obj[x] /\ st'[x] = st[x] /\ wake'[x] = wake[x]
      <3>1. \A x \in Binding \ {rd.b} : wake'[x] = wake[x]
        BY <1>0, <2>1 DEF Requeued
      <3> QED BY <1>0, <1>5, <3>1 DEF CleanupRetries, CleanupPatchFails, RemoveFinalizer, RemoveFinalizerFails
    <2>4. obj'[rd.b].phase \in {"deleting", "gone"}
      BY <1>0, <1>5, <2>2 DEF CleanupRetries, CleanupPatchFails, RemoveFinalizer,
         RemoveFinalizerFails, Absent
    <2>5. rd'.b = NoBinding
      BY <2>1 DEF NoRound
    <2> QED BY <1>2, <2>1, <2>3, <2>4, <2>5 DEF IdleInv
  <1> QED BY <1>1, <1>3, <1>4, <1>5

\* A round of a live binding past the gates goes on to its next call.
LEMMA GoesOnQueue ==
  ASSUME TypeOK, QueueInv, ObserveDiffers \/ ApplyGet
  PROVE  QueueInv'
  <1>0. /\ pc \in {"observe", "get"} /\ pc' \in {"get", "write"} /\ rd \in Round /\ rd.w \in Status
        /\ UNCHANGED <<obj, st, peers, ccr, cr, hist, cas, last, wake, unheard>>
    BY RoundParts DEF ObserveDiffers, ApplyGet, ReadBack, TypeOK
  <1>1. rd'.b = rd.b /\ rd'.m = rd.m /\ rd'.w.conflict = rd.w.conflict
    <2>1. CASE ObserveDiffers
      <3>1. PICK oacct \in Reported :
               rd' = [rd EXCEPT !.acct = account, !.oacct = oacct,
                                !.w = NoteDrift(@, Seen(tgt[account]), Want(rd.m))]
        BY <2>1 DEF ObserveDiffers
      <3>2. /\ rd'.b = rd.b /\ rd'.m = rd.m
            /\ rd'.w = NoteDrift(rd.w, Seen(tgt[account]), Want(rd.m))
        BY <1>0, <3>1 DEF Round
      <3> QED BY <1>0, <3>2, NoteDriftFields
    <2>2. CASE ApplyGet
      BY <1>0, <2>2 DEF ApplyGet, Echo, Round
    <2> QED BY <2>1, <2>2
  <1>2. UnseenInv' /\ LagInv' /\ IdleInv'
    BY <1>0, <1>1 DEF QueueInv, UnseenInv, LagInv, IdleInv
  <1>3. ASSUME NEW x \in Binding PROVE VerdictOf(x)' /\ ReferenceOf(x)'
    <2>1. (Past(x)' <=> Past(x)) /\ (Settled(x)' => Settled(x)) /\ (~Past(x) => Saying(x)' = Saying(x))
      BY <1>0, <1>1 DEF Past, Settled, Saying
    <2>2. Past(x) => rd'.b = x
      BY <1>1 DEF Past
    <2> QED BY <1>0, <1>1, <2>1, <2>2, OfKept DEF QueueInv
  <1> QED BY <1>0, <1>2, <1>3, IdsKept DEF QueueInv

\* It ends in the patch: the verdict stands, and what is Ready refers to its material.
LEMMA ToPatchQueue ==
  ASSUME TypeOK, QueueInv, pc \in {"observe", "get", "write"}, pc' = "patch", rd'.b = rd.b,
         UNCHANGED <<obj, st, peers, ccr, cr, hist, cas, last, wake, unheard>>,
         rd'.w.conflict \in {rd.w.conflict, "account"},
         ByRef /\ rd'.w.ready /\ ~rd'.w.obsFailed => rd'.w.ref = rd.m.id
  PROVE  QueueInv'
  <1>1. UnseenInv' /\ LagInv' /\ IdleInv'
    BY DEF QueueInv, UnseenInv, LagInv, IdleInv
  <1>2. ASSUME NEW x \in Binding PROVE VerdictOf(x)' /\ ReferenceOf(x)'
    <2>1. CASE x = rd.b
      <3>1. Past(x) /\ ~Past(x)' /\ Saying(x)' = rd'.w /\ (Settled(x)' => Settled(x))
        BY <2>1 DEF Past, Saying, Settled
      <3>2. Arbitrate(x)' = Arbitrate(x) /\ Cert(x)' = Cert(x) /\ (CertUsable(x)' <=> CertUsable(x))
        BY ArbitrateKept DEF Cert, CertUsable
      <3>3. VerdictOf(x)'
        BY <3>1, <3>2 DEF QueueInv, VerdictOf, Judged
      <3>4. ReferenceOf(x)'
        BY <3>1, <3>2 DEF QueueInv, ReferenceOf, RefersTo
      <3> QED BY <3>3, <3>4
    <2>2. CASE x # rd.b
      <3>1. ~Past(x) /\ ~Past(x)' /\ Saying(x)' = Saying(x) /\ (Settled(x)' => Settled(x))
        BY <2>2 DEF Past, Saying, Settled
      <3> QED BY <3>1, OfKept DEF QueueInv
    <2> QED BY <2>1, <2>2
  <1> QED BY <1>1, <1>2, IdsKept DEF QueueInv

\* The ways of Observe and Apply to the patch.
LEMMA ObserveQueue ==
  ASSUME TypeOK, QueueInv,
         \/ FactoryError \/ ObserveTargetNotFound \/ ObserveAuthFails \/ ObserveFails
         \/ ObserveFenced \/ ObserveAsWanted \/ ApplyFails \/ ApplyTargetNotFound
         \/ ApplyWrite \/ ApplyTimesOut
  PROVE  QueueInv'
  <1>0. /\ pc \in {"observe", "get", "write"} /\ rd.w \in Status /\ rd.m \in Material
        /\ rd.b \in Binding /\ rd.gen \in Nat /\ rd.oacct \in Account \cup {NoAcc}
    <2>1. pc \in {"observe", "get", "write"}
      BY DEF FactoryError, ObserveTargetNotFound, ObserveAuthFails, ObserveFails,
         ObserveFenced, ObserveAsWanted, ApplyFails, ApplyTargetNotFound, ApplyWrite, ApplyTimesOut
    <2> QED BY <2>1, RoundParts DEF TypeOK
  <1> DEFINE Said(w) == /\ w \in Status /\ w.conflict \in {rd.w.conflict, "account"}
                        /\ ByRef /\ w.ready /\ ~w.obsFailed => w.ref = rd.m.id
             Ends(w) == \E next \in {"none", "drift", "now"} :
                           rd' = Patching(rd.b, rd.gen, w, next)
  <1>1. /\ pc' = "patch" /\ UNCHANGED <<obj, st, peers, ccr, cr, hist, cas, last, wake, unheard>>
    BY DEF FactoryError, ObserveTargetNotFound, ObserveAuthFails, ObserveFails, ObserveFenced,
       ObserveAsWanted, ApplyFails, ApplyTargetNotFound, ApplyWrite, ApplyTimesOut, Conclude
  <1>2. ASSUME NEW w, Said(w), Ends(w) PROVE QueueInv'
    <2>1. rd'.b = rd.b /\ rd'.w = w
      BY <1>0, <1>2, PatchingRound
    <2> QED BY <1>0, <1>1, <1>2, <2>1, ToPatchQueue
  <1>3. Said(ReadyFalse(rd.w)) /\ Said(AppliedFalse(rd.w))
    BY <1>0, ReadyFalseType, AppliedFalseType, ReadyFalseFields, AppliedFalseFields
  <1>4. ASSUME NEW a \in Account \cup {NoAcc}
        PROVE  Said(AggregateReady(FreezeApplied(rd.w, rd.m, a)))
    <2>1. /\ FreezeApplied(rd.w, rd.m, a) \in Status
          /\ FreezeApplied(rd.w, rd.m, a).conflict = rd.w.conflict
          /\ ByRef => FreezeApplied(rd.w, rd.m, a).ref = rd.m.id
      BY <1>0, FreezeAppliedType, FreezeAppliedFields
    <2> QED BY <2>1, AggregateReadyType, AggregateReadyFields
  <1>5. Said(AggregateReady(NoteObserveFailed(rd.w)))
    <2>1. NoteObserveFailed(rd.w) \in Status
      BY <1>0, NoteObserveFailedType
    <2> QED BY <1>0, <2>1, NoteObserveFailedFields, AggregateReadyType, AggregateReadyFields
  <1>6. Said(AggregateReady([rd.w EXCEPT !.conflict = "account"]))
    <2> DEFINE v == [rd.w EXCEPT !.conflict = "account"]
    <2>1. v \in Status /\ v.conflict = "account"
      BY <1>0, ConflictType, ConflictFields
    <2> HIDE DEF v
    <2>2. Said(AggregateReady(v))
      BY <2>1, AggregateReadyType, AggregateReadyFields
    <2> QED BY <2>2 DEF v
  <1> HIDE DEF Said
  <1>7. CASE FactoryError \/ ObserveAuthFails \/ ObserveTargetNotFound \/ ApplyTargetNotFound
             \/ ApplyFails \/ ApplyTimesOut
    <2>1. Ends(ReadyFalse(rd.w)) \/ Ends(AppliedFalse(rd.w))
      BY <1>7 DEF FactoryError, ObserveAuthFails, ObserveTargetNotFound, ApplyTargetNotFound,
                  ApplyFails, ApplyTimesOut, Conclude, Patching
    <2> QED BY <1>2, <1>3, <2>1
  <1>8. CASE ObserveFails
    <2>1. Ends(AggregateReady(NoteObserveFailed(rd.w)))
      BY <1>8 DEF ObserveFails, Conclude, Patching
    <2> QED BY <1>2, <1>5, <2>1
  <1>9. CASE ObserveFenced
    <2>1. Ends(AggregateReady([rd.w EXCEPT !.conflict = "account"]))
      BY <1>9 DEF ObserveFenced, Conclude, Patching
    <2> QED BY <1>2, <1>6, <2>1
  <1>10. CASE ObserveAsWanted
    <2>1. PICK a \in Reported : Conclude(AggregateReady(FreezeApplied(rd.w, rd.m, a)), "drift")
      BY <1>10 DEF ObserveAsWanted
    <2>2. a \in Account \cup {NoAcc}
      BY DEF Reported, TypeOK
    <2>3. Ends(AggregateReady(FreezeApplied(rd.w, rd.m, a)))
      BY <2>1 DEF Conclude, Patching
    <2> QED BY <1>2, <1>4, <2>2, <2>3
  <1>11. CASE ApplyWrite
    <2>1. Ends(AggregateReady(FreezeApplied(rd.w, rd.m, rd.oacct)))
      BY <1>11 DEF ApplyWrite, Patching, NoRound
    <2> QED BY <1>0, <1>2, <1>4, <2>1
  <1> QED BY <1>7, <1>8, <1>9, <1>10, <1>11

\* The patch: what the round had to say is said, or the round is to be repeated.
LEMMA PatchQueue ==
  ASSUME TypeOK, QueueInv, PatchBinding \/ PatchFails
  PROVE  QueueInv'
  <1>0. /\ pc = "patch" /\ pc' = "idle" /\ rd' = NoRound /\ rd.b \in Binding /\ rd.w \in Status
        /\ UNCHANGED <<obj, peers, ccr, cr, hist, cas, last, unheard>>
        /\ wake \in [Binding -> {"none", "drift", "now"}] /\ st \in [Binding -> Status]
    BY RoundParts DEF TypeOK, PatchBinding, PatchFails, EndRound
  <1>1. rd'.b = NoBinding
    BY <1>0 DEF NoRound
  <1>2. \A x \in Binding \ {rd.b} : wake'[x] = wake[x] /\ st'[x] = st[x]
    BY <1>0 DEF PatchBinding, PatchFails, EndRound, Requeued
  <1>3. \/ st'[rd.b] = rd.w /\ (wake'[rd.b] # "now" => wake[rd.b] # "now")
        \/ wake'[rd.b] = "now"
    BY <1>0 DEF PatchBinding, PatchFails, EndRound, Requeued
  <1>4. UnseenInv' /\ LagInv' /\ IdleInv'
    <2>1. UnseenInv'
      <3> SUFFICES ASSUME NEW x \in Binding, peers[x].phase = "absent"
                   PROVE  wake'[x] = "none" /\ rd'.b # x /\ st'[x] = NoStatus
        BY <1>0 DEF UnseenInv
      <3>1. x # rd.b /\ wake[x] = "none" /\ st[x] = NoStatus
        BY DEF QueueInv, UnseenInv
      <3> QED BY <1>1, <1>2, <3>1, BindingIsOne
    <2> QED BY <1>0, <1>1, <2>1 DEF QueueInv, LagInv, IdleInv
  <1>5. ASSUME NEW x \in Binding PROVE VerdictOf(x)' /\ ReferenceOf(x)'
    <2>0. ~Past(x) /\ ~Past(x)' /\ rd'.b # x
      BY <1>0, <1>1, BindingIsOne DEF Past
    <2>1. CASE x = rd.b /\ wake'[x] = "now"
      BY <2>1, OfUnsettled DEF Settled
    <2>2. CASE x = rd.b /\ wake'[x] # "now"
      <3>1. Saying(x)' = Saying(x) /\ (Settled(x)' => Settled(x))
        BY <1>0, <1>3, <2>0, <2>2 DEF Saying, Settled
      <3> QED BY <1>0, <2>0, <3>1, OfKept DEF QueueInv
    <2>3. CASE x # rd.b
      <3>1. Saying(x)' = Saying(x) /\ (Settled(x)' => Settled(x))
        BY <1>0, <1>2, <2>0, <2>3 DEF Saying, Settled
      <3> QED BY <1>0, <2>0, <3>1, OfKept DEF QueueInv
    <2> QED BY <2>1, <2>2, <2>3
  <1> QED BY <1>0, <1>4, <1>5, IdsKept DEF QueueInv
-----------------------------------------------------------------------------
(* The watches, the certificates, the users *)

\* A binding outside the cache has said nothing, or is not live any more.
LEMMA OutsideCache ==
  ASSUME QueueInv, NEW x \in Binding, ~Cached(x), obj'[x] = obj[x], UNCHANGED <<rd, st>>
  PROVE  VerdictOf(x)' /\ ReferenceOf(x)'
  <1>1. CASE obj[x].phase = "live"
    <2>1. peers[x].phase = "absent"
      BY <1>1 DEF QueueInv, LagInv, Cached
    <2>2. rd.b # x /\ st[x] = NoStatus
      BY <2>1 DEF QueueInv, UnseenInv
    <2> QED BY <2>2, OfSilent
  <1>2. CASE obj[x].phase # "live"
    BY <1>2, OfUnsettled DEF Settled
  <1> QED BY <1>1, <1>2

\* An event on a binding: its peers in the cache are woken, or it is noted that a
\* failed list kept them from it.
LEMMA SyncPeerQueue ==
  ASSUME TypeOK, QueueInv, NEW b \in Binding, SyncPeer(b)
  PROVE  QueueInv'
  <1> DEFINE new == [phase |-> obj[b].phase, gen |-> obj[b].gen]
  <1>1. /\ peers[b] # new /\ peers'[b] = new /\ \A x \in Binding \ {b} : peers'[x] = peers[x]
        /\ UNCHANGED <<obj, st, ccr, cr, hist, cas, last, pc, rd>>
    BY DEF SyncPeer, TypeOK
  <1>2. /\ wake'[b] = "now"
        /\ \A x \in Binding \ {b} : Cached(x) => wake'[x] = "now" \/ x \in unheard'
        /\ \A x \in Binding \ {b} : ~Cached(x) => wake'[x] = wake[x]
    BY DEF SyncPeer, Wake, WakeOnly, Woken, InCache
  <1>3. obj[b].phase # "absent"
    <2> SUFFICES ASSUME obj[b].phase = "absent" PROVE FALSE
      OBVIOUS
    <2>1. obj[b] = Absent /\ peers[b] = [phase |-> "absent", gen |-> 0]
      BY DEF QueueInv, LagInv
    <2> QED BY <1>1, <2>1 DEF Absent
  <1>4. UnseenInv'
    <2> SUFFICES ASSUME NEW x \in Binding, peers'[x].phase = "absent"
                 PROVE  wake'[x] = "none" /\ rd.b # x /\ st[x] = NoStatus
      BY <1>1 DEF UnseenInv
    <2>1. x # b
      BY <1>1, <1>3
    <2> QED BY <1>1, <1>2, <2>1 DEF QueueInv, UnseenInv, Cached
  <1>5. LagInv'
    <2> SUFFICES ASSUME NEW x \in Binding
                 PROVE  /\ obj[x].phase = "absent" =>
                             obj[x] = Absent /\ peers'[x] = [phase |-> "absent", gen |-> 0]
                        /\ obj[x].phase = "live" => peers'[x].phase \in {"absent", "live"}
      BY <1>1 DEF LagInv
    <2>1. CASE x = b
      BY <1>1, <1>3, <2>1
    <2>2. CASE x # b
      BY <1>1, <2>2 DEF QueueInv, LagInv
    <2> QED BY <2>1, <2>2
  <1>6. IdleInv'
    BY <1>1 DEF QueueInv, IdleInv
  <1>7. ASSUME NEW x \in Binding PROVE VerdictOf(x)' /\ ReferenceOf(x)'
    <2>1. CASE x = b \/ Cached(x)
      BY <1>2, <2>1, OfUnsettled DEF Settled
    <2>2. CASE x # b /\ ~Cached(x)
      BY <1>1, <2>2, OutsideCache
    <2> QED BY <2>1, <2>2
  <1> QED BY <1>1, <1>4, <1>5, <1>6, <1>7, IdsKept DEF QueueInv

\* An event on a certificate: the same for the bindings in the cache that refer to it.
LEMMA SyncCertificateQueue ==
  ASSUME TypeOK, QueueInv, NEW c \in Certificate, SyncCertificate(c)
  PROVE  QueueInv'
  <1>1. /\ \A d \in Certificate \ {c} : ccr'[d] = ccr[d]
        /\ UNCHANGED <<obj, st, peers, cr, hist, cas, last, pc, rd>>
    BY DEF SyncCertificate, TypeOK
  <1>2. /\ \A x \in Binding : Cached(x) /\ CertOf[x] = c => wake'[x] = "now" \/ x \in unheard'
        /\ \A x \in Binding : wake'[x] \in {"now", wake[x]} /\ (x \in unheard => x \in unheard')
        /\ \A x \in Binding : ~Cached(x) => wake'[x] = wake[x]
    BY DEF SyncCertificate, Wake, WakeOnly, InCache
  <1>3. UnseenInv' /\ LagInv' /\ IdleInv'
    BY <1>1, <1>2 DEF QueueInv, UnseenInv, LagInv, IdleInv, Cached
  <1>4. ASSUME NEW x \in Binding PROVE VerdictOf(x)' /\ ReferenceOf(x)'
    <2>1. CASE Cached(x) /\ CertOf[x] = c
      BY <1>2, <2>1, OfUnsettled DEF Settled
    <2>2. CASE ~Cached(x)
      BY <1>1, <2>2, OutsideCache
    <2>3. CASE CertOf[x] # c
      <3>1. Cert(x)' = Cert(x)
        BY <1>1, <2>3, OrderAssumption DEF Cert
      <3>2. (Settled(x)' => Settled(x)) /\ (Past(x)' <=> Past(x)) /\ Saying(x)' = Saying(x)
        BY <1>1, <1>2 DEF Settled, Past, Saying
      <3>3. Past(x) => rd'.b = x
        BY <1>1 DEF Past
      <3> QED BY <1>1, <3>1, <3>2, <3>3, OfKeptBy DEF QueueInv
    <2> QED BY <2>1, <2>2, <2>3
  <1> QED BY <1>1, <1>3, <1>4, IdsKept DEF QueueInv

\* The drift check is due.
LEMMA TimerQueue ==
  ASSUME TypeOK, QueueInv, NEW b \in Binding, TimerFires(b)
  PROVE  QueueInv'
  <1>1. /\ wake[b] = "drift" /\ wake'[b] = "now" /\ unheard' = unheard
        /\ \A x \in Binding \ {b} : wake'[x] = wake[x]
        /\ UNCHANGED <<obj, st, peers, ccr, cr, hist, cas, last, pc, rd>>
    BY DEF TimerFires, Wake, WakeOnly
  <1>2. UnseenInv' /\ LagInv' /\ IdleInv'
    BY <1>1 DEF QueueInv, UnseenInv, LagInv, IdleInv
  <1>3. ASSUME NEW x \in Binding PROVE VerdictOf(x)' /\ ReferenceOf(x)'
    <2>1. (Settled(x)' => Settled(x)) /\ (Past(x)' <=> Past(x)) /\ Saying(x)' = Saying(x)
      BY <1>1 DEF Settled, Past, Saying
    <2>2. Past(x) => rd'.b = x
      BY <1>1 DEF Past
    <2> QED BY <1>1, <2>1, <2>2, OfKept DEF QueueInv
  <1> QED BY <1>1, <1>2, <1>3, IdsKept DEF QueueInv

\* The process restarts: every binding that is there is queued.
LEMMA CrashQueue ==
  ASSUME TypeOK, QueueInv, Crash
  PROVE  QueueInv'
  <1>1. /\ pc' = "idle" /\ rd' = NoRound /\ UNCHANGED <<obj, st, cr, hist, cas, last>>
        /\ \A x \in Binding : /\ wake'[x] = IF Exists(x) THEN "now" ELSE "none"
                              /\ peers'[x] = [phase |-> obj[x].phase, gen |-> obj[x].gen]
    BY DEF Crash
  <1>2. rd'.b = NoBinding /\ \A x \in Binding : peers'[x].phase = obj[x].phase
    <2>1. ASSUME NEW x \in Binding PROVE peers'[x].phase = obj[x].phase
      <3>1. peers'[x] = [phase |-> obj[x].phase, gen |-> obj[x].gen]
        BY <1>1
      <3> QED BY <3>1
    <2>2. rd'.b = NoBinding
      BY <1>1 DEF NoRound
    <2> QED BY <2>1, <2>2
  <1>3. UnseenInv'
    <2> SUFFICES ASSUME NEW x \in Binding, peers'[x].phase = "absent"
                 PROVE  wake'[x] = "none" /\ rd'.b # x /\ st[x] = NoStatus
      BY <1>1 DEF UnseenInv
    <2>1. obj[x].phase = "absent" /\ ~Exists(x)
      BY <1>2 DEF Exists
    <2>2. peers[x].phase = "absent"
      BY <2>1 DEF QueueInv, LagInv
    <2>3. st[x] = NoStatus
      BY <2>2 DEF QueueInv, UnseenInv
    <2> QED BY <1>1, <1>2, <2>1, <2>3, BindingIsOne
  <1>4. LagInv'
    <2> SUFFICES ASSUME NEW x \in Binding
                 PROVE  /\ obj[x].phase = "absent" =>
                             obj[x] = Absent /\ peers'[x] = [phase |-> "absent", gen |-> 0]
                        /\ obj[x].phase = "live" => peers'[x].phase \in {"absent", "live"}
      BY <1>1 DEF LagInv
    <2>1. obj[x].phase = "absent" => obj[x] = Absent
      BY DEF QueueInv, LagInv
    <2>2. Absent.phase = "absent" /\ Absent.gen = 0
      BY DEF Absent
    <2> QED BY <1>1, <1>2, <2>1, <2>2
  <1>5. IdleInv'
    BY <1>2 DEF IdleInv
  <1>6. ASSUME NEW x \in Binding PROVE ~Settled(x)'
    BY <1>1 DEF Settled, Exists
  <1> QED BY <1>1, <1>3, <1>4, <1>5, <1>6, OfUnsettled, IdsKept DEF QueueInv

\* Users create, edit and delete bindings.
LEMMA ObjectQueue ==
  ASSUME TypeOK, QueueInv, NEW b \in Binding, CreateBinding(b) \/ EditPolicy(b) \/ DeleteBinding(b)
  PROVE  QueueInv'
  <1>0. obj[b] \in Object
    BY DEF TypeOK
  <1>1. /\ UNCHANGED <<st, peers, ccr, cr, hist, cas, last, pc, rd, wake, unheard>>
        /\ \A x \in Binding \ {b} : obj'[x] = obj[x]
    BY DEF CreateBinding, EditPolicy, DeleteBinding, SetObject, TypeOK
  <1>2. \/ obj[b].phase = "absent" /\ obj'[b].phase = "live"
        \/ obj'[b].phase = obj[b].phase /\ obj[b].phase \in {"live", "deleting"}
        \/ obj'[b].phase \in {"deleting", "gone"}
    <2>1. CASE CreateBinding(b)
      BY <2>1 DEF CreateBinding, SetObject, TypeOK, NewBinding, Absent
    <2>2. CASE EditPolicy(b)
      <3>1. /\ obj[b].phase \in {"live", "deleting"}
            /\ obj'[b] = [obj[b] EXCEPT !.unbind = ~@, !.gen = @ + 1]
        BY <2>2 DEF EditPolicy, SetObject, TypeOK, Exists
      <3> QED BY <1>0, <3>1 DEF Object
    <2>3. CASE DeleteBinding(b)
      <3>1. \/ obj'[b] = [obj[b] EXCEPT !.phase = "deleting", !.gen = @ + 1]
            \/ obj'[b] = [Absent EXCEPT !.phase = "gone"]
        BY <2>3 DEF DeleteBinding, SetObject, TypeOK
      <3> QED BY <1>0, <3>1 DEF Object, Absent
    <2> QED BY <2>1, <2>2, <2>3
  <1>3. obj[b].phase = "absent" => rd.b # b /\ st[b] = NoStatus /\ peers[b].phase = "absent"
    <2>1. obj[b].phase = "absent" => peers[b].phase = "absent"
      BY DEF QueueInv, LagInv
    <2> QED BY <2>1 DEF QueueInv, UnseenInv
  <1>4. UnseenInv' /\ IdleInv'
    BY <1>1 DEF QueueInv, UnseenInv, IdleInv
  <1>5. LagInv'
    <2> SUFFICES ASSUME NEW x \in Binding
                 PROVE  /\ obj'[x].phase = "absent" =>
                             obj'[x] = Absent /\ peers[x] = [phase |-> "absent", gen |-> 0]
                        /\ obj'[x].phase = "live" => peers[x].phase \in {"absent", "live"}
      BY <1>1 DEF LagInv
    <2>1. CASE x = b
      BY <1>2, <1>3, <2>1 DEF QueueInv, LagInv
    <2>2. CASE x # b
      BY <1>1, <2>2 DEF QueueInv, LagInv
    <2> QED BY <2>1, <2>2
  <1>6. ASSUME NEW x \in Binding PROVE VerdictOf(x)' /\ ReferenceOf(x)'
    <2>1. (Past(x)' <=> Past(x)) /\ Saying(x)' = Saying(x) /\ (Past(x) => rd'.b = x)
      BY <1>1 DEF Past, Saying
    <2>2. CASE x = b /\ obj[b].phase = "absent"
      BY <1>1, <1>3, <2>2, OfSilent
    <2>3. CASE ~(x = b /\ obj[b].phase = "absent")
      <3>1. Settled(x)' => Settled(x)
        BY <1>1, <1>2, <2>3 DEF Settled
      <3> QED BY <1>1, <2>1, <3>1, OfKept DEF QueueInv
    <2> QED BY <2>2, <2>3
  <1> QED BY <1>1, <1>4, <1>5, <1>6, IdsKept DEF QueueInv

\* The certIds of the certificates: what is deleted from CAS is nobody's current.
LEMMA IdsHold ==
  ASSUME TypeOK, IdsInv, CertificateStep
  PROVE  IdsInv'
  <1>0. /\ cr \in [Certificate -> Current] /\ hist \in [Certificate -> SUBSET Material]
        /\ last \in [fp : Gen, id : Gen] /\ Gen \subseteq Nat /\ last.id \in Nat
    <2>1. Gen \subseteq Nat
      BY LimitAssumption DEF Gen
    <2> QED BY <2>1 DEF TypeOK
  <1>1. \A d \in Certificate : cr[d].id \in Nat /\ \A h \in hist[d] : h.id \in Nat
    <2>1. ASSUME NEW d \in Certificate PROVE cr[d].id \in Nat /\ \A h \in hist[d] : h.id \in Nat
      <3>1. cr[d] \in Current /\ hist[d] \subseteq Material
        BY <1>0
      <3> QED BY <1>0, <3>1 DEF Current, Material
    <2> QED BY <2>1
  <1>2. ASSUME NEW c \in Certificate, Issue(c) \/ RemoveSecret(c) PROVE IdsInv'
    <2>1. last'.id = last.id /\ UNCHANGED <<cr, hist, cas>>
      BY <1>0, <1>2 DEF Issue, RemoveSecret
    <2> QED BY <2>1 DEF IdsInv
  <1>3. ASSUME NEW c \in Certificate, Unissue(c) \/ EnableUpload(c) PROVE IdsInv'
    <2>1. /\ UNCHANGED <<hist, cas, last>> /\ \A d \in Certificate : cr'[d].id = cr[d].id
      BY <1>0, <1>3 DEF Unissue, EnableUpload, Current
    <2> QED BY <2>1 DEF IdsInv
  <1>4. ASSUME NEW c \in Certificate, Reclaim(c) PROVE IdsInv'
    <2>1. PICK g \in hist[c] : hist' = [hist EXCEPT ![c] = @ \ {g}] /\ cas' = cas \ {g.id}
      BY <1>4 DEF Reclaim
    <2>2. UNCHANGED <<cr, last>> /\ \A d \in Certificate : hist'[d] \subseteq hist[d]
      BY <1>0, <1>4, <2>1 DEF Reclaim
    <2> QED BY <2>1, <2>2 DEF IdsInv
  <1>5. ASSUME NEW c \in Certificate, RemoveCertificate(c) PROVE IdsInv'
    <2>1. /\ last' = last /\ cas' = cas \ ({g.id : g \in hist[c]} \cup {cr[c].id})
          /\ cr'[c].id = NoCert /\ hist'[c] = {}
          /\ \A d \in Certificate \ {c} : cr'[d] = cr[d] /\ hist'[d] = hist[d]
      BY <1>0, <1>5 DEF RemoveCertificate
    <2>2. ASSUME NEW d \in Certificate
          PROVE  cr'[d].id <= last'.id /\ (cr'[d].id # NoCert => cr'[d].id \in cas')
      <3>1. CASE d = c
        BY <1>0, <2>1, <3>1 DEF NoCert
      <3>2. CASE d # c
        <4>1. cr'[d].id = cr[d].id /\ cr[d].id <= last.id
          BY <2>1, <3>2 DEF IdsInv
        <4>2. ASSUME cr[d].id # NoCert PROVE cr[d].id \in cas'
          <5>1. cr[d].id \in cas /\ cr[d].id # cr[c].id
            BY <3>2, <4>2 DEF IdsInv
          <5>2. \A g \in hist[c] : g.id # cr[d].id
            BY <4>2 DEF IdsInv
          <5> QED BY <2>1, <5>1, <5>2
        <4> QED BY <2>1, <4>1, <4>2
      <3> QED BY <3>1, <3>2
    <2>3. ASSUME NEW d \in Certificate, NEW e \in Certificate, d # e, cr'[d].id = cr'[e].id
          PROVE  cr'[d].id = NoCert
      BY <2>1, <2>3 DEF IdsInv
    <2>4. ASSUME NEW d \in Certificate, NEW h \in hist'[d]
          PROVE  h.id <= last'.id /\ \A e \in Certificate : h.id = cr'[e].id => h.id = NoCert
      <3>1. d # c /\ h \in hist[d]
        BY <2>1, <2>4
      <3> QED BY <2>1, <3>1 DEF IdsInv
    <2> QED BY <2>2, <2>3, <2>4 DEF IdsInv
  <1>6. ASSUME NEW c \in Certificate, Adopt(c) PROVE IdsInv'
    <2>1. CASE cr[c].fp = secret[c]
      <3>1. UNCHANGED <<hist, last, cas>> /\ \A d \in Certificate : cr'[d].id = cr[d].id
        BY <1>0, <1>6, <2>1 DEF Adopt, Current
      <3> QED BY <3>1 DEF IdsInv
    <2>2. CASE cr[c].fp # secret[c]
      <3> DEFINE old == [fp |-> cr[c].fp, id |-> cr[c].id]
                 new == last.id + 1
      <3>1. /\ \A d \in Certificate \ {c} : cr'[d] = cr[d] /\ hist'[d] = hist[d]
            /\ hist'[c] \subseteq hist[c] \cup {old}
            /\ cr'[c].id = IF cr[c].upload THEN new ELSE NoCert
            /\ last'.id = IF cr[c].upload THEN new ELSE last.id
            /\ cas' = IF cr[c].upload THEN cas \cup {new} ELSE cas
        <4>1. cr[c] \in Current
          BY <1>0
        <4> QED BY <1>0, <1>6, <2>2, <4>1 DEF Adopt, Current
      <3>2. old.id = cr[c].id /\ new \in Nat /\ last.id < new /\ last.id <= last'.id
        BY <1>0, <3>1
      <3> HIDE DEF old, new
      <3>3. \/ cr'[c].id = NoCert /\ cas' = cas
            \/ cr'[c].id = new /\ last'.id = new /\ cas' = cas \cup {new}
        BY <3>1
      <3>4. last'.id \in Nat
        BY <1>0, <3>1, <3>2
      <3>5. ASSUME NEW d \in Certificate
            PROVE  cr'[d].id <= last'.id /\ (cr'[d].id # NoCert => cr'[d].id \in cas')
        <4>1. CASE d = c
          BY <3>2, <3>3, <3>4, <4>1 DEF NoCert
        <4>2. CASE d # c
          <5>1. cr'[d].id = cr[d].id /\ cr[d].id <= last.id /\ (cr[d].id # NoCert => cr[d].id \in cas)
            BY <3>1, <4>2 DEF IdsInv
          <5> QED BY <1>0, <1>1, <3>2, <3>3, <3>4, <5>1
        <4> QED BY <4>1, <4>2
      <3>6. ASSUME NEW d \in Certificate, NEW e \in Certificate, d # e, cr'[d].id = cr'[e].id
            PROVE  cr'[d].id = NoCert
        <4>1. \A x \in Certificate \ {c} : cr'[x].id = cr[x].id /\ cr[x].id # new
          BY <1>0, <1>1, <3>1, <3>2 DEF IdsInv
        <4> QED BY <3>3, <3>6, <4>1 DEF IdsInv
      <3>7. ASSUME NEW d \in Certificate, NEW h \in hist'[d]
            PROVE  h.id <= last'.id /\ \A e \in Certificate : h.id = cr'[e].id => h.id = NoCert
        <4>1. h \in hist[d] \/ h = old
          BY <3>1, <3>7
        <4>2. h.id \in Nat /\ h.id <= last.id
          BY <1>0, <1>1, <3>2, <4>1 DEF IdsInv
        <4>3. h.id # new /\ h.id <= last'.id
          BY <1>0, <3>2, <3>4, <4>2
        <4>4. ASSUME NEW e \in Certificate, h.id = cr'[e].id PROVE h.id = NoCert
          <5>1. CASE e = c
            BY <3>3, <4>3, <4>4, <5>1
          <5>2. CASE e # c
            <6>1. h.id = cr[e].id
              BY <3>1, <4>4, <5>2
            <6> QED BY <3>2, <4>1, <5>2, <6>1 DEF IdsInv
          <5> QED BY <5>1, <5>2
        <4> QED BY <4>3, <4>4
      <3> QED BY <3>5, <3>6, <3>7 DEF IdsInv
    <2> QED BY <2>1, <2>2
  <1> QED BY <1>2, <1>3, <1>4, <1>5, <1>6 DEF CertificateStep

\* The steps that neither the queue, the caches, the rounds nor the bindings notice.
LEMMA ElsewhereQueue ==
  ASSUME QueueInv, IdsInv', UNCHANGED <<obj, st, peers, ccr, pc, rd, wake, unheard>>
  PROVE  QueueInv'
  <1>1. UnseenInv' /\ LagInv' /\ IdleInv'
    BY DEF QueueInv, UnseenInv, LagInv, IdleInv
  <1>2. ASSUME NEW x \in Binding PROVE VerdictOf(x)' /\ ReferenceOf(x)'
    <2>1. (Settled(x)' => Settled(x)) /\ (Past(x)' <=> Past(x)) /\ Saying(x)' = Saying(x)
          /\ (Past(x) => rd'.b = x)
      BY DEF Settled, Past, Saying
    <2> QED BY <2>1, OfKept DEF QueueInv
  <1> QED BY <1>1, <1>2 DEF QueueInv

\* Users, the cloud, time.
LEMMA EnvironmentQueue ==
  ASSUME TypeOK, QueueInv, Environment
  PROVE  QueueInv'
  <1>1. ASSUME NEW a \in Account, Console(a) PROVE QueueInv'
    <2>1. UNCHANGED <<obj, st, peers, ccr, pc, rd, wake, unheard, cr, hist, cas, last>>
      BY <1>1, ConsoleTarget DEF SetTarget
    <2> QED BY <2>1, IdsKept, ElsewhereQueue DEF QueueInv
  <1>2. ASSUME \/ \E b \in Binding : GracePeriodPasses(b)
               \/ LateWriteLands \/ MoveCredentials \/ Stabilise
        PROVE  QueueInv'
    <2>1. UNCHANGED <<obj, st, peers, ccr, pc, rd, wake, unheard, cr, hist, cas, last>>
      BY <1>2 DEF GracePeriodPasses, LateWriteLands, SetTarget, MoveCredentials, Stabilise
    <2> QED BY <2>1, IdsKept, ElsewhereQueue DEF QueueInv
  <1> QED BY <1>1, <1>2, ObjectQueue, CrashQueue DEF Environment
-----------------------------------------------------------------------------
(* The theorems *)

\* At the start every binding there is, is queued.
LEMMA QueueInit ==
  ASSUME Init
  PROVE  QueueInv
  <1>1. PICK u \in UnbindInit :
           obj = [x \in Binding |-> IF x \in Existing THEN NewBinding(u) ELSE Absent]
    BY DEF Init
  <1>2. /\ st = [x \in Binding |-> NoStatus] /\ pc = "idle" /\ rd = NoRound
        /\ peers = [x \in Binding |-> [phase |-> obj[x].phase, gen |-> obj[x].gen]]
        /\ wake = [x \in Binding |-> IF x \in Existing THEN "now" ELSE "none"]
        /\ hist = [c \in Certificate |-> {}]
        /\ last = [fp |-> Cardinality(Certificate), id |-> Cardinality(Certificate)]
    BY DEF Init
  <1>3. rd.b = NoBinding /\ NewBinding(u).phase = "live" /\ Absent.phase = "absent" /\ Absent.gen = 0
    BY <1>2 DEF NoRound, NewBinding, Absent
  <1>4. \A x \in Binding :
           /\ peers[x].phase = obj[x].phase /\ peers[x].gen = obj[x].gen
           /\ x \in Existing => obj[x].phase = "live" /\ wake[x] = "now"
           /\ x \notin Existing => obj[x] = Absent /\ wake[x] = "none"
    BY <1>1, <1>2, <1>3
  <1>5. UnseenInv
    BY <1>2, <1>3, <1>4, BindingIsOne DEF UnseenInv
  <1>6. LagInv
    BY <1>2, <1>3, <1>4 DEF LagInv
  <1>7. IdleInv
    BY <1>3 DEF IdleInv
  <1>8. IdsInv
    <2>1. PICK n \in 0 .. MaxGen : Certificate = 1 .. n
      BY OrderAssumption
    <2>2. n \in Nat /\ Cardinality(Certificate) = n
      <3>1. n \in Nat
        BY LimitAssumption
      <3>2. Cardinality(1 .. n) = IF 1 > n THEN 0 ELSE n - 1 + 1
        BY <3>1, FS_Interval
      <3> QED BY <2>1, <3>1, <3>2
    <2>3. PICK v \in UploadInit :
             /\ cr = [c \in Certificate |-> [exists |-> TRUE, issued |-> TRUE, upload |-> v,
                                             fp |-> c, id |-> IF v THEN c ELSE NoCert]]
             /\ cas = IF v THEN Certificate ELSE {}
      BY DEF Init
    <2>4. last.id = n /\ \A c \in Certificate : hist[c] = {} /\ cr[c].id = IF v THEN c ELSE NoCert
      BY <1>2, <2>2, <2>3
    <2>5. \A c \in Certificate : c \in Nat /\ 1 <= c /\ c <= n
      BY <2>1, <2>2
    <2> QED BY <2>2, <2>3, <2>4, <2>5 DEF IdsInv, NoCert
  <1>9. ASSUME NEW x \in Binding PROVE ~Settled(x)
    BY <1>3, <1>4 DEF Settled
  <1> QED BY <1>5, <1>6, <1>7, <1>8, <1>9 DEF QueueInv, VerdictOf, ReferenceOf

\* Every step keeps it.
LEMMA QueueStep ==
  ASSUME TypeOK, SafetyInv, QueueInv, [Next]_vars
  PROVE  QueueInv'
  <1>1. CASE Worker
    BY <1>1, StartRoundQueue, DeletionQueue, GoesOnQueue, ObserveQueue, PatchQueue
       DEF Worker, StartRound, ContinueRound
  <1>2. CASE Watches
    BY <1>2, SyncPeerQueue, SyncCertificateQueue, TimerQueue DEF Watches
  <1>3. CASE CertificateStep
    <2>1. UNCHANGED <<obj, st, peers, ccr, pc, rd, wake, unheard>>
      BY <1>3 DEF CertificateStep, Issue, Adopt, Reclaim, Unissue, EnableUpload, RemoveSecret,
                  RemoveCertificate
    <2> QED BY <1>3, <2>1, IdsHold, ElsewhereQueue DEF QueueInv
  <1>4. CASE UNCHANGED vars
    <2>1. UNCHANGED <<obj, st, peers, ccr, pc, rd, wake, unheard, cr, hist, cas, last>>
      BY <1>4 DEF vars
    <2> QED BY <2>1, IdsKept, ElsewhereQueue DEF QueueInv
  <1> QED BY <1>1, <1>2, <1>3, <1>4, EnvironmentQueue DEF Next

\* What the queue owes the bindings, for every instance.
THEOREM QueueHolds == Spec => []QueueInv
  BY QueueInit, QueueStep, BindingTypes, SafetyHolds, PTL DEF Spec

\* No verdict is left behind: when the caches have caught up and no round is owed,
\* a Ready binding is the winner among the live ones, and a binding in conflict with
\* a peer is not, whatever lists of the watch handlers failed, whatever patches were
\* lost, and whenever the process was restarted.
THEOREM VerdictsCurrent == Spec => []VerdictCurrent
  <1>1. QueueInv => VerdictCurrent
    <2> SUFFICES ASSUME QueueInv, CachesCurrent, NEW b \in Live, Quiet(b), CertUsable(b)
                 PROVE  /\ st[b].ready => b = First(Live)
                        /\ st[b].conflict = "peer" => b # First(Live)
      BY DEF VerdictCurrent
    <2>1. b \in Binding /\ Settled(b) /\ Saying(b) = st[b]
      BY DEF Live, Quiet, Settled, Saying
    <2>2. Judged(st[b], b)
      BY <2>1 DEF QueueInv, VerdictOf
    <2>3. \A x \in Binding : peers[x].phase = obj[x].phase
      <3>1. ASSUME NEW x \in Binding PROVE peers[x].phase = obj[x].phase
        <4>1. peers[x] = [phase |-> obj[x].phase, gen |-> obj[x].gen]
          BY DEF CachesCurrent
        <4> QED BY <4>1
      <3> QED BY <3>1
    <2>4. {x \in Binding : peers[x].phase = "live"} = Live
      BY <2>3 DEF Live
    <2>5. Arbitrate(b) = First(Live)
      BY <2>4 DEF Arbitrate
    <2> QED BY <2>2, <2>5 DEF Judged
  <1> QED BY <1>1, QueueHolds, PTL

\* No binding is left Ready on a certId that retention has deleted, with nothing but
\* the drift check to come, however Apply, retention and the watches interleave.
THEOREM DanglingIsScheduled == Spec => []DanglingScheduled
  <1>1. TypeOK /\ QueueInv => DanglingScheduled
    <2> SUFFICES ASSUME QueueInv, ByRef, NEW b \in Live, st[b].ready, ~st[b].obsFailed,
                        Quiet(b), ccr[CertOf[b]] = cr[CertOf[b]]
                 PROVE  st[b].ref \in cas
      BY DEF DanglingScheduled
    <2>1. b \in Binding /\ Settled(b) /\ Saying(b) = st[b] /\ ~Past(b) /\ CertOf[b] \in Certificate
      BY OrderAssumption DEF Live, Quiet, Settled, Saying, Past
    <2>2. st[b].ref = cr[CertOf[b]].id /\ st[b].ref # NoCert
      BY <2>1 DEF QueueInv, ReferenceOf, RefersTo, Cert
    <2> QED BY <2>1, <2>2 DEF QueueInv, IdsInv
  <1> QED BY <1>1, QueueHolds, BindingTypes, PTL
=============================================================================
