-------------------------- MODULE BindingLifecycle ---------------------------
(***************************************************************************)
(* What the bindings of a target promise the certificate controller.  Its  *)
(* guards (reclaimable, reconcileDelete) read three things of a binding:   *)
(* whether it exists, whether status.observedGeneration has caught up with *)
(* metadata.generation, and status.appliedFingerprint.  The promise: what  *)
(* is recorded as applied was offered (status.current of a certificate) at *)
(* some time, a record is replaced but never withdrawn, and a binding that *)
(* has recorded something goes only through its deletion.                  *)
(***************************************************************************)
EXTENDS Naturals

CONSTANTS Binding, Generation, NoCert

VARIABLES
    binding,  \* per binding: phase, gen, observed generation, applied
    offered   \* generations that have been offered

Nothing == [phase |-> "absent", gen |-> 0, observed |-> 0, applied |-> NoCert]
New == [Nothing EXCEPT !.phase = "live", !.gen = 1]

Init ==
    /\ binding \in [Binding -> {Nothing, New}]
    /\ offered \subseteq Generation

Create(b) ==
    /\ binding[b] = Nothing
    /\ binding' = [binding EXCEPT ![b] = New]
    /\ UNCHANGED offered

\* An edit of the spec.
Edit(b) ==
    /\ binding[b].phase \in {"live", "deleting"}
    /\ binding' = [binding EXCEPT ![b].gen = @ + 1]
    /\ UNCHANGED offered

\* The status is patched: a generation of the spec is observed, and possibly a
\* certificate that was offered is recorded.
Record(b) ==
    /\ binding[b].phase \in {"live", "deleting"}
    /\ \E og \in binding[b].observed .. binding[b].gen,
          g \in {binding[b].applied} \cup offered :
           binding' = [binding EXCEPT ![b].observed = og, ![b].applied = g]
    /\ UNCHANGED offered

Delete(b) ==
    /\ binding[b].phase = "live"
    /\ binding' = [binding EXCEPT ![b].phase = "deleting", ![b].gen = @ + 1]
    /\ UNCHANGED offered

\* The object goes: after its deletion, or at once if it has no finalizer yet.
Gone(b) ==
    /\ \/ binding[b].phase = "deleting"
       \/ binding[b].phase = "live" /\ binding[b].applied = NoCert
    /\ binding' = [binding EXCEPT ![b] = [Nothing EXCEPT !.phase = "gone"]]
    /\ UNCHANGED offered

Offer ==
    /\ \E g \in Generation : offered' = offered \cup {g}
    /\ UNCHANGED binding

Next == Offer \/ \E b \in Binding : Create(b) \/ Edit(b) \/ Record(b) \/ Delete(b) \/ Gone(b)

Spec == Init /\ [][Next]_<<binding, offered>>
=============================================================================
