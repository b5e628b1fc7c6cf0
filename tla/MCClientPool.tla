---------------------------- MODULE MCClientPool ----------------------------
(* The client pool on a small instance. *)
EXTENDS ClientPool

\* Two accounts, and half an access key; a role goes before the key it comes with.
TwoAccounts ==
    { [ak |-> "k1", sk |-> TRUE, role |-> None],
      [ak |-> "k1", sk |-> FALSE, role |-> None],
      [ak |-> "k1", sk |-> TRUE, role |-> "k2"] }

\* The quotas, scaled down: CAS writes are the wide channel.
SmallBurst == [k \in LimitKind |-> IF k = "cas-write" THEN 2 ELSE 1]
=============================================================================
