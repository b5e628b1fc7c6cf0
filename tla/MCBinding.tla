----------------------------- MODULE MCBinding ------------------------------
(* The binding controller on small instances. *)
EXTENDS BindingController, TLC

\* Every binding refers to the first certificate, or each to its own.
OneCertificate == [b \in Binding |-> 1]
OwnCertificate == [b \in Binding |-> b]

\* The accounts are interchangeable.
AccountSymmetry == Permutations(Account)
=============================================================================
