----------------------------- MODULE MCIssuance -----------------------------
(* The certificate controller's names, instantiated for TLC. *)
EXTENDS Issuance

\* <metadata.name>-tls of the two CRs.
OwnName == [c \in Cr |-> IF c = "a" THEN "n1" ELSE "n2"]
=============================================================================
