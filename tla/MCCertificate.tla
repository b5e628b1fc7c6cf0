---------------------------- MODULE MCCertificate ----------------------------
(***************************************************************************)
(* The certificate controller on small instances; the .cfg files give the  *)
(* constants their values.                                                 *)
(***************************************************************************)
EXTENDS CertificateController

\* A leaf covers the name it was issued for, and a wildcard its subdomains
\* (pki.Covers).
CoversName ==
    {<<d, d>> : d \in Domain}
        \cup ({<<"*.example.com", "probe.example.com">>} \cap (Domain \X Domain))
=============================================================================
