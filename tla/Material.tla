------------------------------ MODULE Material ------------------------------
(***************************************************************************)
(* The way of a certificate from the Secret to the target: what pkg/pki    *)
(* makes of the Secret's two files, what the certificate controller asks   *)
(* of them before it adopts a generation (material.go), and what the       *)
(* binding controller asks again before it writes them to an FC3 domain    *)
(* (binding_material.go).  Each reads the Secret live and everything else  *)
(* from a cache, while cert-manager and people write the Secret.           *)
(*                                                                         *)
(* A PEM file is a sequence of blocks, a name a sequence of labels: a      *)
(* trailing dot is an empty last label, the empty name is << "" >>.        *)
(***************************************************************************)
EXTENDS Naturals, SequencesExt

CONSTANTS
    Certificate,  \* certificates (the DER bytes)
    Key,          \* private keys that the cloud takes (RSA, ECDSA)
    Info,         \* Info[c]: what certificate c says
    Lower,        \* Lower[l]: label l in lower case
    Starred,      \* labels with an asterisk in them
    Temporary,    \* cert-manager's temporary certificate
    Issued,       \* Secrets cert-manager makes at the end of an issuance
    Edited,       \* Secrets people make
    Template,     \* dnsNames and commonName of the certificateTemplate
    Domain,       \* domains a binding may have for its target
    MaxWrites     \* bound: events that people and cert-manager cause

Block == Certificate \cup {"garbled", "other"}    \* garbled: a CERTIFICATE block
KeyBlock == Key \cup {"encrypted", "unsupported", "garbled"}

ASSUME MaterialAssumption ==
    /\ Temporary \in Certificate /\ {"garbled", "other"} \cap Certificate = {}
    /\ \A c \in Certificate : /\ {Info[c].key, Info[c].by} \subseteq STRING
                              /\ {Info[c].ca, Info[c].sameName} \subseteq BOOLEAN
    /\ \A s \in Issued \cup Edited : s.crt \in Seq(Block) /\ s.key \in Seq(KeyBlock)
    /\ MaxWrites \in Nat

\* FC3 has domains of two kinds, host names and *.wildcards.
Name == Seq(DOMAIN Lower) \ {<<>>}
ASSUME LabelAssumption ==
    /\ "" \in DOMAIN Lower /\ Lower[""] = ""
    /\ \A c \in Certificate : Info[c].names \cup {Info[c].cn} \subseteq Name
    /\ Domain \subseteq Name /\ \A d \in Domain : Lower[d[1]] \notin Starred \ {"*"}

VARIABLES
    secret,   \* the Secret: tls.crt and tls.key
    cm,       \* the Certificate's conditions
    ccm,      \* ... in the cache
    current,  \* status.current.fingerprint of the CR
    ccurrent, \* ... in the binding controller's cache
    crd,      \* the certificate controller's round
    brd,      \* the binding controller's round
    domain,   \* the binding's target
    target,   \* what the FC3 domain has: certificate, key
    ours,     \* history: the operator wrote it
    raced,    \* history: a Secret was judged with a Certificate older than it
    writes    \* events so far

vars == <<secret, cm, ccm, current, ccurrent, crd, brd, domain, target, ours, raced, writes>>

\* sha256 of the DER bytes.
fingerprintOf(c) == <<"sha256", c>>
NoFP == <<>>
FP == {fingerprintOf(c) : c \in Certificate} \cup {NoFP}

NoFiles == [crt |-> <<>>, key |-> <<>>]
Files == Issued \cup Edited \cup {NoFiles, [crt |-> <<Temporary>>, key |-> <<Info[Temporary].key>>]}
Conditions == [ready : BOOLEAN, issuing : BOOLEAN]
-----------------------------------------------------------------------------
(* pki/bundle.go *)

\* The certificates of a PEM file, block by block; none when a CERTIFICATE
\* block does not parse.  Other blocks are skipped.
parseCertificates(crt) ==
    LET out[n \in 0 .. Len(crt)] ==
            IF n = 0 THEN <<>>
            ELSE IF crt[n] \in Certificate THEN Append(out[n - 1], crt[n]) ELSE out[n - 1]
    IN  IF Contains(crt, "garbled") THEN <<>> ELSE out[Len(crt)]

\* The key of the first block, the only one that is read.
NoKey == "none"
parsePrivateKey(file) == IF file # <<>> /\ file[1] \in Key THEN file[1] ELSE NoKey

\* CheckSignatureFrom, which asks of the parent that it be a CA.
SignedBy(c, parent) == Info[c].by = Info[parent].key /\ Info[parent].ca

NoBundle == [certs |-> <<>>, key |-> NoKey]

\* What the Secret's files give, leaf first; NoBundle on any error.
ParseBundle(s) ==
    LET certs == parseCertificates(s.crt)
        key == parsePrivateKey(s.key)
    IN  IF /\ certs # <<>> /\ key # NoKey
           /\ \A i \in 1 .. Len(certs) - 1 : SignedBy(certs[i], certs[i + 1])
           /\ Info[certs[1]].key = key
        THEN [certs |-> certs, key |-> key]
        ELSE NoBundle

Leaf(b) == b.certs[1]
IsSelfSigned(b) == Info[Leaf(b)].sameName /\ Info[Leaf(b)].by = Info[Leaf(b)].key

\* The temporary certificate is self-signed, and made for one issuance: no
\* Secret that anyone else writes has it for a leaf.
ASSUME TemporaryAssumption ==
    /\ Info[Temporary].sameName /\ Info[Temporary].by = Info[Temporary].key
    /\ \A s \in Issued \cup Edited :
          LET b == ParseBundle(s) IN b # NoBundle => Leaf(b) # Temporary

NoName == << "" >>
DNSNames(b) ==
    Info[Leaf(b)].names \cup (IF Info[Leaf(b)].cn = NoName THEN {} ELSE {Info[Leaf(b)].cn})

\* CertPEM and KeyPEM: encoded again from what was parsed.
Encoded(b) == [crt |-> b.certs, key |-> <<b.key>>]

\* Mutant: of the last certificate.
LastFingerprint(crt) ==
    LET certs == parseCertificates(crt) IN
    IF certs = <<>> THEN NoFP ELSE fingerprintOf(Last(certs))

\* Of the first certificate of a file; a file that does not parse has none.
LeafFingerprint(crt) ==
    LET certs == parseCertificates(crt) IN
    IF certs = <<>> THEN NoFP ELSE fingerprintOf(certs[1])
-----------------------------------------------------------------------------
(* pki/sans.go *)

\* Lower case, without one trailing dot.
Normal(n) ==
    LET m == IF Len(n) > 1 /\ Last(n) = "" THEN Front(n) ELSE n
    IN  [i \in DOMAIN m |-> Lower[m[i]]]

\* Mutant: an asterisk stands for any number of labels.
CoversAnyDepth(pattern, host) ==
    LET p == Normal(pattern) h == Normal(host)
        down == Len(h) - Len(p)
    IN  p = h \/ (Len(p) >= 3 /\ p[1] = "*" /\ Len(h) >= Len(p)
                  /\ \A i \in 2 .. Len(p) : p[i] = h[i + down])

Covers(pattern, host) ==
    LET p == Normal(pattern) h == Normal(host)
    IN  /\ p # NoName /\ h # NoName
        /\ \/ p = h
           \/ /\ Len(p) >= 3 /\ p[1] = "*" /\ Len(p) = Len(h)
              /\ \A i \in 2 .. Len(p) : p[i] \notin Starred \cup {""} /\ p[i] = h[i]
              /\ h[1] # ""

Missing(names, required) == {r \in required : ~\E n \in names : Covers(n, r)}
-----------------------------------------------------------------------------
(* The certificate controller *)

\* Mutant: no rule 5.
ValidWhileIssuing(b, issuing) == Missing(DNSNames(b), Template) = {}

\* Rules 5 and 4, with the Issuing condition as the round read it.
validateMaterial(b, issuing) ==
    /\ ~(issuing /\ IsSelfSigned(b))
    /\ Missing(DNSNames(b), Template) = {}

\* The Certificate is read (through the cache) and it is Ready.
CertificateBegin ==
    /\ crd.pc = "idle" /\ ccm.ready
    /\ crd' = [pc |-> "load", issuing |-> ccm.issuing, fp |-> NoFP]
    /\ UNCHANGED <<secret, cm, ccm, current, ccurrent, brd, domain, target, ours, raced, writes>>

\* The Secret is read.  A bundle that is refused ends the round and leaves
\* status.current alone.
loadMaterial ==
    /\ crd.pc = "load"
    /\ LET b == ParseBundle(secret)
           ok == b # NoBundle /\ validateMaterial(b, crd.issuing)
       IN  crd' = [crd EXCEPT !.pc = IF ok THEN "adopt" ELSE "idle",
                              !.fp = IF ok THEN fingerprintOf(Leaf(b)) ELSE NoFP]
    /\ raced' = (raced \/ crd.issuing # cm.issuing)
    /\ UNCHANGED <<secret, cm, ccm, current, ccurrent, brd, domain, target, ours, writes>>

\* Uploaded and patched (CertificateController has the steps of that).
Adopt ==
    /\ crd.pc = "adopt"
    /\ current' = crd.fp
    /\ crd' = [crd EXCEPT !.pc = "idle", !.fp = NoFP]
    /\ UNCHANGED <<secret, cm, ccm, ccurrent, brd, domain, target, ours, raced, writes>>
-----------------------------------------------------------------------------
(* The binding controller *)

\* The CR is read (through the cache).
BindingBegin ==
    /\ brd.pc = "idle"
    /\ brd' = [brd EXCEPT !.pc = "load", !.current = ccurrent]
    /\ UNCHANGED <<secret, cm, ccm, current, ccurrent, crd, domain, target, ours, raced, writes>>

\* Either round ends early: a cloud error, a restart.
CertificateRoundEnds ==
    /\ crd.pc # "idle"
    /\ crd' = [crd EXCEPT !.pc = "idle", !.fp = NoFP]
    /\ UNCHANGED <<secret, cm, ccm, current, ccurrent, brd, domain, target, ours, raced, writes>>
BindingRoundEnds ==
    /\ brd.pc # "idle"
    /\ brd' = [brd EXCEPT !.pc = "idle", !.b = NoBundle]
    /\ UNCHANGED <<secret, cm, ccm, current, ccurrent, crd, domain, target, ours, raced, writes>>

checkDomainCoverage(b) == Missing(DNSNames(b), {domain}) = {}

certificateGate(b, cur) == cur # NoFP /\ cur = fingerprintOf(Leaf(b))

\* The Secret is read; coverage and gate decide whether the round goes on.
loadBindingMaterial ==
    /\ brd.pc = "load"
    /\ LET b == ParseBundle(secret)
           ok == b # NoBundle /\ checkDomainCoverage(b) /\ certificateGate(b, brd.current)
       IN  brd' = [brd EXCEPT !.pc = IF ok THEN "observe" ELSE "idle",
                              !.b = IF ok THEN b ELSE NoBundle]
    /\ UNCHANGED <<secret, cm, ccm, current, ccurrent, crd, domain, target, ours, raced, writes>>

\* The domain is read: nothing is written over one's own certificate.  (The
\* fence and the protocol are in BindingController.)
Observe ==
    /\ brd.pc = "observe"
    /\ brd' = IF LeafFingerprint(target.crt) = fingerprintOf(Leaf(brd.b))
              THEN [brd EXCEPT !.pc = "idle", !.b = NoBundle]
              ELSE [brd EXCEPT !.pc = "apply"]
    /\ UNCHANGED <<secret, cm, ccm, current, ccurrent, crd, domain, target, ours, raced, writes>>

\* Mutant: the key that is there stays.
ApplyKeepsKey ==
    /\ brd.pc = "apply"
    /\ target' = [target EXCEPT !.crt = Encoded(brd.b).crt]
    /\ ours' = TRUE
    /\ brd' = [brd EXCEPT !.pc = "idle", !.b = NoBundle]
    /\ UNCHANGED <<secret, cm, ccm, current, ccurrent, crd, domain, raced, writes>>

Apply ==
    /\ brd.pc = "apply"
    /\ target' = Encoded(brd.b)
    /\ ours' = TRUE
    /\ brd' = [brd EXCEPT !.pc = "idle", !.b = NoBundle]
    /\ UNCHANGED <<secret, cm, ccm, current, ccurrent, crd, domain, raced, writes>>
-----------------------------------------------------------------------------
(* cert-manager, people, caches *)

Counted == writes < MaxWrites /\ writes' = writes + 1

\* An issuance begins; the two conditions have controllers of their own.
Trigger ==
    /\ Counted /\ ~cm.issuing
    /\ cm' = [cm EXCEPT !.issuing = TRUE]
    /\ UNCHANGED <<secret, ccm, current, ccurrent, crd, brd, domain, target, ours, raced>>

NotReady ==
    /\ cm.ready /\ ParseBundle(secret) = NoBundle
    /\ cm' = [cm EXCEPT !.ready = FALSE]
    /\ UNCHANGED <<secret, ccm, current, ccurrent, crd, brd, domain, target, ours, raced, writes>>

\* issue-temporary-certificate: when the Secret has no usable pair.
IssueTemporary ==
    /\ cm.issuing /\ ParseBundle(secret) = NoBundle
    /\ secret' = [crt |-> <<Temporary>>, key |-> <<Info[Temporary].key>>]
    /\ UNCHANGED <<cm, ccm, current, ccurrent, crd, brd, domain, target, ours, raced, writes>>

\* First the Secret, then the conditions.
Issue(s) ==
    /\ Counted /\ cm.issuing
    /\ secret' = s
    /\ UNCHANGED <<cm, ccm, current, ccurrent, crd, brd, domain, target, ours, raced>>

Complete ==
    /\ cm.issuing /\ secret \in Issued
    /\ cm' = [ready |-> TRUE, issuing |-> FALSE]
    /\ UNCHANGED <<secret, ccm, current, ccurrent, crd, brd, domain, target, ours, raced, writes>>

\* People edit or delete the Secret; people set a certificate on the domain.
EditSecret(s) ==
    /\ Counted
    /\ secret' = s
    /\ UNCHANGED <<cm, ccm, current, ccurrent, crd, brd, domain, target, ours, raced>>

EditTarget(s) ==
    /\ Counted
    /\ target' = s /\ ours' = FALSE
    /\ UNCHANGED <<secret, cm, ccm, current, ccurrent, crd, brd, domain, raced>>

SyncCertificate ==
    /\ ccm # cm /\ ccm' = cm
    /\ UNCHANGED <<secret, cm, current, ccurrent, crd, brd, domain, target, ours, raced, writes>>
SyncCR ==
    /\ ccurrent # current /\ ccurrent' = current
    /\ UNCHANGED <<secret, cm, ccm, current, crd, brd, domain, target, ours, raced, writes>>
-----------------------------------------------------------------------------
NoCertRound == [pc |-> "idle", issuing |-> FALSE, fp |-> NoFP]
NoBindRound == [pc |-> "idle", current |-> NoFP, b |-> NoBundle]

Init ==
    /\ secret = NoFiles
    /\ cm = [ready |-> FALSE, issuing |-> TRUE] /\ ccm = cm
    /\ current = NoFP /\ ccurrent = NoFP
    /\ crd = NoCertRound /\ brd = NoBindRound
    /\ domain \in Domain
    /\ target = NoFiles /\ ours = FALSE /\ raced = FALSE
    /\ writes = 0

Next ==
    \/ CertificateBegin \/ loadMaterial \/ Adopt \/ CertificateRoundEnds
    \/ BindingBegin \/ loadBindingMaterial \/ Observe \/ Apply \/ BindingRoundEnds
    \/ Trigger \/ NotReady \/ IssueTemporary \/ Complete
    \/ \E s \in Issued : Issue(s)
    \/ \E s \in Edited \cup {NoFiles} : EditSecret(s) \/ EditTarget(s)
    \/ SyncCertificate \/ SyncCR

Spec == Init /\ [][Next]_vars
-----------------------------------------------------------------------------
Bundles == {ParseBundle(s) : s \in Files}

TypeOK ==
    /\ secret \in Files
    /\ cm \in Conditions /\ ccm \in Conditions
    /\ current \in FP /\ ccurrent \in FP
    /\ crd \in [pc : {"idle", "load", "adopt"}, issuing : BOOLEAN, fp : FP]
    /\ brd \in [pc : {"idle", "load", "observe", "apply"}, current : FP, b : Bundles]
    /\ domain \in Domain
    /\ target \in IF ours THEN {Encoded(b) : b \in Bundles} ELSE Files
    /\ {ours, raced} \subseteq BOOLEAN
    /\ writes \in 0 .. MaxWrites

\* The hosts that a client may name under domain or wildcard n (RFC 6125:
\* one whole label, and not right below a public suffix).
Hosts(n) ==
    LET m == Normal(n) IN
    IF m[1] # "*" THEN {m}
    ELSE IF Len(m) < 3 THEN {}
    ELSE {<<l>> \o Tail(m) : l \in {Lower[k] : k \in DOMAIN Lower} \ (Starred \cup {""})}

(* What the operator has put on a domain can be served there: the chain is
   leaf first and unbroken, the key is the leaf's, and a client finds every
   host of the domain in the leaf's names, whatever happened to the Secret
   between the check of the certificate controller and the write
   (binding_material.go:116, bundle.go:50, design spec 5.4 and D17). *)
ServedSound ==
    ours =>
        LET certs == target.crt leaf == certs[1] IN
        /\ certs # <<>> /\ \A i \in DOMAIN certs : certs[i] \in Certificate
        /\ \A i \in 2 .. Len(certs) : Info[certs[i - 1]].by = Info[certs[i]].key
        /\ target.key = <<Info[leaf].key>>
        /\ Hosts(domain) \subseteq
              UNION {Hosts(n) : n \in (Info[leaf].names \cup {Info[leaf].cn}) \ {NoName}}

(* The operator knows its own certificate again: it is never about to write the
   leaf that it has already put on the domain and that nobody has touched
   since, so a drift check costs no write (bundle.go:257). *)
OwnRecognized == ours /\ brd.pc = "apply" => target.crt[1] # Leaf(brd.b)

(* cert-manager's temporary certificate is adopted only by a round that saw
   the Certificate as it was before the issuance began: rule 5 refuses it as
   long as the cache has kept up (material.go:88). *)
TemporaryNeedsRace == current = fingerprintOf(Temporary) => raced

(* The same without the exception: the certificate controller refuses the
   certificate that stands in for the one being issued (binding_material.go:138,
   design spec 5.4 rule 5). *)
TemporaryRefused == current # fingerprintOf(Temporary)
=============================================================================
