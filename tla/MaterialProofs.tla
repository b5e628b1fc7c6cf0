--------------------------- MODULE MaterialProofs ---------------------------
(***************************************************************************)
(* Proofs about Material, for every set of certificates, Secrets and       *)
(* domains.  What parseCertificates computes is shown by induction over    *)
(* the blocks of a file, written as an induction over a set of numbers.    *)
(***************************************************************************)
EXTENDS Material, SequenceTheorems, WellFoundedInduction, TLAPS
-----------------------------------------------------------------------------
(* Induction *)

\* A set of naturals that is not empty has a least element.
LEMMA LeastNat ==
    ASSUME NEW T \in SUBSET Nat, T # {}
    PROVE  \E x \in T : \A y \in T : x <= y
  <1> DEFINE R == OpToRel(<, Nat)
  <1>1. IsWellFoundedOn(R, Nat)
    BY NatLessThanWellFounded
  <1>2. \A x, y \in Nat : <<x, y>> \in R <=> x < y
    BY DEF OpToRel
  <1> HIDE DEF R
  <1>3. PICK x \in T : \A y \in T : <<y, x>> \notin R
    BY <1>1, WFMin
  <1>4. ASSUME NEW y \in T
        PROVE  x <= y
    <2>1. x \in Nat /\ y \in Nat
      OBVIOUS
    <2>2. ~(y < x)
      BY <1>2, <1>3, <2>1
    <2> QED BY <2>1, <2>2
  <1> QED BY <1>4

\* A set that has 0, and n + 1 with every n, has every natural.
LEMMA SetInduction ==
    ASSUME NEW S, 0 \in S, \A n \in Nat : n \in S => n + 1 \in S
    PROVE  Nat \subseteq S
  <1> SUFFICES ASSUME Nat \ S # {} PROVE FALSE
    OBVIOUS
  <1>1. PICK n \in Nat \ S : \A y \in Nat \ S : n <= y
    BY LeastNat
  <1>2. n # 0 /\ n - 1 \in Nat /\ n - 1 < n
    BY <1>1
  <1>3. n - 1 \in S
    BY <1>1, <1>2
  <1>4. (n - 1) + 1 = n
    BY <1>2
  <1> QED BY <1>1, <1>2, <1>3, <1>4
-----------------------------------------------------------------------------
(* parseCertificates *)

\* The certificates among the first n blocks, given those of the first n - 1.
Step(f, crt, n) ==
    IF n = 0 THEN <<>>
    ELSE IF crt[n] \in Certificate THEN Append(f[n - 1], crt[n]) ELSE f[n - 1]

\* f has the certificates of the first n blocks, for each n up to k.
Collects(f, crt, k) == f = [n \in 0 .. k |-> Step(f, crt, n)]

\* The function that parseCertificates defines.
Collected(crt) == CHOOSE f : Collects(f, crt, Len(crt))

\* There is such a function for every k: the one for n, extended by one place,
\* is the one for n + 1.
LEMMA CollectsExists ==
    ASSUME NEW crt, NEW k \in Nat
    PROVE  \E f : Collects(f, crt, k)
  <1> DEFINE S == {n \in Nat : \E f : Collects(f, crt, n)}
  <1>1. 0 \in S
    <2> DEFINE g == [n \in 0 .. 0 |-> <<>>]
    <2>1. Collects(g, crt, 0)
      BY DEF Collects, Step
    <2> QED BY <2>1
  <1>2. ASSUME NEW n \in Nat, n \in S
        PROVE  n + 1 \in S
    <2>1. PICK f : Collects(f, crt, n)
      BY <1>2
    <2>2. f = [m \in 0 .. n |-> Step(f, crt, m)]
      BY <2>1 DEF Collects
    <2> DEFINE g == [m \in 0 .. n + 1 |-> IF m <= n THEN f[m] ELSE Step(f, crt, m)]
    <2>3. ASSUME NEW m \in 0 .. n + 1
          PROVE  g[m] = Step(g, crt, m)
      <3>1. g[m] = Step(f, crt, m)
        BY <2>2
      <3>2. m # 0 => m - 1 \in 0 .. n + 1 /\ m - 1 <= n
        OBVIOUS
      <3>3. m # 0 => g[m - 1] = f[m - 1]
        BY <3>2
      <3> HIDE DEF g
      <3> QED BY <3>1, <3>3 DEF Step
    <2>4. g = [m \in 0 .. n + 1 |-> g[m]]
      OBVIOUS
    <2> HIDE DEF g
    <2>5. Collects(g, crt, n + 1)
      BY <2>3, <2>4 DEF Collects
    <2> QED BY <2>5
  <1> HIDE DEF S
  <1>3. Nat \subseteq S
    BY <1>1, <1>2, SetInduction
  <1> QED BY <1>3 DEF S

\* So the recursive definition has the meaning it seems to have.
LEMMA CollectedStep ==
    ASSUME NEW crt, Len(crt) \in Nat
    PROVE  \A n \in 0 .. Len(crt) : Collected(crt)[n] = Step(Collected(crt), crt, n)
  <1>1. Collects(Collected(crt), crt, Len(crt))
    BY CollectsExists DEF Collected
  <1> HIDE DEF Collected
  <1> QED BY <1>1 DEF Collects

\* The parser in terms of that function.
LEMMA ParseCertificates ==
    ASSUME NEW crt
    PROVE  parseCertificates(crt) =
              IF Contains(crt, "garbled") THEN <<>> ELSE Collected(crt)[Len(crt)]
  BY DEF parseCertificates, Collected, Collects, Step

\* What is collected are certificates.
LEMMA CollectedType ==
    ASSUME NEW crt, Len(crt) \in Nat
    PROVE  \A n \in 0 .. Len(crt) : Collected(crt)[n] \in Seq(Certificate)
  <1> DEFINE c == Collected(crt)
             S == {n \in Nat : n <= Len(crt) => c[n] \in Seq(Certificate)}
  <1>1. \A n \in 0 .. Len(crt) : c[n] = Step(c, crt, n)
    BY CollectedStep
  <1> HIDE DEF c
  <1>2. 0 \in S
    <2>1. c[0] = <<>>
      BY <1>1 DEF Step
    <2>2. c[0] \in Seq(Certificate)
      BY <2>1, EmptySeq
    <2> QED BY <2>2
  <1>3. ASSUME NEW n \in Nat, n \in S
        PROVE  n + 1 \in S
    <2> SUFFICES ASSUME n + 1 <= Len(crt)
                 PROVE  c[n + 1] \in Seq(Certificate)
      OBVIOUS
    <2>1. c[n] \in Seq(Certificate)
      BY <1>3
    <2>2. n + 1 \in 0 .. Len(crt) /\ n + 1 # 0 /\ (n + 1) - 1 = n
      OBVIOUS
    <2>3. c[n + 1] = IF crt[n + 1] \in Certificate THEN Append(c[n], crt[n + 1]) ELSE c[n]
      BY <1>1, <2>2 DEF Step
    <2> QED BY <2>1, <2>3
  <1> HIDE DEF S
  <1>4. Nat \subseteq S
    BY <1>2, <1>3, SetInduction
  <1> QED BY <1>4 DEF S, c

\* A file of nothing but certificates is collected as it stands.
LEMMA CollectedIdentity ==
    ASSUME NEW crt \in Seq(Certificate)
    PROVE  Collected(crt)[Len(crt)] = crt
  <1> DEFINE c == Collected(crt)
             S == {n \in Nat : n <= Len(crt) => c[n] = SubSeq(crt, 1, n)}
  <1>1. \A n \in 0 .. Len(crt) : c[n] = Step(c, crt, n)
    BY CollectedStep
  <1> HIDE DEF c
  <1>2. 0 \in S
    <2>1. c[0] = <<>>
      BY <1>1 DEF Step
    <2>2. SubSeq(crt, 1, 0) = <<>>
      BY SubSeqEmpty
    <2> QED BY <2>1, <2>2
  <1>3. ASSUME NEW n \in Nat, n \in S
        PROVE  n + 1 \in S
    <2> SUFFICES ASSUME n + 1 <= Len(crt)
                 PROVE  c[n + 1] = SubSeq(crt, 1, n + 1)
      OBVIOUS
    <2>1. c[n] = SubSeq(crt, 1, n)
      BY <1>3
    <2>2. n + 1 \in 1 .. Len(crt) /\ n + 1 # 0 /\ (n + 1) - 1 = n
      OBVIOUS
    <2>3. crt[n + 1] \in Certificate
      BY <2>2, ElementOfSeq
    <2>4. c[n + 1] = Append(c[n], crt[n + 1])
      <3>1. n + 1 \in 0 .. Len(crt)
        BY <2>2
      <3>2. c[n + 1] = Step(c, crt, n + 1)
        BY <1>1, <3>1
      <3> QED BY <2>2, <2>3, <3>2 DEF Step
    <2>5. Append(SubSeq(crt, 1, n), crt[n + 1]) = SubSeq(crt, 1, n + 1)
      BY <2>2, SubSeqRecursiveSecond
    <2> QED BY <2>1, <2>4, <2>5
  <1> HIDE DEF S
  <1>4. Nat \subseteq S
    BY <1>2, <1>3, SetInduction
  <1>5. c[Len(crt)] = SubSeq(crt, 1, Len(crt))
    BY <1>4 DEF S
  <1>6. SubSeq(crt, 1, Len(crt)) = crt
    BY SubSeqFull
  <1> QED BY <1>5, <1>6 DEF c

\* The parser returns certificates only.
LEMMA ParseType ==
    ASSUME NEW crt, Len(crt) \in Nat
    PROVE  parseCertificates(crt) \in Seq(Certificate)
  <1>1. Len(crt) \in 0 .. Len(crt)
    OBVIOUS
  <1>2. Collected(crt)[Len(crt)] \in Seq(Certificate)
    BY <1>1, CollectedType
  <1>3. <<>> \in Seq(Certificate)
    OBVIOUS
  <1> QED BY <1>2, <1>3, ParseCertificates, Zenon

\* What Encoded has written comes back from the parser block by block.
LEMMA ParseIdentity ==
    ASSUME NEW crt \in Seq(Certificate)
    PROVE  parseCertificates(crt) = crt
  <1>1. ~ Contains(crt, "garbled")
    BY MaterialAssumption DEF Contains
  <1> QED BY <1>1, ParseCertificates, CollectedIdentity
-----------------------------------------------------------------------------
(* Bundles *)

\* What ParseBundle promises of a bundle: leaf first, an unbroken chain, the leaf's key.
Sound(b) ==
    /\ b.certs \in Seq(Certificate) /\ b.certs # <<>>
    /\ \A i \in 1 .. Len(b.certs) - 1 : SignedBy(b.certs[i], b.certs[i + 1])
    /\ b.key = Info[Leaf(b)].key

\* The certificate file of a Secret is a sequence of blocks.
LEMMA FilesType ==
    ASSUME NEW s \in Files
    PROVE  Len(s.crt) \in Nat
  <1>1. CASE s \in Issued \cup Edited
    BY <1>1, MaterialAssumption, LenProperties
  <1>2. CASE s = NoFiles
    BY <1>2 DEF NoFiles
  <1>3. CASE s = [crt |-> <<Temporary>>, key |-> <<Info[Temporary].key>>]
    BY <1>3
  <1> QED BY <1>1, <1>2, <1>3 DEF Files

\* The parser either refuses the files or returns a sound bundle.
LEMMA ParseSound ==
    ASSUME NEW s \in Files, ParseBundle(s) # NoBundle
    PROVE  Sound(ParseBundle(s))
  <1> DEFINE certs == parseCertificates(s.crt)
             key == parsePrivateKey(s.key)
  <1>1. certs \in Seq(Certificate)
    BY FilesType, ParseType
  <1> HIDE DEF certs, key
  <1>2. /\ certs # <<>> /\ key # NoKey
        /\ \A i \in 1 .. Len(certs) - 1 : SignedBy(certs[i], certs[i + 1])
        /\ Info[certs[1]].key = key
        /\ ParseBundle(s) = [certs |-> certs, key |-> key]
    BY Zenon DEF ParseBundle, certs, key
  <1> QED BY <1>1, <1>2 DEF Sound, Leaf

\* A sound bundle has a leaf.
LEMMA SoundLeaf ==
    ASSUME NEW b, Sound(b)
    PROVE  Leaf(b) \in Certificate /\ 1 \in 1 .. Len(b.certs)
  BY DEF Sound, Leaf

\* A Secret without files gives no bundle.
LEMMA ParseNothing == ParseBundle(NoFiles) = NoBundle
  <1>1. parsePrivateKey(NoFiles.key) = NoKey
    BY DEF parsePrivateKey, NoFiles
  <1> QED BY <1>1, Zenon DEF ParseBundle

\* The bundle of a round that has none is among the bundles.
LEMMA NoBundleParsed == NoBundle \in Bundles
  <1>1. NoFiles \in Files
    BY DEF Files
  <1> QED BY <1>1, ParseNothing DEF Bundles

\* What the parser makes of a Secret is among the bundles.
LEMMA Parsed ==
    ASSUME NEW s \in Files
    PROVE  ParseBundle(s) \in Bundles
  BY DEF Bundles
-----------------------------------------------------------------------------
(* Types *)

\* The types hold at the start.
LEMMA InitType == Init => TypeOK
  <1> SUFFICES ASSUME Init PROVE TypeOK
    OBVIOUS
  <1>1. NoFiles \in Files
    BY DEF Files
  <1>2. cm \in Conditions /\ ccm \in Conditions
    BY DEF Init, Conditions
  <1>3. NoFP \in FP
    BY DEF FP
  <1>4. brd \in [pc : {"idle", "load", "observe", "apply"}, current : FP, b : Bundles]
    BY <1>3, NoBundleParsed DEF Init, NoBindRound
  <1>5. crd \in [pc : {"idle", "load", "adopt"}, issuing : BOOLEAN, fp : FP]
    BY <1>3 DEF Init, NoCertRound
  <1>6. writes \in 0 .. MaxWrites
    BY MaterialAssumption DEF Init
  <1>7. target \in Files /\ ours = FALSE /\ raced = FALSE
    BY <1>1 DEF Init
  <1> QED BY <1>1, <1>2, <1>3, <1>4, <1>5, <1>6, <1>7 DEF Init, TypeOK

\* What cert-manager makes of the conditions are conditions.
LEMMA ConditionSet ==
    ASSUME NEW c \in Conditions
    PROVE  /\ [c EXCEPT !.issuing = TRUE] \in Conditions
           /\ [c EXCEPT !.ready = FALSE] \in Conditions
           /\ [ready |-> TRUE, issuing |-> FALSE] \in Conditions
  BY DEF Conditions

\* Every step keeps the types.
LEMMA NextType ==
    ASSUME TypeOK, [Next]_vars
    PROVE  TypeOK'
  <1> USE DEF TypeOK
  <1>0. NoFP \in FP /\ NoFiles \in Files
    BY DEF FP, Files
  <1>1. CASE CertificateBegin
    BY <1>1, <1>0 DEF CertificateBegin, Conditions
  <1>2. CASE loadMaterial
    <2> DEFINE b == ParseBundle(secret)
               ok == b # NoBundle /\ validateMaterial(b, crd.issuing)
    <2>1. ok => fingerprintOf(Leaf(b)) \in FP
      BY ParseSound, SoundLeaf DEF FP
    <2>2. crd' = [crd EXCEPT !.pc = IF ok THEN "adopt" ELSE "idle",
                             !.fp = IF ok THEN fingerprintOf(Leaf(b)) ELSE NoFP]
      BY <1>2 DEF loadMaterial
    <2> HIDE DEF ok, b
    <2>3. crd' \in [pc : {"idle", "load", "adopt"}, issuing : BOOLEAN, fp : FP]
      BY <1>0, <2>1, <2>2
    <2>4. raced' \in BOOLEAN
      BY <1>2 DEF loadMaterial
    <2> QED BY <1>2, <2>3, <2>4 DEF loadMaterial
  <1>3. CASE Adopt
    BY <1>3, <1>0 DEF Adopt
  <1>4. CASE CertificateRoundEnds
    BY <1>4, <1>0 DEF CertificateRoundEnds
  <1>5. CASE BindingBegin
    BY <1>5 DEF BindingBegin
  <1>6. CASE loadBindingMaterial
    <2> DEFINE b == ParseBundle(secret)
               ok == b # NoBundle /\ checkDomainCoverage(b) /\ certificateGate(b, brd.current)
    <2>1. b \in Bundles
      BY Parsed
    <2>2. brd' = [brd EXCEPT !.pc = IF ok THEN "observe" ELSE "idle",
                             !.b = IF ok THEN b ELSE NoBundle]
      BY <1>6 DEF loadBindingMaterial
    <2> HIDE DEF ok, b
    <2>3. brd' \in [pc : {"idle", "load", "observe", "apply"}, current : FP, b : Bundles]
      BY <2>1, <2>2, NoBundleParsed
    <2> QED BY <1>6, <2>3 DEF loadBindingMaterial
  <1>7. CASE Observe
    <2>1. brd' \in [pc : {"idle", "load", "observe", "apply"}, current : FP, b : Bundles]
      BY <1>7, NoBundleParsed DEF Observe
    <2> QED BY <1>7, <2>1 DEF Observe
  <1>8. CASE Apply
    <2>1. brd' \in [pc : {"idle", "load", "observe", "apply"}, current : FP, b : Bundles]
      BY <1>8, NoBundleParsed DEF Apply
    <2>2. target' \in {Encoded(b) : b \in Bundles} /\ ours' = TRUE
      BY <1>8 DEF Apply
    <2> QED BY <1>8, <2>1, <2>2 DEF Apply
  <1>9. CASE BindingRoundEnds
    BY <1>9, NoBundleParsed DEF BindingRoundEnds
  <1>10. CASE Trigger \/ NotReady \/ Complete
    <2>1. cm' \in Conditions
      <3>1. \/ cm' = [cm EXCEPT !.issuing = TRUE]
            \/ cm' = [cm EXCEPT !.ready = FALSE]
            \/ cm' = [ready |-> TRUE, issuing |-> FALSE]
        BY <1>10, Zenon DEF Trigger, NotReady, Complete
      <3> QED BY <3>1, ConditionSet
    <2>2. writes' = writes \/ (writes < MaxWrites /\ writes' = writes + 1)
      BY <1>10 DEF Trigger, NotReady, Complete, Counted
    <2>3. writes' \in 0 .. MaxWrites
      BY <2>2, MaterialAssumption
    <2> QED BY <1>10, <2>1, <2>3 DEF Trigger, NotReady, Complete
  <1>11. CASE IssueTemporary
    <2>1. secret' \in Files
      BY <1>11 DEF IssueTemporary, Files
    <2> QED BY <1>11, <2>1 DEF IssueTemporary
  <1>12. CASE \E s \in Issued : Issue(s)
    <2>1. secret' \in Files /\ writes' \in 0 .. MaxWrites
      BY <1>12, MaterialAssumption DEF Issue, Counted, Files
    <2> QED BY <1>12, <2>1 DEF Issue
  <1>13. CASE \E s \in Edited \cup {NoFiles} : EditSecret(s)
    <2>1. secret' \in Files /\ writes' \in 0 .. MaxWrites
      BY <1>13, MaterialAssumption DEF EditSecret, Counted, Files
    <2> QED BY <1>13, <2>1 DEF EditSecret
  <1>14. CASE \E s \in Edited \cup {NoFiles} : EditTarget(s)
    <2>1. target' \in Files /\ ours' = FALSE /\ writes' \in 0 .. MaxWrites
      BY <1>14, MaterialAssumption DEF EditTarget, Counted, Files
    <2> QED BY <1>14, <2>1 DEF EditTarget
  <1>15. CASE SyncCertificate \/ SyncCR
    BY <1>15 DEF SyncCertificate, SyncCR
  <1>16. CASE UNCHANGED vars
    BY <1>16 DEF vars
  <1> QED BY <1>1, <1>2, <1>3, <1>4, <1>5, <1>6, <1>7, <1>8, <1>9, <1>10, <1>11, <1>12,
             <1>13, <1>14, <1>15, <1>16 DEF Next
-----------------------------------------------------------------------------
(* Names *)

\* A normal form is a name in lower case, with the first label of the name.
LEMMA NormalType ==
    ASSUME NEW n \in Name
    PROVE  /\ Normal(n) \in Seq({Lower[k] : k \in DOMAIN Lower})
           /\ Len(Normal(n)) >= 1
           /\ Normal(n)[1] = Lower[n[1]]
  <1> DEFINE m == IF Len(n) > 1 /\ Last(n) = "" THEN Front(n) ELSE n
  <1>1. n \in Seq(DOMAIN Lower) /\ Len(n) >= 1
    BY DEF Name
  <1>2. m \in Seq(DOMAIN Lower) /\ Len(m) >= 1 /\ m[1] = n[1]
    <2>1. CASE Len(n) > 1 /\ Last(n) = ""
      <3>1. m = SubSeq(n, 1, Len(n) - 1)
        BY <2>1 DEF Front
      <3>2. 1 \in 1 .. Len(n) + 1 /\ Len(n) - 1 \in 1 .. Len(n) /\ 1 \in 1 .. Len(n) - 1
        <4>1. Len(n) \in Nat /\ Len(n) > 1
          BY <1>1, <2>1, LenProperties
        <4> QED BY <4>1
      <3> HIDE DEF m
      <3> QED BY <1>1, <3>1, <3>2
    <2>2. CASE ~(Len(n) > 1 /\ Last(n) = "")
      <3>1. m = n
        BY <2>2, Zenon
      <3> HIDE DEF m
      <3> QED BY <1>1, <3>1
    <2> QED BY <2>1, <2>2
  <1>3. Normal(n) = [i \in DOMAIN m |-> Lower[m[i]]]
    BY DEF Normal
  <1> HIDE DEF m
  <1>4. DOMAIN m = 1 .. Len(m) /\ \A i \in 1 .. Len(m) : m[i] \in DOMAIN Lower
    BY <1>2
  <1>5. Normal(n) = [i \in 1 .. Len(m) |-> Lower[m[i]]]
    BY <1>3, <1>4
  <1>6. \A i \in 1 .. Len(m) : Lower[m[i]] \in {Lower[k] : k \in DOMAIN Lower}
    BY <1>4
  <1>7. Len(m) \in Nat
    BY <1>2
  <1>8. Normal(n) \in Seq({Lower[k] : k \in DOMAIN Lower}) /\ Len(Normal(n)) = Len(m)
    BY <1>5, <1>6, <1>7, IsASeq
  <1> QED BY <1>2, <1>5, <1>7, <1>8

\* The empty name is its own normal form.
LEMMA NoNameNormal == Normal(NoName) = NoName
  <1>1. Len(NoName) = 1 /\ DOMAIN NoName = {1}
    BY DEF NoName
  <1>2. NoName[1] = ""
    BY DEF NoName
  <1>3. ~(Len(NoName) > 1)
    BY <1>1
  <1>4. Normal(NoName) = [i \in DOMAIN NoName |-> Lower[NoName[i]]]
    BY <1>3, Zenon DEF Normal
  <1>5. Normal(NoName) = [i \in {1} |-> NoName[i]]
    BY <1>1, <1>2, <1>4, LabelAssumption
  <1>6. NoName = [i \in DOMAIN NoName |-> NoName[i]]
    BY DEF NoName
  <1> QED BY <1>1, <1>5, <1>6

\* A name of the certificate that covers the domain has every host of the
\* domain: the asterisk stands for one whole label, as in RFC 6125.
LEMMA CoversHosts ==
    ASSUME NEW n \in Name, NEW d \in Domain, Covers(n, d)
    PROVE  Hosts(d) \subseteq Hosts(n)
  <1> DEFINE p == Normal(n)
             h == Normal(d)
             L == {Lower[k] : k \in DOMAIN Lower}
  <1>1. d \in Name /\ Lower[d[1]] \notin Starred \ {"*"}
    BY LabelAssumption
  <1>2. p \in Seq(L) /\ h \in Seq(L) /\ Len(p) >= 1 /\ Len(h) >= 1 /\ h[1] = Lower[d[1]]
    BY <1>1, NormalType
  <1>3. \/ p = h
        \/ /\ Len(p) >= 3 /\ p[1] = "*" /\ Len(p) = Len(h)
           /\ \A i \in 2 .. Len(p) : p[i] \notin Starred \cup {""} /\ p[i] = h[i]
           /\ h[1] # ""
    BY DEF Covers
  <1>4. Hosts(d) = IF h[1] # "*" THEN {h}
                   ELSE IF Len(h) < 3 THEN {}
                   ELSE {<<l>> \o Tail(h) : l \in L \ (Starred \cup {""})}
    BY DEF Hosts
  <1>5. Hosts(n) = IF p[1] # "*" THEN {p}
                   ELSE IF Len(p) < 3 THEN {}
                   ELSE {<<l>> \o Tail(p) : l \in L \ (Starred \cup {""})}
    BY DEF Hosts
  <1> HIDE DEF p, h, L
  <1>6. Len(p) \in Nat /\ Len(h) \in Nat /\ p # <<>> /\ h # <<>>
    BY <1>2
  <1>7. CASE p = h
    BY <1>4, <1>5, <1>7
  <1>8. CASE /\ Len(p) >= 3 /\ p[1] = "*" /\ Len(p) = Len(h)
             /\ \A i \in 2 .. Len(p) : p[i] \notin Starred \cup {""} /\ p[i] = h[i]
             /\ h[1] # ""
    <2>1. Tail(p) = Tail(h)
      <3>1. p # <<>> /\ h # <<>> /\ Len(p) = Len(h) /\ Len(p) \in Nat
        <4>1. Len(p) = Len(h)
          BY <1>8
        <4> QED BY <1>6, <4>1
      <3>2. /\ Tail(p) \in Seq(L) /\ Len(Tail(p)) = Len(p) - 1
            /\ \A i \in 1 .. Len(Tail(p)) : Tail(p)[i] = p[i + 1]
        BY <1>2, <3>1, HeadTailProperties
      <3>3. /\ Tail(h) \in Seq(L) /\ Len(Tail(h)) = Len(h) - 1
            /\ \A i \in 1 .. Len(Tail(h)) : Tail(h)[i] = h[i + 1]
        BY <1>2, <3>1, HeadTailProperties
      <3>4. ASSUME NEW i \in 1 .. Len(Tail(p)) PROVE Tail(p)[i] = Tail(h)[i]
        <4>1. i + 1 \in 2 .. Len(p) /\ i \in 1 .. Len(Tail(h))
          BY <3>1, <3>2, <3>3
        <4> QED BY <1>8, <3>2, <3>3, <4>1
      <3> QED BY <3>1, <3>2, <3>3, <3>4, SeqEqual
    <2>2. CASE h[1] = "*"
      BY <1>4, <1>5, <1>8, <2>1, <2>2
    <2>3. CASE h[1] # "*"
      <3>0. h[1] \in L
        BY <1>2
      <3>1. h[1] \in L /\ h[1] \notin Starred \cup {""}
        BY <1>1, <1>2, <1>8, <2>3, <3>0, Zenon
      <3>2. h = <<h[1]>> \o Tail(h)
        BY <1>2
      <3>3. h \in Hosts(n)
        <4>1. ~(Len(p) < 3)
          <5>1. Len(p) >= 3
            BY <1>8
          <5> QED BY <1>6, <5>1
        <4>2. Hosts(n) = {<<l>> \o Tail(p) : l \in L \ (Starred \cup {""})}
          BY <1>5, <1>8, <4>1, Zenon
        <4> QED BY <2>1, <3>1, <3>2, <4>2, Zenon
      <3> QED BY <1>4, <2>3, <3>3
    <2> QED BY <2>2, <2>3
  <1> QED BY <1>3, <1>7, <1>8
-----------------------------------------------------------------------------
(* What is served *)

\* A bundle in hand past the gates, and the one on the target, is sound and
\* covers the domain; what is about to be written is not there yet.
ServeInv ==
    /\ brd.pc \in {"observe", "apply"} => Sound(brd.b) /\ checkDomainCoverage(brd.b)
    /\ ours => \E b \in Bundles : /\ target = Encoded(b)
                                  /\ Sound(b) /\ checkDomainCoverage(b)
    /\ OwnRecognized

\* The temporary certificate is in the Secret only while the Certificate is
\* Issuing; a round that takes it has missed that.
TemporaryInv ==
    /\ LET b == ParseBundle(secret) IN b # NoBundle /\ Leaf(b) = Temporary => cm.issuing
    /\ crd.fp = fingerprintOf(Temporary) => raced
    /\ TemporaryNeedsRace

\* The fingerprint of what was written is that of the leaf in hand.
LEMMA EncodedFingerprint ==
    ASSUME NEW b, Sound(b)
    PROVE  LeafFingerprint(Encoded(b).crt) = fingerprintOf(Leaf(b))
  <1>1. Encoded(b).crt = b.certs
    BY DEF Encoded
  <1>2. parseCertificates(b.certs) = b.certs /\ b.certs # <<>>
    BY ParseIdentity DEF Sound
  <1> QED BY <1>1, <1>2, Zenon DEF LeafFingerprint, Leaf

\* The invariant of what is served holds at the start.
LEMMA InitServe == Init => ServeInv
  BY DEF Init, NoBindRound, ServeInv, OwnRecognized

\* Every step keeps it: a round carries the bundle it has checked, and writes
\* that one.
LEMMA NextServe ==
    ASSUME TypeOK, ServeInv, [Next]_vars
    PROVE  ServeInv'
  <1>0. brd \in [pc : {"idle", "load", "observe", "apply"}, current : FP, b : Bundles]
    BY DEF TypeOK
  <1>1. CASE UNCHANGED <<brd, domain, target, ours>>
    BY <1>1 DEF ServeInv, OwnRecognized, checkDomainCoverage
  <1>2. CASE /\ UNCHANGED <<domain, target, ours>>
             /\ brd'.pc \notin {"observe", "apply"}
    BY <1>2 DEF ServeInv, OwnRecognized, checkDomainCoverage
  <1>3. CASE loadBindingMaterial
    <2> DEFINE b == ParseBundle(secret)
               ok == b # NoBundle /\ checkDomainCoverage(b) /\ certificateGate(b, brd.current)
    <2>1. brd' = [brd EXCEPT !.pc = IF ok THEN "observe" ELSE "idle",
                             !.b = IF ok THEN b ELSE NoBundle]
      BY <1>3 DEF loadBindingMaterial
    <2>2. ok => Sound(b) /\ checkDomainCoverage(b)
      BY ParseSound DEF TypeOK
    <2>3. UNCHANGED <<domain, target, ours>>
      BY <1>3 DEF loadBindingMaterial
    <2> HIDE DEF ok, b
    <2>4. CASE ok
      <3>1. brd'.pc = "observe" /\ brd'.b = b
        BY <1>0, <2>1, <2>4
      <3> QED BY <2>2, <2>3, <2>4, <3>1 DEF ServeInv, OwnRecognized, checkDomainCoverage
    <2>5. CASE ~ok
      <3>1. brd'.pc = "idle"
        BY <1>0, <2>1, <2>5
      <3> QED BY <1>2, <2>3, <3>1
    <2> QED BY <2>4, <2>5
  <1>4. CASE Observe
    <2>1. brd.pc = "observe" /\ UNCHANGED <<domain, target, ours>>
      BY <1>4 DEF Observe
    <2>2. CASE LeafFingerprint(target.crt) = fingerprintOf(Leaf(brd.b))
      <3>1. brd'.pc = "idle"
        BY <1>0, <1>4, <2>2 DEF Observe
      <3> QED BY <1>2, <2>1, <3>1
    <2>3. CASE LeafFingerprint(target.crt) # fingerprintOf(Leaf(brd.b))
      <3>1. brd' = [brd EXCEPT !.pc = "apply"]
        BY <1>4, <2>3 DEF Observe
      <3>2. brd'.pc = "apply" /\ brd'.b = brd.b
        BY <1>0, <3>1
      <3>3. ASSUME ours PROVE target.crt[1] # Leaf(brd.b)
        <4>1. PICK b \in Bundles : target = Encoded(b) /\ Sound(b)
          BY <3>3 DEF ServeInv
        <4>2. fingerprintOf(Leaf(b)) # fingerprintOf(Leaf(brd.b))
          BY <2>3, <4>1, EncodedFingerprint
        <4>3. target.crt[1] = Leaf(b)
          BY <4>1 DEF Encoded, Leaf
        <4> QED BY <4>2, <4>3
      <3> QED BY <2>1, <3>2, <3>3 DEF ServeInv, OwnRecognized, checkDomainCoverage
    <2> QED BY <2>2, <2>3
  <1>5. CASE Apply
    <2>1. brd.b \in Bundles /\ Sound(brd.b) /\ checkDomainCoverage(brd.b)
      BY <1>0, <1>5 DEF Apply, ServeInv
    <2>2. target' = Encoded(brd.b) /\ domain' = domain /\ brd'.pc = "idle"
      BY <1>0, <1>5 DEF Apply
    <2> QED BY <2>1, <2>2 DEF ServeInv, OwnRecognized, checkDomainCoverage
  <1>6. CASE \E s \in Edited \cup {NoFiles} : EditTarget(s)
    <2>1. ours' = FALSE /\ UNCHANGED <<brd, domain>>
      BY <1>6 DEF EditTarget
    <2> QED BY <2>1 DEF ServeInv, OwnRecognized, checkDomainCoverage
  <1>7. CASE BindingBegin
    <2>1. brd'.pc = "load" /\ UNCHANGED <<domain, target, ours>>
      BY <1>0, <1>7 DEF BindingBegin
    <2> QED BY <1>2, <2>1
  <1>8. CASE BindingRoundEnds
    <2>1. brd'.pc = "idle" /\ UNCHANGED <<domain, target, ours>>
      BY <1>0, <1>8 DEF BindingRoundEnds
    <2> QED BY <1>2, <2>1
  <1>9. CASE CertificateBegin \/ loadMaterial \/ Adopt \/ CertificateRoundEnds
    BY <1>1, <1>9, Zenon DEF CertificateBegin, loadMaterial, Adopt, CertificateRoundEnds
  <1>10. CASE Trigger \/ NotReady \/ IssueTemporary \/ Complete
    BY <1>1, <1>10, Zenon DEF Trigger, NotReady, IssueTemporary, Complete
  <1>11. CASE \E s \in Issued : Issue(s)
    BY <1>1, <1>11, Zenon DEF Issue
  <1>12. CASE \E s \in Edited \cup {NoFiles} : EditSecret(s)
    BY <1>1, <1>12, Zenon DEF EditSecret
  <1>13. CASE SyncCertificate \/ SyncCR
    BY <1>1, <1>13, Zenon DEF SyncCertificate, SyncCR
  <1>14. CASE UNCHANGED vars
    BY <1>1, <1>14, Zenon DEF vars
  <1> QED BY <1>3, <1>4, <1>5, <1>6, <1>7, <1>8, <1>9, <1>10, <1>11, <1>12, <1>13, <1>14
          DEF Next

\* A bundle that passed the gates can be served.
LEMMA ServeSound ==
    ASSUME ServeInv, TypeOK
    PROVE  ServedSound
  <1> SUFFICES ASSUME ours PROVE ServedSound
    BY DEF ServedSound
  <1>1. PICK b \in Bundles : target = Encoded(b) /\ Sound(b) /\ checkDomainCoverage(b)
    BY DEF ServeInv
  <1>2. target.crt = b.certs /\ target.key = <<b.key>>
    BY <1>1 DEF Encoded
  <1> DEFINE certs == b.certs
             leaf == Leaf(b)
             Names == (Info[leaf].names \cup {Info[leaf].cn}) \ {NoName}
  <1>3. certs \in Seq(Certificate) /\ certs # <<>> /\ b.key = Info[leaf].key
    BY <1>1 DEF Sound
  <1>4. \A i \in DOMAIN certs : certs[i] \in Certificate
    BY <1>3
  <1>5. ASSUME NEW i \in 2 .. Len(certs)
        PROVE  Info[certs[i - 1]].by = Info[certs[i]].key
    <2>1. Len(certs) \in Nat
      BY <1>3, LenProperties
    <2>2. i - 1 \in 1 .. Len(certs) - 1 /\ (i - 1) + 1 = i
      BY <2>1
    <2>3. SignedBy(certs[i - 1], certs[(i - 1) + 1])
      BY <1>1, <2>2 DEF Sound
    <2> QED BY <2>2, <2>3 DEF SignedBy
  <1>6. PICK n \in DNSNames(b) : Covers(n, domain)
    BY <1>1 DEF checkDomainCoverage, Missing
  <1>7. domain \in Domain /\ leaf \in Certificate
    BY <1>1, SoundLeaf DEF TypeOK
  <1>8. n \in Name
    BY <1>6, <1>7, LabelAssumption DEF DNSNames
  <1>9. n # NoName
    BY <1>6, NoNameNormal, Zenon DEF Covers
  <1>10. n \in Names
    BY <1>6, <1>9 DEF DNSNames
  <1>11. Hosts(domain) \subseteq UNION {Hosts(m) : m \in Names}
    BY <1>6, <1>7, <1>8, <1>10, CoversHosts
  <1> HIDE DEF Names
  <1> QED BY <1>2, <1>3, <1>4, <1>5, <1>11 DEF ServedSound, Names, Leaf
-----------------------------------------------------------------------------
(* The temporary certificate *)

\* The invariant of the temporary certificate holds at the start.
LEMMA InitTemporary == Init => TemporaryInv
  <1> SUFFICES ASSUME Init PROVE TemporaryInv
    OBVIOUS
  <1>1. ParseBundle(secret) = NoBundle
    BY ParseNothing DEF Init
  <1>2. NoFP # fingerprintOf(Temporary)
    BY DEF NoFP, fingerprintOf
  <1> QED BY <1>1, <1>2 DEF Init, NoCertRound, TemporaryInv, TemporaryNeedsRace

\* Every step keeps it.
LEMMA NextTemporary ==
    ASSUME TypeOK, TemporaryInv, [Next]_vars
    PROVE  TemporaryInv'
  <1> DEFINE IsTemp(s) == ParseBundle(s) # NoBundle /\ Leaf(ParseBundle(s)) = Temporary
             InSecret == IsTemp(secret) => cm.issuing
             InRound == crd.fp = fingerprintOf(Temporary) => raced
             Recorded == current = fingerprintOf(Temporary) => raced
  <1>0. /\ TemporaryInv <=> InSecret /\ InRound /\ Recorded
        /\ TemporaryInv' <=> InSecret' /\ InRound' /\ Recorded'
    BY Zenon DEF TemporaryInv, TemporaryNeedsRace
  <1>1. crd \in [pc : {"idle", "load", "adopt"}, issuing : BOOLEAN, fp : FP] /\ cm \in Conditions
    BY DEF TypeOK
  <1>2. NoFP # fingerprintOf(Temporary)
    BY DEF NoFP, fingerprintOf
  <1>3. \A s \in Issued \cup Edited \cup {NoFiles} : ~IsTemp(s)
    BY TemporaryAssumption, ParseNothing, Zenon
  <1>4. InSecret /\ InRound /\ Recorded
    BY <1>0
  <1> HIDE DEF IsTemp
  <1>5. CASE UNCHANGED <<secret, cm, crd, raced, current>>
    BY <1>0, <1>4, <1>5
  <1>6. CASE loadMaterial
    <2> DEFINE b == ParseBundle(secret)
               ok == b # NoBundle /\ validateMaterial(b, crd.issuing)
    <2>1. UNCHANGED <<secret, cm, current>> /\ raced' = (raced \/ crd.issuing # cm.issuing)
      BY <1>6 DEF loadMaterial
    <2>2. crd'.fp = IF ok THEN fingerprintOf(Leaf(b)) ELSE NoFP
      BY <1>1, <1>6 DEF loadMaterial
    <2>3. ASSUME crd'.fp = fingerprintOf(Temporary) PROVE raced'
      <3>1. ok /\ fingerprintOf(Leaf(b)) = fingerprintOf(Temporary)
        BY <1>2, <2>2, <2>3, Zenon
      <3>2. Leaf(b) = Temporary
        BY <3>1 DEF fingerprintOf
      <3>3. cm.issuing
        BY <1>4, <3>1, <3>2 DEF IsTemp
      <3>4. IsSelfSigned(b)
        BY <3>2, TemporaryAssumption DEF IsSelfSigned
      <3>5. ~crd.issuing
        BY <3>1, <3>4 DEF validateMaterial
      <3> QED BY <2>1, <3>3, <3>5
    <2>4. InSecret' /\ Recorded'
      BY <1>4, <2>1
    <2> QED BY <1>0, <2>3, <2>4
  <1>7. CASE Adopt
    <2>1. crd'.fp = NoFP /\ current' = crd.fp /\ UNCHANGED <<secret, cm, raced>>
      BY <1>1, <1>7 DEF Adopt
    <2> QED BY <1>0, <1>2, <1>4, <2>1
  <1>8. CASE CertificateBegin \/ CertificateRoundEnds
    <2>1. crd'.fp = NoFP
      <3>1. CASE CertificateBegin
        <4>1. crd' = [pc |-> "load", issuing |-> ccm.issuing, fp |-> NoFP]
          BY <3>1 DEF CertificateBegin
        <4> QED BY <4>1
      <3>2. CASE CertificateRoundEnds
        BY <1>1, <3>2 DEF CertificateRoundEnds
      <3> QED BY <1>8, <3>1, <3>2
    <2>2. UNCHANGED <<current, secret, cm, raced>>
      BY <1>8, Zenon DEF CertificateBegin, CertificateRoundEnds
    <2> QED BY <1>0, <1>2, <1>4, <2>1, <2>2
  <1>9. CASE Trigger \/ NotReady
    <2>1. UNCHANGED <<secret, crd, raced, current>> /\ (cm.issuing => cm'.issuing)
      BY <1>1, <1>9 DEF Trigger, NotReady, Conditions
    <2> QED BY <1>0, <1>4, <2>1
  <1>10. CASE IssueTemporary
    <2>1. UNCHANGED <<cm, crd, raced, current>> /\ cm.issuing
      BY <1>10 DEF IssueTemporary
    <2> QED BY <1>0, <1>4, <2>1
  <1>11. CASE Complete
    <2>1. UNCHANGED <<secret, crd, raced, current>> /\ secret \in Issued
      BY <1>11 DEF Complete
    <2> QED BY <1>0, <1>3, <1>4, <2>1
  <1>12. CASE (\E s \in Issued : Issue(s)) \/ (\E s \in Edited \cup {NoFiles} : EditSecret(s))
    <2>1. UNCHANGED <<cm, crd, raced, current>> /\ secret' \in Issued \cup Edited \cup {NoFiles}
      BY <1>12 DEF Issue, EditSecret
    <2> QED BY <1>0, <1>3, <1>4, <2>1
  <1>13. CASE BindingBegin \/ loadBindingMaterial \/ Observe \/ Apply \/ BindingRoundEnds
    BY <1>5, <1>13, Zenon DEF BindingBegin, loadBindingMaterial, Observe, Apply, BindingRoundEnds
  <1>14. CASE (\E s \in Edited \cup {NoFiles} : EditTarget(s)) \/ SyncCertificate \/ SyncCR
    BY <1>5, <1>14, Zenon DEF EditTarget, SyncCertificate, SyncCR
  <1>15. CASE UNCHANGED vars
    BY <1>5, <1>15, Zenon DEF vars
  <1> QED BY <1>6, <1>7, <1>8, <1>9, <1>10, <1>11, <1>12, <1>13, <1>14, <1>15 DEF Next
-----------------------------------------------------------------------------
(* The theorems *)

(* Every variable keeps its type; what is on the target is the encoding of a
   parsed bundle or a file that somebody made (bundle.go:50,
   binding_material.go:116). *)
THEOREM TypeCorrect == Spec => []TypeOK
  <1>1. Init => TypeOK
    BY InitType
  <1>2. TypeOK /\ [Next]_vars => TypeOK'
    BY NextType
  <1> QED BY <1>1, <1>2, PTL DEF Spec

\* The two invariants together.
LEMMA ServeInvariant == Spec => [](TypeOK /\ ServeInv)
  <1>1. Init => TypeOK /\ ServeInv
    BY InitType, InitServe
  <1>2. (TypeOK /\ ServeInv) /\ [Next]_vars => (TypeOK /\ ServeInv)'
    BY NextType, NextServe
  <1> QED BY <1>1, <1>2, PTL DEF Spec

(* What the operator has put on a domain can be served there, for every
   Secret people and cert-manager write and whenever they write it: chain,
   key and host names all come from one bundle, the one that was checked
   (bundle.go:50, sans.go:12, binding_material.go:116). *)
THEOREM ServedIsSound == Spec => []ServedSound
  <1>1. TypeOK /\ ServeInv => ServedSound
    BY ServeSound
  <1> QED BY <1>1, ServeInvariant, PTL

(* A drift check never writes the leaf that is already there: what Encoded
   writes, parseCertificates reads back block by block (bundle.go:257). *)
THEOREM OwnIsRecognized == Spec => []OwnRecognized
  <1>1. ServeInv => OwnRecognized
    BY DEF ServeInv
  <1> QED BY <1>1, ServeInvariant, PTL

(* The temporary certificate is adopted by no round that saw the Certificate
   as it was when the Secret was read (material.go:88). *)
THEOREM TemporaryOnlyByRace == Spec => []TemporaryNeedsRace
  <1>1. Init => TypeOK /\ TemporaryInv
    BY InitType, InitTemporary
  <1>2. (TypeOK /\ TemporaryInv) /\ [Next]_vars => (TypeOK /\ TemporaryInv)'
    BY NextType, NextTemporary
  <1>3. TemporaryInv => TemporaryNeedsRace
    BY DEF TemporaryInv
  <1> QED BY <1>1, <1>2, <1>3, PTL DEF Spec
=============================================================================
