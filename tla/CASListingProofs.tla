-------------------------- MODULE CASListingProofs --------------------------
(***************************************************************************)
(* Proofs about CASListing, for every page size, page limit and number of  *)
(* certificates, and for as many uploads and deletions as one likes.       *)
(***************************************************************************)
EXTENDS CASListing, SequenceTheorems, FiniteSetTheorems, TLAPS
-----------------------------------------------------------------------------
(* The shelf *)

\* What stands where after an upload.
LEMMA Inserted ==
    ASSUME NEW s \in Seq(Cert), NEW i \in 1 .. Len(s) + 1, NEW c \in Cert
    PROVE  /\ InsertAt(s, i, c) \in Seq(Cert)
           /\ Len(InsertAt(s, i, c)) = Len(s) + 1
           /\ \A j \in 1 .. Len(s) + 1 :
                 InsertAt(s, i, c)[j] =
                    IF j < i THEN s[j] ELSE IF j = i THEN c ELSE s[j - 1]
  <1>1. Len(s) \in Nat /\ \A j \in 1 .. Len(s) : s[j] \in Cert
    BY LenProperties, ElementOfSeq
  <1> DEFINE a == SubSeq(s, 1, i - 1)
             z == SubSeq(s, i, Len(s))
  <1>2. /\ a \in Seq(Cert) /\ Len(a) = i - 1
        /\ \A j \in 1 .. i - 1 : a[j] = s[j]
    <2>1. \A j \in 1 .. i - 1 : s[j] \in Cert
      BY <1>1
    <2>2. i \in Int /\ i - 1 \in Int /\ i >= 1
      BY <1>1
    <2> QED BY <2>1, <2>2, SubSeqProperties
  <1>3. /\ z \in Seq(Cert) /\ Len(z) = Len(s) - i + 1
        /\ \A j \in 1 .. Len(s) - i + 1 : z[j] = s[i + j - 1]
    <2>1. \A j \in i .. Len(s) : s[j] \in Cert
      BY <1>1
    <2>2. i \in Int /\ Len(s) \in Int /\ i >= 1 /\ i <= Len(s) + 1
      BY <1>1
    <2> QED BY <2>1, <2>2, SubSeqProperties
  <1> HIDE DEF a, z
  <1>4. InsertAt(s, i, c) = a \o <<c>> \o z
    BY DEF InsertAt, a, z
  <1>5. <<c>> \in Seq(Cert) /\ Len(<<c>>) = 1 /\ <<c>>[1] = c
    OBVIOUS
  <1>6. /\ a \o <<c>> \in Seq(Cert) /\ Len(a \o <<c>>) = i
        /\ \A j \in 1 .. i : (a \o <<c>>)[j] = IF j < i THEN s[j] ELSE c
    <2>1. /\ a \o <<c>> \in Seq(Cert) /\ Len(a \o <<c>>) = Len(a) + 1
          /\ \A j \in 1 .. Len(a) + 1 :
                (a \o <<c>>)[j] = IF j <= Len(a) THEN a[j] ELSE <<c>>[j - Len(a)]
      BY <1>2, <1>5, ConcatProperties
    <2>2. i \in Int /\ i >= 1
      BY <1>1
    <2>3. Len(a \o <<c>>) = i
      BY <1>2, <2>1, <2>2
    <2>4. ASSUME NEW j \in 1 .. i PROVE (a \o <<c>>)[j] = IF j < i THEN s[j] ELSE c
      <3>1. j \in 1 .. Len(a) + 1 /\ Len(a) = i - 1
        BY <1>2, <2>2
      <3>2. CASE j < i
        BY <1>2, <2>1, <2>2, <3>1, <3>2
      <3>3. CASE ~(j < i)
        <4>1. j - Len(a) = 1 /\ ~(j <= Len(a))
          BY <2>2, <3>1, <3>3
        <4> QED BY <1>5, <2>1, <3>1, <3>3, <4>1
      <3> QED BY <3>2, <3>3
    <2> QED BY <2>1, <2>3, <2>4
  <1> DEFINE b == a \o <<c>>
  <1> HIDE DEF b
  <1>7. /\ b \o z \in Seq(Cert) /\ Len(b \o z) = Len(b) + Len(z)
        /\ \A j \in 1 .. Len(b) + Len(z) :
              (b \o z)[j] = IF j <= Len(b) THEN b[j] ELSE z[j - Len(b)]
    <2>1. b \in Seq(Cert)
      BY <1>6 DEF b
    <2> QED BY <1>3, <2>1, ConcatProperties
  <1>8. Len(b) = i /\ \A j \in 1 .. i : b[j] = IF j < i THEN s[j] ELSE c
    BY <1>6 DEF b
  <1>9. Len(b) + Len(z) = Len(s) + 1
    BY <1>1, <1>3, <1>8
  <1>10. ASSUME NEW j \in 1 .. Len(s) + 1
         PROVE  (b \o z)[j] = IF j < i THEN s[j] ELSE IF j = i THEN c ELSE s[j - 1]
    <2>1. (b \o z)[j] = IF j <= i THEN b[j] ELSE z[j - i]
      BY <1>7, <1>8, <1>9
    <2>2. CASE j <= i
      <3>1. j \in 1 .. i
        BY <1>1, <2>2
      <3> QED BY <1>1, <1>8, <2>1, <2>2, <3>1
    <2>3. CASE ~(j <= i)
      <3>1. j - i \in 1 .. Len(s) - i + 1 /\ i + (j - i) - 1 = j - 1 /\ ~(j < i) /\ j # i
        BY <1>1, <2>3
      <3> QED BY <1>3, <2>1, <2>3, <3>1
    <2> QED BY <2>2, <2>3
  <1> QED BY <1>4, <1>7, <1>9, <1>10 DEF b

\* ... and after a deletion.
LEMMA Removed ==
    ASSUME NEW s \in Seq(Cert), NEW i \in 1 .. Len(s)
    PROVE  /\ RemoveAt(s, i) \in Seq(Cert)
           /\ Len(RemoveAt(s, i)) = Len(s) - 1
           /\ \A j \in 1 .. Len(s) - 1 :
                 RemoveAt(s, i)[j] = IF j < i THEN s[j] ELSE s[j + 1]
  <1>1. Len(s) \in Nat /\ \A j \in 1 .. Len(s) : s[j] \in Cert
    BY LenProperties, ElementOfSeq
  <1> DEFINE a == SubSeq(s, 1, i - 1)
             z == SubSeq(s, i + 1, Len(s))
  <1>2. /\ a \in Seq(Cert) /\ Len(a) = i - 1
        /\ \A j \in 1 .. i - 1 : a[j] = s[j]
    <2>1. \A j \in 1 .. i - 1 : s[j] \in Cert
      BY <1>1
    <2>2. i \in Int /\ i - 1 \in Int /\ i >= 1
      BY <1>1
    <2> QED BY <2>1, <2>2, SubSeqProperties
  <1>3. /\ z \in Seq(Cert) /\ Len(z) = Len(s) - i
        /\ \A j \in 1 .. Len(s) - i : z[j] = s[i + j]
    <2>1. \A j \in i + 1 .. Len(s) : s[j] \in Cert
      BY <1>1
    <2>2. i + 1 \in Int /\ Len(s) \in Int /\ i >= 1 /\ i <= Len(s)
      BY <1>1
    <2> QED BY <2>1, <2>2, SubSeqProperties
  <1> HIDE DEF a, z
  <1>4. RemoveAt(s, i) = a \o z
    BY DEF RemoveAt, a, z
  <1>5. /\ a \o z \in Seq(Cert) /\ Len(a \o z) = Len(a) + Len(z)
        /\ \A j \in 1 .. Len(a) + Len(z) :
              (a \o z)[j] = IF j <= Len(a) THEN a[j] ELSE z[j - Len(a)]
    BY <1>2, <1>3, ConcatProperties
  <1>6. Len(a) + Len(z) = Len(s) - 1
    BY <1>1, <1>2, <1>3
  <1>7. ASSUME NEW j \in 1 .. Len(s) - 1
        PROVE  (a \o z)[j] = IF j < i THEN s[j] ELSE s[j + 1]
    <2>1. (a \o z)[j] = IF j <= i - 1 THEN a[j] ELSE z[j - (i - 1)]
      BY <1>2, <1>5, <1>6
    <2>2. CASE j < i
      <3>1. j \in 1 .. i - 1 /\ j <= i - 1
        BY <1>1, <2>2
      <3> QED BY <1>2, <2>1, <2>2, <3>1
    <2>3. CASE ~(j < i)
      <3>1. j - (i - 1) \in 1 .. Len(s) - i /\ i + (j - (i - 1)) = j + 1 /\ ~(j <= i - 1)
        BY <1>1, <2>3
      <3> QED BY <1>3, <2>1, <2>3, <3>1
    <2> QED BY <2>2, <2>3
  <1> QED BY <1>4, <1>5, <1>6, <1>7
-----------------------------------------------------------------------------
(* Pages *)

\* The boundaries between pages.
LEMMA Products ==
    ASSUME NEW p \in Nat \ {0}, NEW w \in Nat \ {0}
    PROVE  /\ (p - 1) * w \in Nat /\ p * w \in Nat
           /\ p * w = (p - 1) * w + w
           /\ ((p + 1) - 1) * w = p * w
  <1>1. p - 1 \in Nat /\ (p + 1) - 1 = p
    OBVIOUS
  <1>2. (p - 1) * w \in Nat
    BY <1>1
  <1>3. p * w \in Nat
    OBVIOUS
  <1>4. p * w = (p - 1) * w + w
    OBVIOUS
  <1> QED BY <1>1, <1>2, <1>3, <1>4

\* The entries of a page are certificates.
LEMMA PageType ==
    ASSUME shelf \in Seq(Cert), NEW p \in Nat \ {0}
    PROVE  /\ PageOf(p) \in Seq(Cert)
           /\ ToSet(PageOf(p)) \subseteq Cert
  <1> DEFINE w == IF ServerCap < PageSize THEN ServerCap ELSE PageSize
             from == (p - 1) * w + 1
             last == IF p * w < Len(shelf) THEN p * w ELSE Len(shelf)
  <1>1. Len(shelf) \in Nat /\ \A j \in 1 .. Len(shelf) : shelf[j] \in Cert
    BY LenProperties, ElementOfSeq
  <1>2. w \in Nat \ {0}
    BY PageAssumption
  <1>3. PageOf(p) = SubSeq(shelf, from, last)
    BY DEF PageOf
  <1> HIDE DEF w
  <1>4. (p - 1) * w \in Nat /\ p * w \in Nat
    BY <1>2, Products
  <1>5. from \in Int /\ last \in Int /\ from >= 1 /\ last <= Len(shelf)
    BY <1>1, <1>4
  <1> HIDE DEF from, last
  <1>6. \A j \in from .. last : shelf[j] \in Cert
    BY <1>1, <1>5
  <1>7. PageOf(p) \in Seq(Cert)
    BY <1>3, <1>5, <1>6, SubSeqProperties
  <1> QED BY <1>7 DEF ToSet

\* When CAS fills its pages, page p has the places after (p - 1) * PageSize
\* up to p * PageSize, and a page that is not full is the end of the shelf.
LEMMA PageEntries ==
    ASSUME shelf \in Seq(Cert), NEW p \in Nat \ {0}, ServerCap >= PageSize
    PROVE  /\ \A j \in 1 .. Len(shelf) :
                 (p - 1) * PageSize < j /\ j <= p * PageSize => shelf[j] \in ToSet(PageOf(p))
           /\ ~(Len(PageOf(p)) >= PageSize) => Len(shelf) <= p * PageSize
  <1> DEFINE w == PageSize
             from == (p - 1) * w + 1
             last == IF p * w < Len(shelf) THEN p * w ELSE Len(shelf)
             e == SubSeq(shelf, from, last)
  <1>1. Len(shelf) \in Nat /\ \A j \in 1 .. Len(shelf) : shelf[j] \in Cert
    BY LenProperties, ElementOfSeq
  <1>2. w \in Nat \ {0} /\ ~(ServerCap < PageSize)
    BY PageAssumption
  <1>3. PageOf(p) = e
    BY <1>2 DEF PageOf
  <1>4. (p - 1) * w \in Nat /\ p * w \in Nat /\ p * w = (p - 1) * w + w
    BY <1>2, Products
  <1> DEFINE lo == (p - 1) * w
             hi == p * w
  <1> HIDE DEF w, lo, hi
  <1>5. from = lo + 1 /\ last = (IF hi < Len(shelf) THEN hi ELSE Len(shelf))
    BY DEF lo, hi
  <1>6. lo \in Nat /\ hi \in Nat /\ hi = lo + w
    BY <1>4 DEF lo, hi
  <1> HIDE DEF from, last
  <1>7. from \in Int /\ last \in Int /\ from >= 1 /\ last <= Len(shelf)
    BY <1>1, <1>5, <1>6
  <1>8. \A j \in from .. last : shelf[j] \in Cert
    BY <1>1, <1>7
  <1>9. /\ e \in Seq(Cert)
        /\ Len(e) = IF from <= last THEN last - from + 1 ELSE 0
        /\ \A j \in 1 .. last - from + 1 : e[j] = shelf[from + j - 1]
    BY <1>7, <1>8, SubSeqProperties
  <1> HIDE DEF e
  <1>10. ASSUME NEW j \in 1 .. Len(shelf), lo < j, j <= hi
         PROVE  shelf[j] \in ToSet(PageOf(p))
    <2> DEFINE k == j - from + 1
    <2>1. j <= last /\ from <= j
      BY <1>1, <1>5, <1>6, <1>10
    <2>2. k \in 1 .. last - from + 1 /\ from + k - 1 = j /\ from <= last
      BY <1>7, <2>1
    <2> HIDE DEF k
    <2>3. e[k] = shelf[j]
      BY <1>9, <2>2
    <2>4. k \in 1 .. Len(e)
      BY <1>9, <2>2
    <2>5. k \in DOMAIN e
      BY <1>9, <2>4
    <2> QED BY <1>3, <2>3, <2>5 DEF ToSet
  <1>11. ASSUME ~(Len(PageOf(p)) >= w)
         PROVE  Len(shelf) <= hi
    <2> SUFFICES ASSUME hi < Len(shelf) PROVE FALSE
      BY <1>1, <1>6
    <2>1. last = hi /\ from <= last
      BY <1>2, <1>5, <1>6
    <2>2. Len(e) = w
      BY <1>2, <1>5, <1>6, <1>9, <2>1
    <2> QED BY <1>2, <1>3, <1>11, <2>2
  <1> QED BY <1>10, <1>11 DEF lo, hi, w
-----------------------------------------------------------------------------
(* What may have been missed *)

\* Certificates on pages already read that are not collected.
Behind ==
    {c \in (stayed \ Anonymous) \ out :
        \E i \in DOMAIN shelf : i <= (page - 1) * PageSize /\ shelf[i] = c}

\* Only a deletion moves a certificate back over a boundary, and then only
\* the one that is first on the next page.
PageInv ==
    /\ stayed \subseteq ToSet(shelf)
    /\ pc \in {"wait", "call"} /\ ~odd => Cardinality(Behind) <= taken
    /\ MissesBounded

\* The types hold at the start.
LEMMA InitType == Init => TypeOK
  <1> SUFFICES ASSUME Init PROVE TypeOK
    OBVIOUS
  <1>1. PICK n \in 0 .. MaxCert : shelf = [i \in 1 .. n |-> i]
    BY DEF Init
  <1>2. n \in Nat /\ MaxCert \in Nat /\ n <= MaxCert
    BY PageAssumption
  <1>3. \A i \in 1 .. n : i \in Cert
    BY <1>2 DEF Cert
  <1>4. shelf \in Seq(Cert)
    BY <1>1, <1>2, <1>3, IsASeq
  <1>5. IsInjective(shelf)
    BY <1>1 DEF IsInjective
  <1>6. 1 \in 1 .. MaxPages /\ 0 \in 0 .. MaxChanges /\ 0 \in 0 .. 0
    BY PageAssumption
  <1> QED BY <1>4, <1>5, <1>6 DEF Init, TypeOK, Ended

\* An upload of what is not there puts no certificate on the shelf twice.
LEMMA InsertInjective ==
    ASSUME NEW s \in Seq(Cert), NEW i \in 1 .. Len(s) + 1, NEW c \in Cert,
           IsInjective(s), c \notin ToSet(s)
    PROVE  IsInjective(InsertAt(s, i, c))
  <1> DEFINE t == InsertAt(s, i, c)
  <1>1. Len(s) \in Nat /\ DOMAIN s = 1 .. Len(s)
    BY LenProperties
  <1>2. /\ t \in Seq(Cert) /\ Len(t) = Len(s) + 1
        /\ \A j \in 1 .. Len(s) + 1 :
              t[j] = IF j < i THEN s[j] ELSE IF j = i THEN c ELSE s[j - 1]
    BY Inserted
  <1> HIDE DEF t
  <1>3. DOMAIN t = 1 .. Len(s) + 1
    BY <1>2, LenProperties
  <1>4. \A j \in 1 .. Len(s) : s[j] # c
    BY <1>1 DEF ToSet
  <1>5. \A j, k \in 1 .. Len(s) : s[j] = s[k] => j = k
    BY <1>1 DEF IsInjective
  <1>6. ASSUME NEW j \in 1 .. Len(s) + 1, NEW k \in 1 .. Len(s) + 1, t[j] = t[k]
        PROVE  j = k
    <2> DEFINE Old(m) == IF m < i THEN m ELSE m - 1
    <2>1. ASSUME NEW m \in 1 .. Len(s) + 1, m # i
          PROVE  Old(m) \in 1 .. Len(s) /\ t[m] = s[Old(m)]
      <3>1. CASE m < i
        BY <1>1, <1>2, <3>1
      <3>2. CASE ~(m < i)
        BY <1>1, <1>2, <2>1, <3>2
      <3> QED BY <3>1, <3>2
    <2>2. t[i] = c
      BY <1>1, <1>2
    <2>3. CASE j = i \/ k = i
      BY <1>4, <1>6, <2>1, <2>2, <2>3
    <2>4. CASE j # i /\ k # i
      <3>1. Old(j) = Old(k)
        BY <1>5, <1>6, <2>1, <2>4
      <3> QED BY <1>1, <2>4, <3>1
    <2> QED BY <2>3, <2>4
  <1>7. IsInjective(t)
    BY <1>3, <1>6 DEF IsInjective
  <1> QED BY <1>7 DEF t

\* Neither does a deletion.
LEMMA RemoveInjective ==
    ASSUME NEW s \in Seq(Cert), NEW i \in 1 .. Len(s), IsInjective(s)
    PROVE  IsInjective(RemoveAt(s, i))
  <1> DEFINE t == RemoveAt(s, i)
             Old(m) == IF m < i THEN m ELSE m + 1
  <1>1. Len(s) \in Nat /\ DOMAIN s = 1 .. Len(s)
    BY LenProperties
  <1>2. /\ t \in Seq(Cert) /\ Len(t) = Len(s) - 1
        /\ \A j \in 1 .. Len(s) - 1 : t[j] = IF j < i THEN s[j] ELSE s[j + 1]
    BY Removed
  <1> HIDE DEF t
  <1>3. DOMAIN t = 1 .. Len(s) - 1
    BY <1>2, LenProperties
  <1>4. \A j, k \in 1 .. Len(s) : s[j] = s[k] => j = k
    BY <1>1 DEF IsInjective
  <1>5. ASSUME NEW m \in 1 .. Len(s) - 1
        PROVE  Old(m) \in 1 .. Len(s) /\ t[m] = s[Old(m)]
    <2>1. CASE m < i
      BY <1>1, <1>2, <2>1
    <2>2. CASE ~(m < i)
      BY <1>1, <1>2, <2>2
    <2> QED BY <2>1, <2>2
  <1>6. ASSUME NEW j \in 1 .. Len(s) - 1, NEW k \in 1 .. Len(s) - 1, t[j] = t[k]
        PROVE  j = k
    <2>1. Old(j) = Old(k)
      BY <1>4, <1>5, <1>6
    <2> QED BY <1>1, <2>1
  <1>7. IsInjective(t)
    BY <1>3, <1>6 DEF IsInjective
  <1> QED BY <1>7 DEF t

\* The body of the loop, for any entries.
LEMMA CollectType ==
    ASSUME TypeOK, NEW entries, ToSet(entries) \subseteq Cert, Collect(entries)
    PROVE  /\ pc' \in {"wait", "listed", "failed"}
           /\ page' \in 1 .. MaxPages
           /\ out' \subseteq Cert \ Anonymous
  <1>1. page \in 1 .. MaxPages /\ MaxPages \in Nat
    BY PageAssumption DEF TypeOK
  <1>2. CASE shouldFetchNextPage(Len(entries), page)
    <2>1. pc' = "wait" /\ page' = page + 1 /\ page < MaxPages
      BY <1>2 DEF Collect, shouldFetchNextPage
    <2>2. out' = out \cup (ToSet(entries) \ Anonymous)
      BY <2>1 DEF Collect
    <2> QED BY <1>1, <2>1, <2>2 DEF TypeOK
  <1>3. CASE ~shouldFetchNextPage(Len(entries), page)
    <2>1. pc' \in {"listed", "failed"} /\ page' = page
      BY <1>3 DEF Collect
    <2>2. out' = {} \/ out' = out \cup (ToSet(entries) \ Anonymous)
      BY DEF Collect
    <2> QED BY <1>1, <2>1, <2>2 DEF TypeOK
  <1> QED BY <1>2, <1>3

\* Every step keeps the types.
LEMMA NextType ==
    ASSUME TypeOK, [Next]_vars
    PROVE  TypeOK'
  <1> USE DEF histVars
  <1>0. /\ changes \in Nat /\ taken \in Nat /\ taken <= changes /\ changes <= MaxChanges
        /\ MaxChanges \in Nat /\ MaxPages \in Nat \ {0} /\ page \in Nat \ {0}
        /\ 1 \in 1 .. MaxPages /\ 0 \in 0 .. changes
    BY PageAssumption DEF TypeOK
  <1>1. CASE Begin \/ Return
    <2>1. /\ pc' \in {"idle", "wait"} /\ page' = 1 /\ out' = {} /\ taken' = 0 /\ odd' = FALSE
          /\ UNCHANGED <<shelf, changes>> /\ stayed' \subseteq ToSet(shelf)
      BY <1>1 DEF Begin, Return
    <2>2. ToSet(shelf) \subseteq Cert
      BY DEF TypeOK, ToSet
    <2> QED BY <1>0, <2>1, <2>2 DEF TypeOK
  <1>2. CASE Granted \/ Fails \/ EmptyAnswer
    BY <1>2 DEF Granted, Fails, EmptyAnswer, TypeOK, Ended
  <1>3. CASE Answer \/ EchoFirstPage
    <2>1. PICK p \in Nat \ {0} : Collect(PageOf(p))
      BY <1>0, <1>3 DEF Answer, EchoFirstPage
    <2>2. ToSet(PageOf(p)) \subseteq Cert
      BY PageType DEF TypeOK
    <2>3. /\ pc' \in {"wait", "listed", "failed"} /\ page' \in 1 .. MaxPages
          /\ out' \subseteq Cert \ Anonymous
      BY <2>1, <2>2, CollectType
    <2>4. UNCHANGED <<shelf, changes, stayed, taken>> /\ odd' \in BOOLEAN
      BY <1>3 DEF Answer, EchoFirstPage, TypeOK
    <2> QED BY <2>3, <2>4 DEF TypeOK, Ended
  <1>4. CASE \E c \in Cert : UploadByOthers(c)
    <2>1. PICK c \in Cert : UploadByOthers(c)
      BY <1>4
    <2>2. PICK i \in 1 .. Len(shelf) + 1 : shelf' = InsertAt(shelf, i, c)
      BY <2>1 DEF UploadByOthers
    <2>3. shelf \in Seq(Cert) /\ IsInjective(shelf) /\ c \notin ToSet(shelf)
      BY <2>1 DEF TypeOK, UploadByOthers
    <2>4. shelf' \in Seq(Cert) /\ IsInjective(shelf')
      BY <2>2, <2>3, Inserted, InsertInjective
    <2>5. changes' = changes + 1 /\ changes < MaxChanges /\ UNCHANGED <<pc, page, out, stayed, taken, odd>>
      BY <2>1 DEF UploadByOthers
    <2>6. changes' \in 0 .. MaxChanges /\ taken' \in 0 .. changes'
      BY <1>0, <2>5
    <2> QED BY <2>4, <2>5, <2>6 DEF TypeOK
  <1>5. CASE \E i \in DOMAIN shelf : DeleteByOthers(i)
    <2>1. PICK i \in DOMAIN shelf : DeleteByOthers(i)
      BY <1>5
    <2>2. shelf \in Seq(Cert) /\ IsInjective(shelf) /\ i \in 1 .. Len(shelf)
      BY LenProperties DEF TypeOK
    <2>3. shelf' = RemoveAt(shelf, i)
      BY <2>1 DEF DeleteByOthers
    <2>4. shelf' \in Seq(Cert) /\ IsInjective(shelf')
      BY <2>2, <2>3, Removed, RemoveInjective
    <2>5. /\ changes' = changes + 1 /\ changes < MaxChanges /\ UNCHANGED <<pc, page, out, odd>>
          /\ stayed' = stayed \ {shelf[i]} /\ taken' \in {taken, taken + 1}
      BY <2>1 DEF DeleteByOthers
    <2>6. changes' \in 0 .. MaxChanges /\ taken' \in 0 .. changes'
      BY <1>0, <2>5
    <2> QED BY <2>4, <2>5, <2>6 DEF TypeOK
  <1>6. CASE UNCHANGED vars
    BY <1>6 DEF TypeOK, vars
  <1> QED BY <1>1, <1>2, <1>3, <1>4, <1>5, <1>6 DEF Next, Listing

\* A set of certificates is finite.
LEMMA BehindFinite ==
    ASSUME TypeOK, NEW S \in SUBSET Cert
    PROVE  IsFiniteSet(S) /\ Cardinality(S) \in Nat
  <1>1. IsFiniteSet(Cert)
    BY PageAssumption, FS_Interval DEF Cert
  <1>2. IsFiniteSet(S)
    BY <1>1, FS_Subset
  <1> QED BY <1>2, FS_CardinalityType

\* What is not behind more than before, when what may be missed shrinks.
LEMMA Shrinks ==
    ASSUME TypeOK, NEW S \in SUBSET Cert, NEW T \in SUBSET S, NEW n \in Nat,
           Cardinality(S) <= n
    PROVE  Cardinality(T) <= n
  <1>1. IsFiniteSet(S) /\ Cardinality(S) \in Nat /\ Cardinality(T) \in Nat
    BY BehindFinite
  <1>2. Cardinality(T) <= Cardinality(S)
    BY <1>1, FS_Subset
  <1> QED BY <1>1, <1>2

\* The invariant holds at the start.
LEMMA InitPage == Init => PageInv
  <1> SUFFICES ASSUME Init PROVE PageInv
    OBVIOUS
  <1>1. pc = "idle" /\ stayed = {}
    BY DEF Init
  <1> QED BY <1>1 DEF PageInv, MissesBounded

\* An upload moves certificates forward only.
LEMMA UploadPage ==
    ASSUME TypeOK, PageInv, NEW c \in Cert, UploadByOthers(c)
    PROVE  PageInv'
  <1>1. PICK i \in 1 .. Len(shelf) + 1 : shelf' = InsertAt(shelf, i, c)
    BY DEF UploadByOthers
  <1>2. shelf \in Seq(Cert) /\ Len(shelf) \in Nat /\ DOMAIN shelf = 1 .. Len(shelf)
    BY LenProperties DEF TypeOK
  <1>3. /\ shelf' \in Seq(Cert) /\ Len(shelf') = Len(shelf) + 1
        /\ \A j \in 1 .. Len(shelf) + 1 :
              shelf'[j] = IF j < i THEN shelf[j] ELSE IF j = i THEN c ELSE shelf[j - 1]
    <2> DEFINE t == InsertAt(shelf, i, c)
    <2>1. /\ t \in Seq(Cert) /\ Len(t) = Len(shelf) + 1
          /\ \A j \in 1 .. Len(shelf) + 1 :
                t[j] = IF j < i THEN shelf[j] ELSE IF j = i THEN c ELSE shelf[j - 1]
      <3>1. shelf \in Seq(Cert) /\ i \in 1 .. Len(shelf) + 1 /\ c \in Cert
        BY <1>2
      <3>2. t \in Seq(Cert) /\ Len(t) = Len(shelf) + 1
        BY <3>1, Inserted
      <3>3. \A j \in 1 .. Len(shelf) + 1 :
               t[j] = IF j < i THEN shelf[j] ELSE IF j = i THEN c ELSE shelf[j - 1]
        BY <3>1, Inserted
      <3> QED BY <3>2, <3>3
    <2>2. shelf' = t
      BY <1>1
    <2> HIDE DEF t
    <2> QED BY <2>1, <2>2
  <1>4. DOMAIN shelf' = 1 .. Len(shelf) + 1
    BY <1>2, <1>3, LenProperties
  <1>5. UNCHANGED <<pc, page, out, stayed, taken, odd>> /\ c \notin ToSet(shelf)
    BY DEF UploadByOthers, histVars
  <1>6. ToSet(shelf) \subseteq ToSet(shelf')
    <2> SUFFICES ASSUME NEW j \in 1 .. Len(shelf)
                 PROVE  \E k \in 1 .. Len(shelf) + 1 : shelf'[k] = shelf[j]
      BY <1>2, <1>4 DEF ToSet
    <2>1. CASE j < i
      BY <1>2, <1>3, <2>1
    <2>2. CASE ~(j < i)
      <3>1. j + 1 \in 1 .. Len(shelf) + 1 /\ ~(j + 1 < i) /\ j + 1 # i /\ (j + 1) - 1 = j
        BY <1>2, <2>2
      <3> QED BY <1>3, <3>1
    <2> QED BY <2>1, <2>2
  <1>7. Behind' \subseteq Behind
    <2> SUFFICES ASSUME NEW d \in Behind' PROVE d \in Behind
      OBVIOUS
    <2>1. d \in (stayed \ Anonymous) \ out
      BY <1>5 DEF Behind
    <2>2. PICK k \in 1 .. Len(shelf) + 1 : k <= (page - 1) * PageSize /\ shelf'[k] = d
      BY <1>4, <1>5 DEF Behind
    <2>3. d # c
      BY <1>5, <2>1 DEF PageInv
    <2>4. PICK j \in 1 .. Len(shelf) : shelf[j] = d /\ j <= k
      <3>1. CASE k < i
        BY <1>2, <1>3, <2>2, <3>1
      <3>2. CASE ~(k < i)
        <4>1. k # i
          BY <1>3, <2>2, <2>3
        <4>2. k - 1 \in 1 .. Len(shelf) /\ k - 1 <= k
          BY <1>2, <3>2, <4>1
        <4> QED BY <1>3, <2>2, <3>2, <4>1, <4>2
      <3> QED BY <3>1, <3>2
    <2>5. (page - 1) * PageSize \in Nat
      <3>1. page \in Nat \ {0} /\ PageSize \in Nat \ {0}
        BY PageAssumption DEF TypeOK
      <3> QED BY <3>1, Products
    <2>6. j <= (page - 1) * PageSize
      BY <1>2, <2>2, <2>4, <2>5
    <2> QED BY <1>2, <2>1, <2>4, <2>6 DEF Behind
  <1>8. Behind \subseteq Cert /\ taken \in Nat
    BY DEF Behind, TypeOK
  <1>9. pc \in {"wait", "call"} /\ ~odd => Cardinality(Behind') <= taken
    BY <1>7, <1>8, Shrinks DEF PageInv
  <1> QED BY <1>5, <1>6, <1>9 DEF PageInv, MissesBounded

\* A deletion moves what follows one place back: only the first certificate
\* of the next page gets behind.
LEMMA DeletePage ==
    ASSUME TypeOK, PageInv, NEW i \in DOMAIN shelf, DeleteByOthers(i)
    PROVE  PageInv'
  <1> DEFINE B == (page - 1) * PageSize
  <1>1. shelf \in Seq(Cert) /\ Len(shelf) \in Nat /\ DOMAIN shelf = 1 .. Len(shelf)
    BY LenProperties DEF TypeOK
  <1>2. /\ shelf' \in Seq(Cert) /\ Len(shelf') = Len(shelf) - 1
        /\ \A j \in 1 .. Len(shelf) - 1 :
              shelf'[j] = IF j < i THEN shelf[j] ELSE shelf[j + 1]
    BY <1>1, Removed DEF DeleteByOthers
  <1>3. DOMAIN shelf' = 1 .. Len(shelf) - 1
    BY <1>2, LenProperties
  <1>4. /\ UNCHANGED <<pc, page, out, odd>> /\ stayed' = stayed \ {shelf[i]}
        /\ taken' = IF pc \in {"wait", "call"} THEN taken + 1 ELSE taken
    BY DEF DeleteByOthers
  <1>5. B \in Nat
    <2>1. page \in Nat \ {0} /\ PageSize \in Nat \ {0}
      BY PageAssumption DEF TypeOK
    <2> QED BY <2>1, Products
  <1>6. B' = B
    BY <1>4
  <1>7. stayed' \subseteq ToSet(shelf')
    <2> SUFFICES ASSUME NEW d \in stayed' PROVE d \in ToSet(shelf')
      OBVIOUS
    <2>1. PICK j \in 1 .. Len(shelf) : shelf[j] = d
      BY <1>1, <1>4 DEF PageInv, ToSet
    <2>2. j # i
      BY <1>4, <2>1
    <2>3. CASE j < i
      <3>1. j \in 1 .. Len(shelf) - 1
        BY <1>1, <2>3
      <3> QED BY <1>2, <1>3, <2>1, <2>3, <3>1 DEF ToSet
    <2>4. CASE ~(j < i)
      <3>1. j - 1 \in 1 .. Len(shelf) - 1 /\ ~(j - 1 < i) /\ (j - 1) + 1 = j
        BY <1>1, <2>2, <2>4
      <3>2. shelf'[j - 1] = d
        BY <1>2, <2>1, <3>1
      <3> QED BY <1>3, <3>1, <3>2 DEF ToSet
    <2> QED BY <2>3, <2>4
  <1> HIDE DEF B
  <1>8. Behind' \subseteq Behind \cup {shelf[B + 1]}
    <2> SUFFICES ASSUME NEW d \in Behind', d # shelf[B + 1] PROVE d \in Behind
      OBVIOUS
    <2>1. d \in (stayed \ Anonymous) \ out
      BY <1>4 DEF Behind
    <2>2. PICK k \in 1 .. Len(shelf) - 1 : k <= B /\ shelf'[k] = d
      BY <1>3, <1>4 DEF Behind, B
    <2>3. PICK j \in 1 .. Len(shelf) : shelf[j] = d /\ j <= B
      <3>1. CASE k < i
        BY <1>1, <1>2, <2>2, <3>1
      <3>2. CASE ~(k < i)
        <4>1. shelf[k + 1] = d /\ k + 1 \in 1 .. Len(shelf)
          BY <1>1, <1>2, <2>2, <3>2
        <4>2. k # B
          BY <2>2, <4>1
        <4>3. k + 1 <= B
          BY <1>5, <2>2, <4>2
        <4> QED BY <4>1, <4>3
      <3> QED BY <3>1, <3>2
    <2> QED BY <1>1, <2>1, <2>3 DEF Behind, B
  <1>9. Behind \subseteq Cert /\ Behind' \subseteq Cert /\ taken \in Nat
    BY <1>4 DEF Behind, TypeOK
  <1>10. ASSUME pc \in {"wait", "call"}, ~odd
         PROVE  Cardinality(Behind') <= taken + 1
    <2>1. IsFiniteSet(Behind) /\ Cardinality(Behind) \in Nat /\ Cardinality(Behind) <= taken
      BY <1>9, <1>10, BehindFinite DEF PageInv
    <2> DEFINE U == Behind \cup {shelf[B + 1]}
    <2>2. IsFiniteSet(U) /\ (Cardinality(U) = Cardinality(Behind) \/ Cardinality(U) = Cardinality(Behind) + 1)
      BY <2>1, FS_AddElement
    <2> HIDE DEF U
    <2>3. Behind' \in SUBSET U
      BY <1>8 DEF U
    <2>4. Cardinality(Behind') <= Cardinality(U) /\ Cardinality(Behind') \in Nat
      BY <1>9, <2>2, <2>3, FS_Subset, BehindFinite
    <2> QED BY <1>9, <2>1, <2>2, <2>4
  <1>11. MissesBounded'
    <2> SUFFICES ASSUME pc = "listed", ~odd
                 PROVE  Cardinality((stayed' \ Anonymous) \ out) <= taken
      BY <1>4 DEF MissesBounded
    <2>1. Cardinality((stayed \ Anonymous) \ out) <= taken
      BY DEF PageInv, MissesBounded
    <2>2. (stayed' \ Anonymous) \ out \subseteq (stayed \ Anonymous) \ out
      BY <1>4
    <2>3. (stayed \ Anonymous) \ out \subseteq Cert
      BY DEF TypeOK
    <2> QED BY <1>9, <2>1, <2>2, <2>3, Shrinks
  <1>12. pc' \in {"wait", "call"} /\ ~odd' => Cardinality(Behind') <= taken'
    BY <1>4, <1>10
  <1> QED BY <1>7, <1>11, <1>12 DEF PageInv

\* A page that is collected puts nothing behind, and the last one leaves
\* nothing ahead.
LEMMA AnswerPage ==
    ASSUME TypeOK, PageInv, Answer, ServerCap >= PageSize
    PROVE  PageInv'
  <1> DEFINE e == PageOf(page)
             lo == (page - 1) * PageSize
             hi == page * PageSize
  <1>1. /\ pc = "call" /\ Collect(e) /\ UNCHANGED <<shelf, stayed, taken, odd>>
    BY DEF Answer, histVars
  <1>2. shelf \in Seq(Cert) /\ DOMAIN shelf = 1 .. Len(shelf) /\ Len(shelf) \in Nat
    BY LenProperties DEF TypeOK
  <1>3. page \in Nat \ {0} /\ PageSize \in Nat \ {0}
    BY PageAssumption DEF TypeOK
  <1>4. /\ \A j \in 1 .. Len(shelf) : lo < j /\ j <= hi => shelf[j] \in ToSet(e)
        /\ ~(Len(e) >= PageSize) => Len(shelf) <= hi
    BY <1>2, <1>3, PageEntries
  <1>5. lo \in Nat /\ hi \in Nat /\ ((page + 1) - 1) * PageSize = hi
    BY <1>3, Products
  <1>6. Behind \subseteq Cert /\ taken \in Nat
    BY DEF Behind, TypeOK
  <1>7. stayed' \subseteq ToSet(shelf')
    BY <1>1 DEF PageInv
  <1> HIDE DEF e, lo, hi
  \* What is on the shelf up to this page's end, and not collected.
  <1>8. ASSUME out' = out \cup (ToSet(e) \ Anonymous),
               NEW d \in (stayed \ Anonymous) \ out',
               NEW k \in 1 .. Len(shelf), k <= hi, shelf[k] = d
        PROVE  d \in Behind
    <2>1. ~(lo < k)
      BY <1>4, <1>8
    <2>2. k <= lo
      BY <1>2, <1>5, <2>1
    <2> QED BY <1>2, <1>8, <2>2 DEF Behind, lo
  <1>9. CASE shouldFetchNextPage(Len(e), page)
    <2>1. pc' = "wait" /\ page' = page + 1 /\ out' = out \cup (ToSet(e) \ Anonymous)
      BY <1>1, <1>9 DEF Collect
    <2>2. Behind' \subseteq Behind
      <3> SUFFICES ASSUME NEW d \in Behind' PROVE d \in Behind
        OBVIOUS
      <3>1. d \in (stayed \ Anonymous) \ out'
        BY <1>1 DEF Behind
      <3>2. PICK k \in 1 .. Len(shelf) : k <= hi /\ shelf[k] = d
        BY <1>1, <1>2, <1>5, <2>1 DEF Behind
      <3> QED BY <1>8, <2>1, <3>1, <3>2
    <2>3. ~odd => Cardinality(Behind') <= taken
      BY <1>1, <1>6, <2>2, Shrinks DEF PageInv
    <2> QED BY <1>1, <1>7, <2>1, <2>3 DEF PageInv, MissesBounded
  <1>10. CASE ~shouldFetchNextPage(Len(e), page)
    <2>1. pc' = IF Len(e) >= PageSize /\ page >= MaxPages THEN "failed" ELSE "listed"
      BY <1>1, <1>10 DEF Collect
    <2>2. CASE pc' = "failed"
      BY <1>7, <2>2 DEF PageInv, MissesBounded
    <2>3. CASE pc' = "listed"
      <3>1. out' = out \cup (ToSet(e) \ Anonymous)
        BY <1>1, <2>3 DEF Collect
      <3>2. ~(Len(e) >= PageSize)
        <4>1. MaxPages \in Nat
          BY PageAssumption
        <4>2. page < MaxPages \/ page >= MaxPages
          BY <1>3, <4>1
        <4> QED BY <1>10, <2>1, <2>3, <4>2 DEF shouldFetchNextPage
      <3>3. Len(shelf) <= hi
        BY <1>4, <3>2
      <3>4. (stayed' \ Anonymous) \ out' \subseteq Behind
        <4> SUFFICES ASSUME NEW d \in (stayed \ Anonymous) \ out' PROVE d \in Behind
          BY <1>1
        <4>1. PICK k \in 1 .. Len(shelf) : shelf[k] = d
          BY <1>2 DEF PageInv, ToSet
        <4>2. k <= hi
          BY <1>2, <1>5, <3>3
        <4> QED BY <1>8, <3>1, <4>1, <4>2
      <3>5. ~odd => Cardinality((stayed' \ Anonymous) \ out') <= taken
        BY <1>1, <1>6, <3>4, Shrinks DEF PageInv
      <3> QED BY <1>1, <1>7, <2>3, <3>5 DEF PageInv, MissesBounded
    <2> QED BY <2>1, <2>2, <2>3
  <1> QED BY <1>9, <1>10

\* Every step keeps the invariant, when CAS fills its pages.
LEMMA NextPage ==
    ASSUME TypeOK, PageInv, [Next]_vars, ServerCap >= PageSize
    PROVE  PageInv'
  <1> USE DEF histVars
  <1>1. CASE Begin
    <2>1. pc' = "wait" /\ page' = 1 /\ taken' = 0 /\ stayed' = ToSet(shelf) /\ shelf' = shelf
      BY <1>1 DEF Begin
    <2>2. Behind' = {}
      <3>1. (page' - 1) * PageSize = 0
        BY <2>1, PageAssumption
      <3>2. \A i \in DOMAIN shelf : ~(i <= 0)
        BY LenProperties DEF TypeOK
      <3> QED BY <2>1, <3>1, <3>2 DEF Behind
    <2>3. Cardinality(Behind') <= taken'
      BY <2>1, <2>2, FS_EmptySet
    <2> QED BY <2>1, <2>3 DEF PageInv, MissesBounded
  <1>2. CASE Granted
    <2>1. pc = "wait" /\ pc' = "call" /\ UNCHANGED <<shelf, page, out, stayed, taken, odd>>
      BY <1>2 DEF Granted
    <2> QED BY <2>1 DEF PageInv, MissesBounded, Behind
  <1>3. CASE Fails
    <2>1. pc' = "failed" /\ UNCHANGED <<shelf, stayed>>
      BY <1>3 DEF Fails
    <2> QED BY <2>1 DEF PageInv, MissesBounded
  <1>4. CASE Answer
    BY <1>4, AnswerPage
  <1>5. CASE EchoFirstPage \/ EmptyAnswer
    <2>1. odd' = TRUE /\ UNCHANGED <<shelf, stayed>>
      BY <1>5 DEF EchoFirstPage, EmptyAnswer
    <2> QED BY <2>1 DEF PageInv, MissesBounded
  <1>6. CASE Return
    <2>1. pc' = "idle" /\ stayed' = {}
      BY <1>6 DEF Return
    <2> QED BY <2>1 DEF PageInv, MissesBounded
  <1>7. CASE \E c \in Cert : UploadByOthers(c)
    BY <1>7, UploadPage
  <1>8. CASE \E i \in DOMAIN shelf : DeleteByOthers(i)
    BY <1>8, DeletePage
  <1>9. CASE UNCHANGED vars
    BY <1>9 DEF vars, PageInv, MissesBounded, Behind
  <1> QED BY <1>1, <1>2, <1>3, <1>4, <1>5, <1>6, <1>7, <1>8, <1>9 DEF Next, Listing
-----------------------------------------------------------------------------
(* The theorems *)

(* Every variable keeps its type: the page number stays within the page
   limit, no certificate is on the shelf twice, an entry without a
   certificate id is never collected (cas_sdk.go:164, :204). *)
THEOREM TypeCorrect == Spec => []TypeOK
  <1>1. Init => TypeOK
    BY InitType
  <1>2. TypeOK /\ [Next]_vars => TypeOK'
    BY NextType
  <1> QED BY <1>1, <1>2, PTL DEF Spec

(* When CAS fills its pages to the size that was asked for, a listing that
   ends well misses at most one certificate for each one deleted while it
   ran, for every page size and every order of uploads and deletions
   (cas_sdk.go:164, :222). *)
THEOREM MissesAreBounded ==
    ASSUME ServerCap >= PageSize
    PROVE  Spec => []MissesBounded
  <1>1. Init => TypeOK /\ PageInv
    BY InitType, InitPage
  <1>2. (TypeOK /\ PageInv) /\ [Next]_vars => (TypeOK /\ PageInv)'
    BY NextType, NextPage
  <1>3. PageInv => MissesBounded
    BY DEF PageInv
  <1> QED BY <1>1, <1>2, <1>3, PTL DEF Spec
=============================================================================
