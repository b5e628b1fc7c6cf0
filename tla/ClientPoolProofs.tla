-------------------------- MODULE ClientPoolProofs ---------------------------
(***************************************************************************)
(* Theorems about the client pool, for every number of Secrets, accounts,  *)
(* regions, groups and rotations, and every quota.                         *)
(***************************************************************************)
EXTENDS ClientPool, TLAPS

USE PoolAssumption
-----------------------------------------------------------------------------
(* Type correctness *)

\* The values that stand for "nothing" have their types.
LEMMA NothingTypes ==
  /\ Want("cert") # {} /\ Wanted # {}
  /\ NoEntry \in Entry /\ NoLimiter \in Limiter
  /\ Idle.want \in Wanted /\ AnyClient \in Client
  <1>1. Want("cert") # {}
    <2>1. PICK s \in Secret, r \in Region, g \in Group : TRUE
      OBVIOUS
    <2>2. [secret |-> s, region |-> r, group |-> g, type |-> None] \in Want("cert")
      BY DEF Want
    <2> QED BY <2>2
  <1>2. Wanted # {}
    BY <1>1 DEF Wanted
  <1>3. AnyClient \in Client
    BY DEF AnyClient, Client
  <1> QED BY <1>1, <1>2, <1>3 DEF NoEntry, Entry, Rev, NoLimiter, Limiter, Idle

\* A client built for a round is a client.
LEMMA BuiltType ==
  ASSUME NEW r, r.data \in Contents \cup {NoData}, r.want \in Wanted
  PROVE  Built(r) \in Client
  <1>1. r.want.region \in Region /\ r.want.group \in Group \cup {None}
        /\ r.want.type \in {None, "fc3", "oss"}
    BY DEF Wanted, Want
  <1> QED BY <1>1 DEF Built, Client

\* The limiters' keys are keys: a valid content names an account.
LEMMA LimiterKeyType ==
  ASSUME NEW d \in Contents, Valid(d)
  PROVE  LimiterKey(d) \in Key
  BY DEF Valid, isOIDC, LimiterKey, Data

\* A round that has read a Secret holds a valid content, and a client made of one.
HoldsValid ==
    \A w \in Worker :
        /\ rd[w].pc # "idle" => rd[w].data \in Contents /\ Valid(rd[w].data)
        /\ rd[w].pc \in {"have", "wait"} => rd[w].client = Built(rd[w])
        /\ rd[w].pc = "wait" => rd[w].kind \in LimitKind

(* What a resourceVersion stands for.  Two copies of a Secret's content taken at
   the same version agree: what is on the server, what the rounds have read, and
   what the cached clients were made of.  This is the invariant behind the cache:
   an entry of the same version is as good as a new client. *)
ServerVersion == \A s \in Secret : secret[s].rv <= rev

\* What a worker has read is what the Secret still holds under that version.
ReadVersion ==
    \A w \in Worker : rd[w].pc # "idle" =>
        /\ rd[w].rv # 0 /\ rd[w].rv <= rev
        /\ secret[rd[w].want.secret].rv = rd[w].rv =>
              secret[rd[w].want.secret].data = rd[w].data

\* Two workers that read the same version read the same content.
SameRead ==
    \A v, w \in Worker :
        rd[v].pc # "idle" /\ rd[w].pc # "idle"
        /\ rd[v].want.secret = rd[w].want.secret /\ rd[v].rv = rd[w].rv =>
           rd[v].data = rd[w].data

\* A cached client was built from the content its resourceVersion stands for, and
\* for the region, group and type it is filed under.
EntryAgrees(e, k) ==
    e.rv # 0 =>
        /\ e.rv <= rev
        /\ e.client.region = k.region /\ e.client.group = k.group
        /\ e.client.type = k.type
        /\ secret[k.secret].rv = e.rv => e.client.data = secret[k.secret].data
        /\ \A w \in Worker :
              rd[w].pc # "idle" /\ rd[w].want.secret = k.secret /\ rd[w].rv = e.rv =>
                 e.client.data = rd[w].data

\* Every entry of the cache agrees.
CacheVersion ==
    \A v \in Worker, k \in Wanted : EntryAgrees(cache[<<v, identity(k)>>], k)

\* One version, one content: everywhere.
VersionsAgree == ServerVersion /\ ReadVersion /\ SameRead /\ CacheVersion

(* A limiter is of the kind it is filed under, it does not exist before the first
   call that needs it, and what it has granted in this unit of time and what it
   still holds are together at most the burst. *)
QuotaBound ==
    \A b \in Key \X LimitKind :
        /\ bucket[b].kind \in {None, b[2]}
        /\ bucket[b].kind = None => bucket[b].tokens = 0 /\ used[b] = 0
        /\ used[b] + bucket[b].tokens <= Burst[b[2]]

\* The inductive invariant.
PoolInv == TypeOK /\ HoldsValid /\ VersionsAgree /\ QuotaBound

\* Nothing is read, cached or limited when the process starts.
LEMMA PoolInit == Init => PoolInv
  <1> SUFFICES ASSUME Init PROVE PoolInv
    OBVIOUS
  <1>1. TypeOK
    <2>1. cache \in [Slot -> Entry] /\ bucket \in [Key \X LimitKind -> Limiter]
      BY NothingTypes DEF Init
    <2>2. rd \in [Worker -> [pc : {"idle", "pool", "have", "wait"}, want : Wanted, rv : Rev,
                            data : Contents \cup {NoData}, client : Client,
                            kind : LimitKind \cup {None}]]
      BY NothingTypes DEF Init, Idle, Rev
    <2>3. \A b \in DOMAIN bucket : bucket[b].kind = None
      BY DEF Init, NoLimiter
    <2> QED BY <2>1, <2>2, <2>3 DEF Init, TypeOK, Rev
  <1>2. HoldsValid /\ ReadVersion /\ SameRead
    BY DEF Init, HoldsValid, Idle, ReadVersion, SameRead
  <1>3. ServerVersion
    <2> SUFFICES ASSUME NEW s \in Secret PROVE secret[s].rv <= rev
      BY DEF ServerVersion
    <2>1. secret[s].rv = 0 /\ rev = 0
      BY DEF Init
    <2> QED BY <2>1
  <1>4. CacheVersion
    BY DEF Init, CacheVersion, EntryAgrees, NoEntry, Slot
  <1>5. QuotaBound
    <2> SUFFICES ASSUME NEW b \in Key \X LimitKind
                 PROVE  /\ bucket[b].kind = None /\ bucket[b].tokens = 0 /\ used[b] = 0
                        /\ Burst[b[2]] \in Nat
      BY DEF QuotaBound
    <2> QED BY DEF Init, NoLimiter
  <1> QED BY <1>1, <1>2, <1>3, <1>4, <1>5 DEF PoolInv, VersionsAgree

\* A round's record.
Round == [pc : {"idle", "pool", "have", "wait"}, want : Wanted, rv : Rev,
          data : Contents \cup {NoData}, client : Client, kind : LimitKind \cup {None}]

\* The rounds are typed.
LEMMA RoundTypes ==
  /\ Idle \in Round /\ Idle.pc = "idle"
  /\ TypeOK => rd \in [Worker -> Round]
  BY NothingTypes DEF Round, Idle, TypeOK, Rev

\* ClientKey.identity tells apart whatever the client depends on.
LEMMA IdentityTells ==
  ASSUME NEW v \in Worker, NEW w \in Worker, NEW k \in Wanted, NEW l \in Wanted
  PROVE  /\ <<v, identity(k)>> \in Slot
         /\ <<v, identity(k)>> = <<w, identity(l)>> =>
               /\ v = w /\ k.secret = l.secret /\ k.region = l.region
               /\ k.group = l.group /\ k.type = l.type
  BY DEF Slot, identity

\* A Secret is written: no copy of it has the new version yet.
LEMMA WriteSecretStep ==
  ASSUME PoolInv, NEW s \in Secret, NEW d \in Contents, WriteSecret(s, d)
  PROVE  PoolInv'
  <1> USE DEF PoolInv, VersionsAgree
  <1>0. /\ rev \in Nat /\ rev' = rev + 1 /\ rev' \in Rev
        /\ \A t \in Secret : secret[t].rv \in Nat
        /\ \A w \in Worker : rd[w].rv \in Nat /\ rd[w].want.secret \in Secret
    BY DEF WriteSecret, TypeOK, Rev, Wanted, Want
  <1>1. /\ secret'[s] = [rv |-> rev + 1, data |-> d]
        /\ \A t \in Secret \ {s} : secret'[t] = secret[t]
        /\ UNCHANGED <<cache, rd, bucket, used>>
    BY DEF WriteSecret, TypeOK
  <1>2. TypeOK'
    <2>1. secret' \in [Secret -> [rv : Rev, data : Contents \cup {NoData}]]
      BY <1>0 DEF WriteSecret, TypeOK
    <2> QED BY <1>0, <1>1, <2>1 DEF TypeOK
  <1>3. HoldsValid' /\ SameRead' /\ QuotaBound'
    BY <1>1 DEF HoldsValid, SameRead, QuotaBound
  <1>4. ServerVersion'
    BY <1>0, <1>1 DEF ServerVersion
  <1>5. ReadVersion'
    BY <1>0, <1>1 DEF ReadVersion
  <1>6. CacheVersion'
    <2> SUFFICES ASSUME NEW v \in Worker, NEW k \in Wanted
                 PROVE  EntryAgrees(cache[<<v, identity(k)>>], k)'
      BY DEF CacheVersion
    <2> DEFINE e == cache[<<v, identity(k)>>]
    <2>1. EntryAgrees(e, k) /\ e.rv \in Nat /\ k.secret \in Secret
      BY IdentityTells DEF CacheVersion, TypeOK, Entry, Rev, Wanted, Want
    <2>2. e' = e
      BY <1>1
    <2> QED BY <1>0, <1>1, <2>1, <2>2 DEF EntryAgrees
  <1> QED BY <1>2, <1>3, <1>4, <1>5, <1>6

\* A Secret is removed: version 0 is nobody's.
LEMMA RemoveSecretStep ==
  ASSUME PoolInv, NEW s \in Secret, RemoveSecret(s)
  PROVE  PoolInv'
  <1> USE DEF PoolInv, VersionsAgree
  <1>0. /\ rev \in Nat /\ rev' = rev
        /\ \A t \in Secret : secret[t].rv \in Nat
        /\ \A w \in Worker : rd[w].rv \in Nat /\ rd[w].want.secret \in Secret
    BY DEF RemoveSecret, TypeOK, Rev, Wanted, Want
  <1>1. /\ secret'[s] = [rv |-> 0, data |-> NoData]
        /\ \A t \in Secret \ {s} : secret'[t] = secret[t]
        /\ UNCHANGED <<cache, rd, bucket, used>>
    BY DEF RemoveSecret, TypeOK
  <1>2. TypeOK'
    <2>1. secret' \in [Secret -> [rv : Rev, data : Contents \cup {NoData}]]
      BY <1>0 DEF RemoveSecret, TypeOK, Rev
    <2> QED BY <1>0, <1>1, <2>1 DEF TypeOK
  <1>3. HoldsValid' /\ SameRead' /\ QuotaBound'
    BY <1>1 DEF HoldsValid, SameRead, QuotaBound
  <1>4. ServerVersion'
    BY <1>0, <1>1 DEF ServerVersion
  <1>5. ReadVersion'
    BY <1>0, <1>1 DEF ReadVersion
  <1>6. CacheVersion'
    <2> SUFFICES ASSUME NEW v \in Worker, NEW k \in Wanted
                 PROVE  EntryAgrees(cache[<<v, identity(k)>>], k)'
      BY DEF CacheVersion
    <2> DEFINE e == cache[<<v, identity(k)>>]
    <2>1. EntryAgrees(e, k) /\ e.rv \in Nat /\ k.secret \in Secret
      BY IdentityTells DEF CacheVersion, TypeOK, Entry, Rev, Wanted, Want
    <2>2. e' = e
      BY <1>1
    <2> QED BY <1>0, <1>1, <2>1, <2>2 DEF EntryAgrees
  <1> QED BY <1>2, <1>3, <1>4, <1>5, <1>6

\* Steps that leave the Secrets and the caches alone and let rounds only go on
\* with what they hold, or end, keep the versions in agreement.
LEMMA RoundsGoOn ==
  ASSUME VersionsAgree, UNCHANGED <<secret, rev, cache>>,
         \A w \in Worker :
            \/ rd'[w].pc = "idle"
            \/ /\ rd[w].pc # "idle" /\ rd'[w].want = rd[w].want
               /\ rd'[w].rv = rd[w].rv /\ rd'[w].data = rd[w].data
  PROVE  VersionsAgree'
  <1>1. ServerVersion' /\ ReadVersion' /\ SameRead'
    BY DEF VersionsAgree, ServerVersion, ReadVersion, SameRead
  <1>2. CacheVersion'
    <2> SUFFICES ASSUME NEW v \in Worker, NEW k \in Wanted
                 PROVE  EntryAgrees(cache[<<v, identity(k)>>], k)'
      BY DEF CacheVersion
    <2>1. EntryAgrees(cache[<<v, identity(k)>>], k)
      BY DEF VersionsAgree, CacheVersion
    <2> QED BY <2>1 DEF EntryAgrees
  <1> QED BY <1>1, <1>2 DEF VersionsAgree

\* A round reads its Secret: it has the server's copy.
LEMMA ReadSecretStep ==
  ASSUME PoolInv, NEW w \in Worker, NEW k \in Want(w), ReadSecret(w, k)
  PROVE  PoolInv'
  <1> USE DEF PoolInv, VersionsAgree
  <1>0. /\ k \in Wanted /\ k.secret \in Secret /\ rd \in [Worker -> Round]
        /\ UNCHANGED <<secret, rev, cache, bucket, used>>
    BY RoundTypes DEF ReadSecret, Wanted, Want, Worker
  <1>1. /\ \A v \in Worker \ {w} : rd'[v] = rd[v]
        /\ rd'[w] = [Idle EXCEPT !.pc = "pool", !.want = k, !.rv = secret[k.secret].rv,
                                 !.data = secret[k.secret].data]
        /\ rd' \in [Worker -> Round]
    <2>1. secret[k.secret] \in [rv : Rev, data : Contents \cup {NoData}]
      BY <1>0 DEF TypeOK
    <2>2. [Idle EXCEPT !.pc = "pool", !.want = k, !.rv = secret[k.secret].rv,
                       !.data = secret[k.secret].data] \in Round
      BY <1>0, <2>1, RoundTypes DEF Round
    <2> QED BY <1>0, <2>2 DEF ReadSecret
  <1>2. /\ rd'[w].pc = "pool" /\ rd'[w].want = k /\ rd'[w].rv = secret[k.secret].rv
        /\ rd'[w].data = secret[k.secret].data
    BY <1>1 DEF Idle
  <1>3. /\ secret[k.secret].rv # 0 /\ Valid(secret[k.secret].data)
        /\ secret[k.secret].data \in Contents
    BY <1>0 DEF ReadSecret, TypeOK, Valid, isOIDC, NoData
  <1>4. TypeOK'
    BY <1>0, <1>1 DEF TypeOK, Round
  <1>5. HoldsValid'
    <2> SUFFICES ASSUME NEW v \in Worker, v # w
                 PROVE  /\ rd'[v].pc # "idle" => rd'[v].data \in Contents /\ Valid(rd'[v].data)
                        /\ rd'[v].pc \in {"have", "wait"} => rd'[v].client = Built(rd'[v])
                        /\ rd'[v].pc = "wait" => rd'[v].kind \in LimitKind
      BY <1>2, <1>3 DEF HoldsValid
    <2> QED BY <1>1 DEF HoldsValid
  <1>6. ServerVersion' /\ QuotaBound'
    BY <1>0 DEF ServerVersion, QuotaBound
  <1> DEFINE Same(v) == /\ rd'[v].pc = rd[v].pc /\ rd'[v].want = rd[v].want
                        /\ rd'[v].rv = rd[v].rv /\ rd'[v].data = rd[v].data
  <1>7. ReadVersion' /\ SameRead'
    <2>1. \A v \in Worker \ {w} : Same(v)
      BY <1>1
    <2>2. ReadVersion'
      <3> SUFFICES ASSUME NEW v \in Worker, rd'[v].pc # "idle"
                   PROVE  /\ rd'[v].rv # 0 /\ rd'[v].rv <= rev
                          /\ secret[rd'[v].want.secret].rv = rd'[v].rv =>
                                secret[rd'[v].want.secret].data = rd'[v].data
        BY <1>0 DEF ReadVersion
      <3>1. CASE v = w
        BY <1>0, <1>2, <1>3, <3>1 DEF ServerVersion
      <3>2. CASE v # w
        BY <2>1, <3>2 DEF ReadVersion
      <3> QED BY <3>1, <3>2
    <2>3. SameRead'
      <3> SUFFICES ASSUME NEW u \in Worker, NEW v \in Worker,
                          rd'[u].pc # "idle" /\ rd'[v].pc # "idle",
                          rd'[u].want.secret = rd'[v].want.secret, rd'[u].rv = rd'[v].rv
                   PROVE  rd'[u].data = rd'[v].data
        BY DEF SameRead
      <3>1. CASE u # w /\ v # w
        BY <2>1, <3>1 DEF SameRead
      <3>2. CASE u = w \/ v = w
        BY <1>2, <2>1, <3>2 DEF ReadVersion
      <3> QED BY <3>1, <3>2
    <2> QED BY <2>2, <2>3
  <1>8. CacheVersion'
    <2> SUFFICES ASSUME NEW v \in Worker, NEW l \in Wanted
                 PROVE  EntryAgrees(cache[<<v, identity(l)>>], l)'
      BY DEF CacheVersion
    <2>1. EntryAgrees(cache[<<v, identity(l)>>], l)
      BY DEF CacheVersion
    <2>2. \A u \in Worker \ {w} : Same(u)
      BY <1>1
    <2> QED BY <1>0, <1>2, <2>1, <2>2 DEF EntryAgrees
  <1> QED BY <1>4, <1>5, <1>6, <1>7, <1>8

\* A round gets its client: the cached one is what it would have built.
LEMMA GetOrBuildStep ==
  ASSUME PoolInv, NEW w \in Worker, GetOrBuild(w)
  PROVE  PoolInv'
  <1> USE DEF PoolInv, VersionsAgree
  <1> DEFINE r == rd[w]
             id == <<w, identity(r.want)>>
             hit == cache[id].rv # 0 /\ Hit(cache[id], r.rv)
             cl == IF hit THEN cache[id].client ELSE Built(r)
  <1>0. /\ rd \in [Worker -> Round] /\ r \in Round /\ r.pc = "pool" /\ r.want \in Wanted
        /\ UNCHANGED <<secret, rev, bucket, used>>
    BY RoundTypes DEF GetOrBuild, Round
  <1>1. id \in Slot /\ cache \in [Slot -> Entry] /\ EntryAgrees(cache[id], r.want)
    BY <1>0, IdentityTells DEF TypeOK, CacheVersion
  <1>2. cl = Built(r)
    <2> SUFFICES ASSUME hit PROVE cache[id].client = Built(r)
      OBVIOUS
    <2>1. /\ cache[id].client.region = r.want.region /\ cache[id].client.group = r.want.group
          /\ cache[id].client.type = r.want.type /\ cache[id].client.data = r.data
      BY <1>0, <1>1 DEF EntryAgrees, Hit
    <2>2. cache[id].client \in Client
      BY <1>1 DEF Entry
    <2> QED BY <2>1, <2>2 DEF Client, Built
  <1>3. /\ rd' = [rd EXCEPT ![w].pc = "have", ![w].client = cl]
        /\ cache' = IF hit THEN cache ELSE [cache EXCEPT ![id] = [rv |-> r.rv, client |-> cl]]
    BY DEF GetOrBuild
  <1> HIDE DEF cl, hit
  <1>4. /\ \A v \in Worker \ {w} : rd'[v] = rd[v]
        /\ rd'[w] = [r EXCEPT !.pc = "have", !.client = Built(r)]
        /\ Built(r) \in Client
        /\ rd' \in [Worker -> Round]
    <2>1. Built(r) \in Client
      BY <1>0, BuiltType DEF Round
    <2>2. [r EXCEPT !.pc = "have", !.client = Built(r)] \in Round
      BY <1>0, <2>1 DEF Round
    <2> QED BY <1>0, <1>2, <1>3, <2>1, <2>2
  <1>5. /\ rd'[w].pc = "have" /\ rd'[w].want = r.want /\ rd'[w].rv = r.rv
        /\ rd'[w].data = r.data /\ rd'[w].client = Built(r)
    BY <1>0, <1>4 DEF Round
  <1>6. cache' \in [Slot -> Entry]
    BY <1>0, <1>1, <1>2, <1>3, <1>4 DEF Round, Entry
  <1>7. TypeOK'
    BY <1>0, <1>4, <1>6 DEF TypeOK, Round
  <1>8. HoldsValid'
    <2> SUFFICES ASSUME NEW v \in Worker
                 PROVE  /\ rd'[v].pc # "idle" => rd'[v].data \in Contents /\ Valid(rd'[v].data)
                        /\ rd'[v].pc \in {"have", "wait"} => rd'[v].client = Built(rd'[v])
                        /\ rd'[v].pc = "wait" => rd'[v].kind \in LimitKind
      BY DEF HoldsValid
    <2>1. CASE v = w
      BY <1>0, <1>5, <2>1 DEF HoldsValid, Built
    <2>2. CASE v # w
      BY <1>4, <2>2 DEF HoldsValid
    <2> QED BY <2>1, <2>2
  <1>same. \A v \in Worker : /\ rd'[v].pc = "idle" <=> rd[v].pc = "idle"
                            /\ rd'[v].want = rd[v].want
                            /\ rd'[v].rv = rd[v].rv /\ rd'[v].data = rd[v].data
    BY <1>0, <1>4, <1>5
  <1>9. ServerVersion' /\ ReadVersion' /\ SameRead' /\ QuotaBound'
    BY <1>0, <1>same DEF ServerVersion, ReadVersion, SameRead, QuotaBound
  <1>10. CacheVersion'
    <2> SUFFICES ASSUME NEW v \in Worker, NEW l \in Wanted
                 PROVE  EntryAgrees(cache[<<v, identity(l)>>], l)'
      BY DEF CacheVersion
    <2> DEFINE j == <<v, identity(l)>>
    <2>1. j \in Slot /\ EntryAgrees(cache[j], l)
      BY IdentityTells DEF CacheVersion
    <2>2. CASE cache'[j] = cache[j]
      BY <1>0, <1>same, <2>1, <2>2 DEF EntryAgrees
    <2>3. CASE cache'[j] # cache[j]
      <3>1. j = id /\ cache'[j] = [rv |-> r.rv, client |-> Built(r)]
        BY <1>1, <1>2, <1>3, <2>1, <2>3
      <3>2. /\ l.secret = r.want.secret /\ l.region = r.want.region
            /\ l.group = r.want.group /\ l.type = r.want.type
        BY <1>0, <3>1, IdentityTells
      <3>3. /\ r.rv <= rev /\ Built(r).data = r.data
            /\ Built(r).region = l.region /\ Built(r).group = l.group /\ Built(r).type = l.type
            /\ secret[l.secret].rv = r.rv => r.data = secret[l.secret].data
            /\ \A u \in Worker : rd[u].pc # "idle" /\ rd[u].want.secret = l.secret
                  /\ rd[u].rv = r.rv => r.data = rd[u].data
        BY <1>0, <3>2 DEF Built, ReadVersion, SameRead
      <3> HIDE DEF r
      <3> QED BY <1>0, <1>same, <3>1, <3>3 DEF EntryAgrees
    <2> QED BY <2>2, <2>3
  <1> QED BY <1>7, <1>8, <1>9, <1>10

\* A round ends, in order or because no client could be built.
LEMMA RoundEnds ==
  ASSUME PoolInv, NEW w \in Worker, BuildFails(w) \/ EndRound(w)
  PROVE  PoolInv'
  <1>1. /\ rd' = [rd EXCEPT ![w] = Idle] /\ rd \in [Worker -> Round]
        /\ UNCHANGED <<secret, rev, cache, bucket, used>>
    BY RoundTypes DEF BuildFails, EndRound, PoolInv
  <1>2. \A v \in Worker : rd'[v] = rd[v] \/ rd'[v].pc = "idle"
    BY <1>1, RoundTypes
  <1>3. rd' \in [Worker -> Round]
    BY <1>1, RoundTypes
  <1>4. TypeOK' /\ QuotaBound'
    BY <1>1, <1>3 DEF PoolInv, TypeOK, QuotaBound, Round
  <1>5. HoldsValid'
    <2> SUFFICES ASSUME NEW v \in Worker, rd'[v] = rd[v]
                 PROVE  /\ rd'[v].pc # "idle" => rd'[v].data \in Contents /\ Valid(rd'[v].data)
                        /\ rd'[v].pc \in {"have", "wait"} => rd'[v].client = Built(rd'[v])
                        /\ rd'[v].pc = "wait" => rd'[v].kind \in LimitKind
      BY <1>2 DEF HoldsValid
    <2> QED BY DEF PoolInv, HoldsValid
  <1>6. VersionsAgree'
    BY <1>1, <1>2, RoundsGoOn DEF PoolInv
  <1> QED BY <1>4, <1>5, <1>6 DEF PoolInv

\* A round that holds a client and only moves on between "have" and "wait".
LEMMA RoundMoves ==
  ASSUME PoolInv, NEW w \in Worker, NEW pc \in {"have", "wait"},
         NEW kind \in LimitKind \cup {None}, pc = "wait" => kind \in LimitKind,
         rd[w].pc \in {"have", "wait"},
         rd' = [rd EXCEPT ![w].pc = pc, ![w].kind = kind],
         UNCHANGED <<secret, rev, cache>>
  PROVE  rd' \in [Worker -> Round] /\ HoldsValid' /\ VersionsAgree'
  <1>1. rd \in [Worker -> Round]
    BY RoundTypes DEF PoolInv
  <1>2. /\ rd'[w] = [rd[w] EXCEPT !.pc = pc, !.kind = kind] /\ rd'[w] \in Round
        /\ rd' \in [Worker -> Round]
        /\ \A v \in Worker \ {w} : rd'[v] = rd[v]
    <2>1. /\ rd'[w] = [rd[w] EXCEPT !.pc = pc, !.kind = kind]
          /\ rd' = [rd EXCEPT ![w] = [rd[w] EXCEPT !.pc = pc, !.kind = kind]]
      BY <1>1
    <2>2. [rd[w] EXCEPT !.pc = pc, !.kind = kind] \in Round
      BY <1>1 DEF Round
    <2> QED BY <1>1, <2>1, <2>2
  <1>3. /\ rd'[w].pc = pc /\ rd'[w].kind = kind /\ rd'[w].want = rd[w].want
        /\ rd'[w].rv = rd[w].rv /\ rd'[w].data = rd[w].data /\ rd'[w].client = rd[w].client
    BY <1>1, <1>2 DEF Round
  <1>4. HoldsValid'
    <2> SUFFICES ASSUME NEW v \in Worker
                 PROVE  /\ rd'[v].pc # "idle" => rd'[v].data \in Contents /\ Valid(rd'[v].data)
                        /\ rd'[v].pc \in {"have", "wait"} => rd'[v].client = Built(rd'[v])
                        /\ rd'[v].pc = "wait" => rd'[v].kind \in LimitKind
      BY DEF HoldsValid
    <2>1. CASE v = w
      <3>1. /\ rd[w].pc # "idle" /\ rd[w].data \in Contents /\ Valid(rd[w].data)
            /\ rd[w].client = Built(rd[w])
        BY DEF PoolInv, HoldsValid
      <3>2. Built(rd'[w]) = Built(rd[w])
        BY <1>3 DEF Built
      <3> QED BY <1>3, <2>1, <3>1, <3>2
    <2>2. CASE v # w
      BY <1>2, <2>2 DEF PoolInv, HoldsValid
    <2> QED BY <2>1, <2>2
  <1>5. VersionsAgree'
    <2>1. \A v \in Worker :
            \/ rd'[v].pc = "idle"
            \/ /\ rd[v].pc # "idle" /\ rd'[v].want = rd[v].want
               /\ rd'[v].rv = rd[v].rv /\ rd'[v].data = rd[v].data
      BY <1>2, <1>3
    <2> QED BY <2>1, RoundsGoOn DEF PoolInv
  <1> QED BY <1>2, <1>4, <1>5

\* The account a round's client calls for.
LEMMA CallsAsKey ==
  ASSUME PoolInv, NEW w \in Worker, rd[w].pc \in {"have", "wait"}
  PROVE  LimiterKey(rd[w].client.data) \in Key
  <1>1. rd[w].client.data = rd[w].data /\ rd[w].data \in Contents /\ Valid(rd[w].data)
    <2>1. /\ rd[w].pc # "idle" /\ rd[w].data \in Contents /\ Valid(rd[w].data)
          /\ rd[w].client = Built(rd[w])
      BY DEF PoolInv, HoldsValid
    <2> QED BY <2>1 DEF Built
  <1> QED BY <1>1, LimiterKeyType

\* A limiter that is within the quota holds at most its burst.
LEMMA BucketsTyped ==
  ASSUME NEW bk \in [Key \X LimitKind -> Limiter], NEW us \in [Key \X LimitKind -> Nat],
         \A b \in Key \X LimitKind :
            bk[b].kind \in {None, b[2]} /\ us[b] + bk[b].tokens <= Burst[b[2]]
  PROVE  \A b \in DOMAIN bk : bk[b].kind # None => bk[b].tokens <= Burst[bk[b].kind]
  <1> SUFFICES ASSUME NEW b \in Key \X LimitKind, bk[b].kind # None
               PROVE  bk[b].tokens <= Burst[bk[b].kind]
    OBVIOUS
  <1>1. /\ bk[b].kind = b[2] /\ us[b] + bk[b].tokens <= Burst[b[2]]
        /\ us[b] \in Nat /\ bk[b].tokens \in Nat /\ Burst[b[2]] \in Nat
    BY DEF Limiter
  <1> QED BY <1>1

\* The limiter is looked up, or made full: nothing has been granted from it yet.
LEMMA AskQuotaStep ==
  ASSUME PoolInv, NEW w \in Worker, NEW k \in LimitKind, AskQuota(w, k)
  PROVE  PoolInv'
  <1> DEFINE id == <<LimiterKey(rd[w].client.data), k>>
  <1>1. id \in Key \X LimitKind
    BY CallsAsKey DEF AskQuota
  <1>2. /\ bucket' = IF bucket[id].kind # None THEN bucket
                     ELSE [bucket EXCEPT ![id] = newLimiter(k)]
        /\ UNCHANGED <<secret, rev, cache, used>>
    BY DEF AskQuota, kindName
  <1>3. rd' \in [Worker -> Round] /\ HoldsValid' /\ VersionsAgree'
    BY <1>2, RoundMoves DEF AskQuota
  <1>4. /\ bucket \in [Key \X LimitKind -> Limiter] /\ used \in [Key \X LimitKind -> Nat]
        /\ newLimiter(k) \in Limiter /\ k # None /\ newLimiter(k).kind = k
        /\ newLimiter(k).tokens = Burst[k] /\ Burst[k] \in Nat
    BY DEF PoolInv, TypeOK, newLimiter, Limiter, None
  <1>5. bucket' \in [Key \X LimitKind -> Limiter] /\ used' \in [Key \X LimitKind -> Nat]
    BY <1>1, <1>2, <1>4
  <1>6. QuotaBound'
    <2> SUFFICES ASSUME NEW b \in Key \X LimitKind
                 PROVE  /\ bucket'[b].kind \in {None, b[2]}
                        /\ bucket'[b].kind = None => bucket'[b].tokens = 0 /\ used'[b] = 0
                        /\ used'[b] + bucket'[b].tokens <= Burst[b[2]]
      BY DEF QuotaBound
    <2>1. CASE bucket'[b] = bucket[b]
      BY <1>2, <2>1 DEF PoolInv, QuotaBound
    <2>2. CASE bucket'[b] # bucket[b]
      <3>1. b = id /\ bucket'[b] = newLimiter(k) /\ bucket[b].kind = None
        BY <1>1, <1>2, <1>4, <2>2
      <3>2. used'[b] = 0 /\ b[2] = k
        BY <1>2, <3>1 DEF PoolInv, QuotaBound
      <3> QED BY <1>4, <3>1, <3>2
    <2> QED BY <2>1, <2>2
  <1>7. TypeOK'
    <2>1. \A b \in DOMAIN bucket' : bucket'[b].kind # None => bucket'[b].tokens <= Burst[bucket'[b].kind]
      BY <1>5, <1>6, BucketsTyped DEF QuotaBound
    <2> QED BY <1>2, <1>3, <1>5, <2>1 DEF PoolInv, TypeOK, Round
  <1> QED BY <1>3, <1>6, <1>7 DEF PoolInv

\* A call takes one token of the limiter of its own kind and account.
LEMMA CallStep ==
  ASSUME PoolInv, NEW w \in Worker, Call(w)
  PROVE  PoolInv'
  <1> DEFINE k == rd[w].kind
             id == <<LimiterKey(rd[w].client.data), k>>
  <1>0. rd[w].pc = "wait" /\ k \in LimitKind
    BY DEF Call, PoolInv, HoldsValid
  <1>1. id \in Key \X LimitKind
    BY <1>0, CallsAsKey
  <1>2. /\ bucket[id].tokens > 0
        /\ bucket' = [bucket EXCEPT ![id].tokens = @ - 1]
        /\ used' = [used EXCEPT ![id] = @ + 1]
        /\ UNCHANGED <<secret, rev, cache>>
    BY DEF Call, kindName
  <1>3. rd' \in [Worker -> Round] /\ HoldsValid' /\ VersionsAgree'
    BY <1>0, <1>2, RoundMoves DEF Call
  <1>4. bucket \in [Key \X LimitKind -> Limiter] /\ used \in [Key \X LimitKind -> Nat]
    BY DEF PoolInv, TypeOK
  <1>5. /\ bucket[id].tokens \in Nat \ {0} /\ used[id] \in Nat
        /\ bucket'[id].kind = bucket[id].kind /\ bucket'[id].tokens = bucket[id].tokens - 1
        /\ used'[id] = used[id] + 1
        /\ \A b \in (Key \X LimitKind) \ {id} : bucket'[b] = bucket[b] /\ used'[b] = used[b]
    BY <1>1, <1>2, <1>4 DEF Limiter
  <1>6. bucket' \in [Key \X LimitKind -> Limiter] /\ used' \in [Key \X LimitKind -> Nat]
    <2>1. [bucket[id] EXCEPT !.tokens = @ - 1] \in Limiter
      <3> HIDE DEF id
      <3>1. bucket[id] \in Limiter
        BY <1>1, <1>4
      <3>2. bucket[id].tokens - 1 \in Nat
        BY <1>5
      <3>3. \A l \in Limiter : l.tokens - 1 \in Nat => [l EXCEPT !.tokens = l.tokens - 1] \in Limiter
        BY DEF Limiter
      <3> QED BY <3>1, <3>2, <3>3
    <2>2. bucket' = [bucket EXCEPT ![id] = [bucket[id] EXCEPT !.tokens = @ - 1]]
      BY <1>2
    <2> HIDE DEF id
    <2>3. bucket' \in [Key \X LimitKind -> Limiter]
      BY <1>4, <2>1, <2>2
    <2>4. used' \in [Key \X LimitKind -> Nat]
      BY <1>2, <1>4, <1>5
    <2> QED BY <2>3, <2>4
  <1>7. QuotaBound'
    <2> SUFFICES ASSUME NEW b \in Key \X LimitKind
                 PROVE  /\ bucket'[b].kind \in {None, b[2]}
                        /\ bucket'[b].kind = None => bucket'[b].tokens = 0 /\ used'[b] = 0
                        /\ used'[b] + bucket'[b].tokens <= Burst[b[2]]
      BY DEF QuotaBound
    <2>1. /\ bucket[b].kind \in {None, b[2]}
          /\ bucket[b].kind = None => bucket[b].tokens = 0 /\ used[b] = 0
          /\ used[b] + bucket[b].tokens <= Burst[b[2]]
      BY DEF PoolInv, QuotaBound
    <2>2. CASE b = id
      BY <1>5, <2>1, <2>2
    <2>3. CASE b # id
      BY <1>5, <2>1, <2>3
    <2> QED BY <2>2, <2>3
  <1>8. TypeOK'
    <2>1. \A b \in DOMAIN bucket' : bucket'[b].kind # None => bucket'[b].tokens <= Burst[bucket'[b].kind]
      BY <1>6, <1>7, BucketsTyped DEF QuotaBound
    <2> QED BY <1>2, <1>3, <1>6, <2>1 DEF PoolInv, TypeOK, Round
  <1> QED BY <1>3, <1>7, <1>8 DEF PoolInv

\* Time passes: limiters refill up to their burst, and the count starts again.
LEMMA TickStep ==
  ASSUME PoolInv, Tick
  PROVE  PoolInv'
  <1>1. /\ bucket \in [Key \X LimitKind -> Limiter] /\ used \in [Key \X LimitKind -> Nat]
        /\ UNCHANGED <<secret, rev, cache, rd>>
    BY DEF PoolInv, TypeOK, Tick
  <1>2. ASSUME NEW b \in Key \X LimitKind
        PROVE  /\ bucket'[b] \in Limiter /\ used'[b] = 0
               /\ bucket'[b].kind = bucket[b].kind /\ bucket'[b].kind \in {None, b[2]}
               /\ bucket'[b].kind = None => bucket'[b].tokens = 0
               /\ bucket'[b].tokens <= Burst[b[2]]
    <2>1. used'[b] = 0 /\ b[2] \in LimitKind /\ bucket[b] \in Limiter /\ b[2] # None
          /\ bucket[b].kind \in {None, b[2]}
      BY <1>1 DEF Tick, PoolInv, QuotaBound, None
    <2>2. CASE bucket[b].kind = None
      <3>1. bucket'[b] = NoLimiter
        BY <1>1, <2>2 DEF Tick
      <3>2. NoLimiter \in Limiter /\ NoLimiter.kind = None /\ NoLimiter.tokens = 0
            /\ Burst[b[2]] \in Nat
        BY <2>1, NothingTypes DEF NoLimiter
      <3> QED BY <2>1, <2>2, <3>1, <3>2
    <2>3. CASE bucket[b].kind = b[2]
      <3> DEFINE n == IF bucket[b].tokens + Rate[b[2]] < Burst[b[2]]
                      THEN bucket[b].tokens + Rate[b[2]] ELSE Burst[b[2]]
      <3>1. bucket'[b] = [bucket[b] EXCEPT !.tokens = n]
        BY <1>1, <2>1, <2>3 DEF Tick, Limiter
      <3>2. n \in Nat /\ n <= Burst[b[2]]
        <4>1. bucket[b].tokens \in Nat /\ Rate[b[2]] \in Nat /\ Burst[b[2]] \in Nat
          BY <2>1 DEF Limiter
        <4> QED BY <4>1
      <3> HIDE DEF n
      <3> QED BY <2>1, <2>3, <3>1, <3>2 DEF Limiter
    <2> QED BY <2>1, <2>2, <2>3
  <1>3. bucket' \in [Key \X LimitKind -> Limiter] /\ used' \in [Key \X LimitKind -> Nat]
    BY <1>1, <1>2 DEF Tick
  <1>4. QuotaBound'
    <2> SUFFICES ASSUME NEW b \in Key \X LimitKind
                 PROVE  /\ bucket'[b].kind \in {None, b[2]}
                        /\ bucket'[b].kind = None => bucket'[b].tokens = 0 /\ used'[b] = 0
                        /\ used'[b] + bucket'[b].tokens <= Burst[b[2]]
      BY DEF QuotaBound
    <2> QED BY <1>2 DEF Limiter
  <1>5. TypeOK'
    <2>1. \A b \in DOMAIN bucket' : bucket'[b].kind # None => bucket'[b].tokens <= Burst[bucket'[b].kind]
      BY <1>3, <1>4, BucketsTyped DEF QuotaBound
    <2> QED BY <1>1, <1>3, <2>1 DEF PoolInv, TypeOK
  <1>6. HoldsValid' /\ VersionsAgree'
    <2>1. \A v \in Worker :
            \/ rd'[v].pc = "idle"
            \/ /\ rd[v].pc # "idle" /\ rd'[v].want = rd[v].want
               /\ rd'[v].rv = rd[v].rv /\ rd'[v].data = rd[v].data
      BY <1>1
    <2> QED BY <1>1, <2>1, RoundsGoOn DEF PoolInv, HoldsValid
  <1> QED BY <1>4, <1>5, <1>6 DEF PoolInv

\* The invariant of the pool holds throughout.
LEMMA PoolInvariant == Spec => []PoolInv
  <1>1. PoolInv /\ [Next]_vars => PoolInv'
    <2> SUFFICES ASSUME PoolInv, [Next]_vars PROVE PoolInv'
      OBVIOUS
    <2>1. CASE UNCHANGED vars
      BY <2>1 DEF vars, PoolInv, TypeOK, HoldsValid, VersionsAgree, ServerVersion, ReadVersion,
                  SameRead, CacheVersion, EntryAgrees, QuotaBound
    <2>2. ASSUME NEW s \in Secret, RemoveSecret(s) \/ \E d \in Contents : WriteSecret(s, d)
          PROVE  PoolInv'
      BY <2>2, RemoveSecretStep, WriteSecretStep
    <2>3. ASSUME NEW w \in Worker,
                 \/ \E k \in Want(w) : ReadSecret(w, k)
                 \/ GetOrBuild(w) \/ BuildFails(w)
                 \/ \E k \in LimitKind : AskQuota(w, k)
                 \/ Call(w) \/ EndRound(w)
          PROVE  PoolInv'
      BY <2>3, ReadSecretStep, GetOrBuildStep, RoundEnds, AskQuotaStep, CallStep
    <2> QED BY <2>1, <2>2, <2>3, TickStep DEF Next
  <1> QED BY <1>1, PoolInit, PTL DEF Spec
-----------------------------------------------------------------------------
(* The theorems *)

\* The pool's variables have their types, and no limiter holds more than its burst.
THEOREM PoolTypes == Spec => []TypeOK
  <1>1. PoolInv => TypeOK
    BY DEF PoolInv
  <1> QED BY <1>1, PoolInvariant, PTL

\* Every call goes out on a client made for the caller: its own credentials, as
\* it read them, its own region, resource group and service, whether the client
\* was built for it or found in the cache (cache.go:8, cas_factory.go:58).
THEOREM ClientsAreOwn == Spec => []ClientIsOwn
  <1>1. PoolInv => ClientIsOwn
    BY DEF PoolInv, HoldsValid, ClientIsOwn
  <1> QED BY <1>1, PoolInvariant, PTL

\* No account is called more often in a unit of time than the burst of the kind,
\* over all Secrets, rotations, clients and both controllers (ratelimit.go:42).
THEOREM QuotasKept == Spec => []QuotaKept
  <1>1. PoolInv => QuotaKept
    <2> SUFFICES ASSUME PoolInv, NEW b \in Key \X LimitKind
                 PROVE  used[b] <= Burst[b[2]]
      BY DEF QuotaKept, PoolInv, TypeOK
    <2>1. /\ used[b] \in Nat /\ bucket[b].tokens \in Nat /\ Burst[b[2]] \in Nat
          /\ used[b] + bucket[b].tokens <= Burst[b[2]]
      BY DEF PoolInv, TypeOK, QuotaBound, Limiter
    <2> QED BY <2>1
  <1> QED BY <1>1, PoolInvariant, PTL
=============================================================================
