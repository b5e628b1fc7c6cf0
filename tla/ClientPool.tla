----------------------------- MODULE ClientPool -----------------------------
(***************************************************************************)
(* How a round comes by its cloud client and its share of the quota: the   *)
(* factories of the two controllers, the client caches (pkg/aliyun/        *)
(* cache.go), the credentials Secrets they read live, and the limiters     *)
(* (ratelimit.go).  Each controller has one worker and one cache; both     *)
(* share the limiters.  Secrets are rotated, removed and made again while  *)
(* rounds run.                                                             *)
(***************************************************************************)
EXTENDS Naturals

CONSTANTS
    Secret,     \* credentials Secrets of the namespace
    Key,        \* access key ids and role ARNs: what stands for an account
    Contents,   \* what a Secret may hold
    Region,     \* regions (with an endpoint override, if any)
    Group,      \* resource groups
    LimitKind,  \* channels with a quota of their own
    Burst,      \* Burst[k]: calls a fresh limiter of that kind grants at once
    Rate,       \* Rate[k]: calls it regains in one unit of time
    MaxRev      \* bound: writes of credentials Secrets

None == "none"
\* The values of a Secret that count: accessKeyId, accessKeySecret, and the
\* roleArn when the three OIDC values are there.
Data == [ak : Key \cup {None}, sk : BOOLEAN, role : Key \cup {None}]

ASSUME PoolAssumption ==
    /\ Secret # {} /\ Region # {} /\ Group # {}
    /\ Contents \subseteq Data /\ None \notin Key
    /\ LimitKind \subseteq {"cas-list", "cas-write", "fc3", "oss"}
    /\ Burst \in [LimitKind -> Nat \ {0}] /\ Rate \in [LimitKind -> Nat \ {0}]
    /\ MaxRev \in Nat

VARIABLES
    secret,  \* the Secrets on the API server: resourceVersion (0: none) and content
    rev,     \* the last resourceVersion given out
    cache,   \* the caches' entries, by identity
    rd,      \* the round of each controller's worker
    bucket,  \* the limiters, by key and name
    used     \* history: calls in this unit of time, by key and kind

vars == <<secret, rev, cache, rd, bucket, used>>

Worker == {"cert", "bind"}
Rev == 0 .. MaxRev
NoData == [ak |-> None, sk |-> FALSE, role |-> None]

\* What a round asks for.  The CAS factory leaves the type empty, the provider
\* factory the resource group.
Want(w) == [secret : Secret, region : Region,
            group : IF w = "cert" THEN Group ELSE {None},
            type : IF w = "cert" THEN {None} ELSE {"fc3", "oss"} \cap LimitKind]
Wanted == Want("cert") \cup Want("bind")

Client == [data : Contents \cup {NoData}, region : Region, group : Group \cup {None},
           type : {None, "fc3", "oss"}]

\* Mutant: the resource group is left out.
identityUngrouped(k) == <<k.secret, k.region, None, k.type>>

\* ClientKey.identity, and the caches: one per controller.
identity(k) == <<k.secret, k.region, k.group, k.type>>
Slot == Worker \X {identity(k) : k \in Wanted}

\* Mutant: OSS takes the default branch.
kindNameDefault(k) == IF k = "oss" THEN "cas-write" ELSE k

\* kindName: each channel has a name of its own.
kindName(k) == k

Entry == [rv : Rev, client : Client]
Limiter == [kind : LimitKind \cup {None}, tokens : Nat]
NoLimiter == [kind |-> None, tokens |-> 0]
AnyClient == [data |-> NoData, region |-> CHOOSE r \in Region : TRUE, group |-> None, type |-> None]
NoEntry == [rv |-> 0, client |-> AnyClient]
Idle == [pc |-> "idle", want |-> CHOOSE k \in Wanted : TRUE, rv |-> 0,
         data |-> NoData, client |-> AnyClient, kind |-> None]

TypeOK ==
    /\ secret \in [Secret -> [rv : Rev, data : Contents \cup {NoData}]]
    /\ rev \in Rev
    /\ cache \in [Slot -> Entry]
    /\ rd \in [Worker -> [pc : {"idle", "pool", "have", "wait"}, want : Wanted, rv : Rev,
                          data : Contents \cup {NoData}, client : Client,
                          kind : LimitKind \cup {None}]]
    /\ bucket \in [Key \X LimitKind -> Limiter]
    /\ \A b \in DOMAIN bucket :
          bucket[b].kind # None => bucket[b].tokens <= Burst[bucket[b].kind]
    /\ used \in [Key \X LimitKind -> Nat]
-----------------------------------------------------------------------------
(* Credentials *)

isOIDC(d) == d.role # None

\* CredentialsFromSecret: OIDC, or both halves of an access key.
Valid(d) == isOIDC(d) \/ (d.ak # None /\ d.sk)

LimiterKey(d) == IF isOIDC(d) THEN d.role ELSE d.ak

\* The Secret is written: rotated, corrected, spoilt, made again.
WriteSecret(s, d) ==
    /\ rev < MaxRev
    /\ rev' = rev + 1
    /\ secret' = [secret EXCEPT ![s] = [rv |-> rev + 1, data |-> d]]
    /\ UNCHANGED <<cache, rd, bucket, used>>

RemoveSecret(s) ==
    /\ secret[s].rv # 0
    /\ secret' = [secret EXCEPT ![s] = [rv |-> 0, data |-> NoData]]
    /\ UNCHANGED <<rev, cache, rd, bucket, used>>
-----------------------------------------------------------------------------
(* NewCASFactory, NewProviderFactory *)

\* The Secret is read live and parsed.  Without one, or with a content that
\* is not valid, the round ends (credentialsError), which changes nothing.
ReadSecret(w, k) ==
    /\ rd[w].pc = "idle"
    /\ secret[k.secret].rv # 0 /\ Valid(secret[k.secret].data)
    /\ rd' = [rd EXCEPT ![w] = [Idle EXCEPT !.pc = "pool", !.want = k,
                                            !.rv = secret[k.secret].rv,
                                            !.data = secret[k.secret].data]]
    /\ UNCHANGED <<secret, rev, cache, bucket, used>>

\* The client the build closure makes: everything from the key, and the
\* credentials that were read.
Built(r) == [data |-> r.data, region |-> r.want.region, group |-> r.want.group,
             type |-> r.want.type]

\* An entry serves as long as the Secret has not been written since.
Hit(e, rv) == e.rv = rv

\* GetOrBuild, under the cache's mutex from end to end.
GetOrBuild(w) ==
    /\ rd[w].pc = "pool"
    /\ LET r == rd[w]
           id == <<w, identity(r.want)>>
           cl == IF cache[id].rv # 0 /\ Hit(cache[id], r.rv) THEN cache[id].client ELSE Built(r)
       IN  /\ rd' = [rd EXCEPT ![w].pc = "have", ![w].client = cl]
           /\ cache' = IF cache[id].rv # 0 /\ Hit(cache[id], r.rv) THEN cache
                       ELSE [cache EXCEPT ![id] = [rv |-> r.rv, client |-> cl]]
    /\ UNCHANGED <<secret, rev, bucket, used>>

\* creds.Build or the SDK's constructor fails: the entry stays as it is.
BuildFails(w) ==
    /\ rd[w].pc = "pool"
    /\ ~Hit(cache[<<w, identity(rd[w].want)>>], rd[w].rv)
    /\ rd' = [rd EXCEPT ![w] = Idle]
    /\ UNCHANGED <<secret, rev, cache, bucket, used>>
-----------------------------------------------------------------------------
(* Limiters.Wait *)

\* The channels of a client: CAS lists and writes, a provider has its own.
KindsOf(cl) ==
    IF cl.type = None THEN {"cas-list", "cas-write"} \cap LimitKind ELSE {cl.type}

\* newLimiter, for the kind that asks first.
newLimiter(k) == [kind |-> k, tokens |-> Burst[k]]

\* A call is to be made: its limiter is looked up or made, under the mutex.
AskQuota(w, k) ==
    /\ rd[w].pc = "have"
    /\ k \in KindsOf(rd[w].client)
    /\ LET id == <<LimiterKey(rd[w].client.data), kindName(k)>> IN
       bucket' = IF bucket[id].kind # None THEN bucket
                 ELSE [bucket EXCEPT ![id] = newLimiter(k)]
    /\ rd' = [rd EXCEPT ![w].pc = "wait", ![w].kind = k]
    /\ UNCHANGED <<secret, rev, cache, used>>

\* ... granted, and the call is made.  The round may make another.
Call(w) ==
    /\ rd[w].pc = "wait"
    /\ LET key == LimiterKey(rd[w].client.data)
           id == <<key, kindName(rd[w].kind)>>
       IN  /\ bucket[id].tokens > 0
           /\ bucket' = [bucket EXCEPT ![id].tokens = @ - 1]
           /\ used' = [used EXCEPT ![<<key, rd[w].kind>>] = @ + 1]
    /\ rd' = [rd EXCEPT ![w].pc = "have", ![w].kind = None]
    /\ UNCHANGED <<secret, rev, cache>>

EndRound(w) ==
    /\ rd[w].pc \in {"have", "wait"}
    /\ rd' = [rd EXCEPT ![w] = Idle]
    /\ UNCHANGED <<secret, rev, cache, bucket, used>>

\* A unit of time passes (golang.org/x/time/rate).
Tick ==
    /\ bucket' = [b \in DOMAIN bucket |->
                    IF bucket[b].kind = None THEN NoLimiter
                    ELSE LET k == bucket[b].kind IN
                         [bucket[b] EXCEPT !.tokens =
                            IF @ + Rate[k] < Burst[k] THEN @ + Rate[k] ELSE Burst[k]]]
    /\ used' = [b \in DOMAIN used |-> 0]
    /\ UNCHANGED <<secret, rev, cache, rd>>
-----------------------------------------------------------------------------
Init ==
    /\ secret = [s \in Secret |-> [rv |-> 0, data |-> NoData]]
    /\ rev = 0
    /\ cache = [s \in Slot |-> NoEntry]
    /\ rd = [w \in Worker |-> Idle]
    /\ bucket = [b \in Key \X LimitKind |-> NoLimiter]
    /\ used = [b \in Key \X LimitKind |-> 0]

Next ==
    \/ \E s \in Secret : RemoveSecret(s) \/ \E d \in Contents : WriteSecret(s, d)
    \/ \E w \in Worker :
          \/ \E k \in Want(w) : ReadSecret(w, k)
          \/ GetOrBuild(w) \/ BuildFails(w)
          \/ \E k \in LimitKind : AskQuota(w, k)
          \/ Call(w) \/ EndRound(w)
    \/ Tick

Spec == Init /\ [][Next]_vars
-----------------------------------------------------------------------------
(* A round calls the cloud with the credentials its own read of the Secret
   returned, in the region and resource group and on the service its own
   object asks for, whoever had the client built: a rotated key takes effect
   with the next round, and two objects that share a Secret never share a
   client that behaves differently (cache.go:8, cas_factory.go:58). *)
ClientIsOwn ==
    \A w \in Worker : rd[w].pc \in {"have", "wait"} => rd[w].client = Built(rd[w])

(* No account sees more calls of a kind in one unit of time than its limiter's
   burst, though several Secrets hold the same key, the clients are built
   again after each rotation and both controllers call (ratelimit.go:42,66). *)
QuotaKept ==
    \A b \in DOMAIN used : used[b] <= Burst[b[2]]
=============================================================================
