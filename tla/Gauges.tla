------------------------------- MODULE Gauges -------------------------------
(***************************************************************************)
(* The Prometheus gauges of one AliyunCertificate ("cert") and of one      *)
(* AliyunCertificateBinding ("bind"), against the life of the object they  *)
(* describe (internal/controller/metrics.go and its callers).  A series is *)
(* keyed by namespace and name, lives in the process's memory, is made by  *)
(* the rounds that record it and unmade only by the round that takes the   *)
(* finalizer off.  What a round decides about the certificate is a free    *)
(* choice here; what counts is from which copy of the object it starts and *)
(* in which order it records, patches and clears.  Nobody but the operator *)
(* removes the finalizer.                                                  *)
(***************************************************************************)
EXTENDS Naturals

CONSTANTS
    Kind,       \* the objects considered, a subset of {"cert", "bind"}
    MaxFaults   \* bound: failed API calls and operator restarts

ASSUME KindAssumption ==
    /\ Kind \subseteq {"cert", "bind"}
    /\ MaxFaults \in Nat

VARIABLES
    obj,     \* the object on the API server
    cached,  \* ... and in the informer cache
    series,  \* the gauges under its name
    rd,      \* the round in progress
    faults,  \* faults so far
    lag,     \* history: the lag measured by the last round that measured one
    unsaved  \* history: the last recorded verdict was not saved

vars == <<obj, cached, series, rd, faults, lag, unsaved>>

Object == [there : BOOLEAN, deleting : BOOLEAN, fin : BOOLEAN,
           started : BOOLEAN,      \* status.cleanupStartedAt is set
           ready : BOOLEAN]        \* the Ready condition is True
Gone == [there |-> FALSE, deleting |-> FALSE, fin |-> FALSE, started |-> FALSE, ready |-> FALSE]

Lag == 0 .. 1           \* 0: up to date (or not known), 1: behind
NoAge == 2              \* no applied_age series
Series == [on : BOOLEAN, ready : BOOLEAN, age : Lag \cup {NoAge}]
NoSeries == [on |-> FALSE, ready |-> FALSE, age |-> NoAge]

\* A round: where it is, the object as it read it, its verdict and lag.
Round == [pc : {"idle", "normal", "start", "cleanup", "cleaned", "finish"},
          base : Object, ready : BOOLEAN, lag : Lag \cup {NoAge}]
Idle == [pc |-> "idle", base |-> Gone, ready |-> FALSE, lag |-> 0]

TypeOK ==
    /\ obj \in [Kind -> Object] /\ cached \in [Kind -> Object]
    /\ \A k \in Kind : obj[k].there \/ obj[k] = Gone
    /\ series \in [Kind -> Series]
    /\ rd \in [Kind -> Round]
    /\ faults \in 0 .. MaxFaults
    /\ lag \in [Kind -> Lag \cup {NoAge}] /\ unsaved \in [Kind -> BOOLEAN]
-----------------------------------------------------------------------------
(* Recording *)

\* recordCertMetrics; recordBindingMetrics; recordBindingReadiness, which
\* leaves applied_age alone; clearCertMetrics and clearBindingMetrics.
recordMetrics(k, v, l) == series' = [series EXCEPT ![k] = [on |-> TRUE, ready |-> v, age |-> l]]
recordBindingReadiness(v) ==
    series' = [series EXCEPT !["bind"] = [@ EXCEPT !.on = TRUE, !.ready = v]]
clearMetrics(k) == series' = [series EXCEPT ![k] = NoSeries]

\* Status().Patch with MergeFrom(base): what the round changed is written
\* onto whatever object has the name.
Patched(k, started, v) ==
    LET b == rd[k].base IN
    [obj EXCEPT ![k].started = IF started # b.started THEN started ELSE @,
                ![k].ready = IF v # b.ready THEN v ELSE @]

\* The patch reaches an object; it finds none, or fails (a fault).
PatchLands(k, started, v) ==
    /\ obj[k].there
    /\ obj' = Patched(k, started, v)
    /\ UNCHANGED faults
PatchFails(k) ==
    /\ \/ ~obj[k].there /\ UNCHANGED faults
       \/ faults < MaxFaults /\ faults' = faults + 1
    /\ UNCHANGED obj

\* patchStatus of the certificate controller, patchBinding of the other:
\* the gauges are recorded first.
RecordAndPatch(k, started, v, l, landed, lost) ==
    /\ recordMetrics(k, v, l)
    /\ \/ PatchLands(k, started, v) /\ rd' = [rd EXCEPT ![k] = landed]
          /\ unsaved' = [unsaved EXCEPT ![k] = FALSE]
       \/ PatchFails(k) /\ rd' = [rd EXCEPT ![k] = lost]
          /\ unsaved' = [unsaved EXCEPT ![k] = TRUE]
    /\ UNCHANGED cached
-----------------------------------------------------------------------------
(* Rounds *)

\* The copy a round starts from: the binding controller asks the API server
\* (APIReader), the certificate controller its cache.
Read(k) == IF k = "bind" THEN obj[k] ELSE cached[k]

\* A round begins.  It finds the object deleted with the finalizer on, or
\* alive; anything else ends it at once.
Begin(k) ==
    /\ rd[k].pc = "idle"
    /\ LET b == Read(k)
       IN  /\ b.there
           /\ \/ b.deleting /\ b.fin
                 /\ rd' = [rd EXCEPT ![k] = [pc |-> IF b.started THEN "cleanup" ELSE "start",
                                             base |-> b, ready |-> b.ready, lag |-> 0]]
              \/ ~b.deleting /\ b.fin
                 /\ \E v \in BOOLEAN, l \in Lag :
                        rd' = [rd EXCEPT ![k] = [pc |-> "normal", base |-> b, ready |-> v,
                                                 lag |-> IF k = "bind" THEN l ELSE NoAge]]
    /\ UNCHANGED <<obj, cached, series, faults, lag, unsaved>>

\* The finalizer is put on.  The binding controller goes on in the same
\* round, the certificate controller waits for the next.  The Update carries
\* the resourceVersion of the copy: it fails on a newer object.
AddFinalizer(k) ==
    /\ rd[k].pc = "idle"
    /\ LET b == Read(k)
       IN  /\ b.there /\ ~b.deleting /\ ~b.fin
           /\ obj[k] = b
           /\ obj' = [obj EXCEPT ![k].fin = TRUE]
           /\ IF k = "bind"
              THEN \E v \in BOOLEAN, l \in Lag :
                       rd' = [rd EXCEPT ![k] = [pc |-> "normal", base |-> [b EXCEPT !.fin = TRUE],
                                                ready |-> v, lag |-> l]]
              ELSE UNCHANGED rd
    /\ UNCHANGED <<cached, series, faults, lag, unsaved>>

\* The end of a round on an object that is alive.
EndNormal(k) ==
    /\ rd[k].pc = "normal"
    /\ RecordAndPatch(k, rd[k].base.started, rd[k].ready, rd[k].lag, Idle, Idle)
    /\ lag' = [lag EXCEPT ![k] = rd[k].lag]
-----------------------------------------------------------------------------
(* reconcileBindingDelete *)

\* Orphan, or never applied: straight to the finalizer.  Otherwise
\* cleanupStartedAt is saved, without recording (patchBindingStatus).
BindingOrphan ==
    /\ rd["bind"].pc \in {"start", "cleanup"}
    /\ rd' = [rd EXCEPT !["bind"].pc = "finish"]
    /\ UNCHANGED <<obj, cached, series, faults, lag, unsaved>>

BindingStart ==
    /\ rd["bind"].pc = "start"
    /\ LET r == rd["bind"] IN
       \/ /\ PatchLands("bind", TRUE, r.ready)
          /\ rd' = [rd EXCEPT !["bind"].pc = "cleanup", !["bind"].base.started = TRUE]
       \/ PatchFails("bind") /\ rd' = [rd EXCEPT !["bind"] = Idle]
    /\ UNCHANGED <<cached, series, lag, unsaved>>

\* unbindTarget succeeds, or fails for good (Abandon), or is to be retried:
\* Ready=False is patched and only then recorded.
BindingUnbound ==
    /\ rd["bind"].pc = "cleanup"
    /\ rd' = [rd EXCEPT !["bind"].pc = "finish"]
    /\ UNCHANGED <<obj, cached, series, faults, lag, unsaved>>

\* Mutant: the retry without recordBindingReadiness.
RetryUnrecorded ==
    /\ rd["bind"].pc = "cleanup"
    /\ rd' = [rd EXCEPT !["bind"] = Idle]
    /\ \/ PatchLands("bind", TRUE, FALSE) \/ PatchFails("bind")
    /\ UNCHANGED <<cached, series, lag, unsaved>>

BindingRetry ==
    /\ rd["bind"].pc = "cleanup"
    /\ rd' = [rd EXCEPT !["bind"] = Idle]
    /\ \/ /\ PatchLands("bind", TRUE, FALSE)
          /\ recordBindingReadiness(FALSE)
          /\ unsaved' = [unsaved EXCEPT !["bind"] = FALSE]
       \/ PatchFails("bind") /\ UNCHANGED <<series, unsaved>>
    /\ UNCHANGED <<cached, lag>>

-----------------------------------------------------------------------------
(* reconcileDelete *)

\* A binding is in the way: Ready=False is recorded and patched.
CertificateBlocked ==
    /\ rd["cert"].pc \in {"start", "cleanup"}
    /\ RecordAndPatch("cert", rd["cert"].base.started, FALSE, NoAge, Idle, Idle)
    /\ UNCHANGED lag

CertificateStart ==
    /\ rd["cert"].pc = "start"
    /\ RecordAndPatch("cert", TRUE, rd["cert"].ready, NoAge,
                      [rd["cert"] EXCEPT !.pc = "cleanup", !.base.started = TRUE], Idle)
    /\ UNCHANGED lag

\* cleanupCAS is to be retried.
CertificateRetry ==
    /\ rd["cert"].pc = "cleanup"
    /\ RecordAndPatch("cert", TRUE, FALSE, NoAge, Idle, Idle)
    /\ UNCHANGED lag

\* cleanupCAS is done, or given up: its progress is recorded and patched.
CertificateCleaned ==
    /\ rd["cert"].pc = "cleanup"
    /\ RecordAndPatch("cert", TRUE, rd["cert"].ready, NoAge, [rd["cert"] EXCEPT !.pc = "cleaned"], Idle)
    /\ UNCHANGED lag

\* The cert-manager Certificate is there still (requeue), or gone.
CertificateWaits ==
    /\ rd["cert"].pc = "cleaned"
    /\ rd' = [rd EXCEPT !["cert"] = Idle]
    /\ UNCHANGED <<obj, cached, series, faults, lag, unsaved>>
CertificateSecretGone ==
    /\ rd["cert"].pc = "cleaned"
    /\ rd' = [rd EXCEPT !["cert"].pc = "finish"]
    /\ UNCHANGED <<obj, cached, series, faults, lag, unsaved>>
-----------------------------------------------------------------------------
(* The end of a deletion, in both controllers *)

\* Mutant: the series are not cleared.
FinishUncleared(k) ==
    /\ rd[k].pc = "finish"
    /\ obj' = [obj EXCEPT ![k] = Gone]
    /\ rd' = [rd EXCEPT ![k] = Idle]
    /\ unsaved' = [unsaved EXCEPT ![k] = FALSE]
    /\ UNCHANGED <<cached, series, faults, lag>>

\* The finalizer is taken off and the object goes, or it is gone already
\* (NotFound is absorbed); then the series are cleared.
Finish(k) ==
    /\ rd[k].pc = "finish"
    /\ obj' = [obj EXCEPT ![k] = Gone]
    /\ clearMetrics(k)
    /\ rd' = [rd EXCEPT ![k] = Idle]
    /\ unsaved' = [unsaved EXCEPT ![k] = FALSE]
    /\ UNCHANGED <<cached, faults, lag>>

FinishFails(k) ==
    /\ rd[k].pc = "finish"
    /\ faults < MaxFaults
    /\ faults' = faults + 1
    /\ rd' = [rd EXCEPT ![k] = Idle]
    /\ UNCHANGED <<obj, cached, series, lag, unsaved>>
-----------------------------------------------------------------------------
(* The rest of the world *)

\* An object is made under the name, by users slower than the informers.
Create(k) ==
    /\ ~obj[k].there /\ ~cached[k].there /\ rd[k].pc = "idle"
    /\ obj' = [obj EXCEPT ![k] = [Gone EXCEPT !.there = TRUE]]
    /\ UNCHANGED <<cached, series, rd, faults, lag, unsaved>>

\* Deleted by the user; without a finalizer it goes at once.
Delete(k) ==
    /\ obj[k].there /\ ~obj[k].deleting
    /\ obj' = [obj EXCEPT ![k] = IF obj[k].fin THEN [@ EXCEPT !.deleting = TRUE] ELSE Gone]
    /\ UNCHANGED <<cached, series, rd, faults, lag, unsaved>>

SyncCache(k) ==
    /\ cached[k] # obj[k]
    /\ cached' = [cached EXCEPT ![k] = obj[k]]
    /\ UNCHANGED <<obj, series, rd, faults, lag, unsaved>>

\* The process ends and another takes over: no round, no series.
Restart ==
    /\ faults < MaxFaults
    /\ faults' = faults + 1
    /\ rd' = [k \in Kind |-> Idle]
    /\ series' = [k \in Kind |-> NoSeries]
    /\ unsaved' = [k \in Kind |-> FALSE]
    /\ cached' = obj
    /\ UNCHANGED <<obj, lag>>
-----------------------------------------------------------------------------
Init ==
    /\ obj = [k \in Kind |-> Gone] /\ cached = obj
    /\ series = [k \in Kind |-> NoSeries]
    /\ rd = [k \in Kind |-> Idle]
    /\ faults = 0
    /\ lag = [k \in Kind |-> 0]
    /\ unsaved = [k \in Kind |-> FALSE]

BindingDeletion == BindingOrphan \/ BindingStart \/ BindingUnbound \/ BindingRetry

CertificateDeletion ==
    \/ CertificateBlocked \/ CertificateStart \/ CertificateRetry
    \/ CertificateCleaned \/ CertificateWaits \/ CertificateSecretGone

Next ==
    \/ \E k \in Kind :
          \/ Begin(k) \/ AddFinalizer(k) \/ EndNormal(k) \/ Finish(k) \/ FinishFails(k)
          \/ Create(k) \/ Delete(k) \/ SyncCache(k)
    \/ "bind" \in Kind /\ BindingDeletion
    \/ "cert" \in Kind /\ CertificateDeletion
    \/ Restart

Spec == Init /\ [][Next]_vars
-----------------------------------------------------------------------------
\* The object is gone, from the cache too, and no round is in progress, and
\* yet there is a series: nothing will clear it.
Tombstone(k) ==
    rd[k].pc = "idle" /\ ~obj[k].there /\ ~cached[k].there /\ series[k].on

(* A binding that is gone leaves no series behind: a Ready=0 that nobody can
   clear would alert for ever (binding_deletion.go:91, metrics.go:192). *)
BindingSeriesEnd == "bind" \in Kind => ~Tombstone("bind")

(* Of a certificate that is gone a series stays in one case only: the last
   round that recorded it could not save what it recorded, because the CR it
   had in its cache was gone from the server or the patch failed
   (status.go:52, deletion.go:203). *)
TombstoneUnsaved == "cert" \in Kind /\ Tombstone("cert") => unsaved["cert"]

(* Between rounds the gauges of a binding say what its status says, unless the
   patch failed: a binding stuck in Terminating is not shown as ready, and its
   applied_age is the lag last measured, never a zero the deletion branch
   made up (binding_status.go:164, metrics.go:180). *)
GaugesTruthful ==
    "bind" \in Kind /\ rd["bind"].pc = "idle" /\ obj["bind"].there
    /\ series["bind"].on /\ ~unsaved["bind"] =>
        /\ series["bind"].ready = obj["bind"].ready
        /\ series["bind"].age \in {NoAge, lag["bind"]}
=============================================================================
