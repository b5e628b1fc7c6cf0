# A TLA+ development of the Let's Encrypt → Alibaba Cloud operator

The operator in this repository watches two custom resources. An
`AliyunCertificate` (the *CR* below) asks cert-manager for a certificate and
archives every generation of it in CAS, the cloud's certificate store. An
`AliyunCertificateBinding` puts the current generation on a cloud target (an FC3
custom domain or an OSS CNAME). Paths below are relative to `src/`.

The hard part of this program is not an algorithm. It is the bookkeeping of
cloud objects in a `status` field that is read from a lagging cache, written by
merge patches, and left alone by a process that may die between any two calls.
That is what the models are about.

## 1. Inventory

| component | state it keeps | operations | talks to |
|---|---|---|---|
| certificate controller (`internal/controller/aliyuncertificate_controller.go`, `upload.go`, `probe.go`, `retention.go`, `status.go`, `material.go`) | CR status: `current`, `history`, `pendingUpload`, `casProbedAt`, conditions; finalizer | reconcile round: finalizer, Certificate, material, probe, upload, retention, patch | API server (cached and live reads, merge patches), cert-manager, CAS |
| deletion of a CR (`deletion.go`) | `cleanupStartedAt`, the same generations | block on bindings, bounded CAS cleanup, Certificate, Secret, finalizer | the same |
| secretName guard, issuer resolution, desired Certificate (`desired.go`, `issuer.go`) | `status.secretName`, `effectiveIssuerRef` | refuse a Secret of somebody else, pin the issuer | API server |
| binding controller (`aliyuncertificatebinding_controller.go`, `binding_*.go`) | binding status: `observedGeneration`, `appliedFingerprint`, `appliedCertRef`, `boundAccountId`, drift traces, conditions | arbitrate, load material, gates, observe, fence, apply, freeze; unbind on deletion | API server, providers; woken by CR changes and by peers |
| providers (`pkg/provider`) | none (cloud state) | `Observe`, `Apply`, `Cleanup` for FC3 and OSS | FC3, OSS |
| CAS client (`pkg/aliyun/cas_sdk.go`, `errors.go`) | none (cloud state) | `Upload`, `Delete`, `FindUploaded`; error classes | CAS |
| client factories and cache, credentials, rate limits (`cas_factory.go`, `provider_factory.go`, `pkg/aliyun/cache.go`, ...) | one client per identity, limiters per key | `GetOrBuild`, `Wait` | Secrets |
| PKI and naming (`pkg/pki`, `pkg/naming`) | none | parse a bundle, `Covers`, `Missing`, `CASName`, `ClientToken` | – |
| manager, indexes, metrics (`cmd/main.go`, `indexes.go`, `metrics.go`) | gauges | wiring | – |

How they interact: the two controllers share the API server's objects and never
call each other. The certificate controller lists bindings live (retention and
deletion); the binding controller reads the CR from its cache and the Secret
live. Both are woken by watches, by re-queue intervals and by error backoff.

What is hard here:

* **Crashes and lost answers.** A CAS upload may succeed and its answer be lost;
  only `pendingUpload`, written ahead, leads back to the certificate.
* **Stale caches.** A round begins from an informer cache that may predate the
  previous round's patch. `ensureUploaded` re-reads live, the probe does not.
* **Merge patches.** A patch sends the difference between two in-memory copies;
  a wrong base loses or resurrects fields.
* **Several actors.** cert-manager rewrites the Secret, users edit and delete,
  bindings apply, people delete in the console, all between two calls of a round.
* **Time.** Probe interval, minAge, cleanup grace period, cloud calls that time
  out and take effect afterwards.
* **Wake-ups.** A status patch wakes nobody, Secrets are not watched, a list may
  fail in a watch handler: what is not requeued waits for the drift check.

What makes each component correct:

* certificate controller: no CAS certificate without a record; the published
  certId valid; retention never touches what is in use; convergence;
* deletion: everything on record is removed, the private key too, and it ends;
* guard and issuer: no foreign Secret is ever overwritten; the issuer is stable;
* binding controller: at most one writer per target once caches agree; never
  write to another account; unbind only one's own certificate; losers take over;
* providers and CAS client: idempotent, `NotFound` absorbed on deletion.

`PROJECT.json` lists the components with what is and is not modelled, and the
hazards at their lines.

## 2. Modules

| module | models | extends |
|---|---|---|
| `CertificateController.tla` | one CR from its material to retention, and its deletion: caches, cert-manager, CAS, bindings as far as the CR sees them | |
| `Issuance.tla` | what a CR does with names it does not own alone: the issuer it pins, the Secret name it guards, the Secret it deletes | |
| `BindingController.tla` | the bindings of one cloud target, FC3 or OSS: queue, watches, arbitration, gates, providers, unbind; the certificate controller as far as bindings see it | instantiates `BindingLifecycle` |
| `BindingLifecycle.tla` | abstract: what retention and deletion of a CR may rely on in a binding | |
| `Material.tla` | the Secret's files from PEM to the FC3 domain: `pkg/pki`, `material.go`, `binding_material.go` | |
| `CASListing.tla` | `FindUploaded`, page by page | |
| `ClientPool.tla` | client factories and caches, credentials Secrets, limiters | |
| `Gauges.tla` | the Prometheus gauges against the life of the object they describe | |
| `MCCertificate.tla`, `MCIssuance.tla`, `MCBinding.tla`, `MCMaterial.tla`, `MCClientPool.tla` | the instances for TLC: `CoversName` (the coverage relation of the domains in the `.cfg` files), default names, which certificate each binding refers to, a handful of PEM files and credentials | the above |
| `CertificateControllerProofs.tla` | proofs: types, the finalizer, the write-ahead rule; what a deletion leaves, and the record of every CAS certificate | `CertificateController`, TLAPS |
| `CertificateRetentionProofs.tla` | proofs: what retention spares, and that the current certId is in CAS | `CertificateControllerProofs` |
| `BindingControllerProofs.tla` | proofs: types; writes to a target, and the refinement of `BindingLifecycle`; what queue and watches owe | `BindingController`, TLAPS |
| `IssuanceProofs.tla`, `MaterialProofs.tla`, `CASListingProofs.tla`, `ClientPoolProofs.tla`, `GaugesProofs.tla` | proofs: the safety properties of each | the module, TLAPS |

The two controllers meet in the API server only, so each module carries the other
side as an environment: `CertificateController` has bindings that apply in one
step, `BindingController` has a certificate controller that adopts, reclaims and
is deleted in one step each. `BindingLifecycle` is the contract between them: the
bindings of `CertificateController` behave as it says, and `BindingController`
is shown to implement it (`ImplementsLifecycle`). What the one-step abstraction
hides on one side (an Apply in flight while its generation is reclaimed) is a
sequence of steps on the other (`DanglingScheduled`).

### 2.1 CertificateController

| variable | code |
|---|---|
| `api`, `status` | the CR on the API server: existence, deletionTimestamp, finalizer, the spec fields the controller reads; the status subresource |
| `capi`, `cstatus` | the CR in the informer cache |
| `cert`, `ccert` | the cert-manager Certificate (its first DNS name, or none), live and cached |
| `secret`, `lastGen`, `dom` | the generation in the Secret, the newest one, and the first SAN of each |
| `cas`, `nextId` | CAS: certificate id by name; a name is a function of the fingerprint (`naming.CASName`) and names are unique in CAS |
| `binding` | phase, `observedGeneration == generation`, `appliedFingerprint` |
| `pc`, `ac`, `orig`, `acSpec`, `b`, `seen` | the running round: place, working copy, patch base, spec in the copy, bundle, bindings as listed |
| `graceOver`, `stable`, `outage`, `budget` | clock and environment |
| `ghost` | history for the properties: which records were replaced or erased and whether cleanup was given up |

A generation is a fingerprint `1..MaxGen` in order of issue. `NoFP`, `NoId`,
`NoDom` are the empty values. A round is cut at every call to the API server or
to the cloud, because between two calls everything else may happen; what lies
between two cuts is one action. The other two modules follow the same rule.

| code | actions |
|---|---|
| `Reconcile` up to the Certificate | `AddFinalizer`, `BeginRoundNotIssued`, `BeginRoundIssued` |
| `probeCAS` | `ProbeSkipped`, `ProbeFound`, `ProbeMissing` (with its patch) |
| `ensureUploaded` | `EnsureShortCircuit`, `EnsureRefresh` (live read, second short-circuit, write-ahead patch), `EnsureFails`, `UploadNew`, `UploadClaim`, `UploadFails` |
| `reclaimOldGenerations` | `ReclaimList`, `ReclaimOldest`, `ReclaimFails`, `ReclaimStops` |
| end of round | `PatchStatus` |
| `reconcileDelete` | `DeleteBlocked`, `DeleteStarts`, `DeleteResumes`, `CleanupDelete`, `CleanupFails`, `CleanupDone`, `PatchCleaned`, `DeleteCertificate`, `DeleteSecret`, `RemoveFinalizer` |
| environment | `Crash`, `RoundAborts`, `CacheSync`, `CertCacheSync`, `Issue`, `RollbackSecret`, `HandDelete`, `ToggleUpload`, `RenameDomain`, `DeleteCR`, `CollectCertificate`, the binding steps, the clock, `Stabilise` |

Modelling decisions a reader may ask about:

* `MergePatch` is the JSON merge patch of `client.MergeFrom`: changed fields are
  sent, nested objects merged member by member, lists replaced. `patchStatus`
  decodes the server's answer back into the working copy (`PatchAndReload`);
  `patchPendingUpload` patches a copy and does not.
* A `nil` current and the placeholder that `probeCAS` leaves (no certId, empty
  fingerprint) take the same branches everywhere and are one value, `NoGen`.
* A cloud call is served, refused, or served with its answer lost. An upload of
  a name CAS holds is answered by `NameRepeat` and claimed with `findByName`. A
  hit of the ClientToken has the same effect, so the token is left out.
* `FindUploaded` lists by a domain keyword. CAS matches substrings; the domains
  used here do not contain one another, so the model compares for equality. A
  wildcard leaf covers a subdomain without being listed under its name.
* Times are Booleans: `probed` (casProbedAt is recent), `graceOver`. minAge,
  expiry and stalled issuance are nondeterministic while `~stable`.
  `ProbeIntervalPasses` waits for the cache, hours against seconds.
* Optimistic locking: `Update` (adding and removing the finalizer) takes effect
  only when the copy equals the server's object; equal content stands for an
  equal resourceVersion. A Conflict ends the round.
* `Crash` loses the round and restarts with fresh caches. `RoundAborts` is an
  API-server error that ends the round and leaves the caches behind.
* A round reads its caches only when it begins, so `CacheSync` jumps to the newest
  version: an intermediate one is the newest of an earlier moment. Left out is a
  cache that stays behind while several rounds begin and then delivers a version
  from between them; the cache would have to be a queue of versions.
* In a normal round the CR exists (`FinalizerHeld`, proved below), so the
  NotFound answers of its patches are not modelled; in a deletion round they are.
* One worker handles a given CR at a time (workqueue), so there is one round.

### 2.2 Issuance

| variable | code |
|---|---|
| `cr`, `ccr` | the CRs: deletion, `spec.secretName`, `issuerRef`, `status.effectiveIssuerRef`, `status.secretName`; live and cached |
| `cert`, `ccert`, `events` | the Certificates (secretName, issuerRef, Ready), live and cached; the CRs whose Certificate has an event the cache has not seen |
| `secret` | the owner each Secret's `certificate-name` annotation names: a CR, nobody (`ByHand`), or no Secret |
| `default` | `--default-issuer-name` |
| `round`, `wake` | the round in progress; what the queue holds |
| `contested`, `named` | history for the properties |

| code | actions |
|---|---|
| `Reconcile`, step 1 | `BeginRound` (with `ResolveIssuerRef`, the `NoIssuer` exit), `BeginNotFound` |
| step 2 | `Guard` |
| step 3 | `SyncCertificate`, `SyncRefused` |
| status and step 4 | `Finish` |
| `reconcileDelete`, c to e | `BeginDelete`, `DeleteCertificate`, `ReadSecret`, `EraseSecret`, `Finalize` |
| environment | `SyncCr`, `SyncCert`, `TimerFires`, `RoundFails`, `Restart`; `Issue`, `Unready`, `CollectCertificate`; `EditSecretName`, `EditIssuer`, `DeleteCr`, `MakeSecret`, `RemoveSecret`, `RemoveCertificate` |

The CRs have their finalizer and no bindings; that part of deletion is in
`CertificateController`. A name that passes to somebody else *after* the guard
has read the Secret cannot be protected without a version check, and neither can
one for which `CreateOrUpdate` finds another cached Certificate than the guard
did: `contested` names exactly these, and `NoTrespass` says there is no other way.

### 2.3 BindingController

| variable | code |
|---|---|
| `obj`, `st` | the bindings: existence, finalizer, deletionPolicy, generation; status |
| `peers`, `ccr` | bindings and certificates as the informer caches hold them |
| `cr`, `secret`, `hist`, `cas`, `last` | what bindings see of the certificate controller, and CAS |
| `account`, `tgt`, `late` | the account the credentials lead to; the target in each account; writes that were given up and may still take effect |
| `pc`, `rd`, `wake` | the worker, its `bindingRound`, the queue |
| `graceOver`, `stable`, `outage`, `budget` | clock and environment |
| `adopted`, `moved`, `unheard` | history for the properties |

| code | actions |
|---|---|
| `Reconcile`, `reconcileBindingReady` | `RoundOfNothing`, `CertificateNotFound`, `CertificateNotReady`, `ConflictingBinding`, `MaterialRejected`, `CertificateGateHolds`, `CasUploadRequired`, `StartObserve` |
| factory, `Observe` | `FactoryError`, `ObserveTargetNotFound`, `ObserveAuthFails`, `ObserveFails`, `ObserveFenced`, `ObserveAsWanted`, `ObserveDiffers` |
| `Apply` | `ApplyGet` (FC3 only), `ApplyWrite`, `ApplyFails`, `ApplyTargetNotFound`, `ApplyTimesOut` |
| `patchBinding` | `PatchBinding`, `PatchFails` |
| `reconcileBindingDelete`, `unbindTarget`, `Cleanup` | `DeleteKeepsTarget`, `DeleteStarts`, `UnbindFails`, `UnbindSkips`, `UnbindOwn`, `ClearGet`, `ClearNotFound`, `ClearWrite`, `ClearTimesOut`, `CleanupRetries`, `CleanupPatchFails`, `CleanupAbandoned`, `RemoveFinalizer`, `RemoveFinalizerFails` |
| watches, requeue | `SyncPeer`, `SyncCertificate`, `TimerFires` |
| certificate controller | `Issue`, `Adopt`, `Reclaim`, `Unissue`, `EnableUpload`, `RemoveSecret`, `RemoveCertificate` |
| environment | `CreateBinding`, `EditPolicy`, `DeleteBinding`, `Console`, `LateWriteLands`, `MoveCredentials`, `Crash`, `GracePeriodPasses`, `Stabilise` |

* A binding is a number, its place in the order of `lessBinding`; the lowest live
  one wins. A recreated binding is another number.
* The object itself is read live and nobody else writes its status, so the merge
  patch is an assignment. `RemoveFinalizer` fails if the generation has moved.
* A backoff and a short `RequeueAfter` are a place in the queue; the drift
  interval is a state of its own (`"drift"`), because what waits for it may wait
  an hour. Status patches and finalizers wake nobody (`bindingMeaningfulChange`).
* FC3 writes a whole domain: `other` is a version of everything the controller
  echoes. OSS writes the certificate alone; `PutCname` takes any certId, also one
  CAS no longer has (external behaviour, the weaker assumption).
* An observation may come without an account id (`MayHide`): the fence treats it
  as another account.

### 2.4 Material

`BindingController` and `CertificateController` see a bundle as one value that is
valid or not. `Material` looks inside. A PEM file is a sequence of blocks, of
which some are certificates, one kind does not parse and others are to be
skipped; a certificate is a name with an entry in `Info` (its key, the key that
signed it, CA or not, issuer = subject, SANs, CN); a fingerprint is a tagged
certificate, since sha256 is taken to be injective; a name is a sequence of
labels. Signatures are the relation "`by` is the parent's `key`".

`parseCertificates`, `parsePrivateKey`, `ParseBundle`, `IsSelfSigned`,
`DNSNames`, `Encoded` (`CertPEM`, `KeyPEM`), `LeafFingerprint`, `Covers` and
`Missing` are the functions of `pkg/pki`. They are used by two rounds: the
certificate controller's (`CertificateBegin` reads the cached Certificate,
`loadMaterial` the live Secret, `Adopt`) and the binding controller's
(`BindingBegin` reads the cached CR, `loadBindingMaterial` the live Secret,
`Observe`, `Apply`). cert-manager triggers, issues a temporary pair when the
Secret has none that fits, issues, and only then updates the conditions; people
edit the Secret and the domain. The fence, arbitration and the protocol of the
domain are in `BindingController`, the steps of an upload in
`CertificateController`.

### 2.5 CASListing

`shelf` is what CAS would list for the keyword, in its order; `page`, `out`, `pc`
are the locals of `FindUploaded`. Others upload (anywhere in the order) and
delete between two calls. CAS may answer without a body, echo the first page for
every page number, list an entry without a certificate id, or put fewer entries
on a page than asked for (`ServerCap`). `stayed`, `taken` and `odd` are history.

### 2.6 ClientPool

`secret` holds the credentials Secrets with their resourceVersion, `cache` one
entry per identity and controller, `bucket` the limiters, `rd` the round of each
controller's one worker. `ReadSecret`, `GetOrBuild` (one step: it runs under the
mutex), `AskQuota` and `Call` are the code; a unit of time is what the slowest
limiter needs for its burst, a fifth of a second, and `Tick` is one such unit. An
endpoint override counts as part of the region. Names are compared as tuples:
Kubernetes names, regions and group ids contain no `/`, so the code's joined
string is as good.

### 2.7 Gauges

One object of each kind, live and cached, its `series`, and the round in
progress. What a round decides is free; what is modelled is from which copy it
starts (`Read`: the binding controller reads live, the other its cache), and in
which order it records, patches, clears. `patchStatus` and `patchBinding` record
first (`RecordAndPatch`); the deletion branch of the binding controller patches
first and then records readiness alone (`BindingRetry`). An object is made again
only after the caches have seen it go.

## 3. Runs

Deadlock is not checked in the runs of the two controllers' modules and of
`Issuance`: objects that are gone, or bounds that are used up, leave nothing to
do. It is checked in the others. `ClientPool` and `Gauges` define a `TypeOK` too;
their runs spend their time on the other properties.

| run | bounds | shows | distinct states |
|---|---|---|---|
| `Deletion` | 2 generations, keepLast 2, deletion, at most 3 changes: generations, one restored Secret, one toggle of uploadToCAS | `TypeOK`, `OrphansAccounted`, `CurrentIdValid`, `SecretGoesWithCR`, `FinalizerHeld`, `UploadIsRecorded`, `CleanupClaimsPending` | 2.5 M |
| `RetentionBindings` | 2 generations, keepLast 1, one binding, one edit of the names | `ReclaimSparesBound`, `ReclaimSparesCurrent` | 2.5 M |
| `Convergence` | 2 generations, keepLast 1, one hand deletion, `FairSpec` | `Converges`, `RetentionConverges` | 0.2 M |
| `DeletionEnding` | 1 generation, one binding, lagging Certificate cache, permanent outage possible, `FairSpec` | `DeletionEnds` | 0.6 M |
| `BindingTarget` | FC3, one binding with Unbind, two accounts, one move of the credentials, one change in the console or late write, 2 generations | `TypeOK`, `OnlyAdopted`, `AccountFence`, `UnbindOnlyOwn`, `EchoKept`, `ImplementsLifecycle` | 1.3 M |
| `BindingPeers` | OSS, two bindings with a certificate each, failing lists, `FairSpec` | `VerdictCurrent`, `TargetConverges` | 0.2 M |
| `BindingReferences` | OSS, one binding with Unbind, created at any time, 2 generations, keepLast 1, one outside change, permanent outage possible, `FairSpec` | `DanglingScheduled`, `TargetConverges`, `BindingDeletionEnds` | 0.2 M |
| `Issuance` | one CR, a second Secret name, two issuers, 2 outside changes, 1 fault or restart, `FairSpec` | `TypeOK`, `NoTrespass`, `KeyRemoved`, `IssuerPinned`, `NameTaken` | 0.8 M |
| `Material` | 2 issued generations, 7 edited files, one temporary pair, 3 target domains, 4 outside events | `TypeOK`, `ServedSound`, `OwnRecognized`, `TemporaryNeedsRace` | 1.0 M |
| `CASListing` | 6 certificates, one without an id, pages of 2, at most 3 pages, 3 changes by others, `FairSpec` | `TypeOK`, `MissesBounded`, `ListingEnds` | 0.4 M |
| `ClientPool` | two Secrets, two accounts and half a key, two resource groups, a wide and a narrow channel, 2 writes | `ClientIsOwn`, `QuotaKept` | 2.9 M |
| `Gauges` | one binding, one certificate, 1 fault or restart | `BindingSeriesEnd`, `TombstoneUnsaved`, `GaugesTruthful` | 0.5 M |

Why the bounds are enough. Two generations are needed for a renewal in the middle
of anything; `keepLast` 1 makes every renewal reclaim. One binding suffices for
retention because guards 2 and 3 look at each binding separately; two are needed
for arbitration, and `First` picks one out of any number. Each outside change is
bounded by a constant of its own (`MaxRollbacks`, `MaxHandDeletes`, `MaxToggles`,
`MaxRenames`, `MaxMoves`) and all together by `MaxChanges` or `MaxOutside`; one of
each already falls between any two steps. Crashes, aborts and lost answers are not
bounded in the two controllers' modules. In `Issuance` two changes are what every
known way into trouble takes (retarget a name, and have its owner change); other
CRs are represented by Secrets of somebody else, and an instance with two CRs, one
change and one fault passes the safety properties too but is too slow to keep.
Six certificates on pages of two are a list that just fits the page limit, and one
change makes it shorter; with an upload while it is shorter it may be too long for
it. Two writes of a Secret are a rotation, or the same content under another
resourceVersion, or the same account in two Secrets. In `Material` four events are an issuance, a
renewal and an edit on either end; the edited files hold each error `ParseBundle`
knows once, and the names each rule of `Covers`.

What the properties say:

* `OrphansAccounted`: every CAS certificate is on record in status (current,
  history or pendingUpload) until the CR is gone, except in four named ways:
  its pendingUpload was replaced by a newer generation's, a probe of a stale
  current erased it, a history shortened from a stale copy replaced it, or cleanup
  was given up. The first three are discussed below; that there is no fifth way is
  the content of the property.
* `UploadIsRecorded`: a certificate appears in CAS only while the *persisted*
  pendingUpload names it.
* `CurrentIdValid`: the certId in status.current is the one CAS has under that
  generation, in every state (not claimed under hand deletion or once an older
  Secret was restored, nor for keepLast 1, where retention may be ahead of the
  last patch).
* `ReclaimSparesCurrent`, `ReclaimSparesBound`: what retention never deletes
  (somebody's deletion by hand while the loop runs is not retention's).
* `CleanupClaimsPending`, `SecretGoesWithCR`: what deletion may not leave.
* `FinalizerHeld`: a round begun from a stale cache never outlives its CR.
* `NoTrespass`, `KeyRemoved`, `IssuerPinned`: a foreign Secret is neither
  overwritten nor deleted; the CR's own goes with it; no re-issue by accident.
* `AccountFence`, `UnbindOnlyOwn`, `EchoKept`, `OnlyAdopted`: what a write to a
  target may never do, at whatever moment credentials, console or Secret change.
* `VerdictCurrent`: no binding waits for the drift check with a verdict about its
  peers that the caches have overtaken.
* `DanglingScheduled`: an Apply in flight may put a certId on a target that
  retention has just deleted; but the binding is then not left to the drift check.
* `ImplementsLifecycle`: every behaviour of `BindingController` is one of
  `BindingLifecycle`, under the mapping written at its `INSTANCE`.
* `ServedSound`: what the operator has put on a domain is an unbroken chain, leaf
  first, with the leaf's key, and every host of the domain is one of the leaf's
  names (hosts are enumerated, not compared with `Covers`). The certificate
  controller has vouched for the leaf only; the rest may have been edited since.
* `OwnRecognized`: the fingerprint read back from the cloud is the one computed
  from the Secret, so that a drift check does not write again.
* `TemporaryNeedsRace`: rule 5 fails only for a round whose cached Certificate is
  older than the issuance.
* `MissesBounded`: a listing misses at most one certificate per deletion that
  happened while it ran, none when nobody deletes. This is the best that page
  numbers give: the probe may therefore take a certificate for deleted when
  another one was, and upload it again (`NameRepeat` and claim).
* `ClientIsOwn`, `QuotaKept`: the cache is never seen, and the quota is.
* `BindingSeriesEnd`, `TombstoneUnsaved`, `GaugesTruthful`: a binding leaves no
  series behind, a certificate only after a verdict that could not be saved (see
  below), and no gauge shows a comforting value the status does not have.
* `Converges`, `RetentionConverges`, `DeletionEnds`, `TargetConverges`,
  `BindingDeletionEnds`, `NameTaken`, `ListingEnds`: progress.

### Fairness

`CertificateController`: weak fairness of the round, of the watches, of the
clock, of the binding controller's own steps and of `Stabilise`.
`BindingController`: the worker finishes the round it is in, since every cloud
call has a timeout (WF of `ContinueRound`); it takes bindings from a FIFO queue,
so none is passed over for ever (SF of `StartRound(b)`: a watch may re-queue a
binding while another's round keeps the worker busy); timers run out, watches
deliver, a late write arrives or is lost (WF). `Issuance`: the same for worker,
events and timers, and nothing of cert-manager or users. `CASListing`: the worker
goes on with the listing it began; limiters refill and each call has a deadline
(WF of `Listing`, whichever way the call ends). `Material`, `ClientPool` and
`Gauges` state safety only and have no fairness.

The code justifies it: each round returns a re-queue interval or an error
(backoff) or waits for a watch event it is entitled to; informers deliver.
Liveness claims are about what happens *after* faults cease; `Stabilise` is that
moment, nothing is assumed before it, and the cloud may even then be down for good
(`MayOutage`). `NameTaken` needs no such moment: it asks only that the name stay
free.

### Disagreements with the code's own comments

Six places were found where a comment or document says one thing and the code
does another. None is among the runs above; most have a configuration of their
own beside them, which TLC refutes.

* `SecretRollback.cfg` (`MCCertificate`, `ReclaimSparesCurrent`): the Secret goes
  A, B, A; the second upload of A is claimed by name; current and history hold one
  certId and `retention.go:109` deletes it.
  `aliyuncertificate_controller.go:487` says of the guards
  "只会推迟回收，不会提前删掉在服役的那一代". The README's remark that
  cert-manager signs again makes this a window and not a lasting state.
* `UploadEnabledLate.cfg` (`MCCertificate`, `Converges`): a generation recorded
  with uploadToCAS off is never uploaded when the switch is turned on, since
  `upload.go:48` compares fingerprints only. `binding_identity.go:75` tells the
  user to turn it on. (`TargetConverges` therefore speaks of bindings whose
  certificate has a certId.)
* `UnbindShared.cfg` (`MCBinding`, `UnbindSparesSuccessor`): `binding_deletion.go:173`
  recognises its own certificate by fingerprint. When a second binding of the same
  certificate has taken the target over by the idempotent short circuit, the first
  one's fingerprint is there too, and Cleanup clears what the second serves;
  `binding_deletion.go:175` says another binding's certificate is left alone. The
  second is woken by the removal and applies again.
* `PageCap.cfg` (`CASListing`, `MissesBounded`): a page is full when it has the 50
  entries asked for (`cas_sdk.go:219`). A server with a lower limit of its own
  never fills one, and the listing ends after the first page without an error; the
  comment at `cas_sdk.go:159` says that case is handled, and the test of it
  (`cas_sdk_test.go:26`) passes a size that `FindUploaded` never passes.
* `TemporaryAdopted.cfg` (`MCMaterial`, `TemporaryRefused`): a cached Certificate
  that does not yet show Issuing lets cert-manager's temporary certificate through
  `material.go:90`; `binding_material.go:138` says it is refused. The Secret must
  have been lost while the Certificate was Ready, and the informer be slower than
  cert-manager; the next issuance replaces the certificate.
* `status.go:52`: a deletion round of the certificate controller on a cached copy
  of a CR that is gone records its gauges, fails to patch, and nothing clears them
  until the process ends; `deletion.go:203` says they must go with the object.
  `TombstoneUnsaved` is what holds. The binding controller avoids it
  (`binding_deletion.go:91`, `BindingSeriesEnd`).

More were met while modelling:

* `upload.go:72`: `pendingUpload` is one slot. Upload A, die before the patch,
  renew to B: B's record replaces A's, and nothing points at A's certificate
  (`ghost`'s first exception in `OrphansAccounted`; `upload.go:119` and
  `deletion.go:265` say the record exists to prevent this).
* `probe.go:67`: a probe begun from a stale cache can erase a current generation
  that is in CAS; it is claimed again by name unless a renewal comes first.
* `upload.go:48`, `retention.go:109`: a round of a stale cache whose current
  generation is the bundle returns before the live read. If the Secret went A, B, A
  and the cache still shows A as current, the round goes on to retention with the
  old history, and once it has shortened it, the merge patch replaces
  status.history as a whole: A, which had entered it, is in CAS and on no record
  until the next round claims it by name, or for good if a renewal comes first
  (`Overwritten`; the proof of `OrphansAccounted` found it).
* `deletion.go:137`: the wait for the Certificate reads the cache, and a cache
  that has not seen the Certificate yet looks the same as one that has seen it go.
  cert-manager then writes the Secret after the CR is gone (`CertCacheLags` in
  `CertificateController`, `round.unseen` in `KeyRemoved`).
* `upload.go:82`: the recorded domainHint is the first name of the spec, not of
  the leaf; after a rename under a wildcard leaf `FindUploaded` does not list the
  certificate and cleanup drops the record (`MaxRenames` with `MayDelete`).
* `deletion.go:91`: `cleanupStartedAt` is set once, so a binding created after
  the first cleanup attempt uses up the grace period, which `deletion.go:89` says
  blocked time does not.
* `binding_deletion.go:59`: a crash between Apply and its patch leaves
  appliedFingerprint empty, and Unbind then leaves the certificate on the target;
  the comment there says the cloud has nothing of ours.
* `aliyuncertificate_controller.go:188`, `:214`: the guard and `CreateOrUpdate`
  read the Certificate separately. If the cache loses it in between, it is created
  again without the guard.
* `issuer.go:79`: a round whose CR cache is older than the pin and whose
  Certificate cache lacks the Certificate resolves the flag's issuer and may
  overwrite the pin (`named` admits it).
* `aliyuncertificate_controller.go:237` says status.secretName always equals the
  serving name. Between `CreateOrUpdate` and the patch it does not, and a CR
  deleted then leaves the new Secret behind.
* `deletion.go:165`: the Secret is deleted by name without a UID precondition.

## 4. Proofs

Every theorem below holds for every value of the constants: any number of
generations, domains, bindings, certificates, accounts, CRs, names, rotations and
outside changes, any keepLast, any files and page sizes, unbounded histories, any
number of crashes. Every invariant and every action property of a run is among
them, and so is the refinement; the runs keep the liveness to themselves.

| module | theorem | statement | under | run |
|---|---|---|---|---|
| `CertificateControllerProofs` | `TypeCorrect` | `[]TypeOK` | | `Deletion` |
| | `FinalizerGuards` | `[]FinalizerHeld` | | `Deletion` |
| | `WriteAheadRule` | `UploadIsRecorded` | | `Deletion` |
| | `KeyGoesWithCR` | `[]SecretGoesWithCR` | `~CertCacheLags` | `Deletion` |
| | `PendingIsClaimed` | `CleanupClaimsPending` | `MaxRenames = 0` | `Deletion` |
| | `EveryOrphanAccounted` | `[]OrphansAccounted` | `MaxRenames = 0` | `Deletion` |
| `CertificateRetentionProofs` | `CurrentIsSpared` | `ReclaimSparesCurrent` | `MaxRollbacks = 0` | `RetentionBindings` |
| | `BoundAreSpared` | `ReclaimSparesBound` | `MaxRollbacks = 0` | `RetentionBindings` |
| | `CurrentIsInCAS` | `[]CurrentIdValid` | `KeepLast > 1`, `MaxHandDeletes = 0` | `Deletion` |
| `BindingControllerProofs` | `BindingTypes` | `[]TypeOK` | | `BindingTarget` |
| | `TargetsServeAdopted` | `[]OnlyAdopted` | | `BindingTarget` |
| | `WritesStayFenced` | `AccountFence` | | `BindingTarget` |
| | `CleanupTakesOwn` | `UnbindOnlyOwn` | | `BindingTarget` |
| | `WritesEchoDomain` | `EchoKept` | | `BindingTarget` |
| | `BindingsImplementLifecycle` | `ImplementsLifecycle` | | `BindingTarget` |
| | `VerdictsCurrent` | `[]VerdictCurrent` | | `BindingPeers` |
| | `DanglingIsScheduled` | `[]DanglingScheduled` | | `BindingReferences` |
| `IssuanceProofs` | `IssuanceTypes` | `[]TypeOK` | | `Issuance` |
| | `IssuersArePinned` | `IssuerPinned` | | `Issuance` |
| | `KeysAreRemoved` | `KeyRemoved` | | `Issuance` |
| | `NobodyTrespasses` | `NoTrespass` | | `Issuance` |
| `MaterialProofs` | `TypeCorrect` | `[]TypeOK` | | `Material` |
| | `ServedIsSound` | `[]ServedSound` | | `Material` |
| | `OwnIsRecognized` | `[]OwnRecognized` | | `Material` |
| | `TemporaryOnlyByRace` | `[]TemporaryNeedsRace` | | `Material` |
| `CASListingProofs` | `TypeCorrect` | `[]TypeOK` | | `CASListing` |
| | `MissesAreBounded` | `[]MissesBounded` | `ServerCap >= PageSize` | `CASListing` |
| `ClientPoolProofs` | `PoolTypes` | `[]TypeOK` | | |
| | `ClientsAreOwn` | `[]ClientIsOwn` | | `ClientPool` |
| | `QuotasKept` | `[]QuotaKept` | | `ClientPool` |
| `GaugesProofs` | `BindingSeriesEnds` | `[]BindingSeriesEnd` | | `Gauges` |
| | `TombstonesUnsaved` | `[]TombstoneUnsaved` | | `Gauges` |
| | `GaugesAreTruthful` | `[]GaugesTruthful` | | `Gauges` |

Assumptions. The named `ASSUME`s of the specifications type the constants and say
little else: `KeepLast` is a positive integer (the CRD's minimum and
`KeepLastOrDefault`), the policy is one of two (the flag check), there is
something to choose from (a Secret, a region and a group in `PoolAssumption`, a CR
in `Issuance`), and two CRs have different default Secret names, since a
default name is built from the CR's own (`NameAssumption`). `Material` says three
things more: a block that is not a certificate is none; a target domain is a host
name or a wildcard (its first label is `*` or has no asterisk), since FC3 has no
others; and the temporary certificate is self-signed and the leaf of no Secret but
the one cert-manager puts it in (`TemporaryAssumption`), which is what rule 5 takes
it to be.

The column "under" is different: each entry is a case that section 3 shows, or
describes, to be an exception in the code, and the theorem says that it is the only
one. A renamed first domain hides a pending upload from `FindUploaded`; a server
with a page limit below 50 ends a listing early (`PageCap.cfg`); a restored Secret
makes the current certId the oldest of the history (`SecretRollback.cfg`); a lagging
Certificate cache looks like a Certificate that is gone; with keepLast 1 retention
deletes the generation that status.current still names until the patch; a
deletion in the console is not the operator's. `CurrentIdValid` itself excludes
restored Secrets, so its theorem needs no `MaxRollbacks = 0`.

### Certificate controller

`TypeOK` is inductive, with one lemma for `MergePatch`, which rebuilds a status
from three. `FinalizerHeld` is stated inductively: a cached CR that has the
finalizer and is not being deleted still has it on the server, because only a
deletion round removes it, and such a round only begins when the cache already
shows the deletion. From it follows that no CR vanishes under a normal round.

`UploadIsRecorded` needs the invariant `RecordBeforeUpload`: while a round is about
to upload, the server's pendingUpload names its bundle. That holds because no
other step writes pendingUpload while a normal round runs: users do not write
status, deletion rounds exclude it (one round at a time), and the CR cannot vanish.

`SecretGoesWithCR` rests on `SecretUnderFinalizer`: Certificate and Secret exist
only under the finalizer, and a deletion round at its last step has seen both go.

`OrphansAccounted` is far from inductive: whether a patch loses a record depends
on the copy, its base and the server's status at once. `RecordsInv` relates the
three. `IdsInv`: an id in any copy of the status was given out, and stands for one
generation. `RoundRecords`: a round at its patch either started from the records
the server has and drops none of a live certificate (`FromFresh`), or started from
a stale copy and has changed nothing but removed dead generations from the history
(`OnlyReclaimed`), in which case the merge patch sends nothing but the shortened
list; what that list then replaces is the exception `Overwritten`, which the first
attempt at this proof exposed. `CleanupRecords`: while a deletion is under way
nothing adds records, so cache, base, copy and server agree on every certificate
that is still in CAS, and after the cleanup no record names one.

Retention. Without restored Secrets the Secret always holds the newest generation,
so that everything on record is older than the bundle of a round, except the
current generation (`OrderInv`); what the loop deletes comes from the history and
is therefore not current. `AppliedWasSeen`: what a binding has applied was listed
by the round, or the binding applied it since, and then it is not older than the
bundle. `ValidInv`: histories are newest first, and a round about to patch has
either left the current generation alone or advanced from the server's (`Unmoved`,
`Kept`, `Advanced`); with keepLast above 1 the server's current generation is then
never the oldest of what the loop has.

### Binding controller

`SafetyInv` has a part for each theorem. `ObjectInv` and `RoundInv`: the object of a
round cannot go before the round has removed the finalizer, and the copy differs
from the status only in what the round itself has decided. `CertsAdopted`,
`MaterialAdopted`, `LateAdopted`: what is read of a CR, what a round goes on with
and what a lost write may still bring was adopted, and the last two cover the
domain. `FenceInv`, `OwnInv`, `EchoInv`: past the fence the client's account is the
one bound; past the comparison the target shows the binding's own certificate;
past the read-back the copy of the domain is the domain; the latter two until
somebody else changes it (`moved`). The refinement maps each action to one of
`BindingLifecycle` or to a stutter; `RoundInv` gives the guards (what is recorded as
applied was adopted, observedGeneration does not run ahead of generation).

The queue. Neither `VerdictCurrent` nor `DanglingScheduled` is inductive: both
speak of the moment when the caches have caught up, and the reason lies in what was
queued before. `QueueInv` therefore speaks of the cache alone and of every moment:
a live binding that is not queued for now and whose events have all been heard
(`Settled`) has in its status, or in the round under way (`Saying`), the verdict
that arbitration gives from the *present* cache (`VerdictOf`) and, on a target that
refers to certIds, the certId of the *present* cached certificate (`ReferenceOf`).
Every event that changes the cache wakes those whose verdict it changes, which is
what `bindingPeerRequests` and the watch on the CR are for; a handler whose list
fails leaves the binding `unheard`, and then nothing is claimed. `LagInv` (the
cache never runs ahead) and `UnseenInv` (a binding the cache lacks has had no round)
carry this over creation and deletion. With the caches equal to the objects,
`VerdictOf` is `VerdictCurrent`; with `IdsInv` (CAS holds every current certId, no
two generations share one) a certId that is gone is not the cached one's, so that
its binding is not settled or the cache is behind, which is `DanglingScheduled`.

### Issuance, ClientPool, Gauges

`IssuersNamed`: every issuer in a CR, a Certificate, a cached copy or the round is
one the CR came by rightly. `DeletionSeen`: past the wait for the Certificate there
is none, and before the finalizer goes there is no Secret of the CR under the name
it serves. `NamesGuarded`: the Secret a Certificate names, the one the round is
about to give it and the one it is about to delete are free, the CR's own, or
contested. `VersionsAgree`: two copies of a Secret's content taken at the same
resourceVersion agree, be they on the server, in a round or in a cached client.
`QuotaBound`: granted calls and remaining tokens are together at most the burst.
`AllGood`: a series is held by an object whose finalizer is still there to remove
it, and a binding's round works on the status as it is.

### Material, CASListing

`ServedSound` follows from `ServeInv`: the bundle a round holds past the gates is
`Sound` (leaf first, unbroken, the leaf's key) and covers the domain, and what is on
the target is the encoding of such a bundle. `CoversHosts` is the link to RFC 6125:
whenever `Covers` accepts a name for a domain, each host of the domain is one of the
name's. `OwnRecognized` compares a leaf with what the parser reads back from the
cloud, so it needs to know what the parser returns: `ParseType` (certificates only)
and `ParseIdentity` (a file of certificates is read back unchanged, so that
`LeafFingerprint` after `Encoded` is the fingerprint of the leaf). Both are
inductions over the blocks of a file. The library's induction theorems take a
predicate as a parameter and are out of the provers' reach; `SetInduction` says the
same of a *set* of numbers, from the well-foundedness of `<`, and a set can be
given. `CollectsExists` uses it to show that the recursive function exists at all,
which TLA+ does not grant. `TemporaryInv`: while the temporary certificate is in the
Secret the Certificate is Issuing, so a round that accepts it had read another
Certificate than there was when it read the Secret.

`MissesBounded` is only about the end of a listing. `PageInv` counts on the way: the
certificates on pages already read that were there all the time and are not
collected (`Behind`) are at most as many as were deleted. An upload moves
certificates forward only; a deletion moves one certificate, the first of the next
page, back over the boundary; a page that is read puts nothing behind; and a page
that is not full is the end of the list, if CAS fills its pages (`PageEntries`).
The lemmas on `InsertAt` and `RemoveAt` say what stands where afterwards.

### Only model-checked

* Liveness, which needs fairness and ENABLED: `Converges`, `RetentionConverges`,
  `DeletionEnds`, `TargetConverges`, `BindingDeletionEnds`, `NameTaken`,
  `ListingEnds`.
* The configurations under "Disagreements" above, each a counterexample.

## 5. Not modelled

* A binding whose certificateRef or target is edited, and several targets at
  once: targets do not interact except through the one worker, and an edit is a
  removal from one target and an appearance at another.
* Two replicas: leader election makes the process one; `Crash` and `Restart`
  include the hand-over.
* `ClientToken`, error codes (an error is retryable or not, and both are tried
  everywhere), the SDK credential types of `Credentials.Build`.
* Cryptography, SDK type conversion, the redacting formatters of `Bundle`,
  counters and histograms, events, wording of conditions, flags and wiring in
  `cmd/main.go`, the fakes under `pkg/aliyun/fake`, generated code. None of it
  keeps state that another part depends on.

## 6. Plan

1. `CertificateController`, `BindingController` with `BindingLifecycle`,
   `Issuance`, `Material`, `CASListing`, `ClientPool`, `Gauges`, their runs: done.
2. Proofs of every invariant and action property of the runs, and of the
   refinement: done.
3. What remains is liveness, which stays with TLC, and what section 5 lists.
