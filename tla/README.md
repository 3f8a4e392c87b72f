# Verification of the clusterctl upgrader and the manifests downloader

This directory holds TLA+ models of the upgrade engine in this repository:
`src/vendor/sigs.k8s.io/cluster-api/cmd/clusterctl/client/cluster/upgrader.go`.
They come with TLC configurations and TLAPS proofs.
`spec.md` describes the engine as five parts:
- the version and contract resolver;
- the plan builder (`Plan`, `getUpgradePlan`);
- the custom plan validator (`createCustomPlan`);
- the rollout executor (`doUpgrade`);
- the drain controller (`scaleDownProvider`, `scaleDownDeployment`).

The operator's manifests downloader
(`src/internal/controller/manifests_downloader.go`) is a second component.
It is modelled in `ManifestsDownloader.tla`.

## 1. Inventory

| Part | Source | State it reads or changes | Operations |
|---|---|---|---|
| Resolver | `getProviderContractByVersion`; `getUpgradeInfo` (not under src/) | release metadata: the contract of each published version | HasReleaseSeries, ContractOf, NextVersions, LatestNextVersion, ContractsForUpgrade |
| Plan builder | `Plan`, `getUpgradePlan`, `isPartialUpgrade` | inventory (read) | PlanContracts, UpgradePlanItems, IsPartialUpgrade |
| Custom validator | `createCustomPlan` | inventory (read) | CustomPlanValid, CoreTargetVersion, CustomTargetContract |
| Rollout executor | `ApplyPlan`, `ApplyCustomPlan`, `doUpgrade` | inventory, Deployments, webhook namespace | ApplyPlan, ApplyCustomPlan, DoUpgrade, SkipUpToDate, EndScaleDown, FetchComponents, DeleteProvider, InstallComponents, UpdateInventory, EndReplace, DeleteWebhookNamespace, Fail |
| Drain controller | `scaleDownProvider`, `scaleDownDeployment` | Deployment spec and status replicas | ScaleDownProvider, WaitScaledDown |
| Cluster | the Deployment controller and the garbage collector | Deployment status, pods of deleted Deployments | DeploymentController, OrphansTerminated |
| Manifests downloader | `downloadManifests`, `checkConfigMapExists`, `createManifestsConfigMap` | ConfigMaps, through a cached client; the work queue | StartReconcile, CheckConfigMap, FetchSucceeds, FetchFails, CreateConfigMap; the environment's SetVersion and CacheSync |

**How the parts interact.**
- The user calls `ApplyPlan(contract)` or `ApplyCustomPlan(items)`.
- Both build a plan from the inventory and the release metadata.
- Both hand the plan to `doUpgrade`, which does three things in order:
  1. It scales every provider with a next version down, then waits until its Deployment has no running pods.
  2. For each such provider, it fetches the new components, deletes the old ones and installs the new ones. The inventory is updated last.
  3. It deletes the webhook namespace.
- The Deployment controller runs concurrently with all of this and moves status replicas toward spec replicas.
- Any remote call can fail, and clusterctl can die at any step. The rollout then stops where it stands. Nothing is rolled back (spec §7).

**The hard behaviours.**
- The drain races the Deployment controller.
- The wait for the drain is bounded (`deploymentScaleToZeroBackOff.Steps`).
- The rollout can fail between any two steps.
- `sort.Slice` is unstable, so providers of one type may come in any order.
- A custom request may name a provider twice, or name its installed version.
- `ApplyPlan` recomputes the plan without `Plan()`'s drop rule (upgrader.go:142).

## 2. Modules

- `Upgrader.tla` models the resolver, the plan builder, the validator, the executor and the drain, as one state machine.
  - **Constants:**
    - `Providers` and their `ProviderType`.
    - `Metadata[p][v]`: the contract of version `v` of `p`.
    - `MaxVersion`.
    - `Contracts` and `CurrentContract` (`clusterv1.GroupVersion.Version`).
    - `Replicas`.
    - `MaxWaitSteps`: the backoff's step count.
    - `MaxCustomItems`: the longest request.
    - `NotInFleet`: a provider name that is not installed.
  - **Variables:**
    - the cluster: `inventory`, `deployment` (version, spec and status replicas), `orphans` (pods of a deleted Deployment still run), `webhookNamespace`;
    - the locals of `doUpgrade`: `pc`, `plan`, `idx`, `waitSteps`;
    - a history the properties read: `entry`, `startInventory`, `fresh`.
  - **How it abstracts the code:**
    - Versions are naturals, and version 0 is the empty `NextVersion`.
    - Each provider has one Deployment.
    - Every error return of `doUpgrade` is one action, `Fail`, which resets the locals (`Return`). It models a failed remote call and a crash alike.
    - An error before the first mutation (a wrong contract, an invalid custom plan, a failing inventory list, several instances) changes nothing. It is a stuttering step, so no action models it.
    - The sort is every arrangement of the items that is sorted by type (`UpgradeOrders`). This is exactly what an unstable sort may return.
- `MCUpgrader.tla` gives TLC the constants.
  - There are three providers: `cluster-api` (core), `kubeadm` (control plane) and `docker` (infrastructure).
  - `MCMetadata` gives every provider a version of the current contract `v1beta1`. Only the core has a `v1beta2` release, so the `v1beta2` plan is partial.
  - `MCMetadataLagging` has a provider (docker) without a `v1beta1` release.
- `UpgraderProofs.tla` holds the TLAPS proofs of type correctness.
- `UpgraderDrainProofs.tla` proves `DrainedBeforeReplace`.
- `UpgraderRolloutProofs.tla` proves the two action properties about a successful rollout, `ConsistentAfterSafeRollout` and `RecoveredByApplyPlan`.
- `ManifestsDownloader.tla` models the `downloadManifests` phase of the provider reconciler.
  - **Constants:** `Providers`, with `Kind`, `ProviderName`, `Namespace` and `HasSelector` (a custom `FetchConfig.Selector`); `Versions` and `InitVersion`; `ConcurrentReconciles`, the `MaxConcurrentReconciles` option that `alias.go` forwards.
  - **Variables:** `version` (spec.version), `store` (ConfigMaps the API server holds), `cache` (those the informer has seen), `queued` (the work queue), and per provider `pc`, `snap` (the spec.version the reconcile read) and `result`.
  - **Actions:**
    - `StartReconcile` (controller-runtime's work queue, modelled from its documented behaviour, not from code under src/): a worker takes a queued provider. Unless `ConcurrentReconciles` holds, no other provider of its kind is in a reconcile.
    - `CheckConfigMap`: the selector return (line 48), then `checkConfigMapExists` on the cached list of every namespace (`ListedConfigMaps`): more than one match is an error, one is success, none goes on to the fetch.
    - `FetchSucceeds` and `FetchFails`: the repository and its two `GetFile` calls.
    - `CreateConfigMap`: `Create` fails with AlreadyExists when the namespace holds that name, and otherwise stores the ConfigMap.
    - `Finish`, used by every `return reconcile.Result{}, err` of `downloadManifests`: an error requeues the provider.
    - `SetVersion` (a user edit, which queues the provider) and `CacheSync` (the informer delivers a stored ConfigMap) are the environment.
  - **Abstraction:** a ConfigMap is its name, namespace and labels. Its name is the tuple `<<type, name, version>>`, which `fmt.Sprintf` joins with dashes; the tuple is as injective as the string is for the names in the runs. The data and the owner reference are left out.
- `MCManifestsDownloader.tla` gives TLC two instances: docker and aws (infrastructure, aws with a selector), and `capiA`/`capiB` (two core providers named `cluster-api` in `ns-a` and `ns-b`).
- `ManifestsDownloaderProofs.tla` holds its TLAPS proofs.

## 3. Runs

Every run uses these bounds:
- 3 providers, versions 1..3 and 3 contracts;
- `Replicas = 1`, `MaxWaitSteps = 2`;
- requests of up to 2 items, which may name a provider twice and include a provider that is not installed.

These bounds are enough for the cases that matter:
- Two versions per contract let a plan be partial or not.
- Three contracts give a contract change and a plan that `Plan()` drops.
- Two wait steps give a wait that succeeds after a retry and a wait that times out.
- Two-item requests reach the duplicate item.
- The initial states are every combination of installed versions and webhook namespace, including mixed-contract fleets.

| Run | cfg | Expect | What it shows |
|---|---|---|---|
| upgrader_pass | MCUpgrader.cfg | pass (about 790k distinct states) | `TypeOK`; `DrainedBeforeReplace`: while components are replaced, every planned provider not yet re-created runs no pod; `ConsistentAfterSafeRollout`: a successful rollout of a validated custom plan, or of a plan `Plan()` lists for a consistent fleet, leaves every provider on the plan's contract |
| upgrader_lagging | MCUpgraderLagging.cfg | violation | `ConsistentAfterRollout`, spec §3 for a rollout that starts from a fleet on one contract, fails for `ApplyPlan`: from a fleet all on `v1alpha4`, `ApplyPlan(v1beta1)` builds a plan in which docker has no `v1beta1` release. `Plan()` drops such a partial, contract-changing plan (upgrader.go:142-145); `ApplyPlan` rolls it out and ends with cluster-api and kubeadm on `v1beta1` and docker on `v1alpha4` |
| upgrader_noop | MCUpgraderNoOp.cfg | violation | spec §8 idempotence fails: a custom item naming the installed version drains, deletes and reinstalls the provider |
| upgrader_orphans | MCUpgraderOrphans.cfg | violation | the guarantee in the comment at upgrader.go:363-366 fails: the request names `cluster-api` twice, so the second Delete removes a running, undrained Deployment and the next install runs beside its pods |
| upgrader_retry | MCUpgraderRetry.cfg | pass (about 4.7k states) | `RecoveredByApplyPlan`: when only `ApplyPlan` is used, a successful rollout leaves every provider with a Deployment at full scale, however earlier rollouts stopped after a drain, a delete or an install. It covers the deleted-not-reinstalled state that spec §4.4 (Phase B) calls recoverable by retry, and goes beyond the spec for the drained state, which §5 leaves to the operator as manually recoverable |
| downloader_pass | MCManifestsDownloader.cfg | pass (about 4k states) | `DownloadedWhenOk`: an ok result of a provider without a selector means a ConfigMap named for the version it reconciled is stored; `EventuallyDownloaded`: every such provider gets past the phase with ok again and again, however the user switches versions |
| downloader_shared | MCManifestsDownloaderShared.cfg | pass (about 170k states) | `DownloadedWhenOk` for the twin core providers reconciled concurrently, where the check may find the other namespace's ConfigMap and duplicates arise |
| downloader_twins | MCManifestsDownloaderTwins.cfg | violation | `EventuallyDownloaded` fails even with reconciles serialized: while the cache lags, capiA creates its ConfigMap in ns-a and capiB creates one in ns-b; every later check of capiB lists both and fails with "more than one config maps", forever. The twins are two core providers; the preflight phase, which runs before this one and is not under src/, may refuse a second core provider. The downloader itself only compares type, name and version labels, so the trace applies to any two providers of one type and name that preflight admits |

The downloader runs use two versions, enough for a version switch during a reconcile and for switching back to a version whose ConfigMap exists. One provider per instance has no selector or both are twins: this is enough for every branch, and keeps the liveness check small.

`DrainedBeforeReplace` holds, while `NoOldPodsAtInstall` fails. The drain does its job for every Deployment that existed when the rollout started. The gap is the Deployment the rollout itself created.

Each property of the passing run has a mutant that TLC kills:
- `WaitScaledDownUnbounded`, a wait with no step bound, breaks `TypeOK`.
- `WaitScaledDownOnSpec`, a wait that reads spec instead of status replicas, breaks `DrainedBeforeReplace`.
- `CustomPlanValidNoLagCheck`, `createCustomPlan` without the lagging-provider loop, breaks `ConsistentAfterSafeRollout`.
- `ConfigMapLabelsNoVersion`, labels without the version label, breaks `DownloadedWhenOk` in both downloader runs: after a version switch the old version's ConfigMap satisfies the check.
- `ScaleDownProviderAll`, a scale-down loop that does not skip items without a next version, breaks `RecoveredByApplyPlan`: an up-to-date provider is drained and never reinstalled.
- `ConfigMapNameNoVersion`, a name without the version, breaks `EventuallyDownloaded`: the new version's Create fails with AlreadyExists forever.

**Fairness.** The upgrader assumes none: the user, the failures and the Deployment controller are all unfair, and its properties are safety properties.
The downloader's `EventuallyDownloaded` assumes what controller-runtime provides:
- strong fairness of `StartReconcile`: the work queue hands every queued provider to a worker, even when a reconcile of its kind keeps it waiting from time to time;
- weak fairness of `CheckConfigMap` and `CreateConfigMap`: a started reconcile runs on;
- weak fairness of `CacheSync`: the informer catches up with the API server;
- strong fairness of `FetchSucceeds`: a repository that is retried infinitely often answers some time. Without it a fetch could fail forever.
The user's `SetVersion` is unfair.

**Deadlock.** It is checked. The system can always take a step: a rollout can always fail, and at Idle a rollout can always start (for example an ApplyPlan of the current contract).

## 4. Proofs

`UpgraderProofs.tla` proves `THEOREM TypeCorrect == Spec => []TypeOK`. It holds for every value of the constants allowed by `ConstantsAssumption`:
- `Providers` is finite and typed;
- the metadata maps versions in `1..MaxVersion` to contracts;
- `Replicas` and `MaxWaitSteps` are positive.

`TypeOK` alone is not inductive. `UpdateInventory` writes the plan's next version into the inventory, and `TypeOK` says nothing about the plan's versions. The proof therefore uses a strengthening, `IInv`. Its conjuncts are:
1. `TypeOK`;
2. `ItemsOK(plan.items)`: every next version in the plan is a version the provider publishes;
3. in WaitScaledDown, Delete, Install and UpdateInventory, `idx` points into the plan;
4. in Delete, Install and UpdateInventory, the current item has a next version.

`IInvInvariant` proves `Init => IInv`, and that every action preserves `IInv`, with one step per action. These lemmas support it:
- `MaxExists`: a bounded non-empty set of naturals has a maximum, so the `CHOOSE` of `LatestNextVersion` picks a value. It is proved from the well-foundedness of `<` on `Nat` (`WFMin`), with no induction.
- `LatestNextVersionType`, `ProviderListType`, `UpgradePlanItemsType`, `UpgradeOrdersType` and `CustomRequestType`: the plans that `ApplyPlan` and `ApplyCustomPlan` hand to `doUpgrade` consist of typed items that satisfy `ItemsOK`.

`ManifestsDownloaderProofs.tla` proves `THEOREM DownloadedWhenOkInvariant == Spec => []DownloadedWhenOk` and `TypeCorrect`, for every value of the constants allowed by `DownloaderAssumption`. The inductive invariant adds `StoreBuilt` to `TypeOK` and the property: every stored ConfigMap is `ManifestsConfigMap(q, v)` for some provider and version. It is needed for the path where the check finds one ConfigMap. The found ConfigMap may belong to another provider in another namespace. Since its labels equal the reconciled provider's, `LabelsDetermineName` shows it has the right name.

`UpgraderDrainProofs.tla` proves `THEOREM DrainedBeforeReplaceInvariant == Spec => []DrainedBeforeReplace`. It holds for every value of the constants. `DrainedBeforeReplace` is not inductive: it says nothing about the scale-down loop, which sets up the replace phase. The strengthening `DInv` (checked first by TLC on the upgrader_pass instance) has four conjuncts:
1. `DeletedDrained`: a Deployment without a version, i.e. deleted, has spec and status replicas 0.
2. `ScaleDownDrained`: in the scale-down loop nothing is re-created yet, and every item before `idx` with a next version has a drained provider (spec and status 0).
3. `WaitOnScaledDown`: the wait is always for a Deployment with spec 0.
4. `ReplaceDrained`: in the replace loop every planned provider not re-created is drained.

The key fact is that the Deployment controller cannot touch a drained Deployment, because its status already equals its spec. `EndScaleDown` turns conjunct 2 (at `idx > Len`) into conjunct 4. The proof takes the proved `IInv` as a hypothesis, in both the current and the next state, for the types.

`UpgraderRolloutProofs.tla` proves the two action properties about what a rollout that returns nil leaves behind. Both need an invariant about the plan, which is fixed when `doUpgrade` starts. `THEOREM PlanInvInvariant == Spec => []PlanInv` proves it inductive. Its conjuncts are:
1. `RolloutEntry`: a running rollout came from `ApplyPlan` or `ApplyCustomPlan`.
2. `ScaleDownInventory`: the scale-down loop leaves the inventory as it was when the rollout started.
3. `WebhookAfterLoop`: the webhook namespace is deleted only after the last item.
4. `ApplyPlanShape`: the sorted `getUpgradePlan` has one item per provider (every provider, no provider twice), each with its latest next version of the current contract.
5. `CustomPlanShape`: each item of a custom plan names a version of the target contract, every provider a request leaves out was on that contract, and the plan has at most `MaxCustomItems` items.

The lemmas for `DoUpgrade` are `ApplyOrderShape` and `CustomOrderShape`: a sort is a bijection of positions, so it keeps the items and the providers they name. `LatestNextVersionOf`, built on `MaxExists`, shows that a next version `getLatestNextVersion` returns is of the contract asked for.

- **`THEOREM ConsistentAfterSafeRolloutHolds == Spec => ConsistentAfterSafeRollout`**, for every value of the constants. The inductive invariant `CInv` says that in the replace loop of a safe rollout every provider is either on the plan's contract or has an item with a next version at or after `idx`.
  - It is established at `EndScaleDown`. A provider without such an item is either left out of a custom plan, and `createCustomPlan` checked it, or it has an `ApplyPlan` item without a next version. In the second case the plan is partial, so `Plan()` lists it only for the core's contract, which a consistent fleet is on.
  - `UpdateInventory` moves the current provider onto the contract.
  - At `DeleteWebhook`, `idx = Len + 1`, so no provider is left ahead of the loop.
- **`THEOREM RecoveredByApplyPlanHolds`**, `ASSUME MaxCustomItems = 0 PROVE Spec => RecoveredByApplyPlan`. The hypothesis is that users call only `ApplyPlan` (custom requests of no items). Custom requests are left out because a custom item naming an installed version drains and reinstalls that provider (the upgrader_noop finding); a rollout of it that stops after the drain is repaired by re-running that request, not by `ApplyPlan`, which skips the up-to-date provider. The inductive invariant `RInv` has four conjuncts:
  1. `StrandedPending`: every provider whose Deployment is deleted or scaled down has a next version of the current contract in `getUpgradePlan`. An interrupted `ApplyPlan` rollout drained or deleted it only because its item had one, and its inventory entry has not moved since.
  2. `StrandedUpcoming`: in the replace loop of `ApplyPlan`, every such provider has an item ahead of the loop.
  3. `InstalledRunning`: the Deployment just installed runs at full scale.
  4. `AheadUntouched`: the loop has not touched the inventory of the providers ahead of it. This uses the fact that `ApplyPlan` lists each provider once.

Before being proved, `PlanInv`, `CInv` and `RInv` were checked by TLC as invariants on the upgrader_pass and upgrader_retry instances.

What stays with TLC:
- `EventuallyDownloaded`, a liveness property under fairness: the provers do not reason about fairness or `ENABLED`.
- The violation runs, which are counterexamples, not theorems.

## 5. Not modelled

- **`Plan()`'s presentation:** the order and content of the list it returns. Only the set of contracts it returns is modelled.
- **Logging and error wording.**
- **The retry of the scale-down write** (`newWriteBackoff`): its conflicts are hidden behind `Fail`.
- **Concurrent rollouts:** spec §5 makes callers serialize them.
- **Several instances of a provider:** these enter only through `SingleProviderInstance`.
  - The multi-instance guard in `doUpgrade` (upgrader.go:350-355) runs for the current contract. Its comment, and spec §4.4, say it should run for the legacy contract.
  - Neither `ApplyPlan` nor `createCustomPlan` lets another contract reach `doUpgrade`, so the guard runs on every rollout that gets that far.
- **The downloader's ConfigMap data and owner reference:** no property reads them. Neither does the garbage collection of a ConfigMap whose owner is deleted.
- **Liveness of the upgrader:** no fairness is justified for a CLI that the user may stop.
- **`alias.go`:** it only forwards `SetupWithManager` options and has no state. The option it forwards is the constant `ConcurrentReconciles` of `ManifestsDownloader`; the work queue it wires up is controller-runtime's, modelled as `StartReconcile`.
- **Concurrent rollouts of the upgrader** (the stale-state hazard at upgrader.go:161): spec §5 makes serializing them the caller's job. Modelling two rollouts would check a configuration the code says it does not support.

## 6. Plan for the following sittings

1. **Downloader, further.** Compose the downloader with the later phases of the reconciler (load, install, delete), and model the deletion of a provider with its owned ConfigMap.
2. **Retries, further.** `RecoveredByApplyPlan` is a safety property over successful rollouts. A liveness form ("with finitely many failures, a retried ApplyPlan eventually succeeds") needs fairness of the Deployment controller.
3. **Refinement of the upgrader.** An abstract rollout spec (an atomic switch of the fleet to the target versions, plus failure states), with `Upgrader` shown to implement it under a refinement mapping that hides the drain.
4. **Proofs.** Every property of the passing runs except the liveness property `EventuallyDownloaded` is now proved. The next proof goal is the refinement of the upgrader of item 3.
