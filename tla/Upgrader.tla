------------------------------ MODULE Upgrader ------------------------------
(***************************************************************************)
(* The provider upgrader of clusterctl, vendored by cluster-api-operator   *)
(* (cmd/clusterctl/client/cluster/upgrader.go).  It plans upgrades of the  *)
(* providers of a management cluster (Plan), validates user requests       *)
(* (createCustomPlan) and rolls a plan out (doUpgrade): scale every        *)
(* provider to be upgraded down to zero and wait for its pods to go, then  *)
(* for each provider in type order fetch the new components, delete the   *)
(* old ones (keeping CRDs, namespace and inventory), install the new ones  *)
(* and record the new version in the inventory.                            *)
(*                                                                         *)
(* Data is abstract: a version is a natural number ordered like semver,   *)
(* the release metadata of a provider maps each published version to the *)
(* contract of its release series, a provider runs one Deployment.  Every *)
(* remote call of a rollout may fail, and the clusterctl process may die  *)
(* between any two of them: both end the rollout where it stands (Fail).  *)
(***************************************************************************)
EXTENDS Naturals, Sequences, FiniteSets, Functions

CONSTANTS
    Providers,        \* provider instances listed by the inventory
    ProviderType,     \* [Providers -> ProviderTypes]
    ProviderName,     \* instances with one name are instances of one provider
    MaxVersion,       \* the newest version a user may name (model bound)
    Contracts,        \* API versions of Cluster API (contracts)
    CurrentContract,  \* clusterv1.GroupVersion.Version
    Metadata,         \* Metadata[p][v]: contract of the release series of v
    Replicas,         \* replicas of a provider Deployment as installed
    MaxWaitSteps,     \* deploymentScaleToZeroBackOff.Steps
    MaxCustomItems,   \* longest upgrade request a user makes (model bound)
    NotInFleet        \* a provider instance the inventory does not list

ProviderTypes ==
    {"CoreProviderType", "BootstrapProviderType",
     "ControlPlaneProviderType", "InfrastructureProviderType"}

\* ProviderType.Order(): Core, Bootstrap, ControlPlane, Infrastructure.
TypeOrder ==
    [t \in ProviderTypes |->
        CASE t = "CoreProviderType"         -> 0
          [] t = "BootstrapProviderType"    -> 1
          [] t = "ControlPlaneProviderType" -> 2
          [] t = "InfrastructureProviderType" -> 3]

\* versionTag(nil) = "": an upgrade item without a next version.
NoNextVersion == 0

\* The versions a user may name; NoNextVersion is none of them.
Versions == 1..MaxVersion

ASSUME ConstantsAssumption ==
    /\ IsFiniteSet(Providers)
    /\ ProviderType \in [Providers -> ProviderTypes]
    /\ MaxVersion \in Nat
    /\ CurrentContract \in Contracts
    /\ \A p \in Providers :
          /\ DOMAIN Metadata[p] \subseteq Versions
          /\ \A v \in DOMAIN Metadata[p] : Metadata[p][v] \in Contracts
    /\ Replicas \in Nat \ {0}
    /\ MaxWaitSteps \in Nat \ {0}
    /\ MaxCustomItems \in Nat
    /\ NotInFleet \notin Providers

-----------------------------------------------------------------------------
(* Release metadata and the upgrade info of a provider.                    *)

\* The versions whose release series the provider's metadata knows.
Published(p) == DOMAIN Metadata[p]

\* getProviderContractByVersion: fails unless a release series matches v.
HasReleaseSeries(p, v) == v \in Published(p)
ContractOf(p, v) == Metadata[p][v]

\* upgradeInfo.nextVersions: the published versions newer than the current.
NextVersions(p, cur) == {v \in Published(p) : v > cur}

\* upgradeInfo.getLatestNextVersion(contract)
LatestNextVersion(p, cur, c) ==
    LET candidates == {v \in NextVersions(p, cur) : ContractOf(p, v) = c}
    IN  IF candidates = {} THEN NoNextVersion
        ELSE CHOOSE v \in candidates : \A w \in candidates : w <= v

\* upgradeInfo.getContractsForUpgrade: the current contract and newer ones.
ContractsForUpgrade(p, cur) ==
    {ContractOf(p, cur)} \cup {ContractOf(p, v) : v \in NextVersions(p, cur)}

\* getUpgradeInfo fails for a provider whose version matches no series.
UpgradeInfoAvailable(inv) == \A p \in Providers : HasReleaseSeries(p, inv[p])

\* providerList.FilterCore()
CoreProviders == {p \in Providers : ProviderType[p] = "CoreProviderType"}
TheCore == CHOOSE p \in CoreProviders : TRUE

\* inventory.CheckSingleProviderInstance
SingleProviderInstance ==
    \A p, q \in Providers : ProviderName[p] = ProviderName[q] => p = q

-----------------------------------------------------------------------------
(* Plans.                                                                  *)

Item == [provider : Providers, next : Versions \cup {NoNextVersion}]
Request == [provider : Providers \cup {NotInFleet}, next : Versions]

\* The order in which the inventory lists the providers.
ProviderList == CHOOSE f \in Bijection(1..Cardinality(Providers), Providers) : TRUE

\* getUpgradePlan(providers, contract): one item per provider.
UpgradePlanItems(inv, c) ==
    [i \in 1..Cardinality(Providers) |->
        [provider |-> ProviderList[i],
         next     |-> LatestNextVersion(ProviderList[i], inv[ProviderList[i]], c)]]

\* UpgradePlan.isPartialUpgrade
IsPartialUpgrade(items) == \E i \in DOMAIN items : items[i].next = NoNextVersion

\* Plan(): the contracts of the plans it returns; none when it fails.  The
\* plan for a contract other than the core's current one is dropped when
\* partial.
PlanContracts(inv) ==
    IF Cardinality(CoreProviders) # 1 \/ ~UpgradeInfoAvailable(inv) THEN {}
    ELSE {c \in ContractsForUpgrade(TheCore, inv[TheCore]) :
            ~(/\ IsPartialUpgrade(UpgradePlanItems(inv, c))
              /\ ContractOf(TheCore, inv[TheCore]) # c)}

\* createCustomPlan: the core's target version is the first request for
\* the core, or its current version.
CoreTargetVersion(req, inv) ==
    LET js == {j \in DOMAIN req : req[j].provider = TheCore}
    IN  IF js = {} THEN inv[TheCore]
        ELSE req[CHOOSE j \in js : \A k \in js : j <= k].next

CustomTargetContract(req, inv) == ContractOf(TheCore, CoreTargetVersion(req, inv))

\* Mutant: createCustomPlan without the check for lagging providers.
CustomPlanValidNoLagCheck(req, inv) ==
    /\ Cardinality(CoreProviders) = 1
    /\ HasReleaseSeries(TheCore, CoreTargetVersion(req, inv))
    /\ CustomTargetContract(req, inv) = CurrentContract
    /\ \A j \in DOMAIN req :
          /\ req[j].provider \in Providers
          /\ HasReleaseSeries(req[j].provider, req[j].next)
          /\ ContractOf(req[j].provider, req[j].next) = CustomTargetContract(req, inv)

\* createCustomPlan succeeds: one core, a supported target contract, every
\* item a provider of the cluster moving to a version of that contract, and
\* every provider left out already on it.
CustomPlanValid(req, inv) ==
    /\ Cardinality(CoreProviders) = 1
    /\ HasReleaseSeries(TheCore, CoreTargetVersion(req, inv))
    /\ CustomTargetContract(req, inv) = CurrentContract
    /\ \A j \in DOMAIN req :
          /\ req[j].provider \in Providers
          /\ HasReleaseSeries(req[j].provider, req[j].next)
          /\ ContractOf(req[j].provider, req[j].next) = CustomTargetContract(req, inv)
    /\ \A p \in Providers \ {req[j].provider : j \in DOMAIN req} :
          /\ HasReleaseSeries(p, inv[p])
          /\ ContractOf(p, inv[p]) = CustomTargetContract(req, inv)

\* sort.Slice by type order; it is not stable, so items of one type may
\* come in any order.
SortedByType(s) ==
    \A i, j \in DOMAIN s :
        i < j => TypeOrder[ProviderType[s[i].provider]]
                    <= TypeOrder[ProviderType[s[j].provider]]
UpgradeOrders(s) ==
    {t \in {[i \in DOMAIN s |-> s[f[i]]] : f \in Bijection(DOMAIN s, DOMAIN s)} :
        SortedByType(t)}

-----------------------------------------------------------------------------
(* State.                                                                  *)

VARIABLES
    inventory,        \* the inventory record's version of each provider
    deployment,       \* each provider's Deployment: version (0: none), spec
                      \* replicas and status replicas (running pods)
    orphans,          \* pods of a deleted Deployment of the provider run on
    webhookNamespace, \* the capi-webhook-system namespace exists
    pc,               \* where doUpgrade is, "Idle" when no rollout runs
    plan,             \* the UpgradePlan being rolled out (sorted)
    idx,              \* the item of plan.Providers the loop is at
    waitSteps,        \* failed polls of the scale-to-zero wait so far
    \* history of the running rollout, read by the properties only
    entry,            \* "apply" (ApplyPlan) or "custom" (ApplyCustomPlan)
    startInventory,   \* the inventory when the rollout started
    fresh             \* providers whose new Deployment this rollout created

cluster == <<inventory, deployment, orphans, webhookNamespace>>
upgrader == <<pc, plan, idx, waitSteps>>
history == <<entry, startInventory, fresh>>
vars == <<cluster, upgrader, history>>

Phases == {"Idle", "ScaleDown", "WaitScaledDown", "Fetch", "Delete",
           "Install", "UpdateInventory", "DeleteWebhook"}

Deployment == [version : Versions \cup {NoNextVersion},
               spec : 0..Replicas, status : 0..Replicas]

NoDeployment == [version |-> NoNextVersion, spec |-> 0, status |-> 0]

NoPlan == [contract |-> CurrentContract, items |-> <<>>]

Init ==
    /\ inventory \in {f \in [Providers -> Versions] :
                        \A p \in Providers : f[p] \in Published(p)}
    /\ deployment = [p \in Providers |->
                        [version |-> inventory[p], spec |-> Replicas,
                         status |-> Replicas]]
    /\ orphans = [p \in Providers |-> FALSE]
    /\ webhookNamespace \in BOOLEAN
    /\ pc = "Idle"
    /\ plan = NoPlan
    /\ idx = 1
    /\ waitSteps = 0
    /\ entry = "none"
    /\ startInventory = inventory
    /\ fresh = {}

-----------------------------------------------------------------------------
(* Commands.  An error return before doUpgrade mutates anything (a         *)
(* contract other than the current one, a failing inventory list or        *)
(* metadata fetch, an invalid custom plan, several instances of a         *)
(* provider) changes no state: it is a stuttering step.                    *)

\* doUpgrade up to its first loop: the single-instance check for the
\* current contract, then the sort.
DoUpgrade(kind, c, items) ==
    /\ c = CurrentContract => SingleProviderInstance
    /\ \E order \in UpgradeOrders(items) :
          plan' = [contract |-> c, items |-> order]
    /\ pc' = "ScaleDown"
    /\ idx' = 1
    /\ waitSteps' = 0
    /\ entry' = kind
    /\ startInventory' = inventory
    /\ fresh' = {}
    /\ UNCHANGED cluster

\* ApplyPlan(contract)
ApplyPlan(c) ==
    /\ pc = "Idle"
    /\ c = CurrentContract
    /\ UpgradeInfoAvailable(inventory)
    /\ DoUpgrade("apply", c, UpgradePlanItems(inventory, c))

\* ApplyCustomPlan(items...)
ApplyCustomPlan(req) ==
    /\ pc = "Idle"
    /\ CustomPlanValid(req, inventory)
    /\ DoUpgrade("custom", CustomTargetContract(req, inventory), req)

-----------------------------------------------------------------------------
(* The rollout (doUpgrade).                                                *)

Current == plan.items[idx]

\* doUpgrade returns: its locals are gone.
Return ==
    /\ pc' = "Idle"
    /\ plan' = NoPlan
    /\ idx' = 1
    /\ waitSteps' = 0
    /\ entry' = "none"
    /\ startInventory' = inventory
    /\ fresh' = {}

\* Both loops skip an item without a next version.
SkipUpToDate ==
    /\ pc \in {"ScaleDown", "Fetch"}
    /\ idx <= Len(plan.items)
    /\ Current.next = NoNextVersion
    /\ idx' = idx + 1
    /\ UNCHANGED <<cluster, pc, plan, waitSteps, history>>

\* Mutant: the scale-down loop does not skip items without a next version.
ScaleDownProviderAll ==
    /\ pc = "ScaleDown"
    /\ idx <= Len(plan.items)
    /\ LET p == Current.provider IN
       \/ /\ deployment[p].version = NoNextVersion
          /\ idx' = idx + 1
          /\ UNCHANGED <<cluster, pc, waitSteps>>
       \/ /\ deployment[p].version # NoNextVersion
          /\ deployment' = [deployment EXCEPT ![p].spec = 0]
          /\ pc' = "WaitScaledDown"
          /\ waitSteps' = 0
          /\ UNCHANGED <<inventory, orphans, webhookNamespace, idx>>
    /\ UNCHANGED <<plan, history>>

\* scaleDownProvider: list the provider's Deployments; scaleDownDeployment
\* sets spec replicas to 0 (at once if already 0) and starts waiting.
ScaleDownProvider ==
    /\ pc = "ScaleDown"
    /\ idx <= Len(plan.items)
    /\ Current.next # NoNextVersion
    /\ LET p == Current.provider IN
       \/ /\ deployment[p].version = NoNextVersion
          /\ idx' = idx + 1
          /\ UNCHANGED <<cluster, pc, waitSteps>>
       \/ /\ deployment[p].version # NoNextVersion
          /\ deployment' = [deployment EXCEPT ![p].spec = 0]
          /\ pc' = "WaitScaledDown"
          /\ waitSteps' = 0
          /\ UNCHANGED <<inventory, orphans, webhookNamespace, idx>>
    /\ UNCHANGED <<plan, history>>

\* Mutant: the wait retries without a bound.
WaitScaledDownUnbounded ==
    /\ pc = "WaitScaledDown"
    /\ LET p == Current.provider IN
       \/ /\ deployment[p].status = 0
          /\ pc' = "ScaleDown"
          /\ idx' = idx + 1
          /\ UNCHANGED <<plan, waitSteps, history>>
       \/ /\ deployment[p].status # 0
          /\ waitSteps' = waitSteps + 1
          /\ UNCHANGED <<pc, plan, idx, history>>
    /\ UNCHANGED cluster

\* Mutant: the wait reads spec replicas instead of status replicas.
WaitScaledDownOnSpec ==
    /\ pc = "WaitScaledDown"
    /\ LET p == Current.provider IN
       /\ deployment[p].spec = 0
       /\ pc' = "ScaleDown"
       /\ idx' = idx + 1
       /\ UNCHANGED <<plan, waitSteps, history>>
    /\ UNCHANGED cluster

\* One poll of the wait for status replicas 0; MaxWaitSteps failed polls
\* end the rollout with an error.
WaitScaledDown ==
    /\ pc = "WaitScaledDown"
    /\ LET p == Current.provider IN
       \/ /\ deployment[p].status = 0
          /\ pc' = "ScaleDown"
          /\ idx' = idx + 1
          /\ UNCHANGED <<plan, waitSteps, history>>
       \/ /\ deployment[p].status # 0
          /\ waitSteps + 1 < MaxWaitSteps
          /\ waitSteps' = waitSteps + 1
          /\ UNCHANGED <<pc, plan, idx, history>>
       \/ /\ deployment[p].status # 0
          /\ waitSteps + 1 = MaxWaitSteps
          /\ Return
    /\ UNCHANGED cluster

EndScaleDown ==
    /\ pc = "ScaleDown"
    /\ idx > Len(plan.items)
    /\ pc' = "Fetch"
    /\ idx' = 1
    /\ UNCHANGED <<cluster, plan, waitSteps, history>>

\* getUpgradeComponents
FetchComponents ==
    /\ pc = "Fetch"
    /\ idx <= Len(plan.items)
    /\ Current.next # NoNextVersion
    /\ pc' = "Delete"
    /\ UNCHANGED <<cluster, plan, idx, waitSteps, history>>

\* providerComponents.Delete keeping CRDs, namespace and inventory: pods
\* the Deployment still had are left to terminate on their own.
DeleteProvider ==
    /\ pc = "Delete"
    /\ LET p == Current.provider IN
       /\ deployment' = [deployment EXCEPT ![p] = NoDeployment]
       /\ orphans' = [orphans EXCEPT ![p] = @ \/ deployment[p].status > 0]
    /\ pc' = "Install"
    /\ UNCHANGED <<inventory, webhookNamespace, plan, idx, waitSteps, history>>

\* installComponentsAndUpdateInventory: create the components ...
InstallComponents ==
    /\ pc = "Install"
    /\ LET p == Current.provider IN
       /\ deployment' = [deployment EXCEPT
                           ![p] = [version |-> Current.next,
                                   spec |-> Replicas, status |-> 0]]
       /\ fresh' = fresh \cup {p}
    /\ pc' = "UpdateInventory"
    /\ UNCHANGED <<inventory, orphans, webhookNamespace, plan, idx, waitSteps,
                   entry, startInventory>>

\* ... then record the new version in the inventory.
UpdateInventory ==
    /\ pc = "UpdateInventory"
    /\ inventory' = [inventory EXCEPT ![Current.provider] = Current.next]
    /\ pc' = "Fetch"
    /\ idx' = idx + 1
    /\ UNCHANGED <<deployment, orphans, webhookNamespace, plan, waitSteps,
                   history>>

\* After the last item: the webhook namespace goes for the current contract,
\* the only contract ApplyPlan and createCustomPlan let reach doUpgrade.
EndReplace ==
    /\ pc = "Fetch"
    /\ idx > Len(plan.items)
    /\ plan.contract = CurrentContract
    /\ pc' = "DeleteWebhook"
    /\ UNCHANGED <<cluster, plan, idx, waitSteps, history>>

DeleteWebhookNamespace ==
    /\ pc = "DeleteWebhook"
    /\ webhookNamespace' = FALSE
    /\ Return
    /\ UNCHANGED <<inventory, deployment, orphans>>

\* A remote call of the rollout returns an error, or clusterctl dies: the
\* rollout ends where it stands, nothing is undone.
Fail ==
    /\ pc # "Idle"
    /\ Return
    /\ UNCHANGED cluster

\* doUpgrade returns nil.
RolloutSucceeds == DeleteWebhookNamespace

-----------------------------------------------------------------------------
(* The cluster: the Deployment controller and pod termination.             *)

DeploymentController(p) ==
    /\ deployment[p].version # NoNextVersion
    /\ deployment[p].status # deployment[p].spec
    /\ deployment' = [deployment EXCEPT
                        ![p].status = IF @ < deployment[p].spec THEN @ + 1
                                                                ELSE @ - 1]
    /\ UNCHANGED <<inventory, orphans, webhookNamespace, upgrader, history>>

\* The garbage collector has removed the last pod of deleted Deployments.
OrphansTerminated(p) ==
    /\ orphans[p]
    /\ orphans' = [orphans EXCEPT ![p] = FALSE]
    /\ UNCHANGED <<inventory, deployment, webhookNamespace, upgrader, history>>

Requests == UNION {[1..n -> Request] : n \in 0..MaxCustomItems}

Next ==
    \/ \E c \in Contracts : ApplyPlan(c)
    \/ \E req \in Requests : ApplyCustomPlan(req)
    \/ SkipUpToDate \/ ScaleDownProvider \/ WaitScaledDown \/ EndScaleDown
    \/ FetchComponents \/ DeleteProvider \/ InstallComponents
    \/ UpdateInventory \/ EndReplace \/ DeleteWebhookNamespace
    \/ Fail
    \/ \E p \in Providers : DeploymentController(p) \/ OrphansTerminated(p)

Spec == Init /\ [][Next]_vars

-----------------------------------------------------------------------------
(* Properties.                                                             *)

TypeOK ==
    /\ inventory \in [Providers -> Versions]
    /\ \A p \in Providers : inventory[p] \in Published(p)
    /\ deployment \in [Providers -> Deployment]
    /\ orphans \in [Providers -> BOOLEAN]
    /\ webhookNamespace \in BOOLEAN
    /\ pc \in Phases
    /\ plan \in [contract : Contracts, items : Seq(Item)]
    /\ idx \in 1..(Len(plan.items) + 1)
    /\ waitSteps \in 0..(MaxWaitSteps - 1)
    /\ entry \in {"none", "apply", "custom"}
    /\ startInventory \in [Providers -> Versions]
    /\ fresh \subseteq Providers

\* The providers the rollout upgrades.
Planned == {plan.items[i].provider :
              i \in {j \in DOMAIN plan.items : plan.items[j].next # NoNextVersion}}

\* A pod of the provider runs: one of its Deployment or of a deleted one.
HasPods(p) == deployment[p].status > 0 \/ orphans[p]

ReplacePhases == {"Fetch", "Delete", "Install", "UpdateInventory"}

\* doUpgrade scales all providers down before it deletes and re-creates any
\* (upgrader.go:363-381): while it replaces components, every provider it
\* upgrades and has not yet re-created runs no pod, so no old pod answers a
\* conversion webhook call next to a new Deployment.
DrainedBeforeReplace ==
    pc \in ReplacePhases =>
        \A q \in Planned \ fresh : deployment[q].status = 0

\* The comment of doUpgrade (upgrader.go:364-366): all pods of all old
\* Deployments of the providers it upgrades are gone before it creates a
\* new Deployment; only new Deployments of other providers may run.
NoOldPodsAtInstall ==
    pc = "Install" =>
        \A q \in Planned :
            HasPods(q) => q \in fresh /\ q # Current.provider

\* Every provider of the inventory is on contract c.
FleetConsistent(inv, c) == \A p \in Providers : ContractOf(p, inv[p]) = c

\* The contract of the core provider.
CoreContract(inv) == ContractOf(TheCore, inv[TheCore])

\* A rollout that succeeds leaves every provider on the plan's contract when
\* it rolls out a custom plan (createCustomPlan checks every item and every
\* provider left out), or a plan that Plan() lists for a fleet that was on
\* one contract (Plan drops partial plans that change the contract).
SafeRolloutConsistent ==
    /\ RolloutSucceeds
    /\ \/ entry = "custom"
       \/ /\ FleetConsistent(startInventory, CoreContract(startInventory))
          /\ plan.contract \in PlanContracts(startInventory)
    => FleetConsistent(inventory', plan.contract)

ConsistentAfterSafeRollout == [][SafeRolloutConsistent]_vars

\* Spec, section 3: a rollout that starts from a fleet on one contract and
\* succeeds under a plan with contract C leaves every provider's installed
\* contract at C, whichever entry point (ApplyPlan or ApplyCustomPlan)
\* built the plan.
ConsistentAfterRollout ==
    [][RolloutSucceeds /\ FleetConsistent(startInventory, CoreContract(startInventory))
         => FleetConsistent(inventory', plan.contract)]_vars

\* Every provider runs a Deployment that is not scaled down.
FleetRunning ==
    \A p \in Providers : /\ deployment[p].version # NoNextVersion
                         /\ deployment[p].spec = Replicas

\* Spec, section 4.4 (Phase B) calls a provider deleted but not reinstalled
\* recoverable by retry; section 5 leaves providers drained by a stopped
\* rollout to the operator.  This asks more of the code: when a later
\* ApplyPlan rollout (upgrader.go:152-173) succeeds, no provider is left
\* without a Deployment (Phase B) or scaled down to zero (Phase A) by an
\* earlier interrupted rollout.
RecoveredByApplyPlan ==
    [][RolloutSucceeds /\ entry = "apply" => FleetRunning]_vars

\* Spec, section 8: a rollout of a plan whose every item names the version
\* already installed is a no-op: no drain, delete or install.
NoOpWhenUpToDate ==
    (/\ pc # "Idle"
     /\ \A i \in DOMAIN plan.items :
           plan.items[i].next \in {NoNextVersion,
                                   startInventory[plan.items[i].provider]})
    => pc \notin {"WaitScaledDown", "Delete", "Install", "UpdateInventory"}

=============================================================================
