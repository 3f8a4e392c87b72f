------------------------ MODULE UpgraderRolloutProofs ------------------------
(***************************************************************************)
(* Proofs about what a rollout of doUpgrade leaves behind when it returns  *)
(* nil: the contract of the fleet (ConsistentAfterSafeRollout) and, for    *)
(* ApplyPlan, that no provider is left without a running Deployment       *)
(* (RecoveredByApplyPlan).  Both rest on what the plan of a running        *)
(* rollout looks like, which is fixed when doUpgrade starts.               *)
(***************************************************************************)
EXTENDS UpgraderDrainProofs

\* The provider and the next version of item i of the plan.
Prov(i) == plan.items[i].provider
NextOf(i) == plan.items[i].next

\* A rollout runs for ApplyPlan or ApplyCustomPlan.
RolloutEntry == pc # "Idle" => entry \in {"apply", "custom"}

\* Nothing is installed during the scale-down loop.
ScaleDownInventory ==
    pc \in {"ScaleDown", "WaitScaledDown"} => inventory = startInventory

\* The webhook namespace goes after the last item.
WebhookAfterLoop == pc = "DeleteWebhook" => idx = Len(plan.items) + 1

\* ApplyPlan rolls out getUpgradePlan for the current contract, sorted: one
\* item per provider, with the latest next version of that contract.
ApplyPlanShape ==
    entry = "apply" =>
        /\ plan.contract = CurrentContract
        /\ \A i \in DOMAIN plan.items :
              NextOf(i) = LatestNextVersion(Prov(i), startInventory[Prov(i)],
                                            plan.contract)
        /\ \A p \in Providers : \E i \in DOMAIN plan.items : Prov(i) = p
        /\ \A i, j \in DOMAIN plan.items : Prov(i) = Prov(j) => i = j

\* ApplyCustomPlan rolls out a request createCustomPlan accepted: every item
\* moves to a version of the target contract, every provider left out was
\* on it when the rollout started.
CustomPlanShape ==
    entry = "custom" =>
        /\ Len(plan.items) <= MaxCustomItems
        /\ \A i \in DOMAIN plan.items :
              /\ NextOf(i) # NoNextVersion
              /\ ContractOf(Prov(i), NextOf(i)) = plan.contract
        /\ \A p \in Providers \ {Prov(i) : i \in DOMAIN plan.items} :
              ContractOf(p, startInventory[p]) = plan.contract

PlanInv ==
    RolloutEntry /\ ScaleDownInventory /\ WebhookAfterLoop
    /\ ApplyPlanShape /\ CustomPlanShape

-----------------------------------------------------------------------------
(* Facts about the operators plans are built from.                         *)

\* A next version getLatestNextVersion returns is newer than the current
\* one and of the contract asked for.
LEMMA LatestNextVersionOf ==
    ASSUME NEW p \in Providers, NEW cur, NEW c,
           LatestNextVersion(p, cur, c) # NoNextVersion
    PROVE  /\ LatestNextVersion(p, cur, c) \in NextVersions(p, cur)
           /\ ContractOf(p, LatestNextVersion(p, cur, c)) = c
<1> DEFINE T == {v \in NextVersions(p, cur) : ContractOf(p, v) = c}
<1>1. T # {}
  BY DEF LatestNextVersion
<1>2. T \subseteq 1..MaxVersion
  BY ConstantsAssumption DEF NextVersions, Published, Versions
<1>3. /\ T \in SUBSET Nat
      /\ MaxVersion \in Nat
      /\ \A t \in T : t <= MaxVersion
  BY <1>2, ConstantsAssumption
<1>4. \E v \in T : \A w \in T : w <= v
  BY <1>1, <1>3, MaxExists
<1> QED
  BY <1>1, <1>4 DEF LatestNextVersion

\* The sort of ApplyPlan's getUpgradePlan keeps one item per provider and
\* each item's latest next version.
LEMMA ApplyOrderShape ==
    ASSUME NEW inv, NEW c, NEW t \in UpgradeOrders(UpgradePlanItems(inv, c))
    PROVE  /\ \A i \in DOMAIN t :
                 t[i].next = LatestNextVersion(t[i].provider,
                                               inv[t[i].provider], c)
           /\ \A p \in Providers : \E i \in DOMAIN t : t[i].provider = p
           /\ \A i, j \in DOMAIN t : t[i].provider = t[j].provider => i = j
<1> DEFINE n == Cardinality(Providers)
           s == UpgradePlanItems(inv, c)
<1>1. DOMAIN s = 1..n
  BY DEF UpgradePlanItems
<1>2. PICK f \in Bijection(1..n, 1..n) : t = [i \in 1..n |-> s[f[i]]]
  BY <1>1 DEF UpgradeOrders
<1>3. /\ f \in [1..n -> 1..n]
      /\ \A k \in 1..n : \E i \in 1..n : f[i] = k
      /\ \A i, j \in 1..n : f[i] = f[j] => i = j
  BY <1>2 DEF Bijection, Injection, Surjection, IsInjective
<1>4. /\ ProviderList \in [1..n -> Providers]
      /\ \A p \in Providers : \E k \in 1..n : ProviderList[k] = p
      /\ \A k, l \in 1..n : ProviderList[k] = ProviderList[l] => k = l
  BY ProviderListType DEF Bijection, Injection, Surjection, IsInjective
<1>5. /\ DOMAIN t = 1..n
      /\ \A i \in 1..n : t[i].provider = ProviderList[f[i]]
      /\ \A i \in 1..n :
            t[i].next = LatestNextVersion(ProviderList[f[i]],
                                          inv[ProviderList[f[i]]], c)
  BY <1>2, <1>3 DEF UpgradePlanItems
<1>6. \A p \in Providers : \E i \in DOMAIN t : t[i].provider = p
  <2> SUFFICES ASSUME NEW p \in Providers
               PROVE  \E i \in 1..n : t[i].provider = p
    BY <1>5
  <2>1. PICK k \in 1..n : ProviderList[k] = p
    BY <1>4
  <2>2. PICK i \in 1..n : f[i] = k
    BY <1>3
  <2> QED
    BY <1>5, <2>1, <2>2
<1>7. \A i, j \in DOMAIN t : t[i].provider = t[j].provider => i = j
  <2> SUFFICES ASSUME NEW i \in 1..n, NEW j \in 1..n,
                      t[i].provider = t[j].provider
               PROVE  i = j
    BY <1>5
  <2>1. f[i] \in 1..n /\ f[j] \in 1..n
    BY <1>3
  <2>2. ProviderList[f[i]] = ProviderList[f[j]]
    BY <1>5
  <2>3. f[i] = f[j]
    BY <1>4, <2>1, <2>2
  <2> QED
    BY <1>3, <2>3
<1> QED
  BY <1>5, <1>6, <1>7

\* The sort of ApplyCustomPlan keeps the request's items, and so the
\* providers they name and their number.
LEMMA CustomOrderShape ==
    ASSUME NEW n \in Nat, NEW req \in [1..n -> Request],
           NEW t \in UpgradeOrders(req)
    PROVE  /\ DOMAIN t = 1..n
           /\ \A i \in 1..n : \E j \in 1..n : t[i] = req[j]
           /\ \A j \in 1..n : \E i \in 1..n : t[i] = req[j]
<1>1. PICK f \in Bijection(1..n, 1..n) : t = [i \in 1..n |-> req[f[i]]]
  BY DEF UpgradeOrders
<1>2. /\ f \in [1..n -> 1..n]
      /\ \A k \in 1..n : \E i \in 1..n : f[i] = k
  BY <1>1 DEF Bijection, Surjection
<1> QED
  BY <1>1, <1>2

-----------------------------------------------------------------------------
(* The plan of a running rollout.                                          *)

\* A step that keeps the plan, the entry point and the start inventory
\* keeps the shape of the plan.
LEMMA PlanShapeUnchanged ==
    ASSUME PlanInv, UNCHANGED <<plan, entry, startInventory>>
    PROVE  ApplyPlanShape' /\ CustomPlanShape'
BY DEF PlanInv, ApplyPlanShape, CustomPlanShape, Prov, NextOf

\* A step that ends doUpgrade leaves no rollout behind.
LEMMA PlanInvReturn ==
    ASSUME Return
    PROVE  PlanInv'
BY DEF Return, PlanInv, RolloutEntry, ScaleDownInventory, WebhookAfterLoop,
       ApplyPlanShape, CustomPlanShape

\* ApplyPlan starts a rollout of getUpgradePlan for the current contract.
LEMMA ApplyPlanStart ==
    ASSUME NEW c \in Contracts, ApplyPlan(c)
    PROVE  PlanInv'
<1>1. PICK t \in UpgradeOrders(UpgradePlanItems(inventory, c)) :
        plan' = [contract |-> c, items |-> t]
  BY DEF ApplyPlan, DoUpgrade
<1>2. /\ c = CurrentContract /\ pc' = "ScaleDown" /\ entry' = "apply"
      /\ startInventory' = inventory /\ inventory' = inventory
  BY DEF ApplyPlan, DoUpgrade, cluster
<1>3. ApplyPlanShape'
  BY <1>1, <1>2, ApplyOrderShape DEF ApplyPlanShape, Prov, NextOf
<1> QED
  BY <1>2, <1>3 DEF PlanInv, RolloutEntry, ScaleDownInventory,
                    WebhookAfterLoop, CustomPlanShape

\* ApplyCustomPlan starts a rollout of a request createCustomPlan accepted.
LEMMA CustomPlanStart ==
    ASSUME NEW req \in Requests, ApplyCustomPlan(req)
    PROVE  PlanInv'
<1> DEFINE c == CustomTargetContract(req, inventory)
<1>1. PICK t \in UpgradeOrders(req) : plan' = [contract |-> c, items |-> t]
  BY DEF ApplyCustomPlan, DoUpgrade
<1>2. /\ pc' = "ScaleDown" /\ entry' = "custom"
      /\ startInventory' = inventory /\ inventory' = inventory
  BY DEF ApplyCustomPlan, DoUpgrade, cluster
<1>3. PICK n \in 0..MaxCustomItems : req \in [1..n -> Request]
  BY DEF Requests
<1>4. n \in Nat
  BY <1>3, ConstantsAssumption
<1>5. /\ DOMAIN t = 1..n
      /\ \A i \in 1..n : \E j \in 1..n : t[i] = req[j]
      /\ \A j \in 1..n : \E i \in 1..n : t[i] = req[j]
  BY <1>3, <1>4, CustomOrderShape
<1>6. /\ \A j \in 1..n : /\ req[j].next # NoNextVersion
                          /\ ContractOf(req[j].provider, req[j].next) = c
      /\ \A p \in Providers \ {req[j].provider : j \in 1..n} :
            ContractOf(p, inventory[p]) = c
  BY <1>3 DEF ApplyCustomPlan, CustomPlanValid, Request, Versions,
                NoNextVersion
<1>7. Len(t) = n
  <2>1. req \in [1..n -> Item] /\ ItemsOK(req)
    BY <1>3, <1>4, CustomRequestType DEF ApplyCustomPlan
  <2> QED
    BY <1>4, <2>1, UpgradeOrdersType
<1>8. /\ Len(plan'.items) <= MaxCustomItems
      /\ \A i \in DOMAIN plan'.items :
            /\ plan'.items[i].next # NoNextVersion
            /\ ContractOf(plan'.items[i].provider, plan'.items[i].next) = c
      /\ \A p \in Providers \ {plan'.items[i].provider : i \in DOMAIN plan'.items} :
            ContractOf(p, inventory[p]) = c
  <2>1. Len(plan'.items) <= MaxCustomItems
    BY <1>1, <1>3, <1>7, ConstantsAssumption
  <2>2. \A i \in DOMAIN plan'.items :
            /\ plan'.items[i].next # NoNextVersion
            /\ ContractOf(plan'.items[i].provider, plan'.items[i].next) = c
    <3> SUFFICES ASSUME NEW i \in 1..n
                 PROVE  /\ t[i].next # NoNextVersion
                        /\ ContractOf(t[i].provider, t[i].next) = c
      BY <1>1, <1>5
    <3>1. PICK j \in 1..n : t[i] = req[j]
      BY <1>5
    <3> QED
      BY <1>6, <3>1
  <2>3. \A p \in Providers \ {plan'.items[i].provider : i \in DOMAIN plan'.items} :
            ContractOf(p, inventory[p]) = c
    <3> SUFFICES ASSUME NEW p \in Providers,
                        \A i \in 1..n : t[i].provider # p
                 PROVE  ContractOf(p, inventory[p]) = c
      BY <1>1, <1>5
    <3>1. \A j \in 1..n : req[j].provider # p
      BY <1>5
    <3> QED
      BY <1>6, <3>1
  <2> QED
    BY <2>1, <2>2, <2>3
<1>9. CustomPlanShape'
  BY <1>1, <1>2, <1>8 DEF CustomPlanShape, Prov, NextOf
<1> QED
  BY <1>2, <1>9 DEF PlanInv, RolloutEntry, ScaleDownInventory,
                    WebhookAfterLoop, ApplyPlanShape

\* The plan keeps its shape for the whole rollout.
THEOREM PlanInvInvariant == Spec => []PlanInv
<1>1. Init => PlanInv
  BY DEF Init, PlanInv, RolloutEntry, ScaleDownInventory, WebhookAfterLoop,
         ApplyPlanShape, CustomPlanShape
<1>2. IInv /\ PlanInv /\ [Next]_vars => PlanInv'
  <2> SUFFICES ASSUME IInv, PlanInv, [Next]_vars PROVE PlanInv'
    OBVIOUS
  <2> DEFINE Rest == RolloutEntry /\ ScaleDownInventory /\ WebhookAfterLoop
  <2>0. ASSUME UNCHANGED <<plan, entry, startInventory>>, Rest'
        PROVE  PlanInv'
    BY <2>0, PlanShapeUnchanged DEF PlanInv
  <2>1. ASSUME NEW c \in Contracts, ApplyPlan(c) PROVE PlanInv'
    BY <2>1, ApplyPlanStart
  <2>2. ASSUME NEW req \in Requests, ApplyCustomPlan(req) PROVE PlanInv'
    BY <2>2, CustomPlanStart
  <2>3. CASE SkipUpToDate
    BY <2>3, <2>0 DEF SkipUpToDate, PlanInv, RolloutEntry,
       ScaleDownInventory, WebhookAfterLoop, cluster, history
  <2>4. CASE ScaleDownProvider
    BY <2>4, <2>0 DEF ScaleDownProvider, PlanInv, RolloutEntry,
       ScaleDownInventory, WebhookAfterLoop, cluster, history
  <2>5. CASE WaitScaledDown
    <3>1. CASE Return
      BY <3>1, PlanInvReturn
    <3>2. CASE ~Return
      BY <2>5, <3>2, <2>0 DEF WaitScaledDown, PlanInv, RolloutEntry,
         ScaleDownInventory, WebhookAfterLoop, cluster, history
    <3> QED
      BY <3>1, <3>2
  <2>6. CASE EndScaleDown
    BY <2>6, <2>0 DEF EndScaleDown, PlanInv, RolloutEntry,
       ScaleDownInventory, WebhookAfterLoop, cluster, history
  <2>7. CASE FetchComponents
    BY <2>7, <2>0 DEF FetchComponents, PlanInv, RolloutEntry,
       ScaleDownInventory, WebhookAfterLoop, cluster, history
  <2>8. CASE DeleteProvider
    BY <2>8, <2>0 DEF DeleteProvider, PlanInv, RolloutEntry,
       ScaleDownInventory, WebhookAfterLoop, history
  <2>9. CASE InstallComponents
    BY <2>9, <2>0 DEF InstallComponents, PlanInv, RolloutEntry,
       ScaleDownInventory, WebhookAfterLoop
  <2>10. CASE UpdateInventory
    BY <2>10, <2>0 DEF UpdateInventory, PlanInv, RolloutEntry,
       ScaleDownInventory, WebhookAfterLoop, history
  <2>11. CASE EndReplace
    BY <2>11, <2>0 DEF EndReplace, PlanInv, RolloutEntry,
       ScaleDownInventory, WebhookAfterLoop, cluster, history, IInv, TypeOK
  <2>12. CASE DeleteWebhookNamespace
    BY <2>12, PlanInvReturn DEF DeleteWebhookNamespace
  <2>13. CASE Fail
    BY <2>13, PlanInvReturn DEF Fail
  <2>14. ASSUME NEW p \in Providers, DeploymentController(p) PROVE PlanInv'
    BY <2>14, <2>0 DEF DeploymentController, PlanInv, RolloutEntry,
       ScaleDownInventory, WebhookAfterLoop, upgrader, history
  <2>15. ASSUME NEW p \in Providers, OrphansTerminated(p) PROVE PlanInv'
    BY <2>15, <2>0 DEF OrphansTerminated, PlanInv, RolloutEntry,
       ScaleDownInventory, WebhookAfterLoop, upgrader, history
  <2>16. CASE UNCHANGED vars
    BY <2>16, <2>0 DEF vars, PlanInv, RolloutEntry, ScaleDownInventory,
       WebhookAfterLoop, cluster, upgrader, history
  <2> QED
    BY <2>1, <2>2, <2>3, <2>4, <2>5, <2>6, <2>7, <2>8, <2>9, <2>10, <2>11,
       <2>12, <2>13, <2>14, <2>15, <2>16 DEF Next
<1> QED
  BY <1>1, <1>2, IInvInvariant, PTL DEF Spec

-----------------------------------------------------------------------------
(* The contract of the fleet after a safe rollout.                         *)

\* The rollout is one ConsistentAfterSafeRollout speaks of: a custom plan,
\* or a plan Plan() lists for a fleet that was on one contract.
SafeRollout ==
    \/ entry = "custom"
    \/ /\ FleetConsistent(startInventory, CoreContract(startInventory))
       /\ plan.contract \in PlanContracts(startInventory)

\* The provider is on the contract of the plan.
OnContract(p) == ContractOf(p, inventory[p]) = plan.contract

\* The replace loop has still to install a next version of the provider.
Upcoming(p) ==
    \E i \in DOMAIN plan.items :
        i >= idx /\ Prov(i) = p /\ NextOf(i) # NoNextVersion

\* In the replace loop of a safe rollout every provider is on the plan's
\* contract or has an item with a next version ahead of the loop.
CInv ==
    pc \in ReplacePhases \cup {"DeleteWebhook"} /\ SafeRollout =>
        \A p \in Providers : OnContract(p) \/ Upcoming(p)

\* When the replace loop starts every provider is on the plan's contract or
\* is upgraded by the plan: a partial plan Plan() lists is for the core's
\* contract, which a consistent fleet is on, and createCustomPlan checked
\* the providers a request leaves out.
LEMMA CInvEndScaleDown ==
    ASSUME IInv, PlanInv, EndScaleDown
    PROVE  CInv'
<1> SUFFICES ASSUME SafeRollout, NEW p \in Providers, ~Upcoming(p)'
             PROVE  OnContract(p)'
  BY DEF EndScaleDown, CInv, SafeRollout, history
<1>1. /\ inventory' = startInventory /\ idx' = 1
      /\ UNCHANGED <<plan, entry, startInventory>>
  BY DEF EndScaleDown, PlanInv, ScaleDownInventory, cluster, history
<1>2. \A i \in DOMAIN plan.items : Prov(i) = p => NextOf(i) = NoNextVersion
  BY <1>1, IInv, ConstantsAssumption DEF Upcoming, Prov, NextOf, IInv, TypeOK
<1>3. entry \in {"apply", "custom"}
  BY DEF EndScaleDown, PlanInv, RolloutEntry
<1>4. CASE entry = "custom"
  <2>1. p \notin {Prov(i) : i \in DOMAIN plan.items}
    BY <1>2, <1>4 DEF PlanInv, CustomPlanShape
  <2> QED
    BY <1>1, <1>4, <2>1 DEF PlanInv, CustomPlanShape, OnContract
<1>5. CASE entry = "apply"
  <2> DEFINE c == plan.contract
             s == UpgradePlanItems(startInventory, c)
  <2>1. LatestNextVersion(p, startInventory[p], c) = NoNextVersion
    BY <1>2, <1>5 DEF PlanInv, ApplyPlanShape
  <2>2. IsPartialUpgrade(s)
    <3>1. PICK k \in 1..Cardinality(Providers) : ProviderList[k] = p
      BY ProviderListType DEF Bijection, Surjection
    <3> QED
      BY <2>1, <3>1 DEF IsPartialUpgrade, UpgradePlanItems
  <2>3. /\ FleetConsistent(startInventory, CoreContract(startInventory))
        /\ c \in PlanContracts(startInventory)
    BY <1>5 DEF SafeRollout
  <2>4. CoreContract(startInventory) = c
    BY <2>2, <2>3 DEF PlanContracts, CoreContract
  <2> QED
    BY <1>1, <2>3, <2>4 DEF FleetConsistent, OnContract
<1> QED
  BY <1>3, <1>4, <1>5

\* The item the replace loop installs is of the plan's contract.
LEMMA CurrentOnContract ==
    ASSUME IInv, PlanInv, pc = "UpdateInventory"
    PROVE  ContractOf(Current.provider, Current.next) = plan.contract
<1>1. /\ idx \in DOMAIN plan.items /\ Current.next # NoNextVersion
      /\ Current.provider \in Providers
  BY PlanProviders DEF IInv, TypeOK, Current
<1>2. entry \in {"apply", "custom"}
  BY DEF PlanInv, RolloutEntry
<1>3. CASE entry = "apply"
  BY <1>1, <1>3, LatestNextVersionOf
     DEF PlanInv, ApplyPlanShape, Prov, NextOf, Current
<1>4. CASE entry = "custom"
  BY <1>1, <1>4 DEF PlanInv, CustomPlanShape, Prov, NextOf, Current
<1> QED
  BY <1>2, <1>3, <1>4

\* The replace loop keeps every provider on the plan's contract or ahead.
THEOREM CInvInvariant == Spec => []CInv
<1>1. Init => CInv
  BY DEF Init, CInv, ReplacePhases
<1>2. IInv /\ PlanInv /\ CInv /\ [Next]_vars => CInv'
  <2> SUFFICES ASSUME IInv, PlanInv, CInv, [Next]_vars PROVE CInv'
    OBVIOUS
  <2> USE DEF CInv
  \* A step in which the phase is not one of the replace loop afterwards.
  <2>0. ASSUME pc' \notin ReplacePhases \cup {"DeleteWebhook"} PROVE CInv'
    BY <2>0
  \* A step that keeps what CInv reads but the phase, and does not enter
  \* the replace loop.
  <2>00. ASSUME UNCHANGED <<inventory, plan, idx, entry, startInventory>>,
                pc' \in ReplacePhases \cup {"DeleteWebhook"} =>
                   pc \in ReplacePhases \cup {"DeleteWebhook"}
         PROVE  CInv'
    BY <2>00 DEF SafeRollout, OnContract, Upcoming, Prov, NextOf
  <2>1. ASSUME NEW c \in Contracts, ApplyPlan(c) PROVE CInv'
    BY <2>1, <2>0 DEF ApplyPlan, DoUpgrade, ReplacePhases
  <2>2. ASSUME NEW req \in Requests, ApplyCustomPlan(req) PROVE CInv'
    BY <2>2, <2>0 DEF ApplyCustomPlan, DoUpgrade, ReplacePhases
  <2>3. CASE SkipUpToDate
    <3>1. CASE pc = "ScaleDown"
      BY <2>3, <3>1, <2>0 DEF SkipUpToDate, ReplacePhases
    <3>2. CASE pc = "Fetch"
      <4>1. /\ idx' = idx + 1 /\ NextOf(idx) = NoNextVersion
            /\ UNCHANGED <<inventory, pc, plan, entry, startInventory>>
        BY <2>3 DEF SkipUpToDate, Current, NextOf, cluster, history
      <4>2. idx \in Nat /\ DOMAIN plan.items \subseteq Nat
        BY DEF IInv, TypeOK
      <4> SUFFICES ASSUME SafeRollout', NEW p \in Providers
                   PROVE  OnContract(p)' \/ Upcoming(p)'
        BY <3>2, <4>1
      <4>3. OnContract(p) \/ Upcoming(p)
        BY <3>2, <4>1 DEF SafeRollout, ReplacePhases
      <4>4. Upcoming(p) => Upcoming(p)'
        BY <4>1, <4>2 DEF Upcoming, Prov, NextOf
      <4> QED
        BY <4>1, <4>3, <4>4 DEF OnContract
    <3> QED
      BY <2>3, <3>1, <3>2 DEF SkipUpToDate
  <2>4. CASE ScaleDownProvider
    BY <2>4, <2>0 DEF ScaleDownProvider, ReplacePhases
  <2>5. CASE WaitScaledDown
    BY <2>5, <2>0 DEF WaitScaledDown, Return, ReplacePhases
  <2>6. CASE EndScaleDown
    BY <2>6, CInvEndScaleDown
  <2>7. CASE FetchComponents
    BY <2>7, <2>00 DEF FetchComponents, cluster, history, ReplacePhases
  <2>8. CASE DeleteProvider
    BY <2>8, <2>00 DEF DeleteProvider, history, ReplacePhases
  <2>9. CASE InstallComponents
    BY <2>9, <2>00 DEF InstallComponents, ReplacePhases
  <2>10. CASE UpdateInventory
    <3> SUFFICES ASSUME SafeRollout', NEW p \in Providers
                 PROVE  OnContract(p)' \/ Upcoming(p)'
      OBVIOUS
    <3>1. /\ pc = "UpdateInventory" /\ pc' = "Fetch" /\ idx' = idx + 1
          /\ inventory' = [inventory EXCEPT ![Current.provider] = Current.next]
          /\ UNCHANGED <<plan, entry, startInventory>>
      BY <2>10 DEF UpdateInventory, history
    <3>2. /\ idx \in DOMAIN plan.items /\ idx \in Nat
          /\ Current.provider \in Providers
          /\ inventory \in [Providers -> Versions]
          /\ DOMAIN plan.items \subseteq Nat
      BY <3>1, PlanProviders DEF IInv, TypeOK, Current
    <3>3. CASE p = Current.provider
      BY <3>1, <3>2, <3>3, CurrentOnContract DEF OnContract
    <3>4. CASE p # Current.provider
      <4>1. OnContract(p) \/ Upcoming(p)
        BY <3>1 DEF SafeRollout, ReplacePhases
      <4>2. Upcoming(p) => Upcoming(p)'
        BY <3>1, <3>2, <3>4 DEF Upcoming, Prov, NextOf, Current
      <4> QED
        BY <3>1, <3>2, <3>4, <4>1, <4>2 DEF OnContract
    <3> QED
      BY <3>3, <3>4
  <2>11. CASE EndReplace
    BY <2>11 DEF EndReplace, SafeRollout, OnContract, Upcoming, Prov,
                NextOf, ReplacePhases, cluster, history
  <2>12. CASE DeleteWebhookNamespace
    BY <2>12, <2>0 DEF DeleteWebhookNamespace, Return, ReplacePhases
  <2>13. CASE Fail
    BY <2>13, <2>0 DEF Fail, Return, ReplacePhases
  <2>14. ASSUME NEW p \in Providers, DeploymentController(p) PROVE CInv'
    BY <2>14, <2>00 DEF DeploymentController, upgrader, history
  <2>15. ASSUME NEW p \in Providers, OrphansTerminated(p) PROVE CInv'
    BY <2>15, <2>00 DEF OrphansTerminated, upgrader, history
  <2>16. CASE UNCHANGED vars
    BY <2>16, <2>00 DEF vars, cluster, upgrader, history
  <2> QED
    BY <2>1, <2>2, <2>3, <2>4, <2>5, <2>6, <2>7, <2>8, <2>9, <2>10, <2>11,
       <2>12, <2>13, <2>14, <2>15, <2>16 DEF Next
<1> QED
  BY <1>1, <1>2, IInvInvariant, PlanInvInvariant, PTL DEF Spec

\* A successful return of doUpgrade from a safe rollout: the loop has
\* passed every item, so no provider is ahead of it.
LEMMA SafeRolloutConsistentStep ==
    ASSUME IInv, PlanInv, CInv
    PROVE  SafeRolloutConsistent
<1> SUFFICES ASSUME RolloutSucceeds, SafeRollout
             PROVE  FleetConsistent(inventory', plan.contract)
  BY DEF SafeRolloutConsistent, SafeRollout
<1>1. pc = "DeleteWebhook" /\ inventory' = inventory
  BY DEF RolloutSucceeds, DeleteWebhookNamespace
<1>2. idx = Len(plan.items) + 1 /\ plan.items \in Seq(Item)
  BY <1>1 DEF PlanInv, WebhookAfterLoop, IInv, TypeOK
<1>3. \A p \in Providers : ~Upcoming(p)
  BY <1>2 DEF Upcoming
<1> QED
  BY <1>1, <1>3 DEF CInv, OnContract, FleetConsistent

\* ConsistentAfterSafeRollout, for every value of the constants: when
\* doUpgrade returns nil after rolling out a custom plan createCustomPlan
\* accepted, or a plan Plan() lists for a fleet on one contract, every
\* provider of the inventory is on the plan's contract (upgrader.go:152-173,
\* 209-283, 363-407).
THEOREM ConsistentAfterSafeRolloutHolds == Spec => ConsistentAfterSafeRollout
<1>1. IInv /\ PlanInv /\ CInv => SafeRolloutConsistent
  BY SafeRolloutConsistentStep
<1> QED
  BY <1>1, IInvInvariant, PlanInvInvariant, CInvInvariant, PTL
     DEF ConsistentAfterSafeRollout

-----------------------------------------------------------------------------
(* Recovery by ApplyPlan.                                                  *)

\* The provider runs a Deployment that is not scaled down.
Running(p) ==
    deployment[p].version # NoNextVersion /\ deployment[p].spec = Replicas

\* getUpgradePlan for the current contract has a next version for p.
Pending(p) == LatestNextVersion(p, inventory[p], CurrentContract) # NoNextVersion

\* Every provider an interrupted rollout left deleted or scaled down has a
\* next version of the current contract, so ApplyPlan upgrades it.
StrandedPending == \A p \in Providers : ~Running(p) => Pending(p)

\* In the replace loop of ApplyPlan every provider not running is upgraded
\* by an item ahead of the loop.
StrandedUpcoming ==
    entry = "apply" /\ pc \in ReplacePhases \cup {"DeleteWebhook"} =>
        \A p \in Providers : ~Running(p) => Upcoming(p)

\* The Deployment just installed runs.
InstalledRunning == pc = "UpdateInventory" => Running(Current.provider)

\* The replace loop of ApplyPlan has not touched the inventory of the
\* providers ahead of it.
AheadUntouched ==
    entry = "apply" /\ pc \in ReplacePhases =>
        \A i \in DOMAIN plan.items :
            i >= idx => inventory[Prov(i)] = startInventory[Prov(i)]

RInv == StrandedPending /\ StrandedUpcoming /\ InstalledRunning /\ AheadUntouched

\* With custom requests of no items, ApplyCustomPlan rolls out an empty plan.
LEMMA CustomPlanEmpty ==
    ASSUME MaxCustomItems = 0, IInv, PlanInv, entry = "custom"
    PROVE  Len(plan.items) = 0
BY DEF PlanInv, CustomPlanShape, IInv, TypeOK

\* A step that leaves the Deployments, the inventory and the rollout alone
\* keeps RInv.
LEMMA RInvUnchanged ==
    ASSUME RInv, UNCHANGED <<deployment, inventory, pc, plan, idx, entry,
                             startInventory>>
    PROVE  RInv'
BY DEF RInv, StrandedPending, StrandedUpcoming, InstalledRunning,
       AheadUntouched, Running, Pending, Upcoming, Prov, NextOf, Current

\* A step that ends doUpgrade or stays in the scale-down loop keeps RInv
\* when it leaves the Deployments and the inventory alone.
LEMMA RInvOutsideReplace ==
    ASSUME RInv, UNCHANGED <<deployment, inventory>>,
           pc' \in {"Idle", "ScaleDown", "WaitScaledDown"}
    PROVE  RInv'
BY DEF RInv, StrandedPending, StrandedUpcoming, InstalledRunning,
       AheadUntouched, Running, Pending, ReplacePhases

\* RInv holds in every reachable state when users only call ApplyPlan.
THEOREM RInvInvariant ==
    ASSUME MaxCustomItems = 0
    PROVE  Spec => []RInv
<1>1. Init => RInv
  <2> SUFFICES ASSUME Init PROVE RInv
    OBVIOUS
  <2>1. \A p \in Providers : Running(p)
    BY ConstantsAssumption DEF Init, Running, Versions, NoNextVersion
  <2> QED
    BY <2>1 DEF Init, RInv, StrandedPending, StrandedUpcoming,
                InstalledRunning, AheadUntouched, ReplacePhases
<1>2. IInv /\ PlanInv /\ RInv /\ [Next]_vars => RInv'
  <2> SUFFICES ASSUME IInv, PlanInv, RInv, [Next]_vars PROVE RInv'
    OBVIOUS
  \* The steps that read the current item run in a rollout of ApplyPlan.
  <2>0. ASSUME idx <= Len(plan.items), pc # "Idle"
        PROVE  /\ entry = "apply"
               /\ idx \in DOMAIN plan.items
               /\ Current.provider \in Providers
               /\ NextOf(idx) = LatestNextVersion(Current.provider,
                                  startInventory[Current.provider],
                                  CurrentContract)
    <3>1. entry = "apply"
      BY <2>0, CustomPlanEmpty DEF PlanInv, RolloutEntry, IInv, TypeOK
    <3>2. idx \in DOMAIN plan.items /\ Current.provider \in Providers
      BY <2>0, PlanProviders DEF IInv, TypeOK, Current
    <3> QED
      BY <3>1, <3>2 DEF PlanInv, ApplyPlanShape, Prov, NextOf, Current
  <2>1. ASSUME NEW c \in Contracts, ApplyPlan(c) PROVE RInv'
    BY <2>1, RInvOutsideReplace DEF ApplyPlan, DoUpgrade, cluster
  <2>2. ASSUME NEW req \in Requests, ApplyCustomPlan(req) PROVE RInv'
    BY <2>2, RInvOutsideReplace DEF ApplyCustomPlan, DoUpgrade, cluster
  <2>3. CASE SkipUpToDate
    <3>1. CASE pc = "ScaleDown"
      BY <2>3, <3>1, RInvOutsideReplace DEF SkipUpToDate, cluster
    <3>2. CASE pc = "Fetch"
      <4>1. /\ idx' = idx + 1 /\ NextOf(idx) = NoNextVersion
            /\ UNCHANGED <<deployment, inventory, pc, plan, entry,
                           startInventory>>
        BY <2>3 DEF SkipUpToDate, Current, NextOf, cluster, history
      <4>2. idx \in Nat /\ DOMAIN plan.items \subseteq Nat
        BY DEF IInv, TypeOK
      <4>3. StrandedUpcoming'
        BY <3>2, <4>1, <4>2 DEF RInv, StrandedUpcoming, Running, Upcoming,
                                Prov, NextOf
      <4>4. AheadUntouched'
        BY <3>2, <4>1, <4>2 DEF RInv, AheadUntouched, Prov
      <4> QED
        BY <3>2, <4>1, <4>3, <4>4
           DEF RInv, StrandedPending, InstalledRunning, Running, Pending
    <3> QED
      BY <2>3, <3>1, <3>2 DEF SkipUpToDate
  <2>4. CASE ScaleDownProvider
    <3> DEFINE q == Current.provider
    <3>1. CASE deployment[q].version = NoNextVersion
      BY <2>4, <3>1, RInvOutsideReplace DEF ScaleDownProvider, cluster
    <3>2. CASE deployment[q].version # NoNextVersion
      <4>1. /\ deployment' = [deployment EXCEPT ![q].spec = 0]
            /\ pc' = "WaitScaledDown"
            /\ UNCHANGED inventory
        BY <2>4, <3>2 DEF ScaleDownProvider
      <4>2. /\ entry = "apply" /\ q \in Providers
            /\ NextOf(idx) # NoNextVersion
            /\ NextOf(idx) = LatestNextVersion(q, startInventory[q],
                                               CurrentContract)
        BY <2>4, <2>0 DEF ScaleDownProvider, Current, NextOf
      <4>3. Pending(q)
        BY <2>4, <4>2 DEF ScaleDownProvider, PlanInv, ScaleDownInventory,
                          Pending
      <4>4. deployment \in [Providers -> Deployment]
        BY DEF IInv, TypeOK
      <4>5. StrandedPending'
        BY <4>1, <4>3, <4>4 DEF RInv, StrandedPending, Running, Pending
      <4> QED
        BY <4>1, <4>5 DEF RInv, StrandedUpcoming, InstalledRunning,
                          AheadUntouched, ReplacePhases
    <3> QED
      BY <3>1, <3>2
  <2>5. CASE WaitScaledDown
    BY <2>5, RInvOutsideReplace DEF WaitScaledDown, Return, cluster
  <2>6. CASE EndScaleDown
    <3>1. /\ pc' = "Fetch" /\ idx' = 1 /\ inventory = startInventory
          /\ UNCHANGED <<deployment, inventory, plan, entry, startInventory>>
      BY <2>6 DEF EndScaleDown, PlanInv, ScaleDownInventory, cluster, history
    <3>2. StrandedUpcoming'
      <4> SUFFICES ASSUME entry = "apply", NEW p \in Providers, ~Running(p)
                   PROVE  Upcoming(p)'
        BY <3>1 DEF StrandedUpcoming, Running
      <4>1. LatestNextVersion(p, startInventory[p], CurrentContract)
              # NoNextVersion
        BY <3>1 DEF RInv, StrandedPending, Pending
      <4>2. PICK i \in DOMAIN plan.items :
              /\ Prov(i) = p
              /\ NextOf(i) = LatestNextVersion(p, startInventory[p],
                                               CurrentContract)
        BY DEF PlanInv, ApplyPlanShape
      <4>3. i >= 1
        BY DEF IInv, TypeOK
      <4> QED
        BY <3>1, <4>1, <4>2, <4>3 DEF Upcoming, Prov, NextOf
    <3>3. AheadUntouched'
      BY <3>1 DEF AheadUntouched, Prov
    <3> QED
      BY <3>1, <3>2, <3>3 DEF RInv, StrandedPending, InstalledRunning,
                              Running, Pending
  <2>7. CASE FetchComponents
    <3>1. /\ pc = "Fetch" /\ pc' = "Delete"
          /\ UNCHANGED <<deployment, inventory, plan, idx, entry,
                         startInventory>>
      BY <2>7 DEF FetchComponents, cluster, history
    <3> QED
      BY <3>1 DEF RInv, StrandedPending, StrandedUpcoming, InstalledRunning,
                  AheadUntouched, ReplacePhases, Running, Pending, Upcoming,
                  Prov, NextOf
  <2>8. CASE DeleteProvider
    <3> DEFINE q == Current.provider
    <3>1. /\ pc = "Delete" /\ pc' = "Install"
          /\ deployment' = [deployment EXCEPT ![q] = NoDeployment]
          /\ UNCHANGED <<inventory, plan, idx, entry, startInventory>>
      BY <2>8 DEF DeleteProvider, history
    <3>2. /\ idx <= Len(plan.items) /\ NextOf(idx) # NoNextVersion
      BY <3>1 DEF IInv, Current, NextOf
    <3>3. /\ entry = "apply" /\ idx \in DOMAIN plan.items /\ q \in Providers
          /\ NextOf(idx) = LatestNextVersion(q, startInventory[q],
                                             CurrentContract)
      BY <3>1, <3>2, <2>0
    <3>4. inventory[q] = startInventory[q]
      BY <3>1, <3>3 DEF RInv, AheadUntouched, ReplacePhases, Prov, Current,
                        IInv, TypeOK
    <3>5. Pending(q) /\ Upcoming(q)
      BY <3>2, <3>3, <3>4 DEF Pending, Upcoming, Prov, NextOf, Current
    <3>6. deployment \in [Providers -> Deployment]
      BY DEF IInv, TypeOK
    <3>7. \A p \in Providers \ {q} : Running(p)' = Running(p)
      BY <3>1, <3>6 DEF Running
    <3>8. StrandedPending' /\ StrandedUpcoming'
      BY <3>1, <3>5, <3>7 DEF RInv, StrandedPending, StrandedUpcoming,
                              Pending, Upcoming, Prov, NextOf, ReplacePhases
    <3> QED
      BY <3>1, <3>8 DEF RInv, InstalledRunning, AheadUntouched, Prov,
                        ReplacePhases
  <2>9. CASE InstallComponents
    <3> DEFINE q == Current.provider
    <3>1. /\ pc = "Install" /\ pc' = "UpdateInventory"
          /\ deployment' = [deployment EXCEPT
                              ![q] = [version |-> Current.next,
                                      spec |-> Replicas, status |-> 0]]
          /\ UNCHANGED <<inventory, plan, idx, entry, startInventory>>
      BY <2>9 DEF InstallComponents
    <3>2. /\ idx <= Len(plan.items) /\ Current.next # NoNextVersion
          /\ q \in Providers
      BY <3>1, <2>0 DEF IInv
    <3>3. deployment \in [Providers -> Deployment]
      BY DEF IInv, TypeOK
    <3>4. Running(q)' /\ \A p \in Providers \ {q} : Running(p)' = Running(p)
      BY <3>1, <3>2, <3>3 DEF Running, Current
    <3> QED
      BY <3>1, <3>4 DEF RInv, StrandedPending, StrandedUpcoming,
                        InstalledRunning, AheadUntouched, ReplacePhases,
                        Pending, Upcoming, Prov, NextOf, Current
  <2>10. CASE UpdateInventory
    <3> DEFINE q == Current.provider
    <3>1. /\ pc = "UpdateInventory" /\ pc' = "Fetch" /\ idx' = idx + 1
          /\ inventory' = [inventory EXCEPT ![q] = Current.next]
          /\ UNCHANGED <<deployment, plan, entry, startInventory>>
      BY <2>10 DEF UpdateInventory, history
    <3>2. /\ idx <= Len(plan.items)
          /\ entry = "apply" /\ idx \in DOMAIN plan.items /\ q \in Providers
          /\ idx \in Nat /\ DOMAIN plan.items \subseteq Nat
          /\ inventory \in [Providers -> Versions]
      BY <3>1, <2>0 DEF IInv, TypeOK
    <3>3. Running(q)
      BY <3>1 DEF RInv, InstalledRunning
    <3>4. \A i \in DOMAIN plan.items : i # idx => Prov(i) # q
      BY <3>2 DEF PlanInv, ApplyPlanShape, Prov, Current
    <3>5. StrandedPending'
      BY <3>1, <3>2, <3>3 DEF RInv, StrandedPending, Running, Pending
    <3>6. StrandedUpcoming'
      <4> SUFFICES ASSUME NEW p \in Providers, ~Running(p)'
                   PROVE  Upcoming(p)'
        BY <3>1 DEF StrandedUpcoming
      <4>1. ~Running(p) /\ p # q
        BY <3>1, <3>3 DEF Running
      <4>2. Upcoming(p)
        BY <3>1, <3>2, <4>1 DEF RInv, StrandedUpcoming, ReplacePhases
      <4> QED
        BY <3>1, <3>2, <4>1, <4>2 DEF Upcoming, Prov, NextOf, Current
    <3>7. AheadUntouched'
      BY <3>1, <3>2, <3>4 DEF RInv, AheadUntouched, ReplacePhases, Prov
    <3> QED
      BY <3>1, <3>5, <3>6, <3>7 DEF RInv, InstalledRunning
  <2>11. CASE EndReplace
    <3>1. /\ pc = "Fetch" /\ pc' = "DeleteWebhook"
          /\ UNCHANGED <<deployment, inventory, plan, idx, entry,
                         startInventory>>
      BY <2>11 DEF EndReplace, cluster, history
    <3> QED
      BY <3>1 DEF RInv, StrandedPending, StrandedUpcoming, InstalledRunning,
                  AheadUntouched, ReplacePhases, Running, Pending, Upcoming,
                  Prov, NextOf
  <2>12. CASE DeleteWebhookNamespace
    BY <2>12, RInvOutsideReplace DEF DeleteWebhookNamespace, Return
  <2>13. CASE Fail
    BY <2>13, RInvOutsideReplace DEF Fail, Return, cluster
  <2>14. ASSUME NEW p \in Providers, DeploymentController(p) PROVE RInv'
    <3>1. /\ UNCHANGED <<inventory, pc, plan, idx, entry, startInventory>>
          /\ deployment' = [deployment EXCEPT ![p].status =
                              IF @ < deployment[p].spec THEN @ + 1 ELSE @ - 1]
      BY <2>14 DEF DeploymentController, upgrader, history
    <3>2. deployment \in [Providers -> Deployment]
      BY DEF IInv, TypeOK
    <3>3. \A r \in Providers : Running(r)' = Running(r)
      BY <3>1, <3>2 DEF Running
    <3>4. InstalledRunning'
      <4> SUFFICES ASSUME pc = "UpdateInventory"
                   PROVE  Running(Current.provider)'
        BY <3>1 DEF InstalledRunning, Current
      <4>1. Current.provider \in Providers
        BY <2>0 DEF IInv
      <4> QED
        BY <3>1, <3>3, <4>1 DEF RInv, InstalledRunning, Current
    <3> QED
      BY <3>1, <3>3, <3>4 DEF RInv, StrandedPending, StrandedUpcoming,
                              AheadUntouched, Pending, Upcoming, Prov, NextOf
  <2>15. ASSUME NEW p \in Providers, OrphansTerminated(p) PROVE RInv'
    BY <2>15, RInvUnchanged DEF OrphansTerminated, upgrader, history
  <2>16. CASE UNCHANGED vars
    BY <2>16, RInvUnchanged DEF vars, cluster, upgrader, history
  <2> QED
    BY <2>1, <2>2, <2>3, <2>4, <2>5, <2>6, <2>7, <2>8, <2>9, <2>10, <2>11,
       <2>12, <2>13, <2>14, <2>15, <2>16 DEF Next
<1> QED
  BY <1>1, <1>2, IInvInvariant, PlanInvInvariant, PTL DEF Spec

\* A successful return of an ApplyPlan rollout: the loop has passed every
\* item, so every provider runs.
LEMMA RecoveredStep ==
    ASSUME IInv, PlanInv, RInv
    PROVE  RolloutSucceeds /\ entry = "apply" => FleetRunning
<1> SUFFICES ASSUME RolloutSucceeds, entry = "apply"
             PROVE  FleetRunning
  OBVIOUS
<1>1. pc = "DeleteWebhook"
  BY DEF RolloutSucceeds, DeleteWebhookNamespace
<1>2. idx = Len(plan.items) + 1 /\ plan.items \in Seq(Item)
  BY <1>1 DEF PlanInv, WebhookAfterLoop, IInv, TypeOK
<1>3. \A p \in Providers : ~Upcoming(p)
  BY <1>2 DEF Upcoming
<1> QED
  BY <1>1, <1>3 DEF RInv, StrandedUpcoming, Running, FleetRunning

\* RecoveredByApplyPlan, for every value of the constants when the only
\* custom requests are empty ones: however earlier rollouts stopped (after
\* a drain, a delete or an install; upgrader.go:363-407), an ApplyPlan
\* rollout that returns nil leaves every provider with a Deployment at full
\* scale.  This covers the Phase B state spec section 4.4 calls recoverable
\* by retry and the drained state section 5 leaves to the operator.  Custom
\* requests are left out: one whose items name the installed versions
\* drains and reinstalls (finding of run upgrader_noop), and what it leaves
\* is repaired by re-running it, not by ApplyPlan.
THEOREM RecoveredByApplyPlanHolds ==
    ASSUME MaxCustomItems = 0
    PROVE  Spec => RecoveredByApplyPlan
<1>1. IInv /\ PlanInv /\ RInv =>
        (RolloutSucceeds /\ entry = "apply" => FleetRunning)
  BY RecoveredStep
<1> QED
  BY <1>1, IInvInvariant, PlanInvInvariant, RInvInvariant, PTL
     DEF RecoveredByApplyPlan

=============================================================================
