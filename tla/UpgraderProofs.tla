--------------------------- MODULE UpgraderProofs ---------------------------
(***************************************************************************)
(* Proofs about the clusterctl upgrader model (Upgrader.tla) for every     *)
(* value of its constants that satisfies ConstantsAssumption.              *)
(***************************************************************************)
EXTENDS Upgrader, TLAPS, FiniteSetTheorems

-----------------------------------------------------------------------------
(* Facts about the operators the plans are built from.                     *)

\* Every item of a plan that names a next version names a published one.
ItemsOK(s) ==
    \A i \in DOMAIN s : s[i].next # NoNextVersion =>
                           s[i].next \in Published(s[i].provider)

\* The less-than relation on the naturals, as a set of pairs.
NatLess == {ss \in Nat \X Nat : ss[1] < ss[2]}

LEMMA NatLessWellFounded == IsWellFoundedOn(NatLess, Nat)
<1>1. NatLess = OpToRel(<, Nat)
  BY Zenon DEF NatLess, OpToRel
<1> QED
  BY <1>1, NatLessThanWellFounded, Zenon

\* A bounded non-empty set of naturals has a largest element: the CHOOSE of
\* getLatestNextVersion's model picks a value.
LEMMA MaxExists ==
    ASSUME NEW T \in SUBSET Nat, T # {}, NEW n \in Nat, \A t \in T : t <= n
    PROVE  \E v \in T : \A w \in T : w <= v
<1>1. \A t \in T : n - t \in Nat
  OBVIOUS
<1>2. {n - t : t \in T} \subseteq Nat
  BY <1>1
<1>3. {n - t : t \in T} # {}
  OBVIOUS
<1>4. PICK x \in {n - t : t \in T} :
        \A y \in {n - t : t \in T} : ~(<<y, x>> \in NatLess)
  BY <1>2, <1>3, NatLessWellFounded, WFMin
<1>5. PICK v \in T : x = n - v
  OBVIOUS
<1>6. \A w \in T : ~(n - w < n - v)
  BY <1>1, <1>4, <1>5 DEF NatLess
<1> QED
  BY <1>6

\* getLatestNextVersion returns a published version or none.
LEMMA LatestNextVersionType ==
    ASSUME NEW p \in Providers, NEW cur, NEW c
    PROVE  LatestNextVersion(p, cur, c) \in Published(p) \cup {NoNextVersion}
<1> DEFINE T == {v \in NextVersions(p, cur) : ContractOf(p, v) = c}
<1>1. T \subseteq Published(p)
  BY DEF NextVersions
<1>2. Published(p) \subseteq 1..MaxVersion
  BY ConstantsAssumption DEF Published, Versions
<1>3. CASE T # {}
  <2>0. /\ T \in SUBSET Nat
        /\ MaxVersion \in Nat
        /\ \A t \in T : t <= MaxVersion
    BY <1>1, <1>2, ConstantsAssumption
  <2>1. \E v \in T : \A w \in T : w <= v
    BY <1>3, <2>0, MaxExists
  <2> QED
    BY <1>1, <1>3, <2>1 DEF LatestNextVersion
<1> QED
  BY <1>3 DEF LatestNextVersion

\* The inventory lists each provider once.
LEMMA ProviderListType ==
    /\ Cardinality(Providers) \in Nat
    /\ ProviderList \in Bijection(1..Cardinality(Providers), Providers)
BY ConstantsAssumption, FS_CardinalityType DEF ProviderList, ExistsBijection

\* getUpgradePlan returns one well-typed item per provider.
LEMMA UpgradePlanItemsType ==
    ASSUME NEW inv, NEW c
    PROVE  /\ UpgradePlanItems(inv, c) \in [1..Cardinality(Providers) -> Item]
           /\ ItemsOK(UpgradePlanItems(inv, c))
<1>1. \A i \in 1..Cardinality(Providers) : ProviderList[i] \in Providers
  BY ProviderListType DEF Bijection, Injection
<1>2. \A i \in 1..Cardinality(Providers) :
         LatestNextVersion(ProviderList[i], inv[ProviderList[i]], c)
            \in Published(ProviderList[i]) \cup {NoNextVersion}
  BY <1>1, LatestNextVersionType
<1>3. \A p \in Providers : Published(p) \subseteq Versions
  BY ConstantsAssumption DEF Published
<1> QED
  BY <1>1, <1>2, <1>3 DEF UpgradePlanItems, Item, ItemsOK

\* The sort of doUpgrade rearranges the items: it keeps their type, their
\* number and that each next version is published.
LEMMA UpgradeOrdersType ==
    ASSUME NEW n \in Nat, NEW s \in [1..n -> Item], ItemsOK(s),
           NEW t \in UpgradeOrders(s)
    PROVE  /\ t \in Seq(Item)
           /\ Len(t) = n
           /\ ItemsOK(t)
<1>1. PICK f \in Bijection(1..n, 1..n) : t = [i \in 1..n |-> s[f[i]]]
  BY DEF UpgradeOrders
<1>2. f \in [1..n -> 1..n]
  BY DEF Bijection, Injection
<1>3. t \in [1..n -> Item]
  BY <1>1, <1>2
<1>4. ItemsOK(t)
  BY <1>1, <1>2 DEF ItemsOK
<1> QED
  BY <1>3, <1>4

\* A request createCustomPlan accepts is a list of well-typed items.
LEMMA CustomRequestType ==
    ASSUME NEW req \in Requests, NEW inv, CustomPlanValid(req, inv)
    PROVE  \E n \in Nat : req \in [1..n -> Item] /\ ItemsOK(req)
<1>1. PICK n \in 0..MaxCustomItems : req \in [1..n -> Request]
  BY DEF Requests
<1>2. n \in Nat
  BY ConstantsAssumption
<1>3. \A j \in 1..n : req[j].provider \in Providers
                      /\ req[j].next \in Published(req[j].provider)
  BY <1>1 DEF CustomPlanValid, HasReleaseSeries
<1> QED
  BY <1>1, <1>2, <1>3 DEF Request, Item, ItemsOK

-----------------------------------------------------------------------------
(* Type correctness.                                                       *)

\* Strengthening of TypeOK: the plan names published versions only, and
\* the steps that read the current item are taken at an item of the plan
\* that has a next version.
IInv ==
    /\ TypeOK
    /\ ItemsOK(plan.items)
    /\ pc \in {"WaitScaledDown", "Delete", "Install", "UpdateInventory"} =>
          idx <= Len(plan.items)
    /\ pc \in {"Delete", "Install", "UpdateInventory"} =>
          Current.next # NoNextVersion

LEMMA InitIInv == Init => IInv
BY ConstantsAssumption
   DEF Init, IInv, TypeOK, ItemsOK, NoPlan, Phases, Deployment, Versions

\* doUpgrade starts with a plan of well-typed items.
LEMMA DoUpgradeIInv ==
    ASSUME IInv, NEW kind \in {"apply", "custom"}, NEW c \in Contracts,
           NEW n \in Nat, NEW items \in [1..n -> Item], ItemsOK(items),
           DoUpgrade(kind, c, items)
    PROVE  IInv'
<1>1. PICK t \in UpgradeOrders(items) : plan' = [contract |-> c, items |-> t]
  BY DEF DoUpgrade
<1>2. t \in Seq(Item) /\ ItemsOK(t)
  BY UpgradeOrdersType
<1> QED
  BY <1>1, <1>2, ConstantsAssumption
     DEF DoUpgrade, IInv, TypeOK, ItemsOK, Phases, cluster

\* The item the loop is at is an item of the plan.
LEMMA CurrentType ==
    ASSUME TypeOK, idx <= Len(plan.items)
    PROVE  Current \in Item
BY DEF TypeOK, Current

\* doUpgrade returns: the locals are reset and the cluster stays typed.
LEMMA ReturnIInv ==
    ASSUME TypeOK, Return, UNCHANGED <<inventory, deployment, orphans>>,
           webhookNamespace' \in BOOLEAN
    PROVE  IInv'
BY ConstantsAssumption
   DEF Return, IInv, TypeOK, ItemsOK, NoPlan, Phases

\* The strengthening holds in every reachable state.
THEOREM IInvInvariant == Spec => []IInv
<1>1. Init => IInv
  BY InitIInv
<1>2. IInv /\ [Next]_vars => IInv'
  <2> SUFFICES ASSUME IInv, [Next]_vars PROVE IInv'
    OBVIOUS
  <2> USE DEF IInv
  <2>1. ASSUME NEW c \in Contracts, ApplyPlan(c) PROVE IInv'
    <3>1. UpgradePlanItems(inventory, c)
            \in [1..Cardinality(Providers) -> Item]
          /\ ItemsOK(UpgradePlanItems(inventory, c))
      BY UpgradePlanItemsType
    <3> QED
      BY <2>1, <3>1, ProviderListType, DoUpgradeIInv DEF ApplyPlan
  <2>2. ASSUME NEW req \in Requests, ApplyCustomPlan(req) PROVE IInv'
    <3>1. CustomTargetContract(req, inventory) \in Contracts
      BY <2>2, ConstantsAssumption DEF ApplyCustomPlan, CustomPlanValid
    <3>2. \E n \in Nat : req \in [1..n -> Item] /\ ItemsOK(req)
      BY <2>2, CustomRequestType DEF ApplyCustomPlan
    <3> QED
      BY <2>2, <3>1, <3>2, DoUpgradeIInv DEF ApplyCustomPlan
  <2>3. CASE SkipUpToDate
    BY <2>3 DEF SkipUpToDate, TypeOK, ItemsOK, Current, history, cluster
  <2>4. CASE ScaleDownProvider
    <3>1. Current.provider \in Providers
      BY <2>4, CurrentType DEF ScaleDownProvider, Item
    <3>2. CASE deployment[Current.provider].version = NoNextVersion
      BY <2>4, <3>2
         DEF ScaleDownProvider, TypeOK, ItemsOK, Current, cluster, history
    <3>3. CASE deployment[Current.provider].version # NoNextVersion
      <4>1. /\ deployment' = [deployment EXCEPT ![Current.provider].spec = 0]
            /\ pc' = "WaitScaledDown" /\ waitSteps' = 0
            /\ UNCHANGED <<inventory, orphans, webhookNamespace, idx, plan,
                           entry, startInventory, fresh>>
        BY <2>4, <3>3 DEF ScaleDownProvider, history
      <4>2. [deployment[Current.provider] EXCEPT !.spec = 0] \in Deployment
        <5>1. deployment[Current.provider] \in Deployment
          BY <3>1 DEF TypeOK
        <5>2. 0 \in 0..Replicas
          BY ConstantsAssumption
        <5> QED
          BY <5>1, <5>2, Zenon DEF Deployment
      <4>3. deployment' \in [Providers -> Deployment]
        BY <3>1, <4>1, <4>2 DEF TypeOK
      <4>4. idx <= Len(plan.items)
        BY <2>4 DEF ScaleDownProvider
      <4> QED
        BY <4>1, <4>3, <4>4, ConstantsAssumption
           DEF TypeOK, ItemsOK, Current, Phases
    <3> QED
      BY <3>2, <3>3
  <2>5. CASE WaitScaledDown
    <3>1. CASE deployment[Current.provider].status = 0
      BY <2>5, <3>1 DEF WaitScaledDown, TypeOK, ItemsOK, Current, Phases,
                        cluster, history
    <3>2. CASE /\ deployment[Current.provider].status # 0
               /\ waitSteps + 1 < MaxWaitSteps
      <4>1. /\ waitSteps' = waitSteps + 1
            /\ UNCHANGED <<pc, plan, idx, entry, startInventory, fresh,
                           inventory, deployment, orphans, webhookNamespace>>
        BY <2>5, <3>2, ConstantsAssumption
           DEF WaitScaledDown, cluster, history, TypeOK
      <4> QED
        BY <2>5, <3>2, <4>1, ConstantsAssumption
           DEF WaitScaledDown, TypeOK, ItemsOK, Current
    <3>3. CASE /\ deployment[Current.provider].status # 0
               /\ waitSteps + 1 = MaxWaitSteps
      <4>1. Return /\ UNCHANGED <<inventory, deployment, orphans>>
                   /\ webhookNamespace' \in BOOLEAN
        BY <2>5, <3>3 DEF WaitScaledDown, cluster, TypeOK
      <4> QED
        BY <4>1, ReturnIInv
    <3> QED
      BY <3>1, <3>2, <3>3, ConstantsAssumption DEF TypeOK
  <2>6. CASE EndScaleDown
    BY <2>6 DEF EndScaleDown, TypeOK, ItemsOK, Current, Phases, cluster,
               history
  <2>7. CASE FetchComponents
    BY <2>7 DEF FetchComponents, TypeOK, ItemsOK, Current, Phases, cluster,
               history
  <2>8. CASE DeleteProvider
    <3>1. Current.provider \in Providers
      BY <2>8, CurrentType DEF DeleteProvider, Item
    <3>2. deployment' \in [Providers -> Deployment]
      BY <2>8, <3>1, ConstantsAssumption
         DEF DeleteProvider, TypeOK, Deployment, NoDeployment
    <3>3. orphans' \in [Providers -> BOOLEAN]
      BY <2>8, <3>1 DEF DeleteProvider, TypeOK
    <3> QED
      BY <2>8, <3>2, <3>3 DEF DeleteProvider, TypeOK, ItemsOK, Current, Phases,
                             history
  <2>9. CASE InstallComponents
    <3>1. Current \in Item
      BY <2>9 DEF InstallComponents, TypeOK, Current
    <3> QED
      BY <2>9, <3>1, ConstantsAssumption
         DEF InstallComponents, TypeOK, ItemsOK, Current, Phases, Deployment,
             Item
  <2>10. CASE UpdateInventory
    <3>1. Current \in Item /\ Current.next \in Published(Current.provider)
      BY <2>10 DEF UpdateInventory, TypeOK, Current, ItemsOK
    <3>2. \A p \in Providers : Published(p) \subseteq Versions
      BY ConstantsAssumption DEF Published
    <3> QED
      BY <2>10, <3>1, <3>2
         DEF UpdateInventory, TypeOK, ItemsOK, Current, Phases, Item, history
  <2>11. CASE EndReplace
    BY <2>11 DEF EndReplace, TypeOK, ItemsOK, Current, Phases, cluster,
                history
  <2>12. CASE DeleteWebhookNamespace
    BY <2>12, ReturnIInv DEF DeleteWebhookNamespace
  <2>13. CASE Fail
    <3>1. Return /\ UNCHANGED <<inventory, deployment, orphans>>
                 /\ webhookNamespace' \in BOOLEAN
      BY <2>13 DEF Fail, cluster, TypeOK
    <3> QED
      BY <3>1, ReturnIInv
  <2>14. ASSUME NEW p \in Providers, DeploymentController(p) PROVE IInv'
    <3>1. deployment[p] \in Deployment
      BY DEF TypeOK
    <3>2. LET d == deployment[p]
          IN  (IF d.status < d.spec THEN d.status + 1 ELSE d.status - 1)
                 \in 0..Replicas
      BY <2>14, <3>1, ConstantsAssumption DEF DeploymentController, Deployment
    <3>3. deployment' \in [Providers -> Deployment]
      BY <2>14, <3>1, <3>2 DEF DeploymentController, TypeOK, Deployment
    <3> QED
      BY <2>14, <3>3 DEF DeploymentController, TypeOK, ItemsOK, Current,
                         upgrader, history
  <2>15. ASSUME NEW p \in Providers, OrphansTerminated(p) PROVE IInv'
    BY <2>15 DEF OrphansTerminated, TypeOK, ItemsOK, Current, upgrader,
                history
  <2>16. CASE UNCHANGED vars
    BY <2>16 DEF vars, cluster, upgrader, history, TypeOK, ItemsOK, Current
  <2> QED
    BY <2>1, <2>2, <2>3, <2>4, <2>5, <2>6, <2>7, <2>8, <2>9, <2>10, <2>11,
       <2>12, <2>13, <2>14, <2>15, <2>16 DEF Next
<1> QED
  BY <1>1, <1>2, PTL DEF Spec

\* Type correctness of the upgrader: every variable keeps its type, the
\* inventory only records published versions (installComponentsAndUpdate-
\* Inventory writes the plan's next version), the loop index stays within
\* the plan and the wait never exceeds deploymentScaleToZeroBackOff.Steps.
THEOREM TypeCorrect == Spec => []TypeOK
BY IInvInvariant, PTL DEF IInv

=============================================================================
