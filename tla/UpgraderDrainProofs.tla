------------------------- MODULE UpgraderDrainProofs -------------------------
(***************************************************************************)
(* Proof that doUpgrade drains before it replaces (DrainedBeforeReplace)   *)
(* for every value of the constants of Upgrader.                           *)
(***************************************************************************)
EXTENDS UpgraderProofs

\* A provider whose Deployment is scaled to zero and runs no pod: the
\* Deployment controller has nothing left to do for it.
Drained(q) == deployment[q].spec = 0 /\ deployment[q].status = 0

\* The items of the plan before the loop index.
Done == {i \in DOMAIN plan.items : i < idx}

\* A deleted Deployment (providerComponents.Delete) is drained.
DeletedDrained ==
    \A q \in Providers : deployment[q].version = NoNextVersion => Drained(q)

\* In the scale-down loop nothing is re-created yet, and the provider of
\* every item the loop passed that has a next version is drained.
ScaleDownDrained ==
    pc \in {"ScaleDown", "WaitScaledDown"} =>
        /\ fresh = {}
        /\ \A i \in Done : plan.items[i].next # NoNextVersion =>
                              Drained(plan.items[i].provider)

\* The wait is for a Deployment scaled to zero.
WaitOnScaledDown ==
    pc = "WaitScaledDown" => deployment[Current.provider].spec = 0

\* In the replace loop every planned provider not re-created is drained.
ReplaceDrained ==
    pc \in ReplacePhases => \A q \in Planned \ fresh : Drained(q)

\* The strengthening of DrainedBeforeReplace.
DInv == DeletedDrained /\ ScaleDownDrained /\ WaitOnScaledDown /\ ReplaceDrained

\* Every item of the plan is an item of a provider of the fleet.
LEMMA PlanProviders ==
    ASSUME TypeOK
    PROVE  \A i \in DOMAIN plan.items : plan.items[i].provider \in Providers
<1>1. plan.items \in Seq(Item)
  BY DEF TypeOK
<1>2. \A i \in DOMAIN plan.items : plan.items[i] \in Item
  BY <1>1
<1> QED
  BY <1>2 DEF Item

\* Every Deployment is installed and nothing is being replaced initially.
LEMMA InitDInv == Init => DInv
BY ConstantsAssumption
   DEF Init, DInv, DeletedDrained, ScaleDownDrained, WaitOnScaledDown,
       ReplaceDrained, ReplacePhases, Versions, NoNextVersion

\* A step that leaves the deployments, the phase, the plan, the index and
\* the re-created providers alone keeps DInv.
LEMMA DInvUnchanged ==
    ASSUME DInv, UNCHANGED <<deployment, pc, plan, idx, fresh>>
    PROVE  DInv'
BY DEF DInv, DeletedDrained, ScaleDownDrained, WaitOnScaledDown,
       ReplaceDrained, Drained, Done, Current, Planned

\* A step that ends doUpgrade, with the deployments unchanged, keeps DInv.
LEMMA DInvReturn ==
    ASSUME DInv, Return, UNCHANGED deployment
    PROVE  DInv'
BY DEF Return, DInv, DeletedDrained, ScaleDownDrained, WaitOnScaledDown,
       ReplaceDrained, ReplacePhases, Drained

\* The strengthening holds in every reachable state.
THEOREM DInvInvariant == Spec => []DInv
<1>1. Init => DInv
  BY InitDInv
<1>2. IInv /\ IInv' /\ DInv /\ [Next]_vars => DInv'
  <2> SUFFICES ASSUME IInv, IInv', DInv, [Next]_vars PROVE DInv'
    OBVIOUS
  <2>1. ASSUME NEW c \in Contracts, ApplyPlan(c) PROVE DInv'
    <3>1. /\ UNCHANGED deployment /\ pc' = "ScaleDown" /\ idx' = 1
          /\ fresh' = {}
      BY <2>1 DEF ApplyPlan, DoUpgrade, cluster
    <3>2. Done' = {}
      BY <3>1 DEF Done, IInv, TypeOK
    <3> QED
      BY <3>1, <3>2 DEF DInv, DeletedDrained, ScaleDownDrained,
                        WaitOnScaledDown, ReplaceDrained, ReplacePhases,
                        Drained
  <2>2. ASSUME NEW req \in Requests, ApplyCustomPlan(req) PROVE DInv'
    <3>1. /\ UNCHANGED deployment /\ pc' = "ScaleDown" /\ idx' = 1
          /\ fresh' = {}
      BY <2>2 DEF ApplyCustomPlan, DoUpgrade, cluster
    <3>2. Done' = {}
      BY <3>1 DEF Done, IInv, TypeOK
    <3> QED
      BY <3>1, <3>2 DEF DInv, DeletedDrained, ScaleDownDrained,
                        WaitOnScaledDown, ReplaceDrained, ReplacePhases,
                        Drained
  <2>3. CASE SkipUpToDate
    <3>1. CASE pc = "ScaleDown"
      <4>0. /\ UNCHANGED <<deployment, pc, plan, fresh>>
            /\ plan.items[idx].next = NoNextVersion
        BY <2>3 DEF SkipUpToDate, cluster, history, Current
      <4>1. Done' = Done \cup {idx}
        BY <2>3, <3>1 DEF SkipUpToDate, Done, IInv, TypeOK
      <4>2. ScaleDownDrained'
        BY <3>1, <4>0, <4>1 DEF DInv, ScaleDownDrained, Drained
      <4> QED
        BY <3>1, <4>0, <4>2
           DEF DInv, DeletedDrained, WaitOnScaledDown, ReplaceDrained,
               ReplacePhases, Drained
    <3>2. CASE pc = "Fetch"
      BY <2>3, <3>2
         DEF SkipUpToDate, DInv, DeletedDrained, ScaleDownDrained,
             WaitOnScaledDown, ReplaceDrained, ReplacePhases, Drained,
             Planned, cluster, history
    <3> QED
      BY <2>3, <3>1, <3>2 DEF SkipUpToDate
  <2>4. CASE ScaleDownProvider
    <3> DEFINE p == Current.provider
    <3>0. p \in Providers /\ deployment[p] \in Deployment
      BY <2>4, CurrentType DEF ScaleDownProvider, Item, IInv, TypeOK
    <3>1. CASE deployment[p].version = NoNextVersion
      <4>1. Done' = Done \cup {idx}
        BY <2>4, <3>1 DEF ScaleDownProvider, Done, IInv, TypeOK
      <4>2. Drained(p)
        BY <3>0, <3>1 DEF DInv, DeletedDrained
      <4>3. /\ UNCHANGED <<deployment, pc, plan, fresh>>
            /\ pc = "ScaleDown"
        BY <2>4, <3>1 DEF ScaleDownProvider, cluster, history
      <4>4. ScaleDownDrained'
        BY <4>1, <4>2, <4>3 DEF DInv, ScaleDownDrained, Drained, Current
      <4> QED
        BY <4>3, <4>4
           DEF DInv, DeletedDrained, WaitOnScaledDown, ReplaceDrained,
               ReplacePhases, Drained
    <3>2. CASE deployment[p].version # NoNextVersion
      <4>1. /\ deployment' = [deployment EXCEPT ![p].spec = 0]
            /\ pc' = "WaitScaledDown" /\ idx' = idx
            /\ UNCHANGED <<plan, fresh>>
        BY <2>4, <3>2 DEF ScaleDownProvider, history
      <4>2. \A q \in Providers :
               /\ deployment'[q].version = deployment[q].version
               /\ deployment'[q].status = deployment[q].status
               /\ deployment'[q].spec = IF q = p THEN 0 ELSE deployment[q].spec
        BY <3>0, <4>1 DEF IInv, TypeOK
      <4>3. DeletedDrained'
        BY <3>0, <4>2 DEF DeletedDrained, Drained, DInv
      <4>4. ScaleDownDrained'
        <5>1. pc = "ScaleDown" /\ fresh = {}
          BY <2>4 DEF ScaleDownProvider, DInv, ScaleDownDrained
        <5>2. Done' = Done
          BY <4>1 DEF Done
        <5>3. ASSUME NEW i \in Done, plan.items[i].next # NoNextVersion
              PROVE  Drained(plan.items[i].provider)'
          <6>1. Drained(plan.items[i].provider)
            BY <5>1, <5>3 DEF DInv, ScaleDownDrained
          <6>2. plan.items[i].provider \in Providers
            BY PlanProviders DEF Done, IInv
          <6> QED
            BY <4>1, <4>2, <6>1, <6>2 DEF Drained
        <5> QED
          BY <4>1, <5>1, <5>2, <5>3 DEF ScaleDownDrained
      <4>5. WaitOnScaledDown'
        BY <3>0, <4>1, <4>2 DEF WaitOnScaledDown, Current
      <4>6. ReplaceDrained'
        BY <4>1 DEF ReplaceDrained, ReplacePhases
      <4> QED
        BY <4>3, <4>4, <4>5, <4>6 DEF DInv
    <3> QED
      BY <3>1, <3>2
  <2>5. CASE WaitScaledDown
    <3> DEFINE p == Current.provider
    <3>1. CASE deployment[p].status = 0
      <4>1. /\ pc' = "ScaleDown" /\ idx' = idx + 1
            /\ UNCHANGED <<plan, fresh, deployment>>
        BY <2>5, <3>1 DEF WaitScaledDown, history, cluster
      <4>2. Done' = Done \cup {idx}
        BY <2>5, <4>1 DEF Done, IInv, TypeOK
      <4>3. Drained(p)
        BY <2>5, <3>1 DEF WaitScaledDown, DInv, WaitOnScaledDown, Drained
      <4> QED
        BY <2>5, <4>1, <4>2, <4>3
           DEF WaitScaledDown, Current, DInv, DeletedDrained,
               ScaleDownDrained, WaitOnScaledDown, ReplaceDrained,
               ReplacePhases, Drained
    <3>2. CASE deployment[p].status # 0 /\ waitSteps + 1 < MaxWaitSteps
      <4>1. UNCHANGED <<deployment, pc, plan, idx, fresh>>
        BY <2>5, <3>2, ConstantsAssumption
           DEF WaitScaledDown, history, cluster, IInv, TypeOK
      <4> QED
        BY <4>1, DInvUnchanged
    <3>3. CASE deployment[p].status # 0 /\ waitSteps + 1 = MaxWaitSteps
      <4>1. Return /\ UNCHANGED deployment
        BY <2>5, <3>3, ConstantsAssumption DEF WaitScaledDown, cluster, IInv, TypeOK
      <4> QED
        BY <4>1, DInvReturn
    <3> QED
      BY <2>5, <3>1, <3>2, <3>3 DEF WaitScaledDown
  <2>6. CASE EndScaleDown
    <3>1. /\ pc' = "Fetch" /\ UNCHANGED <<plan, fresh, deployment>>
          /\ fresh = {}
      BY <2>6 DEF EndScaleDown, history, cluster, DInv, ScaleDownDrained
    <3>2. Done = DOMAIN plan.items
      BY <2>6 DEF EndScaleDown, Done, IInv, TypeOK
    <3>3. \A q \in Planned : Drained(q)
      BY <2>6, <3>2 DEF EndScaleDown, Planned, DInv, ScaleDownDrained
    <3> QED
      BY <3>1, <3>3
         DEF DInv, DeletedDrained, ScaleDownDrained, WaitOnScaledDown,
             ReplaceDrained, ReplacePhases, Drained, Planned
  <2>7. CASE FetchComponents
    BY <2>7 DEF FetchComponents, DInv, DeletedDrained, ScaleDownDrained,
                WaitOnScaledDown, ReplaceDrained, ReplacePhases, Drained,
                Planned, cluster, history
  <2>8. CASE DeleteProvider
    <3> DEFINE p == Current.provider
    <3>0. p \in Providers
      BY <2>8, CurrentType DEF DeleteProvider, Item, IInv, TypeOK
    <3>1. /\ deployment' = [deployment EXCEPT ![p] = NoDeployment]
          /\ pc' = "Install" /\ UNCHANGED <<plan, fresh>>
      BY <2>8 DEF DeleteProvider, history
    <3>2. \A q \in Providers :
             deployment'[q] = IF q = p THEN NoDeployment ELSE deployment[q]
      BY <3>0, <3>1 DEF IInv, TypeOK
    <3>3. DeletedDrained'
      BY <3>2 DEF DInv, DeletedDrained, Drained, NoDeployment
    <3>4. ReplaceDrained'
      <4>1. pc = "Delete"
        BY <2>8 DEF DeleteProvider
      <4>2. \A q \in Planned \ fresh : Drained(q)
        BY <4>1 DEF DInv, ReplaceDrained, ReplacePhases
      <4>3. Planned' = Planned
        BY <3>1 DEF Planned
      <4>4. \A q \in Planned \ fresh : q \in Providers
        BY PlanProviders DEF Planned, IInv
      <4> QED
        BY <3>1, <3>2, <4>2, <4>3, <4>4 DEF ReplaceDrained, Drained, NoDeployment
    <3> QED
      BY <3>1, <3>3, <3>4 DEF DInv, ScaleDownDrained, WaitOnScaledDown
  <2>9. CASE InstallComponents
    <3> DEFINE p == Current.provider
    <3>0. p \in Providers /\ Current.next # NoNextVersion
      BY <2>9, CurrentType DEF InstallComponents, Item, IInv, TypeOK
    <3>1. /\ deployment' = [deployment EXCEPT
                              ![p] = [version |-> Current.next,
                                      spec |-> Replicas, status |-> 0]]
          /\ fresh' = fresh \cup {p}
          /\ pc' = "UpdateInventory" /\ UNCHANGED plan
      BY <2>9 DEF InstallComponents
    <3>2. \A q \in Providers \ {p} : deployment'[q] = deployment[q]
      BY <3>0, <3>1 DEF IInv, TypeOK
    <3>3. deployment'[p].version # NoNextVersion
      BY <3>0, <3>1 DEF IInv, TypeOK
    <3> QED
      BY <2>9, <3>1, <3>2, <3>3
         DEF InstallComponents, DInv, DeletedDrained, ScaleDownDrained,
             WaitOnScaledDown, ReplaceDrained, ReplacePhases, Drained,
             Planned
  <2>10. CASE UpdateInventory
    BY <2>10 DEF UpdateInventory, DInv, DeletedDrained, ScaleDownDrained,
                 WaitOnScaledDown, ReplaceDrained, ReplacePhases, Drained,
                 Planned, history
  <2>11. CASE EndReplace
    BY <2>11 DEF EndReplace, DInv, DeletedDrained, ScaleDownDrained,
                 WaitOnScaledDown, ReplaceDrained, ReplacePhases, Drained,
                 cluster
  <2>12. CASE DeleteWebhookNamespace
    BY <2>12, DInvReturn DEF DeleteWebhookNamespace
  <2>13. CASE Fail
    BY <2>13, DInvReturn DEF Fail, cluster
  <2>14. ASSUME NEW p \in Providers, DeploymentController(p) PROVE DInv'
    <3>1. ~Drained(p) /\ deployment[p].version # NoNextVersion
      BY <2>14 DEF DeploymentController, Drained
    <3>2. /\ \A q \in Providers \ {p} : deployment'[q] = deployment[q]
          /\ deployment'[p].version = deployment[p].version
          /\ deployment'[p].spec = deployment[p].spec
      BY <2>14 DEF DeploymentController, IInv, TypeOK
    <3>3. UNCHANGED <<pc, plan, idx, fresh>>
      BY <2>14 DEF DeploymentController, upgrader, history
    <3>4. \A q \in Providers : Drained(q) => Drained(q)'
      BY <3>1, <3>2 DEF Drained
    <3>5. DeletedDrained'
      BY <3>1, <3>2 DEF DInv, DeletedDrained, Drained
    <3>6. ScaleDownDrained'
      <4>1. \A i \in Done : plan.items[i].provider \in Providers
        BY PlanProviders DEF Done, IInv
      <4> QED
        BY <3>3, <3>4, <4>1 DEF DInv, ScaleDownDrained, Done
    <3>7. WaitOnScaledDown'
      <4>1. pc = "WaitScaledDown" => Current.provider \in Providers
        BY CurrentType DEF IInv, Item
      <4> QED
        BY <3>2, <3>3, <4>1 DEF DInv, WaitOnScaledDown, Current
    <3>8. ReplaceDrained'
      <4>1. \A q \in Planned : q \in Providers
        BY PlanProviders DEF Planned, IInv
      <4> QED
        BY <3>3, <3>4, <4>1 DEF DInv, ReplaceDrained, Planned
    <3> QED
      BY <3>5, <3>6, <3>7, <3>8 DEF DInv
  <2>15. ASSUME NEW p \in Providers, OrphansTerminated(p) PROVE DInv'
    BY <2>15, DInvUnchanged DEF OrphansTerminated, upgrader, history
  <2>16. CASE UNCHANGED vars
    BY <2>16, DInvUnchanged DEF vars, cluster, upgrader, history
  <2> QED
    BY <2>1, <2>2, <2>3, <2>4, <2>5, <2>6, <2>7, <2>8, <2>9, <2>10, <2>11,
       <2>12, <2>13, <2>14, <2>15, <2>16 DEF Next
<1> QED
  BY <1>1, <1>2, IInvInvariant, PTL DEF Spec


\* doUpgrade scales every provider it upgrades down and waits for its pods
\* to go before it deletes and re-creates any (upgrader.go:363-407): while
\* components are replaced, every planned provider not yet re-created runs
\* no pod of its Deployment, for every fleet, plan and wait bound.
THEOREM DrainedBeforeReplaceInvariant == Spec => []DrainedBeforeReplace
<1>1. DInv => DrainedBeforeReplace
  BY DEF DInv, ReplaceDrained, Drained, DrainedBeforeReplace
<1> QED
  BY <1>1, DInvInvariant, PTL

=============================================================================
