--------------------- MODULE ManifestsDownloaderProofs ---------------------
(***************************************************************************)
(* Proofs about the manifests downloader model (ManifestsDownloader.tla)   *)
(* for every value of its constants that satisfies DownloaderAssumption.   *)
(***************************************************************************)
EXTENDS ManifestsDownloader, TLAPS, FiniteSetTheorems

\* Every ConfigMap the API server holds is one createManifestsConfigMap
\* built: its name and its labels come from one provider and one version.
StoreBuilt ==
    \A cm \in store : \E q \in Providers, v \in Versions :
                          cm = ManifestsConfigMap(q, v)

\* The inductive invariant: the type, how the stored ConfigMaps were built,
\* and DownloadedWhenOk itself.
IInv == TypeOK /\ StoreBuilt /\ DownloadedWhenOk

\* Two ConfigMaps createManifestsConfigMap built with equal labels have
\* equal names: the name is the labels' type, name and version.
LEMMA LabelsDetermineName ==
    ASSUME NEW q \in Providers, NEW v \in Versions,
           NEW p \in Providers, NEW w \in Versions,
           ConfigMapLabels(q, v) = ConfigMapLabels(p, w)
    PROVE  ConfigMapName(q, v) = ConfigMapName(p, w)
<1>1. v = w /\ Kind[q] = Kind[p] /\ ProviderName[q] = ProviderName[p]
  BY DEF ConfigMapLabels
<1> QED
  BY <1>1 DEF ConfigMapName

\* A ConfigMap built for a provider at a version has the type ConfigMaps.
LEMMA ManifestsConfigMapType ==
    ASSUME NEW p \in Providers, NEW v \in Versions
    PROVE  ManifestsConfigMap(p, v) \in ConfigMaps
BY DEF ManifestsConfigMap, ConfigMaps

\* Initially nothing is stored and no reconcile has ended.
LEMMA InitIInv == Init => IInv
BY DownloaderAssumption DEF Init, IInv, TypeOK, StoreBuilt, DownloadedWhenOk

\* The end of a reconcile keeps the type of pc, result and queued.
LEMMA FinishType ==
    ASSUME TypeOK, NEW p \in Providers, NEW r \in {"ok", "error"}, Finish(p, r)
    PROVE  /\ pc' \in [Providers -> {"idle", "check", "fetch", "create"}]
           /\ result' \in [Providers -> {"none", "ok", "error"}]
           /\ queued' \subseteq Providers
BY DEF Finish, TypeOK

\* The strengthening holds in every reachable state.
THEOREM IInvInvariant == Spec => []IInv
<1>1. Init => IInv
  BY InitIInv
<1>2. IInv /\ [Next]_vars => IInv'
  <2> SUFFICES ASSUME IInv, [Next]_vars PROVE IInv'
    OBVIOUS
  <2> USE DEF IInv
  <2>1. ASSUME NEW p \in Providers, StartReconcile(p) PROVE IInv'
    BY <2>1 DEF StartReconcile, TypeOK, StoreBuilt, DownloadedWhenOk
  <2>2. ASSUME NEW p \in Providers, CheckConfigMap(p) PROVE IInv'
    <3>1. CASE HasSelector[p] /\ Finish(p, "ok")
      <4>1. DownloadedWhenOk'
        BY <2>2, <3>1 DEF CheckConfigMap, Finish, DownloadedWhenOk, TypeOK
      <4> QED
        BY <2>2, <3>1, <4>1, FinishType DEF CheckConfigMap, TypeOK, StoreBuilt
    <3>2. CASE Finish(p, "error")
      <4>1. DownloadedWhenOk'
        BY <2>2, <3>2 DEF CheckConfigMap, Finish, DownloadedWhenOk, TypeOK
      <4> QED
        BY <2>2, <3>2, <4>1, FinishType DEF CheckConfigMap, TypeOK, StoreBuilt
    <3>3. CASE Cardinality(ListedConfigMaps(p, snap[p])) = 1 /\ Finish(p, "ok")
      <4>1. ListedConfigMaps(p, snap[p]) # {}
        BY <3>3, FS_EmptySet
      <4>2. PICK c \in cache : c.labels = ConfigMapLabels(p, snap[p])
        BY <4>1 DEF ListedConfigMaps
      <4>3. PICK q \in Providers, v \in Versions : c = ManifestsConfigMap(q, v)
        BY <4>2 DEF TypeOK, StoreBuilt
      <4>4. ConfigMapLabels(q, v) = ConfigMapLabels(p, snap[p])
        BY <4>2, <4>3 DEF ManifestsConfigMap
      <4>5. c.name = ConfigMapName(p, snap[p])
        BY <4>3, <4>4, LabelsDetermineName DEF ManifestsConfigMap, TypeOK
      <4>6. c \in store
        BY <4>2 DEF TypeOK
      <4>7. DownloadedWhenOk'
        BY <2>2, <3>3, <4>5, <4>6
           DEF CheckConfigMap, Finish, DownloadedWhenOk, TypeOK
      <4> QED
        BY <2>2, <3>3, <4>7, FinishType DEF CheckConfigMap, TypeOK, StoreBuilt
    <3>4. CASE pc' = [pc EXCEPT ![p] = "fetch"] /\ UNCHANGED <<queued, result>>
      BY <2>2, <3>4 DEF CheckConfigMap, TypeOK, StoreBuilt, DownloadedWhenOk
    <3> QED
      BY <2>2, <3>1, <3>2, <3>3, <3>4 DEF CheckConfigMap, ListedConfigMaps
  <2>3. ASSUME NEW p \in Providers, FetchSucceeds(p) PROVE IInv'
    BY <2>3 DEF FetchSucceeds, TypeOK, StoreBuilt, DownloadedWhenOk
  <2>4. ASSUME NEW p \in Providers, FetchFails(p) PROVE IInv'
    <3>1. DownloadedWhenOk'
      BY <2>4 DEF FetchFails, Finish, DownloadedWhenOk, TypeOK
    <3> QED
      BY <2>4, <3>1, FinishType DEF FetchFails, TypeOK, StoreBuilt
  <2>5. ASSUME NEW p \in Providers, CreateConfigMap(p) PROVE IInv'
    <3> DEFINE cm == ManifestsConfigMap(p, snap[p])
    <3>0. snap[p] \in Versions
      BY DEF TypeOK
    <3>1. CASE Finish(p, "error") /\ UNCHANGED store
      <4>1. DownloadedWhenOk'
        BY <2>5, <3>1 DEF CreateConfigMap, Finish, DownloadedWhenOk, TypeOK
      <4> QED
        BY <2>5, <3>1, <4>1, FinishType DEF CreateConfigMap, TypeOK, StoreBuilt
    <3>2. CASE store' = store \cup {cm} /\ Finish(p, "ok")
      <4>1. StoreBuilt'
        BY <2>5, <3>0, <3>2 DEF CreateConfigMap, StoreBuilt
      <4>2. cm \in ConfigMaps
        BY <3>0, ManifestsConfigMapType
      <4>3. TypeOK'
        BY <2>5, <3>2, <4>2, FinishType DEF CreateConfigMap, TypeOK
      <4>4. cm.name = ConfigMapName(p, snap[p])
        BY DEF ManifestsConfigMap
      <4>5. DownloadedWhenOk'
        BY <2>5, <3>2, <4>4
           DEF CreateConfigMap, Finish, DownloadedWhenOk, TypeOK
      <4> QED
        BY <4>1, <4>3, <4>5
    <3> QED
      BY <2>5, <3>1, <3>2 DEF CreateConfigMap
  <2>6. ASSUME NEW p \in Providers, NEW v \in Versions, SetVersion(p, v)
        PROVE IInv'
    BY <2>6 DEF SetVersion, TypeOK, StoreBuilt, DownloadedWhenOk
  <2>7. ASSUME NEW c \in store, CacheSync(c) PROVE IInv'
    BY <2>7 DEF CacheSync, TypeOK, StoreBuilt, DownloadedWhenOk
  <2>8. CASE UNCHANGED vars
    BY <2>8 DEF vars, TypeOK, StoreBuilt, DownloadedWhenOk
  <2> QED
    BY <2>1, <2>2, <2>3, <2>4, <2>5, <2>6, <2>7, <2>8 DEF Next
<1> QED
  BY <1>1, <1>2, PTL DEF Spec

\* Type correctness of the downloader: versions, the stored and cached
\* ConfigMaps, the queue and each reconcile's step stay in their sets.
THEOREM TypeCorrect == Spec => []TypeOK
BY IInvInvariant, PTL DEF IInv

\* downloadManifests (manifests_downloader.go:55-99) returns no error for a
\* provider without a custom selector only when a ConfigMap named for the
\* version it reconciled is stored: found through the cache or created.
THEOREM DownloadedWhenOkInvariant == Spec => []DownloadedWhenOk
BY IInvInvariant, PTL DEF IInv
=============================================================================
