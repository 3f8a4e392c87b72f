------------------------ MODULE ManifestsDownloader ------------------------
(***************************************************************************)
(* The downloadManifests phase of the operator's provider reconciler       *)
(* (src/internal/controller/manifests_downloader.go): before a provider is *)
(* loaded, its metadata and components are fetched once and stored in a    *)
(* ConfigMap labelled with the provider's type, name and version.          *)
(*                                                                         *)
(* The existence check lists ConfigMaps through the manager's cached       *)
(* client, in every namespace; the cache learns of a created ConfigMap     *)
(* only some time after the API server stored it.  Reconciles of one kind  *)
(* run one at a time unless the controller options allow more.             *)
(***************************************************************************)
EXTENDS Naturals, FiniteSets

CONSTANTS
    Providers,        \* provider objects the operator reconciles
    Kind,             \* Kind[p]: p.GetType()
    ProviderName,     \* ProviderName[p]: p.GetName()
    Namespace,        \* Namespace[p]: p.GetNamespace()
    HasSelector,      \* HasSelector[p]: spec.FetchConfig.Selector != nil
    Versions,         \* spec.version values a user may set
    InitVersion,      \* spec.version when the provider is created
    ConcurrentReconciles \* controller.Options allow several reconciles of
                         \* one kind at a time

ASSUME DownloaderAssumption ==
    /\ IsFiniteSet(Providers)
    /\ InitVersion \in [Providers -> Versions]
    /\ HasSelector \in [Providers -> BOOLEAN]
    /\ ConcurrentReconciles \in BOOLEAN
    \* the API server keeps one provider of a kind per name and namespace
    /\ \A p, q \in Providers :
          (/\ Kind[p] = Kind[q]
           /\ ProviderName[p] = ProviderName[q]
           /\ Namespace[p] = Namespace[q]) => p = q

VARIABLES
    version,          \* spec.version of each provider
    store,            \* ConfigMaps the API server holds
    cache,            \* ConfigMaps the informer cache has seen
    queued,           \* providers in the controller's work queue
    pc,               \* pc[p]: "idle", or the step p's reconcile is at
    snap,             \* spec.version read when p's reconcile started
    result            \* outcome of p's last downloadManifests

vars == <<version, store, cache, queued, pc, snap, result>>

\* Mutant: labels without the version.
ConfigMapLabelsNoVersion(p, v) == [type |-> Kind[p], name |-> ProviderName[p]]

\* prepareConfigMapLabels
ConfigMapLabels(p, v) == [version |-> v, type |-> Kind[p], name |-> ProviderName[p]]

\* Mutant: a ConfigMap name without the version.
ConfigMapNameNoVersion(p, v) == <<Kind[p], ProviderName[p]>>

\* configMapName: "<type>-<name>-<version>"
ConfigMapName(p, v) == <<Kind[p], ProviderName[p], v>>

\* The ConfigMap createManifestsConfigMap builds for p at version v.
ManifestsConfigMap(p, v) ==
    [name |-> ConfigMapName(p, v), namespace |-> Namespace[p],
     labels |-> ConfigMapLabels(p, v)]

Init ==
    /\ version = InitVersion
    /\ store = {}
    /\ cache = {}
    /\ queued = Providers
    /\ pc = [p \in Providers |-> "idle"]
    /\ snap = InitVersion
    /\ result = [p \in Providers |-> "none"]

\* checkConfigMapExists: the ConfigMaps of every namespace, as the cached
\* client lists them, whose labels match p's at version v.
ListedConfigMaps(p, v) == {cm \in cache : cm.labels = ConfigMapLabels(p, v)}

\* downloadManifests returns: an error requeues the provider.
Finish(p, r) ==
    /\ pc' = [pc EXCEPT ![p] = "idle"]
    /\ result' = [result EXCEPT ![p] = r]
    /\ queued' = IF r = "error" THEN queued \cup {p} ELSE queued

\* A worker takes p from the queue and reads its spec; with one worker per
\* kind, no other provider of that kind is being reconciled.
StartReconcile(p) ==
    /\ p \in queued
    /\ pc[p] = "idle"
    /\ ConcurrentReconciles \/ \A q \in Providers :
                                  Kind[q] = Kind[p] => pc[q] = "idle"
    /\ queued' = queued \ {p}
    /\ pc' = [pc EXCEPT ![p] = "check"]
    /\ snap' = [snap EXCEPT ![p] = version[p]]
    /\ UNCHANGED <<version, store, cache, result>>

\* The custom selector check, then checkConfigMapExists on the cached
\* list of every namespace.
CheckConfigMap(p) ==
    /\ pc[p] = "check"
    /\ LET found == ListedConfigMaps(p, snap[p])
       IN  \/ /\ HasSelector[p]
              /\ Finish(p, "ok")
           \/ /\ ~HasSelector[p]
              /\ Cardinality(found) > 1
              /\ Finish(p, "error")
           \/ /\ ~HasSelector[p]
              /\ Cardinality(found) = 1
              /\ Finish(p, "ok")
           \/ /\ ~HasSelector[p]
              /\ found = {}
              /\ pc' = [pc EXCEPT ![p] = "fetch"]
              /\ UNCHANGED <<queued, result>>
    /\ UNCHANGED <<version, store, cache, snap>>

\* repositoryFactory and the two GetFile calls succeed ...
FetchSucceeds(p) ==
    /\ pc[p] = "fetch"
    /\ pc' = [pc EXCEPT ![p] = "create"]
    /\ UNCHANGED <<version, store, cache, queued, snap, result>>

\* ... or one of them fails.
FetchFails(p) ==
    /\ pc[p] = "fetch"
    /\ Finish(p, "error")
    /\ UNCHANGED <<version, store, cache, snap>>

\* createManifestsConfigMap: Create fails when the namespace already holds
\* a ConfigMap of that name.
CreateConfigMap(p) ==
    /\ pc[p] = "create"
    /\ LET cm == ManifestsConfigMap(p, snap[p]) IN
       \/ /\ \E old \in store : old.namespace = cm.namespace /\ old.name = cm.name
          /\ Finish(p, "error")
          /\ UNCHANGED store
       \/ /\ ~\E old \in store : old.namespace = cm.namespace /\ old.name = cm.name
          /\ store' = store \cup {cm}
          /\ Finish(p, "ok")
    /\ UNCHANGED <<version, cache, snap>>

\* The user sets a new spec.version; the watch queues the provider.
SetVersion(p, v) ==
    /\ v # version[p]
    /\ version' = [version EXCEPT ![p] = v]
    /\ queued' = queued \cup {p}
    /\ UNCHANGED <<store, cache, pc, snap, result>>

\* The informer delivers a ConfigMap the API server holds.
CacheSync(cm) ==
    /\ cm \in store \ cache
    /\ cache' = cache \cup {cm}
    /\ UNCHANGED <<version, store, queued, pc, snap, result>>

Next ==
    \/ \E p \in Providers :
          \/ StartReconcile(p) \/ CheckConfigMap(p)
          \/ FetchSucceeds(p) \/ FetchFails(p) \/ CreateConfigMap(p)
          \/ \E v \in Versions : SetVersion(p, v)
    \/ \E cm \in store : CacheSync(cm)

\* The work queue hands every queued provider to a worker, the informer
\* catches up, and the repository answers eventually.
Fairness ==
    /\ \A p \in Providers :
          /\ SF_vars(StartReconcile(p))
          /\ WF_vars(CheckConfigMap(p))
          /\ SF_vars(FetchSucceeds(p))
          /\ WF_vars(CreateConfigMap(p))
    /\ WF_vars(\E cm \in store : CacheSync(cm))

Spec == Init /\ [][Next]_vars /\ Fairness

-----------------------------------------------------------------------------
(* Properties.                                                             *)

ConfigMaps == [name : {ConfigMapName(p, v) : p \in Providers, v \in Versions},
               namespace : {Namespace[p] : p \in Providers},
               labels : {ConfigMapLabels(p, v) : p \in Providers, v \in Versions}]

TypeOK ==
    /\ version \in [Providers -> Versions]
    /\ store \subseteq ConfigMaps
    /\ cache \subseteq store
    /\ queued \subseteq Providers
    /\ pc \in [Providers -> {"idle", "check", "fetch", "create"}]
    /\ snap \in [Providers -> Versions]
    /\ result \in [Providers -> {"none", "ok", "error"}]

\* When downloadManifests returns no error for a provider without a custom
\* selector, the manifests of the version it reconciled are stored: a
\* ConfigMap of that name exists (manifests_downloader.go:55-69, 93).
DownloadedWhenOk ==
    \A p \in Providers :
        /\ pc[p] = "idle" /\ result[p] = "ok" /\ ~HasSelector[p]
        => \E cm \in store : cm.name = ConfigMapName(p, snap[p])

\* Every provider without a custom selector gets past downloadManifests
\* again and again: no error of the phase is permanent, whatever versions
\* the user sets.
EventuallyDownloaded ==
    \A p \in Providers :
        ~HasSelector[p] => []<>(pc[p] = "idle" /\ result[p] = "ok")

=============================================================================
