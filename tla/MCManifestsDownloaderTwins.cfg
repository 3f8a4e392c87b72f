CONSTANTS
    Providers <- MCTwinProviders
    Kind <- MCTwinKind
    ProviderName <- MCTwinName
    Namespace <- MCTwinNamespace
    HasSelector <- MCTwinHasSelector
    Versions = {"v1", "v2"}
    InitVersion <- MCTwinInitVersion
    ConcurrentReconciles = FALSE
SPECIFICATION Spec
PROPERTY EventuallyDownloaded
