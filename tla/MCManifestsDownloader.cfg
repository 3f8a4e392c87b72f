CONSTANTS
    Providers <- MCProviders
    Kind <- MCKind
    ProviderName <- MCProviderName
    Namespace <- MCNamespace
    HasSelector <- MCHasSelector
    Versions = {"v1", "v2"}
    InitVersion <- MCInitVersion
    ConcurrentReconciles = FALSE
SPECIFICATION Spec
INVARIANT DownloadedWhenOk
PROPERTY EventuallyDownloaded
