----------------------- MODULE MCManifestsDownloader -----------------------
(* Constants of the manifests downloader for TLC.                          *)
EXTENDS ManifestsDownloader, TLC

\* Two infrastructure providers; aws uses a custom ConfigMap selector, so
\* only docker downloads its manifests.
MCProviders == {"docker", "aws"}
MCKind == [p \in MCProviders |-> "InfrastructureProvider"]
MCProviderName == [p \in MCProviders |-> p]
MCNamespace == ("docker" :> "capd-system") @@ ("aws" :> "capa-system")
MCHasSelector == [p \in MCProviders |-> p = "aws"]

\* The core provider, created in two namespaces.
MCTwinProviders == {"capiA", "capiB"}
MCTwinKind == [p \in MCTwinProviders |-> "CoreProvider"]
MCTwinName == [p \in MCTwinProviders |-> "cluster-api"]
MCTwinNamespace == [p \in MCTwinProviders |->
                      IF p = "capiA" THEN "ns-a" ELSE "ns-b"]
MCTwinHasSelector == [p \in MCTwinProviders |-> FALSE]

MCInitVersion == [p \in MCProviders |-> "v1"]
MCTwinInitVersion == [p \in MCTwinProviders |-> "v1"]

=============================================================================
