----------------------------- MODULE MCUpgrader -----------------------------
(* A management cluster with a core, a control plane and an infrastructure *)
(* provider, contracts v1alpha4 (old), v1beta1 (current) and v1beta2 (not  *)
(* supported by this clusterctl), versions 1..3.                            *)
EXTENDS Upgrader, TLC

MCProviders == {"cluster-api", "kubeadm", "docker"}

MCProviderType ==
    [p \in MCProviders |->
        CASE p = "cluster-api" -> "CoreProviderType"
          [] p = "kubeadm"     -> "ControlPlaneProviderType"
          [] p = "docker"      -> "InfrastructureProviderType"]

MCProviderName == [p \in MCProviders |-> p]

\* Every provider has a release of the current contract.
MCMetadata ==
    [p \in MCProviders |->
        CASE p = "cluster-api" -> (1 :> "v1alpha4" @@ 2 :> "v1beta1" @@ 3 :> "v1beta2")
          [] p = "kubeadm"     -> (1 :> "v1alpha4" @@ 2 :> "v1beta1" @@ 3 :> "v1beta1")
          [] p = "docker"      -> (1 :> "v1alpha4" @@ 3 :> "v1beta1")]

\* The infrastructure provider has no release of the current contract yet.
MCMetadataLagging ==
    [p \in MCProviders |->
        CASE p = "cluster-api" -> (1 :> "v1alpha4" @@ 2 :> "v1beta1")
          [] p = "kubeadm"     -> (1 :> "v1alpha4" @@ 2 :> "v1beta1")
          [] p = "docker"      -> (1 :> "v1alpha4" @@ 2 :> "v1alpha4")]

=============================================================================
