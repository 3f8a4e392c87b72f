\* A fleet all on v1alpha4; ApplyPlan(v1beta1) while the infrastructure
\* provider has no v1beta1 release: the plan is partial and changes the
\* contract, so Plan() would drop it, but ApplyPlan rolls it out.
CONSTANTS
    Providers <- MCProviders
    ProviderType <- MCProviderType
    ProviderName <- MCProviderName
    MaxVersion = 3
    Contracts = {"v1alpha4", "v1beta1", "v1beta2"}
    CurrentContract = "v1beta1"
    Metadata <- MCMetadataLagging
    Replicas = 1
    MaxWaitSteps = 2
    MaxCustomItems = 2
    NotInFleet = "aws"

SPECIFICATION Spec

PROPERTY ConsistentAfterRollout
