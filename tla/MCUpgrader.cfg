\* Rollouts of ApplyPlan and ApplyCustomPlan, with failures, against a
\* cluster where every provider has a release of the current contract.
CONSTANTS
    Providers <- MCProviders
    ProviderType <- MCProviderType
    ProviderName <- MCProviderName
    MaxVersion = 3
    Contracts = {"v1alpha4", "v1beta1", "v1beta2"}
    CurrentContract = "v1beta1"
    Metadata <- MCMetadata
    Replicas = 1
    MaxWaitSteps = 2
    MaxCustomItems = 2
    NotInFleet = "aws"

SPECIFICATION Spec

INVARIANT TypeOK
INVARIANT DrainedBeforeReplace
PROPERTY ConsistentAfterSafeRollout
