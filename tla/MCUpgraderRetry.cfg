\* Rollouts of ApplyPlan only (requests of no items), interrupted at any
\* step and retried.
CONSTANTS
    Providers <- MCProviders
    ProviderType <- MCProviderType
    ProviderName <- MCProviderName
    MaxVersion = 3
    Contracts = {"v1alpha4", "v1beta1", "v1beta2"}
    CurrentContract = "v1beta1"
    Metadata <- MCMetadata
    Replicas = 1
    MaxWaitSteps = 2
    MaxCustomItems = 0
    NotInFleet = "aws"

SPECIFICATION Spec

PROPERTY RecoveredByApplyPlan
