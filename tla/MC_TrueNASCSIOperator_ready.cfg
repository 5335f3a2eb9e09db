CONSTANTS
    n1 = n1
    n2 = n2
    c1 = c1
    c2 = c2
    None = None
    Namespaces <- MCOneNamespace
    Configs <- MCConfigs
    ManagementStates = {"Managed", "Unmanaged"}
    MaxUserOps = 1
    MaxApiErrors = 1
    MaxFlaps = 1
SPECIFICATION Spec
INVARIANT ReadyConditionTruthful
CHECK_DEADLOCK FALSE
