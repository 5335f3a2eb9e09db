CONSTANTS
    n1 = n1
    n2 = n2
    c1 = c1
    c2 = c2
    None = None
    Namespaces <- MCNamespaces
    Configs <- MCConfigs
    ManagementStates = {"Managed"}
    MaxUserOps = 1
    MaxApiErrors = 1
    MaxFlaps = 1
SPECIFICATION Spec
INVARIANTS TypeOK NoLeakedClusterObjects RunningStatusIsCurrent
SYMMETRY MCSymmetry
VIEW MCView
CHECK_DEADLOCK FALSE
