CONSTANTS
    Namespaces <- MCNamespaces
    Secrets <- MCSecrets
    Images <- MCImages
    LogLevels <- MCLogLevels
    ReplicaCounts <- MCReplicaCounts
    OperatorEnv <- MCOperatorEnv
    URLs <- MCURLs
SPECIFICATION Spec
INVARIANT
    DriverVersionIsTag
