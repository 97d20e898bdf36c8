SPECIFICATION Spec
CONSTANTS
    Half = 128
    Second = 10
    Stores <- MCStores
    Configs <- ReadmeConfigs
    Labels <- MCLabels
    MaxJobs = 1
INVARIANT
    DocumentedKeysSelect
