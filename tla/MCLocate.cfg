SPECIFICATION Spec
CONSTANTS
    Half = 128
    Second = 10
    Stores <- MCStores
    Configs <- MCConfigs
    Labels <- MCLabels
    MaxJobs = 2
INVARIANTS
    SelectionIsWhatWasAsked
    RestoresTheOneAsked
