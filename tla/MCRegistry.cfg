SPECIFICATION Spec
CONSTANTS
    Tokens <- MCTokens
    Packages <- MCPackages
    Configs <- MCConfigs
INVARIANTS
    ConnectsAsConfigured
    StorageNewSound
