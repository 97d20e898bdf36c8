SPECIFICATION Spec
CONSTANTS
    MaxSamples = 4
    Ops = {"backup", "check", "rm"}
    MaxEmits = 12
INVARIANTS
    TypeOK
    EvenlySpaced
    SpansRun
