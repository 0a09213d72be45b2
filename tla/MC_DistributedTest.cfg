CONSTANTS
    None <- none
    Combos <- MCCombos
    MaxGpus = 2
    none = none
SPECIFICATION Spec
INVARIANTS
    TypeOK
    OutcomeAgrees
CHECK_DEADLOCK FALSE
