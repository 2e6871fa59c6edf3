SPECIFICATION Spec
CONSTANTS
    Sessions = {s1}
CHECK_DEADLOCK FALSE
INVARIANTS
    KeysIntact
    SecretsWiped
