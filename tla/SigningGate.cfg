SPECIFICATION Spec
CONSTANTS
    Gates = {g1, g2}
    Registries <- ReplacedRegistries
    GrantIDs = {1, 2, 3}
    Artifacts = {"boot", "eeprom"}
    Contexts = {"first", "second"}
    Nil = Nil
    MaxTime = 2
    MaxWriteFailures = 1
SYMMETRY Symmetry
INVARIANTS
    KeyUsedOnce
    ReceiptsAreDurable
    ReceiptsAreAuthorized
