SPECIFICATION Spec
CONSTANTS
    Commands = {"wrap", "unwrap", "install", "uninstall"}
    NoFile = NoFile
    NoPath = NoPath
    Blank = Blank
    MaxVersion = 3
INVARIANTS
    EditKept
    WrapCanBeUndone
PROPERTIES
    UninstallKeepsEdits
