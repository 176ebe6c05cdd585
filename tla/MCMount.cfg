SPECIFICATION MountSpec
CONSTANTS
    Modes = {"ro", "rw", "ro_fallback"}
    MaxMounts = 3
INVARIANTS
    ResourcesSound
    UncleanIsMarked
PROPERTIES
    ReadOnlyMounts
