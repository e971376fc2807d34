SPECIFICATION FilesSpec
CONSTANTS
    File = {f1, f2}
    Message = {m1, m2}
    Cleaner = {c1, c2}
    NoFile = NoFile
INVARIANTS
    AttachedFilesKept
    BlobsHaveRows
PROPERTIES
    OrphansRemoved
CHECK_DEADLOCK FALSE
