SPECIFICATION BackupSpec
CONSTANTS
    Requests = {r1, r2, r3}
    None = None
    Uploads <- UploadedFiles
    Factory <- FactoryRows
    Initial <- InitialRows
    Failures = {FALSE, TRUE}
    MaxRewrites = 2
CHECK_DEADLOCK FALSE
SYMMETRY RequestSymmetry
 
PROPERTIES RestoreIsMerge EraseForgets
