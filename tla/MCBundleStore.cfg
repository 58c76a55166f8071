\* Two threads, three jobs, two bundles received under one bundle_id.
CONSTANTS
    v1 = v1
    v2 = v2
    f1 = f1
    f2 = f2
    Threads = {t1, t2}
    Stagers = {k1}
    Files = {f1, f2}
    Versions = {v1, v2}
    Paths <- MCPaths
    NoVersion = NoVersion
    NoDir = NoDir
    Missing = Missing
    Torn = Torn
    MaxJobs = 3
    MaxStagings = 2

SPECIFICATION Spec

SYMMETRY ThreadSymmetry

INVARIANT HealthyImportSucceeds
PROPERTY ImportNeverOverwrites
PROPERTY ImportIsComplete
PROPERTY RollbackRemovesItsOwn

CHECK_DEADLOCK FALSE
