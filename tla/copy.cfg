\* Two executions of either helper over two runs, while a writer connects twice
\* and writes.
CONSTANTS
    j1 = j1  j2 = j2  r1 = r1  r2 = r2
    Jobs = {j1, j2}
    Runs = {r1, r2}
    MaxWrites = 1
    MaxConnects = 2
    None = None
SPECIFICATION Spec
SYMMETRY CopySymmetry
INVARIANTS
    BackupIsExact TargetIsItsBackup VerifiedMissesNothing GrantsAreTemporary
CHECK_DEADLOCK FALSE
