\* Two executions over two runs, with a table, a routine and a domain that may
\* be there or appear, while a session with the old credentials connects and
\* writes.
CONSTANTS
    j1 = j1  j2 = j2  r1 = r1  r2 = r2  table = table  routine = routine  domain = domain
    Jobs = {j1, j2}
    Runs = {r1, r2}
    Objects = {table, routine, domain}
    Movable = {table, routine}
    Relations = {table}
    Tables = {table}
    Supported = {table, routine}
    MaxWrites = 1
    MaxConnects = 1
    None = None
SPECIFICATION Spec
SYMMETRY IsolationSymmetry
INVARIANTS
    ChangeIsBackedUpAndReviewed AppliedKeepsTheData VerifiedIsIsolated
CHECK_DEADLOCK FALSE
