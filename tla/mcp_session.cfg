\* Two callers, two containers, the extension and its human.
CONSTANTS
  Callers = {m1, m2}
  Containers = {k1, k2}
  Targets = {t1, t2}
  Refs = {r1, r2}
  None = None
  MaxBrowsers = 2
SPECIFICATION Spec
SYMMETRY Symmetry
CHECK_DEADLOCK FALSE
INVARIANTS TypeOK ActsWhereApproved RefNamesOnePage ContextsAreReferenced LiveRuntimeIsOwned
