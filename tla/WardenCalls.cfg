SPECIFICATION Spec
CONSTANTS
  Tenants = {1}
  Starts = {"absent", "reserved", "serving"}
  Callers = {a, b}
  a = a
  b = b
  Ops = {"create", "credentials", "replace", "reconnect", "reconcile", "llm", "share", "unshare", "delete", "repair", "sweep"}
  BadRenders = {}
  MaxValue = 3
  MaxCalls = 3
  MaxFaults = 1
  MaxRender = 1
  MaxEdits = 1
INVARIANTS ClosedIsMarked StoredIsLoaded ConfirmHonest
SYMMETRY Interchangeable
CHECK_DEADLOCK FALSE
