SPECIFICATION FleetFairSpec
CONSTANTS
  Tenants = {1, 2}
  Starts = {"serving"}
  Callers = {timer, a}
  timer = timer
  a = a
  Timer = timer
  Ops = {"reconcile", "llm", "delete"}
  BadRenders = {1}
  MaxValue = 2
  MaxCalls = 1
  MaxFaults = 1
  MaxRender = 2
  MaxEdits = 1
INVARIANTS BadRenderCostsOne
PROPERTIES RollConverges
CHECK_DEADLOCK FALSE
