CONSTANTS
  web = web
  worker = worker
  r1 = r1
  r2 = r2
  o1 = o1
  Responder = {r1}
  Observer = {o1}
  MsgOf <- MsgOfDef
  MaxMsgs = 1
  Procs = {worker}
  Leader = worker
  Debounced = FALSE
  Colleague = FALSE
  Movable = {"persona", "responder"}
  MaxRecoveries = 1
  MaxReposts = 0
  MaxCrashes = 0
  MaxFaults = 1
  MaxSlow = 0
  MaxMoves = 1
SPECIFICATION RoutesSpec
INVARIANTS NoQuietLoss ObserverRemembers ReportsEnd
PROPERTY EveryRowEnds
CHECK_DEADLOCK FALSE
