SPECIFICATION FairSpec
INVARIANT
  OnlyOwnEventsOvertake
PROPERTIES
  DisplayMovesForward
  PageCatchesUp
CHECK_DEADLOCK FALSE
CONSTANTS
  w1 = w1
  Worker = {w1}
  Api = api
  Owner = owner
  Requests = {"cancel", "decide", "refuse"}
  Stages = {"AUDITING"}
  MaxEvents = 4
