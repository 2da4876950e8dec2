SPECIFICATION Spec
CONSTANTS
  Messages = {m1, m2, m3, m4}
  NoMessage = NoMessage
  Requests = {q1}
  NoRequest = NoRequest
  Actions = {"forget_my_data", "disconnect_email"}
  MaxActive = 1
  MaxDeaths = 1
SYMMETRY Symmetry
INVARIANT ActedOnOnce
INVARIANT UnconsentedLeaveNoTrace
INVARIANT ConsentAfterNotice
CHECK_DEADLOCK FALSE
