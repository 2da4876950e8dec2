SPECIFICATION Spec
CONSTANTS
  Messages = {m1, m2, m3}
  NoMessage = NoMessage
  Requests = {q1, q2}
  NoRequest = NoRequest
  Actions = {"forget_my_data"}
  MaxActive = 2
  MaxDeaths = 1
SYMMETRY Symmetry
INVARIANT TypeOK
INVARIANT RepliesStayOutOfTheModel
INVARIANT TurnsRemembered
INVARIANT OneRetrySuffices
INVARIANT DanglingByDeathOnly
CHECK_DEADLOCK FALSE
