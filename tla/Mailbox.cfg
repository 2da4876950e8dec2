SPECIFICATION Spec
CONSTANTS
  Users = {u1, cli}
  CliUser = cli
  Gmail = {a, b}
  Outlook = {c}
  Flows = {f1}
  Jobs = {j1, j2}
  MaxGrants = 2
  MaxDeaths = 1
  NoUser = NoUser
  NoFlow = NoFlow
  NoMailbox = NoMailbox
SYMMETRY Alike
INVARIANTS MailboxTypeOK TransfersAudited FlowsConnectOnce StoredTokensWork ErasedIsDisconnected Announced
CHECK_DEADLOCK FALSE
