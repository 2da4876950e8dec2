------------------------------- MODULE Mailbox -------------------------------
(***************************************************************************)
(* The mailboxes of the users: the hosted OAuth flow and its callback      *)
(* (hosted-oauth.ts, oauth.routes.ts), the local one (connect-email.ts),   *)
(* the stored connections (email-connection.repo.ts), their removal by     *)
(* disconnect_email and forget_my_data (operator/tools.ts), and the access *)
(* to an inbox with its token refresh (email-ingest/index.ts).             *)
(*                                                                         *)
(* A job is one callback, script, confirmed action or scan.  Every awaited *)
(* query or request of it is a step of its own.  What Google and Microsoft *)
(* do is external: they issue grants, honour them, and Google revokes all  *)
(* it has issued for a mailbox.                                            *)
(***************************************************************************)
EXTENDS Naturals, FiniteSets

CONSTANTS
  Users,
  CliUser,     \* the user of the command line
  Gmail,       \* the mailboxes at Google
  Outlook,     \* and at Microsoft
  Flows,       \* bounds the links that are handed out
  Jobs,        \* bounds what runs at once
  MaxGrants,   \* bounds the authorizations a user completes
  MaxDeaths,   \* bounds the failures of the database or the process
  NoUser, NoFlow, NoMailbox

ASSUME UsersAssumption == CliUser \in Users /\ NoUser \notin Users
ASSUME MailboxAssumption == Gmail \cap Outlook = {} /\ NoMailbox \notin Gmail \cup Outlook
ASSUME FlowAssumption == NoFlow \notin Flows
ASSUME JobsAssumption == IsFiniteSet(Jobs)
ASSUME BoundsAssumption == MaxGrants \in Nat /\ MaxDeaths \in Nat

VARIABLES
  flow,        \* oauth_pending_flows
  conn,        \* email_connections, by their unique address
  audit,       \* the mailbox_reassigned entries: which grant took it from whom
  job,
  live,        \* at the providers: the grants that are honoured, by mailbox
  grants       \* how many there have been

\* What has happened; never read by the code.
VARIABLES
  moved,       \* the upserts that took a mailbox from another user, until jobs overlapped
  uses,        \* how many connections each flow has made
  completed,   \* the flows whose callback succeeded
  announced,   \* the flows whose chat has the confirmation
  refused,     \* those whose chat was not found, or did not take it
  erased,      \* the users whose data was erased, until they come back or jobs overlap
  leftover,    \* the flows that were open when their user's data was erased
  overlapped,  \* two jobs have been in progress at once
  deaths

tables   == << flow, conn, audit >>
provider == << live, grants >>
history  == << moved, uses, completed, announced, refused, erased, leftover,
               overlapped, deaths >>
vars     == << tables, job, provider, history >>

Mailboxes == Gmail \cup Outlook
Providers == { "gmail", "outlook" }

Provider(box) == IF box \in Gmail THEN "gmail" ELSE "outlook"

-----------------------------------------------------------------------------
FlowRows == [ state : { "none", "open", "consumed" },
              user : Users \cup { NoUser }, provider : Providers ]

\* The refresh token is of one grant, the access token of the same or another.
Connections ==
  [ owner : Users \cup { NoUser }, flow : Flows \cup { NoFlow },
    refresh : 0..MaxGrants, access : 0..MaxGrants ]

NoConnection ==
  [ owner |-> NoUser, flow |-> NoFlow, refresh |-> 0, access |-> 0 ]

Steps == { "idle", "exchanges", "fetches", "looks", "upserts", "audits", "consumes",
           "resumes", "fallsBack", "pushes", "revokes", "deletes", "records", "refreshes",
           "stores" }

\* A job, and what it has read or been told so far.
JobStates ==
  [ kind    : { "callback", "local", "disconnect", "forget", "scan" },
    pc      : Steps,
    user    : Users \cup { NoUser },
    flow    : Flows \cup { NoFlow },
    box     : Mailboxes \cup { NoMailbox },
    grant   : 0..MaxGrants,
    prev    : Users \cup { NoUser },     \* reassignedFromUserId
    ok      : BOOLEAN,                   \* what completeHostedFlow will return
    todo    : SUBSET Providers ]         \* of a disconnect or an erasure

Idle == [ kind |-> "scan", pc |-> "idle", user |-> NoUser, flow |-> NoFlow,
          box |-> NoMailbox, grant |-> 0, prev |-> NoUser, ok |-> FALSE,
          todo |-> {} ]

Init ==
  /\ flow = [f \in Flows |-> [state |-> "none", user |-> NoUser, provider |-> "gmail"]]
  /\ conn = [box \in Mailboxes |-> NoConnection]
  /\ audit = {}
  /\ job = [j \in Jobs |-> Idle]
  /\ live = [box \in Mailboxes |-> {}]
  /\ grants = 0
  /\ moved = {} /\ uses = [f \in Flows |-> 0]
  /\ completed = {} /\ announced = {} /\ refused = {}
  /\ erased = {} /\ leftover = {}
  /\ overlapped = FALSE /\ deaths = 0

Running(j) == job[j].pc # "idle"

At(j, kind, pc) == job[j].kind = kind /\ job[j].pc = pc

Goto(j, pc) == job' = [job EXCEPT ![j].pc = pc]

End(j) == job' = [job EXCEPT ![j] = Idle]

\* A job begins as `state`, beside whatever is running.
Begin(j, state) ==
  /\ ~ Running(j)
  /\ job' = [job EXCEPT ![j] = state]
  /\ overlapped' = (overlapped \/ \E i \in Jobs : Running(i))

-----------------------------------------------------------------------------
(***************************************************************************)
(* The hosted flow.                                                        *)
(***************************************************************************)
\* buildHostedAuthorizationUrl, by connect_email: one row, and the link at once.
BuildHostedAuthorizationUrl(u, p) ==
  /\ \E f \in Flows :
       /\ flow[f].state = "none"
       /\ flow' = [flow EXCEPT ![f] = [state |-> "open", user |-> u, provider |-> p]]
  /\ erased' = erased \ { u }
  /\ UNCHANGED << conn, audit, job, provider, moved, uses, completed, announced,
                  refused, leftover, overlapped, deaths >>

\* Of a row that is found: neither consumed nor expired.  A link that expires is one
\* that is not followed.
Usable(f) == flow[f].state = "open"

\* completeHostedFlow up to its checks; a row it refuses ends it with no trace.  The
\* user has denied access (or there is no code), or picked an account at the provider.
Callback(j) ==
  \E f \in Flows :
    /\ Usable(f)
    /\ LET begun == [Idle EXCEPT !.kind = "callback", !.flow = f, !.user = flow[f].user]
       IN \/ Begin(j, [begun EXCEPT !.pc = "consumes"])
          \/ \E box \in Mailboxes :
               /\ Provider(box) = flow[f].provider
               /\ Begin(j, [begun EXCEPT !.pc = "exchanges", !.box = box])
    /\ UNCHANGED << tables, provider, moved, uses, completed, announced, refused,
                    erased, leftover, deaths >>

\* connect-email.ts: the command line's own flow, which has no row.
RunAuthorizationCodeFlow(j) ==
  /\ \E box \in Mailboxes :
       Begin(j, [Idle EXCEPT !.kind = "local", !.pc = "exchanges", !.user = CliUser,
                             !.box = box])
  /\ UNCHANGED << tables, provider, moved, uses, completed, announced, refused,
                  erased, leftover, deaths >>

\* exchangeCodeForTokens: the provider grants access.
Exchange(j) ==
  /\ job[j].pc = "exchanges"
  /\ grants < MaxGrants
  /\ grants' = grants + 1
  /\ live' = [live EXCEPT ![job[j].box] = @ \cup { grants' }]
  /\ job' = [job EXCEPT ![j].pc = "fetches", ![j].grant = grants']
  /\ UNCHANGED << tables, history >>

\* Or it fails: of a callback, the flow is consumed for that.
ExchangeFails(j) ==
  /\ job[j].pc = "exchanges"
  /\ IF job[j].kind = "callback" THEN Goto(j, "consumes") ELSE End(j)
  /\ UNCHANGED << tables, provider, history >>

\* fetchEmailAddress; the script looks at no previous owner.  A lookup that Microsoft
\* refuses yields "unknown" for whoever it is, so one of Outlook may stand for several.
FetchEmailAddress(j) ==
  /\ job[j].pc = "fetches"
  /\ Goto(j, IF job[j].kind = "callback" THEN "looks" ELSE "upserts")
  /\ UNCHANGED << tables, provider, history >>

\* It throws, and nothing catches it before the route: the flow stays open.
FetchThrows(j) ==
  /\ job[j].pc = "fetches"
  /\ End(j)
  /\ UNCHANGED << tables, provider, history >>

\* Mutant: it compares with the owner who started the flow only when there was none.
FindOwnerOfFree(j) ==
  /\ At(j, "callback", "looks")
  /\ job' = [job EXCEPT ![j].pc = "upserts"]
  /\ UNCHANGED << tables, provider, history >>

\* findByEmailAddress: who has the mailbox, if it is another user.
FindOwner(j) ==
  /\ At(j, "callback", "looks")
  /\ job' = [job EXCEPT
       ![j].pc = "upserts",
       ![j].prev = IF conn[job[j].box].owner = job[j].user THEN NoUser
                   ELSE conn[job[j].box].owner]
  /\ UNCHANGED << tables, provider, history >>

\* Mutant: on a conflict the refresh token of the row is kept.
UpsertKeeping(j) ==
  LET me == job[j]
      had == conn[me.box] IN
  /\ me.pc = "upserts"
  /\ conn' = [conn EXCEPT ![me.box] =
       [ owner |-> me.user, flow |-> me.flow, access |-> me.grant,
         refresh |-> IF had.owner = NoUser THEN me.grant ELSE had.refresh ]]
  /\ uses' = IF me.kind = "callback" THEN [uses EXCEPT ![me.flow] = @ + 1] ELSE uses
  /\ IF me.kind = "local" THEN End(j)
     ELSE job' = [job EXCEPT ![j].ok = TRUE, ![j].pc = "consumes"]
  /\ UNCHANGED << flow, audit, provider, moved, completed, announced, refused,
                  erased, leftover, overlapped, deaths >>

\* upsert: the row is the caller's now, whoever had it.
Upsert(j) ==
  LET me == job[j]
      had == conn[me.box].owner IN
  /\ me.pc = "upserts"
  /\ conn' = [conn EXCEPT ![me.box] =
       [ owner |-> me.user, flow |-> me.flow, refresh |-> me.grant,
         access |-> me.grant ]]
  /\ moved' = IF me.kind = "callback" /\ had \notin { NoUser, me.user } /\ ~ overlapped
              THEN moved \cup { [grant |-> me.grant, from |-> had] } ELSE moved
  /\ uses' = IF me.kind = "callback" THEN [uses EXCEPT ![me.flow] = @ + 1] ELSE uses
  /\ IF me.kind = "local" THEN End(j)
     ELSE job' = [job EXCEPT ![j].ok = TRUE,
                             ![j].pc = IF me.prev = NoUser THEN "consumes" ELSE "audits"]
  /\ UNCHANGED << flow, audit, provider, completed, announced, refused, erased,
                  leftover, overlapped, deaths >>

\* The mailbox_reassigned entry: what it was for is kept until jobs overlap, as in `moved`.
Audit(j) ==
  /\ At(j, "callback", "audits")
  /\ audit' = IF overlapped THEN audit
              ELSE audit \cup { [grant |-> job[j].grant, from |-> job[j].prev] }
  /\ Goto(j, "consumes")
  /\ UNCHANGED << flow, conn, provider, history >>

\* Mutant: a flow that worked is not marked.
ConsumeFailed(j) ==
  /\ At(j, "callback", "consumes")
  /\ flow' = IF job[j].ok THEN flow ELSE [flow EXCEPT ![job[j].flow].state = "consumed"]
  /\ IF job[j].ok THEN Goto(j, "resumes") ELSE End(j)
  /\ completed' = IF job[j].ok THEN completed \cup { job[j].flow } ELSE completed
  /\ UNCHANGED << conn, audit, provider, moved, uses, announced, refused, erased,
                  leftover, overlapped, deaths >>

\* markConsumed, and the page that the browser gets.
MarkConsumed(j) ==
  /\ At(j, "callback", "consumes")
  /\ flow' = [flow EXCEPT ![job[j].flow].state = "consumed"]
  /\ IF job[j].ok THEN Goto(j, "resumes") ELSE End(j)
  /\ completed' = IF job[j].ok THEN completed \cup { job[j].flow } ELSE completed
  /\ UNCHANGED << conn, audit, provider, moved, uses, announced, refused, erased,
                  leftover, overlapped, deaths >>

\* findChannelIdentity finds no chat to tell: that is logged.
NoIdentity(j) ==
  /\ At(j, "callback", "resumes")
  /\ refused' = refused \cup { job[j].flow }
  /\ End(j)
  /\ UNCHANGED << tables, provider, moved, uses, completed, announced, erased, leftover,
                  overlapped, deaths >>

\* resumeConversationAfterEmailConnected: the agent answers.
ResumeConversation(j) ==
  /\ At(j, "callback", "resumes")
  /\ Goto(j, "pushes")
  /\ UNCHANGED << tables, provider, history >>

\* Mutant: an agent that fails is only logged.
ResumeFailsSilently(j) ==
  /\ At(j, "callback", "resumes")
  /\ End(j)
  /\ UNCHANGED << tables, provider, history >>

\* The agent fails, or the chat has no user.
ResumeFails(j) ==
  /\ At(j, "callback", "resumes")
  /\ Goto(j, "fallsBack")
  /\ UNCHANGED << tables, provider, history >>

\* fixedConnectedText goes to the transcript instead.
AppendFixedText(j) ==
  /\ At(j, "callback", "fallsBack")
  /\ Goto(j, "pushes")
  /\ UNCHANGED << tables, provider, history >>

\* sendMessage: either text goes to the chat.
Push(j) ==
  /\ At(j, "callback", "pushes")
  /\ announced' = announced \cup { job[j].flow }
  /\ End(j)
  /\ UNCHANGED << tables, provider, moved, uses, completed, refused, erased, leftover,
                  overlapped, deaths >>

\* The channel refuses it or cannot be reached: that is logged, and nothing tries again.
PushFails(j) ==
  /\ At(j, "callback", "pushes")
  /\ refused' = refused \cup { job[j].flow }
  /\ End(j)
  /\ UNCHANGED << tables, provider, moved, uses, completed, announced, erased, leftover,
                  overlapped, deaths >>

-----------------------------------------------------------------------------
(***************************************************************************)
(* Disconnecting and erasing, once confirmed.                              *)
(***************************************************************************)
Of(u, p) == { box \in Mailboxes : conn[box].owner = u /\ Provider(box) = p }

DisconnectEmail(j) ==
  /\ \E u \in Users, p \in Providers :
       Begin(j, [Idle EXCEPT !.kind = "disconnect", !.pc = "looks", !.user = u,
                             !.todo = { p }])
  /\ UNCHANGED << tables, provider, moved, uses, completed, announced, refused,
                  erased, leftover, deaths >>

ForgetMyData(j) ==
  /\ \E u \in Users :
       Begin(j, [Idle EXCEPT !.kind = "forget", !.pc = "looks", !.user = u,
                             !.todo = Providers])
  /\ UNCHANGED << tables, provider, moved, uses, completed, announced, refused,
                  erased, leftover, deaths >>

\* Google first, then Microsoft.
Current(j) == IF "gmail" \in job[j].todo THEN "gmail" ELSE "outlook"

\* One provider is dealt with: the erasure goes on to the next and to the rest.
NextProvider(j) ==
  LET rest == job[j].todo \ { Current(j) } IN
  job' = [job EXCEPT ![j].todo = rest, ![j].box = NoMailbox, ![j].grant = 0,
                     ![j].pc = IF rest = {} THEN "records" ELSE "looks"]

\* findByUserAndProvider: one of them, in no order.
FindConnection(j) ==
  /\ job[j].kind \in { "disconnect", "forget" } /\ job[j].pc = "looks"
  /\ \/ \E box \in Of(job[j].user, Current(j)) :
          job' = [job EXCEPT ![j].box = box, ![j].grant = conn[box].refresh,
                             ![j].pc = "revokes"]
     \/ /\ Of(job[j].user, Current(j)) = {}
        /\ IF job[j].kind = "forget" THEN NextProvider(j) ELSE End(j)
  /\ UNCHANGED << tables, provider, history >>

\* revokeToken, which may fail, and which Microsoft does not have.  Google ends all it
\* has granted for the mailbox.
RevokeToken(j) ==
  /\ job[j].pc = "revokes"
  /\ live' \in { live } \cup
       (IF job[j].box \in Gmail /\ job[j].grant \in live[job[j].box]
        THEN { [live EXCEPT ![job[j].box] = {}] } ELSE {})
  /\ Goto(j, "deletes")
  /\ UNCHANGED << tables, grants, history >>

\* Mutant: only the connection that was found and revoked is deleted.
DeleteFound(j) ==
  /\ job[j].pc = "deletes"
  /\ conn' = [conn EXCEPT ![job[j].box] = IF @.owner = job[j].user THEN NoConnection ELSE @]
  /\ NextProvider(j)
  /\ UNCHANGED << flow, audit, provider, history >>

\* delete: every connection the user has with that provider.
DeleteConnections(j) ==
  /\ job[j].pc = "deletes"
  /\ conn' = [box \in Mailboxes |->
       IF box \in Of(job[j].user, Current(j)) THEN NoConnection ELSE conn[box]]
  /\ NextProvider(j)
  /\ UNCHANGED << flow, audit, provider, history >>

\* The audit entry; of an erasure, after everything else it deletes.  It leaves the
\* flows alone.
Record(j) ==
  /\ job[j].pc = "records"
  /\ IF job[j].kind = "forget" /\ ~ overlapped
     THEN /\ erased' = erased \cup { job[j].user }
          /\ leftover' = leftover \cup
               { f \in Flows : flow[f].user = job[j].user /\ flow[f].state = "open" }
     ELSE UNCHANGED << erased, leftover >>
  /\ End(j)
  /\ UNCHANGED << tables, provider, moved, uses, completed, announced, refused,
                  overlapped, deaths >>

-----------------------------------------------------------------------------
(***************************************************************************)
(* Access to an inbox (scan_inbox, check-inbox.ts).                        *)
(***************************************************************************)
\* createEmailIngestProvider: a connection at Google if there is one, or else one at
\* Microsoft.  One whose access token is still good needs nothing more; the token of
\* this one has expired.
CreateEmailIngestProvider(j) ==
  /\ \E u \in Users :
       LET boxes == IF Of(u, "gmail") # {} THEN Of(u, "gmail") ELSE Of(u, "outlook") IN
       \E box \in boxes :
         Begin(j, [Idle EXCEPT !.pc = "refreshes", !.user = u, !.box = box,
                               !.grant = conn[box].refresh])
  /\ UNCHANGED << tables, provider, moved, uses, completed, announced, refused,
                  erased, leftover, deaths >>

\* refreshAccessToken; the provider refuses a grant that was revoked.
RefreshAccessToken(j) ==
  /\ At(j, "scan", "refreshes")
  /\ IF job[j].grant \in live[job[j].box] THEN Goto(j, "stores") ELSE End(j)
  /\ UNCHANGED << tables, provider, history >>

\* Mutant: a row that is gone gets the token as well.
UpdateAnyRow(j) ==
  /\ At(j, "scan", "stores")
  /\ conn' = [conn EXCEPT ![job[j].box].access = job[j].grant]
  /\ End(j)
  /\ UNCHANGED << flow, audit, provider, history >>

\* updateAccessToken: the row of that address, if there is one, whoever has it now.
UpdateAccessToken(j) ==
  /\ At(j, "scan", "stores")
  /\ conn' = [conn EXCEPT ![job[j].box] =
       IF @.owner = NoUser THEN @ ELSE [@ EXCEPT !.access = job[j].grant]]
  /\ End(j)
  /\ UNCHANGED << flow, audit, provider, history >>

-----------------------------------------------------------------------------
\* The database fails or the process dies.
Die(j) ==
  /\ Running(j)
  /\ deaths < MaxDeaths
  /\ deaths' = deaths + 1
  /\ End(j)
  /\ UNCHANGED << tables, provider, moved, uses, completed, announced, refused,
                  erased, leftover, overlapped >>

CallbackStep(j) ==
  \/ Callback(j) \/ RunAuthorizationCodeFlow(j) \/ Exchange(j) \/ ExchangeFails(j)
  \/ FetchEmailAddress(j) \/ FetchThrows(j) \/ FindOwner(j) \/ Upsert(j) \/ Audit(j)
  \/ MarkConsumed(j) \/ NoIdentity(j) \/ ResumeConversation(j) \/ ResumeFails(j)
  \/ AppendFixedText(j) \/ Push(j) \/ PushFails(j)

RemovalStep(j) ==
  \/ DisconnectEmail(j) \/ ForgetMyData(j) \/ FindConnection(j) \/ RevokeToken(j)
  \/ DeleteConnections(j) \/ Record(j)

ScanStep(j) ==
  \/ CreateEmailIngestProvider(j) \/ RefreshAccessToken(j) \/ UpdateAccessToken(j)

Next ==
  \/ \E j \in Jobs : CallbackStep(j) \/ RemovalStep(j) \/ ScanStep(j) \/ Die(j)
  \/ \E u \in Users, p \in Providers : BuildHostedAuthorizationUrl(u, p)

Spec == Init /\ [][Next]_vars

-----------------------------------------------------------------------------
(***************************************************************************)
(* Properties.                                                             *)
(***************************************************************************)
\* The types of the variables; a row without an owner is no row.
MailboxTypeOK ==
  /\ flow \in [Flows -> FlowRows]
  /\ conn \in [Mailboxes -> Connections]
  /\ \A box \in Mailboxes : conn[box].owner = NoUser => conn[box] = NoConnection
  /\ job \in [Jobs -> JobStates]
  /\ live \in [Mailboxes -> SUBSET (1..MaxGrants)]
  /\ grants \in 0..MaxGrants
  /\ moved \cup audit \subseteq [ grant : 1..MaxGrants, from : Users ]
  /\ uses \in [Flows -> Nat]
  /\ completed \cup announced \cup refused \cup leftover \subseteq Flows
  /\ erased \subseteq Users
  /\ overlapped \in BOOLEAN /\ deaths \in 0..MaxDeaths

\* A mailbox that a callback takes from another user is in the audit log as taken
\* from that user (hosted-oauth.ts, reassignedFromUserId): it is missing only while
\* the entry is being written, after a death before it, or if jobs overlapped, as the
\* previous owner is read before the upsert.  Nothing is logged that did not happen.
TransfersAudited ==
  ~ overlapped =>
    /\ audit \subseteq moved
    /\ deaths = 0 =>
         \A move \in moved \ audit :
           \E j \in Jobs : At(j, "callback", "audits") /\ job[j].grant = move.grant

\* A link connects one mailbox, once (completeHostedFlow: "so the same state/code can
\* never be replayed, even after a failure").  The flow is marked last, so a death in
\* between gives it another use; and of callbacks that overlap each may have one, but
\* none that comes after.
FlowsConnectOnce ==
  \A f \in Flows :
    uses[f] <= deaths + (IF overlapped THEN Cardinality(Jobs) ELSE 1)

\* What is stored works: the refresh token and the access token of a connection are
\* of one grant that the provider honours, except between the revocation and the
\* deletion that follows it, if nothing died or overlapped there.
StoredTokensWork ==
  ~ overlapped /\ deaths = 0 =>
    \A box \in Mailboxes :
      conn[box].owner # NoUser =>
        /\ conn[box].access = conn[box].refresh
        /\ \/ conn[box].refresh \in live[box]
           \/ \E j \in Jobs : job[j].pc = "deletes" /\ job[j].box = box

\* After forget_my_data the user has no connection but those that the command line
\* makes, or a link that was still open then: forgetMyData leaves the flows alone.
ErasedIsDisconnected ==
  ~ overlapped =>
    \A box \in Mailboxes :
      conn[box].owner \in erased => conn[box].flow \in leftover \cup { NoFlow }

\* "A broken resumption never means silence instead of a confirmation"
\* (oauth.routes.ts): while a connection that succeeded is not announced in its chat,
\* its callback is on the way to that, however many callbacks and other jobs overlap.
\* What keeps a confirmation back is a death, or the chat itself: it was not found, or
\* did not take the message, which is only logged.
Announced ==
  deaths = 0 =>
    \A f \in completed \ (announced \cup refused) :
      \E j \in Jobs : job[j].flow = f /\ job[j].pc \in { "resumes", "fallsBack", "pushes" }
=============================================================================
