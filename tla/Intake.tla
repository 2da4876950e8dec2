-------------------------------- MODULE Intake --------------------------------
(***************************************************************************)
(* Who a chat belongs to and what it knows about them: the identity and    *)
(* the user of a first message (conversation.repo.ts, user.repo.ts), the   *)
(* passenger profile (save_passenger_profile, passenger-profile.repo.ts),  *)
(* the claimant of a claim, which is the profile as start_claim finds it   *)
(* (operator/tools.ts, draft-claim.node.ts), and the end of an erasure.    *)
(*                                                                         *)
(* A call is one message on its way to one tool, past the gate, which reads*)
(* the consent once (handleTurn); the lock and the agent come after that.  *)
(* Or it is the agent's resumption when a mailbox has been connected       *)
(* (resumeConversationAfterEmailConnected), which has no gate.  What the   *)
(* notice says and when it is shown is Conversation's.                     *)
(***************************************************************************)
EXTENDS Naturals, FiniteSets

CONSTANTS
  Calls,       \* bounds what runs at once
  Users,       \* bounds the users that are created
  Bookings,    \* the booking references that are named
  MaxSaves,    \* bounds the saves, which number what they supply
  MaxDeaths,   \* bounds the failures of the database or the process
  NoUser

ASSUME UserAssumption == NoUser \notin Users
ASSUME BoundsAssumption == MaxSaves \in Nat /\ MaxDeaths \in Nat

VARIABLES
  identity,    \* the user of the chat's row in channel_identities
  users,       \* the rows of users
  consent,     \* the users with a row in consents
  profile,     \* passenger_profiles, by user
  claim,       \* by user and booking: the row of claims and its thread
  link,        \* a link of connect_email is open
  call,
  saves        \* how many saves there have been

\* What has happened; never read by the code.
VARIABLES
  said,        \* the profile that the saves and the erasures so far amount to
  gone,        \* the users whose erasure has ended, until they consent again
  outrun,      \* the calls that were past the gate when an erasure took the consent
  strays,      \* the users without a consent for whom such a call, or a resumed one, began
               \* a save or a claim that no erasure and no consent has followed
  overlapped,  \* two saves, or an erasure and another tool, have been in progress at once
  deaths

tables  == << identity, users, consent, profile, claim, link >>
history == << said, gone, outrun, strays, overlapped, deaths >>
vars    == << tables, call, saves, history >>

Fields == { "name", "phone" }

\* By field, the save it comes from; 0 for an absent one.
Details   == [ Fields -> 0..MaxSaves ]
NoDetails == [f \in Fields |-> 0]

\* Whether the thread has not begun, its draft was refused, or it has a packet or a letter;
\* and whether start_claim was told the name of the passenger.
Claims  == [ status : { "none", "row", "refused", "packet", "letter" }, claimant : Details,
             named : BOOLEAN ]
NoClaim == [ status |-> "none", claimant |-> NoDetails, named |-> FALSE ]

Idle == [ pc |-> "idle", user |-> NoUser, booking |-> "none", named |-> FALSE,
          read |-> NoDetails, supplied |-> NoDetails ]

Saving   == { "writes" }
Starting == { "creates", "loads", "invokes" }
Erasing  == { "claims", "consents", "profiles", "records" }

Init ==
  /\ identity = NoUser /\ users = {} /\ consent = {}
  /\ profile = [u \in Users |-> NoDetails]
  /\ claim = [u \in Users |-> [b \in Bookings |-> NoClaim]]
  /\ call = [c \in Calls |-> Idle]
  /\ link = FALSE /\ saves = 0
  /\ said = [u \in Users |-> NoDetails]
  /\ gone = {} /\ outrun = {} /\ strays = {} /\ overlapped = FALSE /\ deaths = 0

At(c, pc) == call[c].pc = pc

Goto(c, pc) == call' = [call EXCEPT ![c].pc = pc]

End(c) == call' = [call EXCEPT ![c] = Idle]

\* A tool with the details in its hands, and one that changes them.
Clash(a, b) ==
  \/ a \in Erasing /\ b \in Saving \cup Starting \cup Erasing
  \/ a \in Saving /\ b \in Saving

\* The tool begins, beside whatever is running.
BeginTool(c, state) ==
  /\ call' = [call EXCEPT ![c] = state]
  /\ overlapped' = (overlapped \/
       \E d \in Calls \ { c } : Clash(state.pc, call[d].pc) \/ Clash(call[d].pc, state.pc))

-----------------------------------------------------------------------------
(***************************************************************************)
(* The identity.                                                           *)
(***************************************************************************)
Receive(c) ==
  /\ At(c, "idle")
  /\ Goto(c, IF identity = NoUser THEN "createsUser" ELSE "readsUser")
  /\ UNCHANGED << tables, saves, history >>

\* createUser, before there is an identity to give it to.
CreateUser(c) ==
  /\ At(c, "createsUser")
  /\ \E u \in Users \ users :
       /\ users' = users \cup { u }
       /\ call' = [call EXCEPT ![c].pc = "inserts", ![c].user = u]
  /\ UNCHANGED << identity, consent, profile, claim, link, saves, history >>

\* Mutant: on a conflict the identity is given to the new user.
InsertIdentityOver(c) ==
  /\ At(c, "inserts")
  /\ identity' = call[c].user
  /\ Goto(c, "readsUser")
  /\ UNCHANGED << users, consent, profile, claim, link, saves, history >>

\* On a conflict the row stays as it is, and the new user an orphan.
InsertIdentity(c) ==
  /\ At(c, "inserts")
  /\ identity' = IF identity = NoUser THEN call[c].user ELSE identity
  /\ Goto(c, "readsUser")
  /\ UNCHANGED << users, consent, profile, claim, link, saves, history >>

\* getUserIdForChannelIdentity.
ReadUser(c) ==
  /\ At(c, "readsUser")
  /\ call' = [call EXCEPT ![c].user = identity, ![c].pc = "gates"]
  /\ UNCHANGED << tables, saves, history >>

\* Mutant: nobody is asked.
NobodyAsked(c) ==
  /\ At(c, "gates")
  /\ Goto(c, "passed")
  /\ outrun' = outrun \ { c }
  /\ UNCHANGED << tables, saves, said, gone, strays, overlapped, deaths >>

\* The one time that the consent is read.
HasConsented(c) ==
  /\ At(c, "gates")
  /\ Goto(c, IF call[c].user \in consent THEN "passed" ELSE "asks")
  /\ outrun' = outrun \ { c }
  /\ UNCHANGED << tables, saves, said, gone, strays, overlapped, deaths >>

\* The message is the yes to a notice.
Consent(c) ==
  /\ At(c, "asks")
  /\ consent' = consent \cup { call[c].user }
  /\ gone' = gone \ { call[c].user }
  /\ strays' = strays \ { call[c].user }
  /\ End(c)
  /\ UNCHANGED << identity, users, profile, claim, link, saves, said, outrun, overlapped, deaths >>

\* It is anything else, and the answer to it is the notice.
ShowNotice(c) ==
  /\ At(c, "asks")
  /\ End(c)
  /\ UNCHANGED << tables, saves, history >>

\* connect_email sends a link, which an erasure leaves open.
ConnectEmail(c) ==
  /\ At(c, "passed")
  /\ link' = TRUE
  /\ End(c)
  /\ UNCHANGED << identity, users, consent, profile, claim, saves, history >>

\* The link has been followed: the agent goes on for the user of the chat, at once.
Resume(c) ==
  /\ At(c, "idle") /\ link
  /\ link' = FALSE
  /\ call' = [call EXCEPT ![c].pc = "resumed", ![c].user = identity]
  /\ UNCHANGED << identity, users, consent, profile, claim, saves, history >>

Acts(c) == call[c].pc \in { "passed", "resumed" }

\* A tool that will write begins, whoever the user is by now.
Strays(c) ==
  strays' = IF call[c].user \notin consent /\ (At(c, "resumed") \/ c \in outrun)
            THEN strays \cup { call[c].user } ELSE strays

-----------------------------------------------------------------------------
(***************************************************************************)
(* save_passenger_profile.                                                 *)
(***************************************************************************)
Merge(supplied, existing) ==
  [f \in Fields |-> IF supplied[f] # 0 THEN supplied[f] ELSE existing[f]]

\* findByUserId, with what the user has just supplied.
SaveReads(c) ==
  /\ Acts(c) /\ saves < MaxSaves
  /\ saves' = saves + 1
  /\ \E fields \in SUBSET Fields \ { {} } :
       BeginTool(c, [call[c] EXCEPT
         !.pc = "writes", !.read = profile[call[c].user],
         !.supplied = [f \in Fields |-> IF f \in fields THEN saves' ELSE 0]])
  /\ Strays(c)
  /\ UNCHANGED << tables, said, gone, outrun, deaths >>

\* Mutant: an absent field is a cleared one.
SaveReplaces(c) ==
  /\ At(c, "writes")
  /\ call[c].supplied["name"] # 0
  /\ profile' = [profile EXCEPT ![call[c].user] = call[c].supplied]
  /\ said' = [said EXCEPT ![call[c].user] = Merge(call[c].supplied, @)]
  /\ End(c)
  /\ UNCHANGED << identity, users, consent, claim, link, saves, gone, outrun, strays, overlapped,
                  deaths >>

\* upsert: the row is replaced by the merge of what was supplied into what was read.
SaveWrites(c) ==
  LET me == call[c]
      merged == Merge(me.supplied, me.read) IN
  /\ At(c, "writes")
  /\ merged["name"] # 0
  /\ profile' = [profile EXCEPT ![me.user] = merged]
  /\ said' = [said EXCEPT ![me.user] = Merge(me.supplied, @)]
  /\ End(c)
  /\ UNCHANGED << identity, users, consent, claim, link, saves, gone, outrun, strays, overlapped,
                  deaths >>

\* Without a name there is nothing to save.
SaveRefuses(c) ==
  /\ At(c, "writes")
  /\ Merge(call[c].supplied, call[c].read)["name"] = 0
  /\ End(c)
  /\ UNCHANGED << tables, saves, history >>

-----------------------------------------------------------------------------
(***************************************************************************)
(* start_claim.                                                            *)
(***************************************************************************)
\* findByBookingReference: a booking that was checked is answered from its claim.
StartLooks(c) ==
  /\ Acts(c)
  /\ \E b \in Bookings :
       IF claim[call[c].user][b].status = "none"
       THEN \E named \in BOOLEAN :
              /\ BeginTool(c, [call[c] EXCEPT !.pc = "creates", !.booking = b, !.named = named])
              /\ Strays(c)
       ELSE End(c) /\ UNCHANGED << overlapped, strays >>
  /\ UNCHANGED << tables, saves, said, gone, outrun, deaths >>

\* The index on user and booking refuses a second row.
StartCreates(c) ==
  LET me == call[c] IN
  /\ At(c, "creates")
  /\ IF claim[me.user][me.booking].status = "none"
     THEN /\ claim' = [claim EXCEPT ![me.user][me.booking].status = "row"]
          /\ Goto(c, "loads")
     ELSE End(c) /\ UNCHANGED claim
  /\ UNCHANGED << identity, users, consent, profile, link, saves, history >>

\* The profile, which becomes the claimant.
StartLoads(c) ==
  /\ At(c, "loads")
  /\ call' = [call EXCEPT ![c].pc = "invokes", ![c].read = profile[call[c].user]]
  /\ UNCHANGED << tables, saves, history >>

\* Mutant: a letter is drafted without a name.
DraftUnsigned(plan, claimant, named) == plan

\* draftClaim: a packet, or a letter, which has to have a name under it.
Draft(plan, claimant, named) ==
  IF plan = "letter" /\ claimant["name"] = 0 /\ ~ named THEN "refused" ELSE plan

\* The graph runs as far as the draft.  Its thread is written whatever became of the
\* row; without the row nothing finds it.
StartInvokes(c) ==
  LET me == call[c] IN
  /\ At(c, "invokes")
  /\ \E plan \in { "packet", "letter" } :
       claim' = [claim EXCEPT ![me.user][me.booking] =
         IF @.status = "none" THEN @
         ELSE [ status |-> Draft(plan, me.read, me.named), claimant |-> me.read,
                named |-> me.named ]]
  /\ End(c)
  /\ UNCHANGED << identity, users, consent, profile, link, saves, history >>

-----------------------------------------------------------------------------
(***************************************************************************)
(* forget_my_data, once confirmed: none of these claims was sent.          *)
(***************************************************************************)
ForgetBegins(c) ==
  /\ At(c, "passed")
  /\ BeginTool(c, [call[c] EXCEPT !.pc = "claims"])
  /\ UNCHANGED << tables, saves, said, gone, outrun, strays, deaths >>

ForgetClaims(c) ==
  /\ At(c, "claims")
  /\ claim' = [claim EXCEPT ![call[c].user] = [b \in Bookings |-> NoClaim]]
  /\ Goto(c, "consents")
  /\ UNCHANGED << identity, users, consent, profile, link, saves, history >>

ForgetConsent(c) ==
  /\ At(c, "consents")
  /\ consent' = consent \ { call[c].user }
  /\ outrun' = outrun \cup { d \in Calls : At(d, "passed") /\ call[d].user = call[c].user }
  /\ Goto(c, "profiles")
  /\ UNCHANGED << identity, users, profile, claim, link, saves, said, gone, strays, overlapped,
                  deaths >>

\* Mutant: the profile is kept.
ForgetNoProfile(c) ==
  /\ At(c, "profiles")
  /\ Goto(c, "records")
  /\ UNCHANGED << tables, saves, history >>

ForgetProfile(c) ==
  /\ At(c, "profiles")
  /\ profile' = [profile EXCEPT ![call[c].user] = NoDetails]
  /\ said' = [said EXCEPT ![call[c].user] = NoDetails]
  /\ strays' = strays \ { call[c].user }
  /\ Goto(c, "records")
  /\ UNCHANGED << identity, users, consent, claim, link, saves, gone, outrun, overlapped, deaths >>

\* The audit entry.
ForgetRecords(c) ==
  /\ At(c, "records")
  /\ gone' = gone \cup ({ call[c].user } \ consent)
  /\ End(c)
  /\ UNCHANGED << tables, saves, said, outrun, strays, overlapped, deaths >>

-----------------------------------------------------------------------------
\* The database fails or the process dies.
Die(c) ==
  /\ ~ At(c, "idle")
  /\ deaths < MaxDeaths
  /\ deaths' = deaths + 1
  /\ End(c)
  /\ UNCHANGED << tables, saves, said, gone, outrun, strays, overlapped >>

IdentityStep(c) ==
  Receive(c) \/ CreateUser(c) \/ InsertIdentity(c) \/ ReadUser(c)

GateStep(c) ==
  HasConsented(c) \/ Consent(c) \/ ShowNotice(c) \/ ConnectEmail(c) \/ Resume(c)

SaveStep(c) == SaveReads(c) \/ SaveWrites(c) \/ SaveRefuses(c)

StartStep(c) == StartLooks(c) \/ StartCreates(c) \/ StartLoads(c) \/ StartInvokes(c)

ForgetStep(c) ==
  \/ ForgetBegins(c) \/ ForgetClaims(c) \/ ForgetConsent(c) \/ ForgetProfile(c)
  \/ ForgetRecords(c)

Next ==
  \E c \in Calls :
    \/ IdentityStep(c) \/ GateStep(c) \/ SaveStep(c) \/ StartStep(c) \/ ForgetStep(c)
    \/ Die(c)

Spec == Init /\ [][Next]_vars

-----------------------------------------------------------------------------
(***************************************************************************)
(* Properties.                                                             *)
(***************************************************************************)
\* Whatever is stored is stored for the user of the chat, so the chat can reach and
\* erase it: first messages that overlap leave "one harmless orphan user"
\* (conversation.repo.ts) each at most, which has nothing and does nothing.
DataReachable ==
  /\ \A u \in Users :
       (u \in consent \/ profile[u] # NoDetails \/ \E b \in Bookings : claim[u][b] # NoClaim)
         => u = identity
  /\ \A c \in Calls : call[c].pc \in Saving \cup Starting \cup Erasing => call[c].user = identity

\* The profile is what the saves and erasures amount to, one after another; and the
\* claimant of a claim is what was saved by then, with a name under a letter.  Saves
\* that overlap may lose a field, as each writes back all that it has read
\* (savePassengerProfile); even then nothing is mixed up between fields, and no letter
\* goes without the name on file or the one on the booking.
DetailsAsSaid ==
  /\ ~ overlapped => profile = said
  /\ \A u \in Users :
       profile[u] # NoDetails => profile[u]["name"] # 0
  /\ \A u \in Users, b \in Bookings :
       LET its == claim[u][b] IN
       /\ its.status = "letter" => its.claimant["name"] # 0 \/ its.named
       /\ \A f \in Fields : its.claimant[f] <= saves
       /\ ~ overlapped => \A f \in Fields : its.claimant[f] <= said[u][f]

\* An erasure leaves nothing, and without a consent nothing is stored: no claim, consent
\* or profile of a user who has not consented since.  The consent goes before the profile,
\* so a profile without a consent is one whose erasure is in progress or was cut short by
\* a death.  Two kinds of call store something for a user who is erased all the same, as
\* nobody asks again: a message that had passed the gate before the erasure took the
\* consent, and the resumption of the agent by a link that was open; these, and tools that
\* run beside the erasure, are the only ones.
ErasureLeavesNothing ==
  ~ overlapped =>
    \A u \in Users \ strays :
      /\ u \in gone =>
           u \notin consent /\ profile[u] = NoDetails /\ \A b \in Bookings : claim[u][b] = NoClaim
      /\ profile[u] # NoDetails /\ u \notin consent /\ deaths = 0 =>
           \E c \in Calls : At(c, "profiles") /\ call[c].user = u
=============================================================================
