----------------------------- MODULE IntakeProofs -----------------------------
(***************************************************************************)
(* Proofs about Intake, for any calls, users, bookings, saves and deaths.  *)
(***************************************************************************)
EXTENDS Intake, TLAPS

Gates == { "idle", "createsUser", "inserts", "readsUser", "gates", "asks", "passed", "resumed" }
Tools == Saving \cup Starting \cup Erasing

CallStates ==
  [ pc : Gates \cup Tools, user : Users \cup { NoUser }, booking : Bookings \cup { "none" },
    named : BOOLEAN, read : Details, supplied : Details ]

Typed ==
  /\ identity \in Users \cup { NoUser }
  /\ users \subseteq Users /\ consent \subseteq Users /\ gone \subseteq Users
  /\ profile \in [Users -> Details] /\ said \in [Users -> Details]
  /\ claim \in [Users -> [Bookings -> Claims]]
  /\ call \in [Calls -> CallStates]
  /\ saves \in 0..MaxSaves /\ deaths \in 0..MaxDeaths /\ overlapped \in BOOLEAN
  /\ link \in BOOLEAN /\ outrun \subseteq Calls /\ strays \subseteq Users

-----------------------------------------------------------------------------
(***************************************************************************)
(* The inductive invariant: what a call relies on, what the tables hold,   *)
(* and that two calls that disturb each other have been noticed.           *)
(***************************************************************************)
\* A call that is past the identity works for it; one that is past the gate, for a user
\* who has consented, unless an erasure has come in between.
OwnUser(c) ==
  /\ call[c].pc = "readsUser" => identity \in Users
  /\ call[c].pc = "inserts" => call[c].user \in Users
  /\ call[c].pc \in { "gates", "asks", "passed", "resumed" } \cup Tools =>
       call[c].user = identity /\ identity \in Users
  /\ call[c].pc = "passed" /\ c \notin outrun => call[c].user \in consent
  /\ call[c].pc \in Starting => call[c].booking \in Bookings
  /\ \A f \in Fields : call[c].read[f] <= saves /\ call[c].supplied[f] <= saves

\* And what it has read is still so, unless a call it clashes with has come between.
StillSo(c) ==
  LET u == call[c].user IN
  /\ call[c].pc = "writes" =>
       /\ call[c].read = profile[u] /\ u \in consent \cup strays
       /\ \A f \in Fields : call[c].supplied[f] # 0 => said[u][f] <= call[c].supplied[f]
  /\ call[c].pc \in Saving \cup Starting => u \notin gone \ strays
  /\ call[c].pc = "invokes" => \A f \in Fields : call[c].read[f] <= said[u][f]
  /\ call[c].pc \in { "consents", "profiles", "records" } =>
       \A b \in Bookings : claim[u][b] = NoClaim
  /\ call[c].pc = "records" => profile[u] = NoDetails

CallInv(c) == OwnUser(c) /\ (~ overlapped => StillSo(c))

\* Data is the identity's, and well formed.
OwnData ==
  /\ consent \subseteq { identity } /\ gone \cap consent = {}
  /\ link => identity \in Users
  /\ \A u \in Users :
       /\ profile[u] # NoDetails => u = identity /\ profile[u]["name"] # 0
       /\ \A f \in Fields : profile[u][f] <= saves /\ said[u][f] <= saves
  /\ \A u \in Users, b \in Bookings :
       LET its == claim[u][b] IN
       /\ its # NoClaim => u = identity /\ its.status # "none"
       /\ its.status = "letter" => its.claimant["name"] # 0 \/ its.named
       /\ \A f \in Fields : its.claimant[f] <= saves

\* Without a clash it is what was said, and gone with an erasure but for the strays.
SaidData ==
  /\ profile = said
  /\ \A u \in Users, b \in Bookings, f \in Fields : claim[u][b].claimant[f] <= said[u][f]
  /\ \A u \in gone \ strays :
       profile[u] = NoDetails /\ \A b \in Bookings : claim[u][b] = NoClaim
  /\ deaths = 0 =>
       \A u \in Users \ strays :
         profile[u] # NoDetails /\ u \notin consent =>
           \E c \in Calls : call[c].pc = "profiles" /\ call[c].user = u

Alone == \A c, d \in Calls : c # d => ~ Clash(call[c].pc, call[d].pc)

IntakeInv ==
  /\ Typed /\ OwnData
  /\ \A c \in Calls : CallInv(c)
  /\ ~ overlapped => SaidData /\ Alone

-----------------------------------------------------------------------------
(***************************************************************************)
(* The invariant implies the properties.                                   *)
(***************************************************************************)
LEMMA Implied == IntakeInv => DataReachable /\ DetailsAsSaid /\ ErasureLeavesNothing
<1> SUFFICES ASSUME IntakeInv PROVE DataReachable /\ DetailsAsSaid /\ ErasureLeavesNothing
  OBVIOUS
<1>1. DataReachable
  BY DEF IntakeInv, OwnData, CallInv, OwnUser, DataReachable, Tools
<1>2. DetailsAsSaid
  BY DEF IntakeInv, OwnData, SaidData, DetailsAsSaid
<1>3. ErasureLeavesNothing
  BY DEF IntakeInv, OwnData, SaidData, ErasureLeavesNothing, At
<1> QED
  BY <1>1, <1>2, <1>3

LEMMA NothingTyped == NoDetails \in Details /\ NoClaim \in Claims /\ Idle \in CallStates
  BY BoundsAssumption DEF NoDetails, Details, NoClaim, Claims, Idle, CallStates, Gates

LEMMA InitInv == Init => IntakeInv
<1> SUFFICES ASSUME Init PROVE IntakeInv
  OBVIOUS
<1>1. /\ \A u \in Users : profile[u] = NoDetails /\ said[u] = NoDetails
      /\ \A u \in Users, b \in Bookings : claim[u][b] = NoClaim
      /\ \A c \in Calls : call[c] = Idle
      /\ profile = said
  BY DEF Init
<1>2. Typed
  <2>1. claim \in [Users -> [Bookings -> Claims]]
    <3>1. [b \in Bookings |-> NoClaim] \in [Bookings -> Claims]
      BY NothingTyped
    <3> QED
      BY <3>1 DEF Init
  <2>2. call \in [Calls -> CallStates]
    BY NothingTyped DEF Init
  <2>3. profile \in [Users -> Details] /\ said \in [Users -> Details]
    BY NothingTyped DEF Init
  <2>4. /\ identity \in Users \cup { NoUser }
        /\ users \subseteq Users /\ consent \subseteq Users /\ gone \subseteq Users
    BY DEF Init
  <2>5. saves \in 0..MaxSaves /\ deaths \in 0..MaxDeaths
    <3>1. saves = 0 /\ deaths = 0
      BY DEF Init
    <3> QED
      BY <3>1, BoundsAssumption
  <2>6. overlapped \in BOOLEAN /\ link \in BOOLEAN /\ outrun \subseteq Calls /\ strays \subseteq Users
    BY DEF Init
  <2> QED
    BY <2>1, <2>2, <2>3, <2>4, <2>5, <2>6 DEF Typed
<1>3. OwnData
  BY <1>1 DEF Init, OwnData, NoClaim, NoDetails
<1>4. \A c \in Calls : CallInv(c)
  BY <1>1 DEF Init, CallInv, OwnUser, StillSo, Idle, Tools, Saving, Starting, Erasing, NoDetails
<1>5. SaidData /\ Alone
  BY <1>1 DEF Init, SaidData, Alone, Clash, Idle, Saving, Starting, Erasing, NoClaim, NoDetails
<1> QED
  BY <1>2, <1>3, <1>4, <1>5 DEF IntakeInv

-----------------------------------------------------------------------------
(***************************************************************************)
(* Steps that only move a call.                                            *)
(***************************************************************************)
Moves(c, k) ==
  /\ k \in CallStates
  /\ call' = [call EXCEPT ![c] = k]

LEMMA Moved ==
  ASSUME Typed, NEW c \in Calls, NEW k, Moves(c, k)
  PROVE  /\ call' \in [Calls -> CallStates]
         /\ call'[c] = k
         /\ \A d \in Calls \ { c } : call'[d] = call[d]
  BY DEF Typed, Moves

\* What stands in the tables is not touched, and the rest only grows, but for c itself.
Untouched(c) ==
  /\ UNCHANGED << identity, consent, profile, claim, said, gone >>
  /\ users' \subseteq Users
  /\ link' \in BOOLEAN /\ (link' => link \/ identity \in Users)
  /\ outrun' \subseteq Calls /\ outrun \subseteq outrun' \cup { c }
  /\ strays' \subseteq Users /\ strays \subseteq strays'
  /\ saves' \in 0..MaxSaves /\ saves <= saves'
  /\ deaths' \in 0..MaxDeaths /\ deaths <= deaths'
  /\ overlapped' \in BOOLEAN /\ (overlapped => overlapped')

\* Whatever a call does, it is alone in it as it was.
KeepsClass(p, q) ==
  /\ q \in Saving   => p \in Saving
  /\ q \in Starting => p \in Starting
  /\ q \in Erasing  => p \in Erasing

LEMMA StaysAlone ==
  ASSUME Typed, Alone, NEW c \in Calls, NEW k, Moves(c, k), KeepsClass(call[c].pc, k.pc)
  PROVE  Alone'
  BY Moved DEF Alone, Clash, KeepsClass

\* The tool that begins is alone, or has been noticed.
LEMMA BeginsAlone ==
  ASSUME Typed, ~ overlapped => Alone, NEW c \in Calls, NEW k, k \in CallStates, BeginTool(c, k)
  PROVE  /\ Moves(c, k) /\ overlapped' \in BOOLEAN /\ (overlapped => overlapped')
         /\ ~ overlapped' => Alone'
<1>1. Moves(c, k) /\ overlapped' \in BOOLEAN /\ (overlapped => overlapped')
  BY DEF BeginTool, Moves, Typed
<1>2. ASSUME ~ overlapped' PROVE Alone'
  <2>1. ~ overlapped /\ \A d \in Calls \ { c } : ~ Clash(k.pc, call[d].pc) /\ ~ Clash(call[d].pc, k.pc)
    BY <1>2 DEF BeginTool
  <2> QED
    BY <1>1, <2>1, Moved DEF Alone
<1> QED
  BY <1>1, <1>2

LEMMA OthersKeep ==
  ASSUME IntakeInv, NEW c \in Calls, Untouched(c), NEW k, Moves(c, k), NEW d \in Calls \ { c }
  PROVE  CallInv(d)'
<1>1. call'[d] = call[d]
  BY Moved DEF IntakeInv
<1>2. CallInv(d) /\ saves \in Nat /\ saves' \in Nat /\ saves <= saves' /\ call[d] \in CallStates
  BY BoundsAssumption DEF IntakeInv, Untouched, Typed
<1>3. OwnUser(d)'
  <2>1. \A f \in Fields : call[d].read[f] \in Nat /\ call[d].supplied[f] \in Nat
    BY <1>2, BoundsAssumption DEF CallStates, Details
  <2> QED
    BY <1>1, <1>2, <2>1 DEF CallInv, OwnUser, Untouched
<1>4. ~ overlapped' => StillSo(d)'
  BY <1>1, <1>2 DEF CallInv, StillSo, Untouched
<1> QED
  BY <1>3, <1>4 DEF CallInv

LEMMA CallStep ==
  ASSUME IntakeInv, NEW c \in Calls, Untouched(c), NEW k, Moves(c, k), CallInv(c)',
         ~ overlapped' => Alone',
         call[c].pc = "profiles" => deaths' # 0
  PROVE  IntakeInv'
<1>1. call' \in [Calls -> CallStates] /\ \A d \in Calls \ { c } : call'[d] = call[d]
  BY Moved DEF IntakeInv
<1>2. Typed'
  BY <1>1 DEF IntakeInv, Typed, Untouched
<1>3. \A d \in Calls : CallInv(d)'
  BY OthersKeep
<1>4. OwnData'
  <2>1. \A u \in Users, f \in Fields : profile[u][f] \in Nat /\ said[u][f] \in Nat
    BY BoundsAssumption DEF IntakeInv, Typed, Details
  <2>2. \A u \in Users, b \in Bookings, f \in Fields : claim[u][b].claimant[f] \in Nat
    BY BoundsAssumption DEF IntakeInv, Typed, Claims, Details
  <2>3. saves \in Nat /\ saves' \in Nat /\ saves <= saves'
    BY BoundsAssumption DEF IntakeInv, Typed, Untouched
  <2> QED
    BY <2>1, <2>2, <2>3 DEF IntakeInv, OwnData, Untouched
<1>5. ~ overlapped' => SaidData'
  <2> SUFFICES ASSUME ~ overlapped' PROVE SaidData'
    OBVIOUS
  <2>1. SaidData
    BY DEF IntakeInv, Untouched
  <2>2. ASSUME deaths' = 0, NEW u \in Users \ strays', profile[u] # NoDetails, u \notin consent
        PROVE  \E d \in Calls : call'[d].pc = "profiles" /\ call'[d].user = u
    <3>1. deaths = 0
      BY <2>2, BoundsAssumption DEF IntakeInv, Typed, Untouched
    <3>2. PICK d \in Calls : call[d].pc = "profiles" /\ call[d].user = u
      BY <2>1, <2>2, <3>1 DEF SaidData, Untouched
    <3>3. d # c
      BY <2>2, <3>2
    <3> QED
      BY <1>1, <3>2, <3>3
  <2> QED
    BY <2>1, <2>2 DEF SaidData, Untouched
<1> QED
  BY <1>2, <1>3, <1>4, <1>5 DEF IntakeInv

LEMMA Going ==
  ASSUME Typed, NEW c \in Calls, NEW pc \in Gates \cup Tools, Goto(c, pc)
  PROVE  /\ Moves(c, call'[c])
         /\ call'[c].pc = pc
         /\ call'[c].user = call[c].user /\ call'[c].booking = call[c].booking
         /\ call'[c].read = call[c].read /\ call'[c].supplied = call[c].supplied
<1> DEFINE k == [call[c] EXCEPT !.pc = pc]
<1>1. call[c] \in CallStates
  BY DEF Typed
<1>2. /\ k \in CallStates /\ k.pc = pc
      /\ k.user = call[c].user /\ k.booking = call[c].booking
      /\ k.read = call[c].read /\ k.supplied = call[c].supplied
  BY <1>1 DEF CallStates
<1>3. call' = [call EXCEPT ![c] = k]
  BY DEF Goto
<1> HIDE DEF k
<1> QED
  BY <1>2, <1>3 DEF Moves, Typed

LEMMA Ending ==
  ASSUME Typed, NEW c \in Calls, End(c)
  PROVE  Moves(c, Idle) /\ call'[c] = Idle
  BY NothingTyped DEF End, Moves, Typed

LEMMA IdleKeeps ==
  ASSUME IntakeInv, NEW c \in Calls, call'[c] = Idle, saves' \in Nat
  PROVE  CallInv(c)'
  BY DEF Idle, CallInv, OwnUser, StillSo, Tools, Saving, Starting, Erasing, NoDetails

USE DEF Gates, Tools, Saving, Starting, Erasing

-----------------------------------------------------------------------------
(***************************************************************************)
(* The identity.                                                           *)
(***************************************************************************)
LEMMA ReceiveKeeps ==
  ASSUME IntakeInv, NEW c \in Calls, Receive(c)
  PROVE  IntakeInv'
<1>1. Typed /\ CallInv(c) /\ Untouched(c)
  BY BoundsAssumption DEF IntakeInv, Receive, Untouched, Typed, tables, history
<1>2. PICK pc \in { "createsUser", "readsUser" } :
        Goto(c, pc) /\ (pc = "readsUser" => identity \in Users)
  BY <1>1 DEF Receive, Typed
<1>3. /\ Moves(c, call'[c]) /\ call'[c].pc = pc
      /\ call'[c].read = call[c].read /\ call'[c].supplied = call[c].supplied
  BY <1>1, <1>2, Going
<1>4. CallInv(c)'
  BY <1>1, <1>2, <1>3 DEF CallInv, OwnUser, StillSo, Receive, tables, history
<1>5. ~ overlapped' => Alone'
  BY <1>1, <1>3, StaysAlone DEF KeepsClass, IntakeInv, Receive, history
<1> QED
  BY <1>1, <1>3, <1>4, <1>5, CallStep DEF Receive, At

LEMMA CreateUserKeeps ==
  ASSUME IntakeInv, NEW c \in Calls, CreateUser(c)
  PROVE  IntakeInv'
<1>1. PICK u \in Users \ users : call' = [call EXCEPT ![c].pc = "inserts", ![c].user = u]
  BY DEF CreateUser
<1>2. Typed /\ CallInv(c) /\ Untouched(c)
  BY <1>1, BoundsAssumption DEF IntakeInv, CreateUser, Untouched, Typed, history
<1> DEFINE k == [call[c] EXCEPT !.pc = "inserts", !.user = u]
<1>3. call[c] \in CallStates
  BY <1>2 DEF Typed
<1>4. /\ k \in CallStates /\ k.pc = "inserts" /\ k.user = u
      /\ k.read = call[c].read /\ k.supplied = call[c].supplied
  BY <1>3 DEF CallStates
<1>5. call' = [call EXCEPT ![c] = k]
  BY <1>1, <1>3 DEF CallStates, Typed
<1> HIDE DEF k
<1>6. Moves(c, k) /\ call'[c] = k
  BY <1>2, <1>4, <1>5 DEF Moves, Typed
<1>7. CallInv(c)'
  BY <1>2, <1>4, <1>6 DEF CallInv, OwnUser, StillSo, CreateUser, history
<1>8. ~ overlapped' => Alone'
  BY <1>2, <1>4, <1>6, StaysAlone DEF KeepsClass, IntakeInv, CreateUser, history
<1> QED
  BY <1>2, <1>6, <1>7, <1>8, CallStep DEF CreateUser, At

LEMMA InsertIdentityKeeps ==
  ASSUME IntakeInv, NEW c \in Calls, InsertIdentity(c)
  PROVE  IntakeInv'
<1>1. Typed /\ CallInv(c)
  BY DEF IntakeInv
<1>2. /\ Moves(c, call'[c]) /\ call'[c].pc = "readsUser"
      /\ call'[c].read = call[c].read /\ call'[c].supplied = call[c].supplied
  BY <1>1, Going DEF InsertIdentity
<1>3. call' \in [Calls -> CallStates] /\ \A d \in Calls \ { c } : call'[d] = call[d]
  BY <1>1, <1>2, Moved
<1>4. /\ identity' \in Users
      /\ identity \in Users => identity' = identity
  BY <1>1, UserAssumption DEF InsertIdentity, At, CallInv, OwnUser, Typed
<1>5. UNCHANGED << users, consent, profile, claim, link, saves, said, gone, outrun, strays,
                   overlapped, deaths >>
  BY DEF InsertIdentity, history
<1>6. Typed'
  BY <1>1, <1>3, <1>4, <1>5 DEF Typed
<1>7. OwnData'
  BY <1>1, <1>4, <1>5, UserAssumption DEF IntakeInv, OwnData, Typed
<1>8. ASSUME NEW d \in Calls PROVE CallInv(d)'
  <2>1. CASE d = c
    BY <1>1, <1>2, <1>4, <1>5, <2>1 DEF CallInv, OwnUser, StillSo
  <2>2. CASE d # c
    <3>1. CallInv(d) /\ call'[d] = call[d]
      BY <1>3, <2>2 DEF IntakeInv
    <3>2. OwnUser(d)'
      BY <1>4, <1>5, <3>1 DEF CallInv, OwnUser
    <3>3. ~ overlapped' => StillSo(d)'
      BY <1>5, <3>1 DEF CallInv, StillSo
    <3> QED
      BY <3>2, <3>3 DEF CallInv
  <2> QED
    BY <2>1, <2>2
<1>9. ~ overlapped' => Alone'
  BY <1>1, <1>2, <1>5, StaysAlone DEF KeepsClass, IntakeInv
<1>10. ~ overlapped' => SaidData'
  <2> SUFFICES ASSUME ~ overlapped' PROVE SaidData'
    OBVIOUS
  <2>1. SaidData /\ call[c].pc = "inserts"
    BY <1>5 DEF IntakeInv, InsertIdentity, At
  <2>2. \A d \in Calls : call[d].pc = "profiles" => call'[d] = call[d]
    BY <1>3, <2>1
  <2> QED
    BY <1>5, <2>1, <2>2 DEF SaidData
<1> QED
  BY <1>6, <1>7, <1>8, <1>9, <1>10 DEF IntakeInv

LEMMA ReadUserKeeps ==
  ASSUME IntakeInv, NEW c \in Calls, ReadUser(c)
  PROVE  IntakeInv'
<1>1. Typed /\ CallInv(c) /\ Untouched(c)
  BY BoundsAssumption DEF IntakeInv, ReadUser, Untouched, Typed, tables, history
<1> DEFINE k == [call[c] EXCEPT !.user = identity, !.pc = "gates"]
<1>2. call[c] \in CallStates /\ identity \in Users
  BY <1>1 DEF Typed, ReadUser, At, CallInv, OwnUser
<1>3. /\ k \in CallStates /\ k.pc = "gates" /\ k.user = identity
      /\ k.read = call[c].read /\ k.supplied = call[c].supplied
  BY <1>2 DEF CallStates
<1>4. call' = [call EXCEPT ![c] = k]
  BY <1>2 DEF ReadUser, CallStates, Typed
<1> HIDE DEF k
<1>5. Moves(c, k) /\ call'[c] = k
  BY <1>1, <1>3, <1>4 DEF Moves, Typed
<1>6. CallInv(c)'
  BY <1>1, <1>2, <1>3, <1>5 DEF CallInv, OwnUser, StillSo, ReadUser, tables, history
<1>7. ~ overlapped' => Alone'
  BY <1>1, <1>3, <1>5, StaysAlone DEF KeepsClass, IntakeInv, ReadUser, history
<1> QED
  BY <1>1, <1>5, <1>6, <1>7, CallStep DEF ReadUser, At

LEMMA DieKeeps ==
  ASSUME IntakeInv, NEW c \in Calls, Die(c)
  PROVE  IntakeInv'
<1>1. Typed /\ Untouched(c) /\ deaths' # 0 /\ saves' \in Nat
  BY BoundsAssumption DEF IntakeInv, Die, Untouched, Typed, tables
<1>2. Moves(c, Idle) /\ CallInv(c)'
  BY <1>1, Ending, IdleKeeps DEF Die
<1>3. ~ overlapped' => Alone'
  BY <1>1, <1>2, StaysAlone DEF KeepsClass, Idle, IntakeInv, Die
<1> QED
  BY <1>1, <1>2, <1>3, CallStep

-----------------------------------------------------------------------------
(***************************************************************************)
(* The gate, and the ways around it.                                       *)
(***************************************************************************)
LEMMA HasConsentedKeeps ==
  ASSUME IntakeInv, NEW c \in Calls, HasConsented(c)
  PROVE  IntakeInv'
<1>1. /\ Typed /\ CallInv(c) /\ Untouched(c) /\ call[c].pc = "gates"
      /\ UNCHANGED << tables, saves, said, gone, strays, overlapped, deaths >>
  BY BoundsAssumption DEF IntakeInv, HasConsented, Untouched, Typed, tables, At
<1>2. PICK pc \in { "passed", "asks" } :
        Goto(c, pc) /\ (pc = "passed" => call[c].user \in consent)
  BY DEF HasConsented
<1>3. /\ Moves(c, call'[c]) /\ call'[c].pc = pc /\ call'[c].user = call[c].user
      /\ call'[c].read = call[c].read /\ call'[c].supplied = call[c].supplied
  BY <1>1, <1>2, Going
<1>4. CallInv(c)'
  BY <1>1, <1>2, <1>3 DEF CallInv, OwnUser, StillSo, tables
<1>5. ~ overlapped' => Alone'
  BY <1>1, <1>3, StaysAlone DEF KeepsClass, IntakeInv
<1> QED
  BY <1>1, <1>3, <1>4, <1>5, CallStep

LEMMA ShowNoticeKeeps ==
  ASSUME IntakeInv, NEW c \in Calls, ShowNotice(c)
  PROVE  IntakeInv'
<1>1. Typed /\ Untouched(c) /\ saves' \in Nat
  BY BoundsAssumption DEF IntakeInv, ShowNotice, Untouched, Typed, tables, history
<1>2. Moves(c, Idle) /\ CallInv(c)'
  BY <1>1, Ending, IdleKeeps DEF ShowNotice
<1>3. ~ overlapped' => Alone'
  BY <1>1, <1>2, StaysAlone DEF KeepsClass, Idle, IntakeInv, ShowNotice, history
<1> QED
  BY <1>1, <1>2, <1>3, CallStep DEF ShowNotice, At

\* The link is the identity's.
LEMMA ConnectEmailKeeps ==
  ASSUME IntakeInv, NEW c \in Calls, ConnectEmail(c)
  PROVE  IntakeInv'
<1>1. Typed /\ identity \in Users
  BY DEF IntakeInv, ConnectEmail, CallInv, OwnUser, At
<1>2. Untouched(c) /\ saves' \in Nat
  BY <1>1, BoundsAssumption DEF ConnectEmail, Untouched, Typed, history
<1>3. Moves(c, Idle) /\ CallInv(c)'
  BY <1>1, <1>2, Ending, IdleKeeps DEF ConnectEmail
<1>4. ~ overlapped' => Alone'
  BY <1>1, <1>3, StaysAlone DEF KeepsClass, Idle, IntakeInv, ConnectEmail, history
<1> QED
  BY <1>2, <1>3, <1>4, CallStep DEF ConnectEmail, At

LEMMA ResumeKeeps ==
  ASSUME IntakeInv, NEW c \in Calls, Resume(c)
  PROVE  IntakeInv'
<1> DEFINE k == [call[c] EXCEPT !.pc = "resumed", !.user = identity]
<1>1. /\ Typed /\ CallInv(c) /\ Untouched(c) /\ identity \in Users /\ call[c].pc = "idle"
      /\ UNCHANGED << identity, users, consent, profile, claim, saves, history >>
  <2>1. /\ Typed /\ CallInv(c) /\ call[c].pc = "idle" /\ link' \in BOOLEAN /\ ~ link'
        /\ UNCHANGED << identity, users, consent, profile, claim, saves, history >>
    BY DEF IntakeInv, Resume, At
  <2>2. identity \in Users
    BY DEF IntakeInv, Resume, OwnData
  <2>3. Untouched(c)
    BY <2>1, <2>2, BoundsAssumption DEF Untouched, Typed, history
  <2> QED
    BY <2>1, <2>2, <2>3
<1>2. call[c] \in CallStates
  BY <1>1 DEF Typed
<1>3. /\ k \in CallStates /\ k.pc = "resumed" /\ k.user = identity
      /\ k.read = call[c].read /\ k.supplied = call[c].supplied
  BY <1>1, <1>2 DEF CallStates
<1>4. call' = [call EXCEPT ![c] = k]
  BY <1>2 DEF Resume, CallStates, Typed
<1> HIDE DEF k
<1>5. Moves(c, k) /\ call'[c] = k
  BY <1>1, <1>3, <1>4 DEF Moves, Typed
<1>6. CallInv(c)'
  BY <1>1, <1>3, <1>5 DEF CallInv, OwnUser, StillSo, history
<1>7. ~ overlapped' => Alone'
  BY <1>1, <1>3, <1>5, StaysAlone DEF KeepsClass, IntakeInv, history
<1> QED
  BY <1>1, <1>5, <1>6, <1>7, CallStep

-----------------------------------------------------------------------------
(***************************************************************************)
(* The tools.  What a call has to itself, as long as nothing has clashed.  *)
(***************************************************************************)
LEMMA ToItself ==
  ASSUME Alone, NEW c \in Calls, NEW d \in Calls \ { c }
  PROVE  /\ call[c].pc \in Erasing  => call[d].pc \notin Tools
         /\ call[c].pc \in Saving   => call[d].pc \notin Saving \cup Erasing
         /\ call[c].pc \in Starting => call[d].pc \notin Erasing
  BY DEF Alone, Clash

\* The numbers are numbers.
LEMMA Numbers ==
  ASSUME Typed
  PROVE  /\ saves \in Nat /\ deaths \in Nat
         /\ \A u \in Users, f \in Fields : profile[u][f] \in Nat /\ said[u][f] \in Nat
         /\ \A u \in Users, b \in Bookings, f \in Fields : claim[u][b].claimant[f] \in Nat
         /\ \A c \in Calls, f \in Fields : call[c].read[f] \in Nat /\ call[c].supplied[f] \in Nat
  BY BoundsAssumption DEF Typed, Details, Claims, CallStates

LEMMA ConsentKeeps ==
  ASSUME IntakeInv, NEW c \in Calls, Consent(c)
  PROVE  IntakeInv'
<1>1. Typed /\ CallInv(c) /\ call[c].pc = "asks" /\ call[c].user = identity /\ identity \in Users
  BY DEF IntakeInv, CallInv, OwnUser, Consent, At
<1>2. /\ consent' = consent \cup { identity } /\ gone' = gone \ { identity }
      /\ strays' = strays \ { identity }
      /\ UNCHANGED << identity, users, profile, claim, link, saves, said, outrun, overlapped, deaths >>
  BY <1>1 DEF Consent
<1>3. Moves(c, Idle) /\ call'[c] = Idle /\ \A d \in Calls \ { c } : call'[d] = call[d]
  BY <1>1, Ending, Moved DEF Consent
<1>4. Typed'
  BY <1>1, <1>2, <1>3, Moved DEF Typed
<1>5. OwnData'
  BY <1>2 DEF IntakeInv, OwnData
<1>6. ASSUME NEW d \in Calls PROVE CallInv(d)'
  <2>1. CASE d = c
    BY <1>1, <1>2, <1>3, <2>1, IdleKeeps, Numbers
  <2>2. CASE d # c
    BY <1>2, <1>3, <2>2 DEF IntakeInv, CallInv, OwnUser, StillSo
  <2> QED
    BY <2>1, <2>2
<1>7. ~ overlapped' => SaidData'
  <2> SUFFICES ASSUME ~ overlapped' PROVE SaidData'
    OBVIOUS
  <2>1. SaidData
    BY <1>2 DEF IntakeInv
  <2>2. \A d \in Calls : call[d].pc = "profiles" => call'[d] = call[d]
    BY <1>1, <1>3
  <2> QED
    BY <1>2, <2>1, <2>2 DEF SaidData
<1>8. ~ overlapped' => Alone'
  BY <1>1, <1>2, <1>3, StaysAlone DEF KeepsClass, Idle, IntakeInv
<1> QED
  BY <1>4, <1>5, <1>6, <1>7, <1>8 DEF IntakeInv

\* A tool that begins has a consent, or is among the strays.
LEMMA BeginsKnown ==
  ASSUME Typed, NEW c \in Calls, CallInv(c), call[c].pc \in { "passed", "resumed" }, Strays(c)
  PROVE  /\ strays' \subseteq Users /\ strays \subseteq strays'
         /\ call[c].user \in consent \cup strays'
  BY DEF Typed, CallInv, OwnUser, Strays, At

LEMMA SaveReadsKeeps ==
  ASSUME IntakeInv, NEW c \in Calls, SaveReads(c)
  PROVE  IntakeInv'
<1> DEFINE u == call[c].user
<1>1. PICK fields \in SUBSET Fields \ { {} } :
        BeginTool(c, [call[c] EXCEPT
          !.pc = "writes", !.read = profile[call[c].user],
          !.supplied = [f \in Fields |-> IF f \in fields THEN saves' ELSE 0]])
  BY DEF SaveReads
<1> DEFINE new == [f \in Fields |-> IF f \in fields THEN saves' ELSE 0]
           k == [call[c] EXCEPT !.pc = "writes", !.read = profile[u], !.supplied = new]
<1>2. /\ Typed /\ CallInv(c) /\ OwnData
      /\ call[c].pc \in { "passed", "resumed" } /\ u = identity /\ u \in Users
      /\ saves' = saves + 1 /\ saves' \in 0..MaxSaves /\ saves \in Nat
      /\ UNCHANGED << tables, said, gone, outrun, deaths >>
      /\ strays' \subseteq Users /\ strays \subseteq strays' /\ u \in consent \cup strays'
  <2>1. saves < MaxSaves /\ saves' = saves + 1 /\ saves \in Nat
    BY BoundsAssumption DEF IntakeInv, Typed, SaveReads
  <2>2. /\ Typed /\ CallInv(c) /\ OwnData /\ Strays(c) /\ call[c].pc \in { "passed", "resumed" }
        /\ UNCHANGED << tables, said, gone, outrun, deaths >>
    BY DEF IntakeInv, SaveReads, Acts
  <2> QED
    BY <2>1, <2>2, BoundsAssumption, BeginsKnown DEF CallInv, OwnUser
<1>3. /\ k \in CallStates /\ k.pc = "writes" /\ k.user = u /\ k.read = profile[u]
      /\ k.supplied = new
  <2>1. call[c] \in CallStates /\ profile[u] \in Details
    BY <1>2 DEF Typed
  <2>2. new \in Details
    BY <1>2, BoundsAssumption DEF Details
  <2> HIDE DEF new
  <2> QED
    BY <2>1, <2>2 DEF CallStates
<1>4. BeginTool(c, k)
  BY <1>1
<1> HIDE DEF k
<1>5. Moves(c, k) /\ (overlapped => overlapped') /\ overlapped' \in BOOLEAN /\ (~ overlapped' => Alone')
  BY <1>2, <1>3, <1>4, BeginsAlone DEF IntakeInv
<1>6. call'[c] = k
  BY <1>2, <1>5, Moved
<1>7. Untouched(c)
  BY <1>2, <1>5, BoundsAssumption DEF Untouched, Typed, tables
<1>8. CallInv(c)'
  <2>1. \A f \in Fields : new[f] \in { 0, saves' } /\ profile[u][f] <= saves /\ said[u][f] <= saves
    BY <1>2 DEF OwnData
  <2>2. \A f \in Fields : profile[u][f] \in Nat /\ said[u][f] \in Nat
    BY <1>2, Numbers
  <2>3. \A f \in Fields : /\ profile[u][f] <= saves' /\ new[f] <= saves'
                          /\ new[f] # 0 => said[u][f] <= new[f]
    BY <1>2, <2>1, <2>2
  <2> HIDE DEF new
  <2>4. OwnUser(c)'
    BY <1>2, <1>3, <1>6, <2>3 DEF OwnUser, tables
  <2>5. StillSo(c)'
    BY <1>2, <1>3, <1>6, <2>3 DEF StillSo, tables, OwnData
  <2> QED
    BY <2>4, <2>5 DEF CallInv
<1> QED
  BY <1>2, <1>5, <1>7, <1>8, CallStep

LEMMA SaveRefusesKeeps ==
  ASSUME IntakeInv, NEW c \in Calls, SaveRefuses(c)
  PROVE  IntakeInv'
<1>1. Typed /\ Untouched(c) /\ saves' \in Nat
  BY BoundsAssumption DEF IntakeInv, SaveRefuses, Untouched, Typed, tables, history
<1>2. Moves(c, Idle) /\ CallInv(c)'
  BY <1>1, Ending, IdleKeeps DEF SaveRefuses
<1>3. ~ overlapped' => Alone'
  BY <1>1, <1>2, StaysAlone DEF KeepsClass, Idle, IntakeInv, SaveRefuses, history
<1> QED
  BY <1>1, <1>2, <1>3, CallStep DEF SaveRefuses, At

LEMMA MergedTyped ==
  ASSUME NEW p \in Details, NEW q \in Details
  PROVE  Merge(p, q) \in Details
  BY DEF Merge, Details

LEMMA SaveWritesKeeps ==
  ASSUME IntakeInv, NEW c \in Calls, SaveWrites(c)
  PROVE  IntakeInv'
<1> DEFINE u == call[c].user
           merged == Merge(call[c].supplied, call[c].read)
           told == Merge(call[c].supplied, said[u])
<1>1. /\ Typed /\ OwnData /\ CallInv(c) /\ call[c].pc = "writes" /\ u = identity /\ u \in Users
      /\ merged["name"] # 0
      /\ UNCHANGED << identity, users, consent, claim, link, saves, gone, outrun, strays,
                      overlapped, deaths >>
  BY DEF IntakeInv, CallInv, OwnUser, SaveWrites, At
<1>2. /\ profile' = [profile EXCEPT ![u] = merged] /\ said' = [said EXCEPT ![u] = told]
  BY DEF SaveWrites
<1>3. Moves(c, Idle) /\ call'[c] = Idle /\ \A d \in Calls \ { c } : call'[d] = call[d]
  BY <1>1, Ending, Moved DEF SaveWrites
<1>4. merged \in Details /\ told \in Details
  <2>1. call[c] \in CallStates /\ said[u] \in Details
    BY <1>1 DEF Typed
  <2>2. call[c].supplied \in Details /\ call[c].read \in Details
    BY <2>1 DEF CallStates
  <2> QED
    BY <2>1, <2>2, MergedTyped
<1>5. \A f \in Fields : merged[f] <= saves /\ told[f] <= saves
  BY <1>1 DEF CallInv, OwnUser, OwnData, Merge
<1>6. ~ overlapped =>
        /\ merged = told /\ u \in consent \cup strays /\ u \notin gone \ strays
        /\ \A f \in Fields : said[u][f] <= told[f]
  <2> SUFFICES ASSUME ~ overlapped
               PROVE  /\ merged = told /\ u \in consent \cup strays /\ u \notin gone \ strays
                      /\ \A f \in Fields : said[u][f] <= told[f]
    OBVIOUS
  <2>1. StillSo(c) /\ profile = said
    BY <1>1 DEF IntakeInv, SaidData, CallInv
  <2>2. call[c].read = said[u] /\ u \in consent \cup strays /\ u \notin gone \ strays
    BY <1>1, <2>1 DEF StillSo
  <2>3. \A f \in Fields : call[c].supplied[f] # 0 => said[u][f] <= call[c].supplied[f]
    BY <1>1, <2>1 DEF StillSo
  <2>4. \A f \in Fields : said[u][f] <= told[f]
    BY <1>1, <2>3, Numbers DEF Merge
  <2> QED
    BY <2>2, <2>4
<1>7. /\ profile'[u] = merged /\ said'[u] = told
      /\ \A v \in Users \ { u } : profile'[v] = profile[v] /\ said'[v] = said[v]
      /\ profile' \in [Users -> Details] /\ said' \in [Users -> Details]
  BY <1>1, <1>2, <1>4 DEF Typed
<1> HIDE DEF merged, told
<1>8. Typed'
  BY <1>1, <1>3, <1>7, Moved DEF Typed
<1>9. OwnData'
  BY <1>1, <1>5, <1>7 DEF OwnData
<1>10. ASSUME NEW d \in Calls PROVE CallInv(d)'
  <2>1. CASE d = c
    BY <1>1, <1>3, <2>1, IdleKeeps, Numbers
  <2>2. CASE d # c
    <3>1. CallInv(d) /\ call'[d] = call[d] /\ OwnUser(d)'
      BY <1>1, <1>3, <2>2 DEF IntakeInv, CallInv, OwnUser, At
    <3>2. ASSUME ~ overlapped PROVE StillSo(d)'
      <4>1. StillSo(d) /\ call[d].pc \notin Saving \cup Erasing
        BY <1>1, <2>2, <3>1, <3>2, ToItself DEF IntakeInv, CallInv
      <4>2. ASSUME call[d].pc = "invokes", NEW f \in Fields PROVE call[d].read[f] <= said'[u][f]
        <5>1. call[d].user = u /\ call[d].read[f] <= said[u][f] /\ said[u][f] <= told[f]
          BY <1>1, <1>6, <3>1, <3>2, <4>1, <4>2 DEF CallInv, OwnUser, StillSo
        <5>2. told[f] \in Nat
          BY <1>4, BoundsAssumption DEF Details
        <5> QED
          BY <1>1, <1>7, <5>1, <5>2, Numbers
      <4> QED
        BY <1>1, <3>1, <4>1, <4>2 DEF StillSo, CallInv, OwnUser
    <3> QED
      BY <1>1, <3>1, <3>2 DEF CallInv
  <2> QED
    BY <2>1, <2>2
<1>11. ~ overlapped' => Alone'
  BY <1>1, <1>3, StaysAlone DEF KeepsClass, Idle, IntakeInv
<1>12. ~ overlapped' => SaidData'
  <2> SUFFICES ASSUME ~ overlapped PROVE SaidData'
    BY <1>1
  <2>1. SaidData
    BY DEF IntakeInv
  <2>2. profile' = said'
    BY <1>2, <1>6, <2>1 DEF SaidData
  <2>3. ASSUME NEW v \in Users, NEW b \in Bookings, NEW f \in Fields
        PROVE  claim'[v][b].claimant[f] <= said'[v][f]
    <3>1. CASE v = u
      <4>1. claim[v][b].claimant[f] <= said[u][f] /\ said[u][f] <= told[f]
        BY <1>6, <2>1, <3>1 DEF SaidData
      <4>2. told[f] \in Nat
        BY <1>4, BoundsAssumption DEF Details
      <4> QED
        BY <1>1, <1>7, <3>1, <4>1, <4>2, Numbers
    <3>2. CASE v # u
      BY <1>1, <1>7, <2>1, <3>2 DEF SaidData
    <3> QED
      BY <3>1, <3>2
  <2>4. \A v \in gone' \ strays' :
          profile'[v] = NoDetails /\ \A b \in Bookings : claim'[v][b] = NoClaim
    BY <1>1, <1>6, <1>7, <2>1 DEF SaidData, Typed
  <2>5. \A v \in Users : profile'[v] # NoDetails => v \in consent' \cup strays'
    BY <1>1, <1>6, <1>7 DEF OwnData
  <2> QED
    BY <2>2, <2>3, <2>4, <2>5 DEF SaidData
<1> QED
  BY <1>8, <1>9, <1>10, <1>11, <1>12 DEF IntakeInv

-----------------------------------------------------------------------------
(***************************************************************************)
(* start_claim.                                                            *)
(***************************************************************************)
LEMMA StartLooksKeeps ==
  ASSUME IntakeInv, NEW c \in Calls, StartLooks(c)
  PROVE  IntakeInv'
<1> DEFINE u == call[c].user
<1>1. /\ Typed /\ CallInv(c) /\ OwnData /\ saves' \in Nat
      /\ call[c].pc \in { "passed", "resumed" } /\ u = identity /\ u \in Users
      /\ UNCHANGED << tables, saves, said, gone, outrun, deaths >>
  <2>1. Typed /\ CallInv(c) /\ OwnData
    BY DEF IntakeInv
  <2>2. /\ call[c].pc \in { "passed", "resumed" }
        /\ UNCHANGED << tables, saves, said, gone, outrun, deaths >>
    BY DEF StartLooks, Acts
  <2> QED
    BY <2>1, <2>2, Numbers DEF CallInv, OwnUser
<1>2. PICK b \in Bookings :
        \/ \E named \in BOOLEAN :
             /\ BeginTool(c, [call[c] EXCEPT !.pc = "creates", !.booking = b, !.named = named])
             /\ Strays(c)
        \/ End(c) /\ UNCHANGED << overlapped, strays >>
  BY DEF StartLooks
<1>3. ASSUME NEW named \in BOOLEAN,
             BeginTool(c, [call[c] EXCEPT !.pc = "creates", !.booking = b, !.named = named]),
             Strays(c)
      PROVE  IntakeInv'
  <2> DEFINE k == [call[c] EXCEPT !.pc = "creates", !.booking = b, !.named = named]
  <2>1. /\ k \in CallStates /\ k.pc = "creates" /\ k.user = u /\ k.booking = b
        /\ k.read = call[c].read /\ k.supplied = call[c].supplied
    <3>1. call[c] \in CallStates
      BY <1>1 DEF Typed
    <3> QED
      BY <3>1 DEF CallStates
  <2>2. BeginTool(c, k)
    BY <1>3
  <2> HIDE DEF k
  <2>3. /\ Moves(c, k) /\ overlapped' \in BOOLEAN /\ (overlapped => overlapped')
        /\ ~ overlapped' => Alone'
    BY <1>1, <2>1, <2>2, BeginsAlone DEF IntakeInv
  <2>4. call'[c] = k
    BY <1>1, <2>3, Moved
  <2>0. /\ strays' \subseteq Users /\ strays \subseteq strays'
        /\ call[c].user \in consent \cup strays'
    BY <1>1, <1>3, BeginsKnown
  <2>5. Untouched(c)
    BY <1>1, <2>0, <2>3, BoundsAssumption DEF Untouched, Typed, tables
  <2>6. CallInv(c)'
    BY <1>1, <2>0, <2>1, <2>4 DEF CallInv, OwnUser, StillSo, OwnData, tables
  <2> QED
    BY <1>1, <2>3, <2>5, <2>6, CallStep
<1>4. CASE End(c) /\ UNCHANGED << overlapped, strays >>
  <2>1. Moves(c, Idle) /\ CallInv(c)'
    BY <1>1, <1>4, Ending, IdleKeeps
  <2>2. Untouched(c)
    BY <1>1, <1>4, BoundsAssumption DEF Untouched, Typed, tables
  <2>3. ~ overlapped' => Alone'
    BY <1>1, <1>4, <2>1, StaysAlone DEF KeepsClass, Idle, IntakeInv
  <2> QED
    BY <1>1, <2>1, <2>2, <2>3, CallStep
<1> QED
  BY <1>2, <1>3, <1>4

LEMMA StartLoadsKeeps ==
  ASSUME IntakeInv, NEW c \in Calls, StartLoads(c)
  PROVE  IntakeInv'
<1> DEFINE u == call[c].user
           k == [call[c] EXCEPT !.pc = "invokes", !.read = profile[u]]
<1>1. /\ Typed /\ CallInv(c) /\ OwnData /\ Untouched(c)
      /\ call[c].pc = "loads" /\ u = identity /\ u \in Users
      /\ UNCHANGED << tables, saves, history >>
  BY BoundsAssumption DEF IntakeInv, Typed, CallInv, OwnUser, StartLoads, At, Untouched, tables, history
<1>2. /\ k \in CallStates /\ k.pc = "invokes" /\ k.user = u /\ k.booking = call[c].booking
      /\ k.read = profile[u] /\ k.supplied = call[c].supplied
  <2>1. call[c] \in CallStates /\ profile[u] \in Details
    BY <1>1 DEF Typed
  <2> QED
    BY <2>1 DEF CallStates
<1>3. call' = [call EXCEPT ![c] = k]
  <2>1. call[c] \in CallStates
    BY <1>1 DEF Typed
  <2> QED
    BY <1>1, <2>1 DEF StartLoads, CallStates, Typed
<1> HIDE DEF k
<1>4. Moves(c, k) /\ call'[c] = k
  BY <1>1, <1>2, <1>3 DEF Moves, Typed
<1>5. OwnUser(c)'
  BY <1>1, <1>2, <1>4 DEF CallInv, OwnUser, OwnData, tables
<1>6. ~ overlapped' => StillSo(c)'
  <2> SUFFICES ASSUME ~ overlapped PROVE StillSo(c)'
    BY <1>1 DEF history
  <2>1. profile = said /\ StillSo(c)
    BY <1>1 DEF IntakeInv, SaidData, CallInv
  <2>2. \A f \in Fields : profile[u][f] <= said[u][f]
    BY <1>1, <2>1, Numbers
  <2> QED
    BY <1>1, <1>2, <1>4, <2>1, <2>2 DEF StillSo, tables, history
<1>7. ~ overlapped' => Alone'
  BY <1>1, <1>2, <1>4, StaysAlone DEF KeepsClass, IntakeInv, history
<1> QED
  BY <1>1, <1>4, <1>5, <1>6, <1>7, CallStep DEF CallInv

Becomes(u, b, x) == claim' = [claim EXCEPT ![u] = [claim[u] EXCEPT ![b] = x]]

\* A claim that changes keeps the tables typed.
LEMMA ClaimChanges ==
  ASSUME Typed, NEW u \in Users, NEW b \in Bookings, NEW x \in Claims, Becomes(u, b, x)
  PROVE  /\ claim' \in [Users -> [Bookings -> Claims]]
         /\ claim'[u][b] = x
         /\ \A v \in Users, w \in Bookings : v # u \/ w # b => claim'[v][w] = claim[v][w]
<1>1. claim[u] \in [Bookings -> Claims]
  BY DEF Typed
<1> DEFINE row == [claim[u] EXCEPT ![b] = x]
<1>2. /\ row \in [Bookings -> Claims] /\ row[b] = x
      /\ \A w \in Bookings \ { b } : row[w] = claim[u][w]
  BY <1>1
<1>3. claim' = [claim EXCEPT ![u] = row]
  BY DEF Becomes
<1> HIDE DEF row
<1> QED
  BY <1>2, <1>3 DEF Typed

\* A start that gives a claim the details that it read keeps the invariant.
LEMMA Claiming ==
  ASSUME IntakeInv, NEW c \in Calls, call[c].pc \in Starting,
         NEW u, u = call[c].user, NEW b, b = call[c].booking, NEW x \in Claims, Becomes(u, b, x),
         x.status # "none", x.status = "letter" => x.claimant["name"] # 0 \/ x.named,
         \A f \in Fields : x.claimant[f] <= saves,
         ~ overlapped => \A f \in Fields : x.claimant[f] <= said[u][f],
         NEW k, Moves(c, k), k.pc \in { "idle", "loads" }, CallInv(c)',
         UNCHANGED << identity, users, consent, profile, link, saves, history >>
  PROVE  IntakeInv'
<1>1. /\ Typed /\ OwnData /\ CallInv(c) /\ u \in Users /\ b \in Bookings /\ u = identity
      /\ UNCHANGED << said, gone, outrun, strays, overlapped, deaths >>
  BY DEF IntakeInv, CallInv, OwnUser, history
<1>2. /\ claim' \in [Users -> [Bookings -> Claims]] /\ claim'[u][b] = x
      /\ \A v \in Users, w \in Bookings : v # u \/ w # b => claim'[v][w] = claim[v][w]
  BY <1>1, ClaimChanges
<1>3. /\ call' \in [Calls -> CallStates] /\ call'[c] = k
      /\ \A d \in Calls \ { c } : call'[d] = call[d]
  BY <1>1, Moved
<1>4. Typed'
  BY <1>1, <1>2, <1>3 DEF Typed
<1>5. OwnData'
  <2>1. ASSUME NEW v \in Users, NEW w \in Bookings
        PROVE  LET its == claim'[v][w] IN
               /\ its # NoClaim => v = identity' /\ its.status # "none"
               /\ its.status = "letter" => its.claimant["name"] # 0 \/ its.named
               /\ \A f \in Fields : its.claimant[f] <= saves'
    <3>1. CASE v = u /\ w = b
      BY <1>1, <1>2, <3>1
    <3>2. CASE v # u \/ w # b
      <4>1. claim'[v][w] = claim[v][w]
        BY <1>2, <3>2
      <4> QED
        BY <1>1, <4>1 DEF OwnData
    <3> QED
      BY <3>1, <3>2
  <2> QED
    BY <1>1, <2>1 DEF OwnData
<1>6. ASSUME NEW d \in Calls PROVE CallInv(d)'
  <2>1. CASE d # c
    <3>1. CallInv(d) /\ call'[d] = call[d] /\ OwnUser(d)'
      BY <1>1, <1>3, <2>1 DEF IntakeInv, CallInv, OwnUser
    <3>2. ASSUME ~ overlapped PROVE StillSo(d)'
      <4>1. StillSo(d) /\ call[d].pc \notin Erasing
        BY <2>1, <3>1, <3>2, ToItself DEF IntakeInv, CallInv
      <4> QED
        BY <1>1, <3>1, <4>1 DEF StillSo
    <3> QED
      BY <1>1, <3>1, <3>2 DEF CallInv
  <2> QED
    BY <2>1
<1>7. ~ overlapped' => Alone'
  BY <1>1, <1>3, StaysAlone DEF KeepsClass, IntakeInv
<1>8. ~ overlapped' => SaidData'
  <2> SUFFICES ASSUME ~ overlapped PROVE SaidData'
    BY <1>1
  <2>1. SaidData /\ u \notin gone \ strays
    BY <1>1 DEF IntakeInv, CallInv, StillSo
  <2>2. \A v \in Users, w \in Bookings, f \in Fields : claim'[v][w].claimant[f] <= said[v][f]
    BY <1>2, <2>1 DEF SaidData
  <2>3. \A v \in gone \ strays : \A w \in Bookings : claim'[v][w] = NoClaim
    BY <1>1, <1>2, <2>1 DEF SaidData, Typed
  <2>4. \A d \in Calls : call[d].pc = "profiles" => call'[d] = call[d]
    BY <1>3
  <2> QED
    BY <1>1, <2>1, <2>2, <2>3, <2>4 DEF SaidData
<1> QED
  BY <1>4, <1>5, <1>6, <1>7, <1>8 DEF IntakeInv

LEMMA StartCreatesKeeps ==
  ASSUME IntakeInv, NEW c \in Calls, StartCreates(c)
  PROVE  IntakeInv'
<1> DEFINE u == call[c].user
           b == call[c].booking
<1>1. /\ Typed /\ CallInv(c) /\ OwnData /\ call[c].pc = "creates"
      /\ u = identity /\ u \in Users /\ b \in Bookings
      /\ UNCHANGED << identity, users, consent, profile, link, saves, history >>
  BY DEF IntakeInv, CallInv, OwnUser, StartCreates, At
<1>2. CASE claim[u][b].status = "none"
  <2> DEFINE x == [NoClaim EXCEPT !.status = "row"]
  <2>1. claim[u][b] = NoClaim
    BY <1>1, <1>2 DEF OwnData
  <2>2. /\ x \in Claims /\ x.status = "row" /\ x.claimant = NoDetails
    BY NothingTyped DEF Claims, NoClaim
  <2>3. Becomes(u, b, x)
    BY <1>1, <1>2, <2>1 DEF StartCreates, Typed, Becomes
  <2>4. Goto(c, "loads")
    BY <1>2 DEF StartCreates
  <2>5. /\ Moves(c, call'[c]) /\ call'[c].pc = "loads"
        /\ call'[c].user = u /\ call'[c].booking = b
        /\ call'[c].read = call[c].read /\ call'[c].supplied = call[c].supplied
    BY <1>1, <2>4, Going
  <2>6. CallInv(c)'
    BY <1>1, <2>5 DEF CallInv, OwnUser, StillSo, history
  <2>7. \A f \in Fields : x.claimant[f] <= saves /\ x.claimant[f] <= said[u][f]
    BY <1>1, <2>2, Numbers DEF NoDetails
  <2> HIDE DEF x
  <2> QED
    BY <1>1, <2>2, <2>3, <2>5, <2>6, <2>7, Claiming
<1>3. CASE claim[u][b].status # "none"
  <2>1. End(c) /\ UNCHANGED claim
    BY <1>3 DEF StartCreates
  <2>2. Moves(c, Idle) /\ CallInv(c)'
    BY <1>1, <2>1, Ending, IdleKeeps, Numbers
  <2>3. Untouched(c)
    BY <1>1, <2>1, BoundsAssumption DEF Untouched, Typed, history
  <2>4. ~ overlapped' => Alone'
    BY <1>1, <2>2, StaysAlone DEF KeepsClass, Idle, IntakeInv, history
  <2> QED
    BY <1>1, <2>2, <2>3, <2>4, CallStep
<1> QED
  BY <1>2, <1>3

LEMMA StartInvokesKeeps ==
  ASSUME IntakeInv, NEW c \in Calls, StartInvokes(c)
  PROVE  IntakeInv'
<1> DEFINE me == call[c]
           u == call[c].user
           b == call[c].booking
<1>1. /\ Typed /\ CallInv(c) /\ OwnData /\ call[c].pc = "invokes"
      /\ u = identity /\ u \in Users /\ b \in Bookings
      /\ UNCHANGED << identity, users, consent, profile, link, saves, history >>
  BY DEF IntakeInv, CallInv, OwnUser, StartInvokes, At
<1>2. Moves(c, Idle) /\ CallInv(c)' /\ call'[c] = Idle
  BY <1>1, Ending, IdleKeeps, Numbers DEF StartInvokes
<1>3. PICK plan \in { "packet", "letter" } :
        claim' = [claim EXCEPT ![u][b] =
          IF @.status = "none" THEN @
          ELSE [ status |-> Draft(plan, me.read, me.named), claimant |-> me.read,
                 named |-> me.named ]]
  BY DEF StartInvokes
<1> DEFINE x == [ status |-> Draft(plan, me.read, me.named), claimant |-> me.read,
                  named |-> me.named ]
<1>4. CASE claim[u][b].status = "none"
  <2>1. claim' = claim
    BY <1>1, <1>3, <1>4 DEF Typed
  <2>2. Untouched(c)
    BY <1>1, <2>1, BoundsAssumption DEF Untouched, Typed, history
  <2>3. ~ overlapped' => Alone'
    BY <1>1, <1>2, StaysAlone DEF KeepsClass, Idle, IntakeInv, history
  <2> QED
    BY <1>1, <1>2, <2>2, <2>3, CallStep
<1>5. CASE claim[u][b].status # "none"
  <2>1. Becomes(u, b, x)
    BY <1>3, <1>5, <1>1 DEF Typed, Becomes
  <2>2. me \in CallStates
    BY <1>1 DEF Typed
  <2>3. Draft(plan, me.read, me.named) \in { "packet", "letter", "refused" }
    BY DEF Draft
  <2>4. /\ x \in Claims /\ x.status # "none"
        /\ x.status = "letter" => x.claimant["name"] # 0 \/ x.named
        /\ x.claimant = me.read
    <3>1. me.read \in Details /\ me.named \in BOOLEAN
      BY <2>2 DEF CallStates
    <3>2. Draft(plan, me.read, me.named) = "letter" => me.read["name"] # 0 \/ me.named
      BY DEF Draft
    <3> HIDE DEF me
    <3> QED
      BY <2>3, <3>1, <3>2 DEF Claims
  <2>5. /\ \A f \in Fields : x.claimant[f] <= saves
        /\ ~ overlapped => \A f \in Fields : x.claimant[f] <= said[u][f]
    BY <1>1, <2>4 DEF CallInv, OwnUser, StillSo
  <2> HIDE DEF x
  <2>6. Idle.pc = "idle"
    BY DEF Idle
  <2> QED
    BY <1>1, <1>2, <2>1, <2>4, <2>5, <2>6, Claiming
<1> QED
  BY <1>4, <1>5

-----------------------------------------------------------------------------
(***************************************************************************)
(* forget_my_data.                                                         *)
(***************************************************************************)
LEMMA ForgetBeginsKeeps ==
  ASSUME IntakeInv, NEW c \in Calls, ForgetBegins(c)
  PROVE  IntakeInv'
<1> DEFINE k == [call[c] EXCEPT !.pc = "claims"]
<1>1. /\ Typed /\ CallInv(c) /\ call[c].pc = "passed"
      /\ UNCHANGED << tables, saves, said, gone, outrun, strays, deaths >>
  BY DEF IntakeInv, ForgetBegins, At
<1>2. /\ k \in CallStates /\ k.pc = "claims" /\ k.user = call[c].user
      /\ k.read = call[c].read /\ k.supplied = call[c].supplied
  <2>1. call[c] \in CallStates
    BY <1>1 DEF Typed
  <2> QED
    BY <2>1 DEF CallStates
<1>3. BeginTool(c, k)
  BY DEF ForgetBegins
<1> HIDE DEF k
<1>4. /\ Moves(c, k) /\ overlapped' \in BOOLEAN /\ (overlapped => overlapped')
      /\ ~ overlapped' => Alone'
  BY <1>1, <1>2, <1>3, BeginsAlone DEF IntakeInv
<1>5. call'[c] = k
  BY <1>1, <1>4, Moved
<1>6. Untouched(c)
  BY <1>1, <1>4, BoundsAssumption DEF Untouched, Typed, tables
<1>7. CallInv(c)'
  BY <1>1, <1>2, <1>5 DEF CallInv, OwnUser, StillSo, tables
<1> QED
  BY <1>1, <1>4, <1>6, <1>7, CallStep

LEMMA ForgetClaimsKeeps ==
  ASSUME IntakeInv, NEW c \in Calls, ForgetClaims(c)
  PROVE  IntakeInv'
<1> DEFINE u == call[c].user
<1>1. /\ Typed /\ OwnData /\ CallInv(c) /\ call[c].pc = "claims" /\ u = identity /\ u \in Users
      /\ UNCHANGED << identity, users, consent, profile, link, saves, said, gone, outrun, strays,
                      overlapped, deaths >>
  BY DEF IntakeInv, CallInv, OwnUser, ForgetClaims, At, history
<1>2. /\ claim' \in [Users -> [Bookings -> Claims]]
      /\ \A b \in Bookings : claim'[u][b] = NoClaim
      /\ \A v \in Users \ { u }, b \in Bookings : claim'[v][b] = claim[v][b]
  <2> DEFINE none == [b \in Bookings |-> NoClaim]
  <2>1. none \in [Bookings -> Claims] /\ \A b \in Bookings : none[b] = NoClaim
    BY NothingTyped
  <2>2. claim' = [claim EXCEPT ![u] = none]
    BY DEF ForgetClaims
  <2> HIDE DEF none
  <2> QED
    BY <1>1, <2>1, <2>2 DEF Typed
<1>3. /\ Moves(c, call'[c]) /\ call'[c].pc = "consents" /\ call'[c].user = u
      /\ call'[c].read = call[c].read /\ call'[c].supplied = call[c].supplied
  BY <1>1, Going DEF ForgetClaims
<1>4. call' \in [Calls -> CallStates] /\ \A d \in Calls \ { c } : call'[d] = call[d]
  BY <1>1, <1>3, Moved
<1>5. Typed'
  BY <1>1, <1>2, <1>4 DEF Typed
<1>6. \A f \in Fields : NoClaim.claimant[f] = 0 /\ NoClaim.status = "none"
  BY DEF NoClaim, NoDetails
<1>7. OwnData'
  <2>1. ASSUME NEW v \in Users, NEW w \in Bookings
        PROVE  LET its == claim'[v][w] IN
               /\ its # NoClaim => v = identity' /\ its.status # "none"
               /\ its.status = "letter" => its.claimant["name"] # 0 \/ its.named
               /\ \A f \in Fields : its.claimant[f] <= saves'
    <3>1. CASE v = u
      <4>1. NoClaim.status # "letter" /\ \A f \in Fields : NoClaim.claimant[f] <= saves
        BY <1>1, Numbers DEF NoClaim, NoDetails
      <4> QED
        BY <1>1, <1>2, <3>1, <4>1
    <3>2. CASE v # u
      BY <1>1, <1>2, <3>2 DEF OwnData
    <3> QED
      BY <3>1, <3>2
  <2> QED
    BY <1>1, <2>1 DEF OwnData
<1>8. ASSUME NEW d \in Calls PROVE CallInv(d)'
  <2>1. CASE d = c
    BY <1>1, <1>2, <1>3, <2>1 DEF CallInv, OwnUser, StillSo
  <2>2. CASE d # c
    <3>1. CallInv(d) /\ call'[d] = call[d] /\ OwnUser(d)'
      BY <1>1, <1>4, <2>2 DEF IntakeInv, CallInv, OwnUser
    <3>2. ASSUME ~ overlapped PROVE StillSo(d)'
      <4>1. StillSo(d) /\ call[d].pc \notin Tools
        BY <1>1, <2>2, <3>1, <3>2, ToItself DEF IntakeInv, CallInv
      <4> QED
        BY <3>1, <4>1 DEF StillSo
    <3> QED
      BY <1>1, <3>1, <3>2 DEF CallInv
  <2> QED
    BY <2>1, <2>2
<1>9. ~ overlapped' => Alone'
  BY <1>1, <1>3, StaysAlone DEF KeepsClass, IntakeInv
<1>10. ~ overlapped' => SaidData'
  <2> SUFFICES ASSUME ~ overlapped PROVE SaidData'
    BY <1>1
  <2>1. SaidData
    BY DEF IntakeInv
  <2>2. ASSUME NEW v \in Users, NEW w \in Bookings, NEW f \in Fields
        PROVE  claim'[v][w].claimant[f] <= said[v][f]
    <3>1. CASE v = u
      BY <1>1, <1>2, <1>6, <3>1, Numbers
    <3>2. CASE v # u
      BY <1>2, <2>1, <3>2 DEF SaidData
    <3> QED
      BY <3>1, <3>2
  <2>3. \A v \in gone \ strays : \A w \in Bookings : claim'[v][w] = NoClaim
    BY <1>1, <1>2, <2>1 DEF SaidData, Typed
  <2>4. \A d \in Calls : call[d].pc = "profiles" => call'[d] = call[d]
    BY <1>1, <1>4
  <2> QED
    BY <1>1, <2>1, <2>2, <2>3, <2>4 DEF SaidData
<1> QED
  BY <1>5, <1>7, <1>8, <1>9, <1>10 DEF IntakeInv

LEMMA ForgetConsentKeeps ==
  ASSUME IntakeInv, NEW c \in Calls, ForgetConsent(c)
  PROVE  IntakeInv'
<1> DEFINE u == call[c].user
<1>1. /\ Typed /\ OwnData /\ CallInv(c) /\ call[c].pc = "consents" /\ u = identity /\ u \in Users
      /\ consent' = consent \ { u }
      /\ outrun' = outrun \cup { d \in Calls : At(d, "passed") /\ call[d].user = u }
      /\ UNCHANGED << identity, users, profile, claim, link, saves, said, gone, strays, overlapped,
                      deaths >>
  BY DEF IntakeInv, CallInv, OwnUser, ForgetConsent, At, history
<1>2. /\ Moves(c, call'[c]) /\ call'[c].pc = "profiles" /\ call'[c].user = u
      /\ call'[c].read = call[c].read /\ call'[c].supplied = call[c].supplied
  BY <1>1, Going DEF ForgetConsent
<1>3. call' \in [Calls -> CallStates] /\ \A d \in Calls \ { c } : call'[d] = call[d]
  BY <1>1, <1>2, Moved
<1>4. Typed'
  BY <1>1, <1>3 DEF Typed
<1>5. OwnData'
  BY <1>1 DEF OwnData
<1>6. ASSUME NEW d \in Calls PROVE CallInv(d)'
  <2>1. CASE d = c
    BY <1>1, <1>2, <2>1 DEF CallInv, OwnUser, StillSo
  <2>2. CASE d # c
    <3>1. CallInv(d) /\ call'[d] = call[d] /\ OwnUser(d)'
      BY <1>1, <1>3, <2>2 DEF IntakeInv, CallInv, OwnUser, At
    <3>2. ASSUME ~ overlapped PROVE StillSo(d)'
      <4>1. StillSo(d) /\ call[d].pc \notin Tools
        BY <1>1, <2>2, <3>1, <3>2, ToItself DEF IntakeInv, CallInv
      <4> QED
        BY <3>1, <4>1 DEF StillSo
    <3> QED
      BY <1>1, <3>1, <3>2 DEF CallInv
  <2> QED
    BY <2>1, <2>2
<1>7. ~ overlapped' => Alone'
  BY <1>1, <1>2, StaysAlone DEF KeepsClass, IntakeInv
<1>8. ~ overlapped' => SaidData'
  <2> SUFFICES ASSUME ~ overlapped PROVE SaidData'
    BY <1>1
  <2>1. SaidData
    BY DEF IntakeInv
  <2>2. \A v \in Users : profile[v] # NoDetails => v = u
    BY <1>1 DEF OwnData
  <2> QED
    BY <1>1, <1>2, <2>1, <2>2 DEF SaidData
<1> QED
  BY <1>4, <1>5, <1>6, <1>7, <1>8 DEF IntakeInv

LEMMA ForgetProfileKeeps ==
  ASSUME IntakeInv, NEW c \in Calls, ForgetProfile(c)
  PROVE  IntakeInv'
<1> DEFINE u == call[c].user
<1>1. /\ Typed /\ OwnData /\ CallInv(c) /\ call[c].pc = "profiles" /\ u = identity /\ u \in Users
      /\ strays' = strays \ { u }
      /\ UNCHANGED << identity, users, consent, claim, link, saves, gone, outrun, overlapped, deaths >>
  BY DEF IntakeInv, CallInv, OwnUser, ForgetProfile, At
<1>2. /\ profile' \in [Users -> Details] /\ said' \in [Users -> Details]
      /\ profile'[u] = NoDetails /\ said'[u] = NoDetails
      /\ \A v \in Users \ { u } : profile'[v] = profile[v] /\ said'[v] = said[v]
  BY <1>1, NothingTyped DEF ForgetProfile, Typed
<1>3. /\ Moves(c, call'[c]) /\ call'[c].pc = "records" /\ call'[c].user = u
      /\ call'[c].read = call[c].read /\ call'[c].supplied = call[c].supplied
  BY <1>1, Going DEF ForgetProfile
<1>4. call' \in [Calls -> CallStates] /\ \A d \in Calls \ { c } : call'[d] = call[d]
  BY <1>1, <1>3, Moved
<1>5. Typed'
  BY <1>1, <1>2, <1>4 DEF Typed
<1>6. \A f \in Fields : NoDetails[f] = 0 /\ NoDetails[f] <= saves
  BY <1>1, Numbers DEF NoDetails
<1>7. OwnData'
  BY <1>1, <1>2, <1>6 DEF OwnData
<1>8. ASSUME NEW d \in Calls PROVE CallInv(d)'
  <2>1. CASE d = c
    BY <1>1, <1>2, <1>3, <2>1 DEF CallInv, OwnUser, StillSo
  <2>2. CASE d # c
    <3>1. CallInv(d) /\ call'[d] = call[d] /\ OwnUser(d)'
      BY <1>1, <1>4, <2>2 DEF IntakeInv, CallInv, OwnUser
    <3>2. ASSUME ~ overlapped PROVE StillSo(d)'
      <4>1. call[d].pc \notin Tools
        BY <1>1, <2>2, <3>2, ToItself DEF IntakeInv
      <4> QED
        BY <3>1, <4>1 DEF StillSo
    <3> QED
      BY <1>1, <3>1, <3>2 DEF CallInv
  <2> QED
    BY <2>1, <2>2
<1>9. ~ overlapped' => Alone'
  BY <1>1, <1>3, StaysAlone DEF KeepsClass, IntakeInv
<1>10. ~ overlapped' => SaidData'
  <2> SUFFICES ASSUME ~ overlapped PROVE SaidData'
    BY <1>1
  <2>1. SaidData /\ \A b \in Bookings : claim[u][b] = NoClaim
    BY <1>1 DEF IntakeInv, CallInv, StillSo
  <2>2. profile' = said'
    BY <2>1 DEF SaidData, ForgetProfile
  <2>3. ASSUME NEW v \in Users, NEW w \in Bookings, NEW f \in Fields
        PROVE  claim'[v][w].claimant[f] <= said'[v][f]
    <3>1. CASE v = u
      <4>1. claim'[v][w].claimant[f] = 0 /\ said'[v][f] = 0
        BY <1>1, <1>2, <2>1, <3>1 DEF NoClaim, NoDetails
      <4> QED
        BY <4>1
    <3>2. CASE v # u
      BY <1>1, <1>2, <2>1, <3>2 DEF SaidData
    <3> QED
      BY <3>1, <3>2
  <2>4. \A v \in gone' \ strays' :
          profile'[v] = NoDetails /\ \A b \in Bookings : claim'[v][b] = NoClaim
    BY <1>1, <1>2, <2>1 DEF SaidData, Typed
  <2>5. \A v \in Users : profile'[v] = NoDetails
    BY <1>1, <1>2 DEF OwnData
  <2> QED
    BY <2>2, <2>3, <2>4, <2>5 DEF SaidData
<1> QED
  BY <1>5, <1>7, <1>8, <1>9, <1>10 DEF IntakeInv

LEMMA ForgetRecordsKeeps ==
  ASSUME IntakeInv, NEW c \in Calls, ForgetRecords(c)
  PROVE  IntakeInv'
<1> DEFINE u == call[c].user
<1>1. /\ Typed /\ OwnData /\ CallInv(c) /\ call[c].pc = "records" /\ u = identity /\ u \in Users
      /\ gone' = gone \cup ({ u } \ consent)
      /\ UNCHANGED << identity, users, consent, profile, claim, link, saves, said, outrun, strays,
                      overlapped, deaths >>
  BY DEF IntakeInv, CallInv, OwnUser, ForgetRecords, At, tables
<1>2. Moves(c, Idle) /\ call'[c] = Idle /\ \A d \in Calls \ { c } : call'[d] = call[d]
  BY <1>1, Ending, Moved DEF ForgetRecords
<1>3. Typed'
  BY <1>1, <1>2, Moved DEF Typed
<1>4. OwnData'
  BY <1>1 DEF OwnData
<1>5. ASSUME NEW d \in Calls PROVE CallInv(d)'
  <2>1. CASE d = c
    BY <1>1, <1>2, <2>1, IdleKeeps, Numbers
  <2>2. CASE d # c
    <3>1. CallInv(d) /\ call'[d] = call[d] /\ OwnUser(d)'
      BY <1>1, <1>2, <2>2 DEF IntakeInv, CallInv, OwnUser
    <3>2. ASSUME ~ overlapped PROVE StillSo(d)'
      <4>1. call[d].pc \notin Tools
        BY <1>1, <2>2, <3>2, ToItself DEF IntakeInv
      <4> QED
        BY <3>1, <4>1 DEF StillSo
    <3> QED
      BY <1>1, <3>1, <3>2 DEF CallInv
  <2> QED
    BY <2>1, <2>2
<1>6. ~ overlapped' => Alone'
  BY <1>1, <1>2, StaysAlone DEF KeepsClass, Idle, IntakeInv
<1>7. ~ overlapped' => SaidData'
  <2> SUFFICES ASSUME ~ overlapped PROVE SaidData'
    BY <1>1
  <2>1. SaidData /\ profile[u] = NoDetails /\ \A b \in Bookings : claim[u][b] = NoClaim
    BY <1>1 DEF IntakeInv, CallInv, StillSo
  <2>2. \A d \in Calls : call[d].pc = "profiles" => call'[d] = call[d]
    BY <1>1, <1>2
  <2> QED
    BY <1>1, <2>1, <2>2 DEF SaidData
<1> QED
  BY <1>3, <1>4, <1>5, <1>6, <1>7 DEF IntakeInv

-----------------------------------------------------------------------------
(***************************************************************************)
(* The theorems.                                                           *)
(***************************************************************************)
LEMMA NextKeeps == IntakeInv /\ [Next]_vars => IntakeInv'
<1>1. ASSUME IntakeInv, NEW c \in Calls, IdentityStep(c) PROVE IntakeInv'
  BY <1>1, ReceiveKeeps, CreateUserKeeps, InsertIdentityKeeps, ReadUserKeeps DEF IdentityStep
<1>6. ASSUME IntakeInv, NEW c \in Calls, GateStep(c) PROVE IntakeInv'
  BY <1>6, HasConsentedKeeps, ConsentKeeps, ShowNoticeKeeps, ConnectEmailKeeps, ResumeKeeps
  DEF GateStep
<1>2. ASSUME IntakeInv, NEW c \in Calls, SaveStep(c) PROVE IntakeInv'
  BY <1>2, SaveReadsKeeps, SaveWritesKeeps, SaveRefusesKeeps DEF SaveStep
<1>3. ASSUME IntakeInv, NEW c \in Calls, StartStep(c) PROVE IntakeInv'
  BY <1>3, StartLooksKeeps, StartCreatesKeeps, StartLoadsKeeps, StartInvokesKeeps DEF StartStep
<1>4. ASSUME IntakeInv, NEW c \in Calls, ForgetStep(c) PROVE IntakeInv'
  BY <1>4, ForgetBeginsKeeps, ForgetClaimsKeeps, ForgetConsentKeeps, ForgetProfileKeeps,
     ForgetRecordsKeeps DEF ForgetStep
<1>5. ASSUME IntakeInv, UNCHANGED vars PROVE IntakeInv'
  <2>1. /\ UNCHANGED << identity, users, consent, profile, claim, link, call, saves >>
        /\ UNCHANGED << said, gone, outrun, strays, overlapped, deaths >>
    BY <1>5 DEF vars, tables, history
  <2>2. Typed' /\ OwnData'
    BY <1>5, <2>1 DEF IntakeInv, Typed, OwnData
  <2>3. \A c \in Calls : CallInv(c)'
    BY <1>5, <2>1 DEF IntakeInv, CallInv, OwnUser, StillSo
  <2>4. ~ overlapped' => SaidData' /\ Alone'
    BY <1>5, <2>1 DEF IntakeInv, SaidData, Alone, Clash
  <2> QED
    BY <2>2, <2>3, <2>4 DEF IntakeInv
<1> QED
  BY <1>1, <1>2, <1>3, <1>4, <1>5, <1>6, DieKeeps DEF Next

\* The inductive invariant: calls work for the identity of the chat, what they have read
\* is still so unless calls that clash have overlapped, and a call past the gate has a
\* consent behind it unless an erasure has overtaken it.
THEOREM Invariance == Spec => []IntakeInv
  BY InitInv, NextKeeps, PTL DEF Spec

\* What is stored is the identity's of the chat, however first messages overlap: the
\* user of a message is read back from the row that won, never taken from the insert.
THEOREM Reachable == Spec => []DataReachable
  BY Invariance, Implied, PTL

\* The profile is what was said, and a claimant was said before the claim.  Without an
\* overlap, because a save that is between its read and its write has the row to itself.
THEOREM AsSaid == Spec => []DetailsAsSaid
  BY Invariance, Implied, PTL

\* A finished erasure leaves nothing, an unfinished one is in progress or has died, and
\* whoever has neither consented nor been resumed or overtaken has nothing stored: the only
\* ways around the gate are the two that never ask it again.
THEOREM Erased == Spec => []ErasureLeavesNothing
  BY Invariance, Implied, PTL
=============================================================================
