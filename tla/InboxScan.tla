------------------------------ MODULE InboxScan ------------------------------
(***************************************************************************)
(* scan_inbox: the messages of a range are listed page by page, at Google  *)
(* fetched one by one by a few workers (gmail.adapter.ts, concurrency.ts), *)
(* at Microsoft with the pages themselves (outlook.adapter.ts), and those  *)
(* that look like a booking go to the extractor one after another          *)
(* (operator/tools.ts, check-inbox.ts).  Any request may fail.             *)
(***************************************************************************)
EXTENDS Integers, Sequences, SequencesExt

CONSTANTS
  MaxMail,       \* bounds the messages of the range
  PageSize,      \* LIST_PAGE_SIZE, PAGE_SIZE
  MaxMessages,   \* DEFAULT_MAX_MESSAGES
  Concurrency,   \* DETAIL_FETCH_CONCURRENCY
  MaxCalls       \* bounds the tool calls of one extraction

ASSUME BoundsAssumption ==
  /\ { PageSize, MaxMessages, Concurrency } \subseteq Nat \ { 0 }
  /\ { MaxMail, MaxCalls } \subseteq Nat

VARIABLES
  source,        \* whose inbox it is
  mail,          \* how many messages the range has: they are 1, 2, ..
  bookings,      \* those that looksLikeBookingEmail accepts
  attached,      \* those with attachments
  pc,
  got,           \* how many messages have been listed
  truncated,
  worker,        \* mapWithConcurrency: what each worker fetches, or 0
  nextIndex,
  results,
  messages,      \* what listRecentMessages returned
  at,            \* the one that is looked at
  calls,
  candidates,
  outcome

inbox  == << source, mail, bookings, attached >>
list   == << got, truncated >>
fetch  == << worker, nextIndex, results >>
read   == << messages, at, calls, candidates >>
vars   == << inbox, pc, list, fetch, read, outcome >>

Numbers == 1..MaxMail
Workers == 1..Concurrency
Failed  == -1      \* a result that is not ok

Least(m, n) == IF m <= n THEN m ELSE n

Init ==
  /\ source \in { "gmail", "outlook" }
  /\ mail \in 0..MaxMail
  /\ bookings \in SUBSET (1..mail)
  /\ attached \in SUBSET bookings
  /\ pc = "lists" /\ got = 0 /\ truncated = FALSE
  /\ worker = [w \in Workers |-> 0] /\ nextIndex = 1 /\ results = << >>
  /\ messages = << >> /\ at = 1 /\ calls = 0 /\ candidates = << >>
  /\ outcome = "none"

Finish(result) == pc' = "done" /\ outcome' = result

-----------------------------------------------------------------------------
(***************************************************************************)
(* Listing.                                                                *)
(***************************************************************************)
\* The pages are listed: n messages are left of them after the cut.  Google has only
\* told their ids, and as many workers begin as there is work for.
Listed(n) ==
  IF source = "gmail" /\ n > 0
  THEN /\ pc' = "details"
       /\ worker' = [w \in Workers |-> IF w <= n THEN w ELSE 0]
       /\ nextIndex' = Least(Concurrency, n) + 1
       /\ results' = [i \in 1..n |-> 0]
       /\ UNCHANGED messages
  ELSE /\ pc' = "reads"
       /\ messages' = [i \in 1..n |-> i]
       /\ UNCHANGED fetch

\* Mutant: a full list counts as a cut one, whether or not a page is left.
ListPageCounting ==
  /\ pc = "lists"
  /\ \E n \in 0..Least(PageSize, mail - got) :
       /\ n = 0 => got = mail
       /\ got' = got + n
  /\ truncated' = (got' >= MaxMessages)
  /\ IF got' < mail /\ ~ truncated' THEN UNCHANGED << pc, fetch, messages >>
     ELSE Listed(Least(got', MaxMessages))
  /\ UNCHANGED << inbox, at, calls, candidates, outcome >>

\* Mutant: the page that follows is not asked for.
ListPageAgain ==
  /\ pc = "lists"
  /\ \E n \in 0..Least(PageSize, mail) :
       /\ n = 0 => mail = 0
       /\ got' = n
  /\ truncated' = (got' < mail /\ got' >= MaxMessages)
  /\ IF got' < mail /\ ~ truncated' THEN UNCHANGED << pc, fetch, messages >>
     ELSE Listed(Least(got', MaxMessages))
  /\ UNCHANGED << inbox, at, calls, candidates, outcome >>

\* A page: it may be shorter than was asked for.  There is a next one while messages
\* are left, and it is not fetched when there are enough.
ListPage ==
  /\ pc = "lists"
  /\ \E n \in 0..Least(PageSize, mail - got) :
       /\ n = 0 => got = mail
       /\ got' = got + n
  /\ truncated' = (got' < mail /\ got' >= MaxMessages)
  /\ IF got' < mail /\ ~ truncated' THEN UNCHANGED << pc, fetch, messages >>
     ELSE Listed(Least(got', MaxMessages))
  /\ UNCHANGED << inbox, at, calls, candidates, outcome >>

\* authedFetch returns an error, or throws reading the body of one.
ListFails ==
  /\ pc = "lists"
  /\ \E result \in { "error", "thrown" } : Finish(result)
  /\ UNCHANGED << inbox, list, fetch, read >>

-----------------------------------------------------------------------------
(***************************************************************************)
(* mapWithConcurrency over messages.get.                                   *)
(***************************************************************************)
\* The worker goes on with the next message, if one is left.
TakeNext(w) ==
  /\ worker' = [worker EXCEPT ![w] = IF nextIndex <= Len(results) THEN nextIndex ELSE 0]
  /\ nextIndex' = IF nextIndex <= Len(results) THEN nextIndex + 1 ELSE nextIndex

\* Mutant: results are kept in the order in which they come.
FetchReturnsInTurn(w) ==
  /\ worker[w] # 0
  /\ \E result \in { worker[w], Failed } :
       LET free == CHOOSE i \in DOMAIN results :
                     results[i] = 0 /\ \A k \in 1..(i - 1) : results[k] # 0
       IN results' = [results EXCEPT ![free] = result]
  /\ TakeNext(w)
  /\ UNCHANGED << inbox, pc, list, read, outcome >>

\* Also when the scan is over: a worker does not learn that another has thrown.
FetchReturns(w) ==
  /\ worker[w] # 0
  /\ \E result \in { worker[w], Failed } : results' = [results EXCEPT ![worker[w]] = result]
  /\ TakeNext(w)
  /\ UNCHANGED << inbox, pc, list, read, outcome >>

\* The body of an error cannot be read: that rejects the whole at once.
FetchThrows(w) ==
  /\ worker[w] # 0
  /\ worker' = [worker EXCEPT ![w] = 0]
  /\ IF pc = "details" THEN Finish("thrown") ELSE UNCHANGED << pc, outcome >>
  /\ UNCHANGED << inbox, list, nextIndex, results, read >>

\* Promise.all: one error among the results is the result, and a Date header that is no
\* date makes toISOString throw, whatever the others say.
DetailsFetched ==
  /\ pc = "details"
  /\ \A w \in Workers : worker[w] = 0
  /\ IF Failed \in ToSet(results)
     THEN Finish("error") /\ UNCHANGED messages
     ELSE \/ Finish("thrown") /\ UNCHANGED messages
          \/ pc' = "reads" /\ messages' = results /\ UNCHANGED outcome
  /\ UNCHANGED << inbox, list, fetch, at, calls, candidates >>

-----------------------------------------------------------------------------
(***************************************************************************)
(* Reading the messages.                                                   *)
(***************************************************************************)
SkipMessage ==
  /\ pc = "reads" /\ at <= Len(messages)
  /\ messages[at] \notin bookings
  /\ at' = at + 1
  /\ UNCHANGED << inbox, pc, list, fetch, messages, calls, candidates, outcome >>

BeginExtraction ==
  /\ pc = "reads" /\ at <= Len(messages)
  /\ messages[at] \in bookings
  /\ pc' = "extracts" /\ calls' = 0
  /\ UNCHANGED << inbox, list, fetch, messages, at, candidates, outcome >>

\* get_attachment_text: the extractor's agent has it only for a message that has
\* attachments.
GetAttachmentText ==
  /\ pc = "extracts" /\ messages[at] \in attached
  /\ calls < MaxCalls
  /\ calls' = calls + 1
  /\ pc' = "attachment"
  /\ UNCHANGED << inbox, list, fetch, messages, at, candidates, outcome >>

\* The text, or an error, which is told to the model all the same.
AttachmentReturns ==
  /\ pc = "attachment"
  /\ pc' = "extracts"
  /\ UNCHANGED << inbox, list, fetch, read, outcome >>

\* The model finds a booking or none.
ExtractReturns ==
  /\ pc = "extracts"
  /\ \E found \in BOOLEAN :
       candidates' = Append(candidates, [message |-> messages[at], found |-> found])
  /\ at' = at + 1
  /\ pc' = "reads"
  /\ UNCHANGED << inbox, list, fetch, messages, calls, outcome >>

\* Mutant: a message that the extractor cannot read is passed over.
ExtractIsSkipped ==
  /\ pc \in { "extracts", "attachment" }
  /\ at' = at + 1
  /\ pc' = "reads"
  /\ UNCHANGED << inbox, list, fetch, messages, calls, candidates, outcome >>

\* The extractor throws, and the scan with it.
ExtractThrows ==
  /\ pc \in { "extracts", "attachment" }
  /\ Finish("thrown")
  /\ UNCHANGED << inbox, list, fetch, read >>

AnswerScan ==
  /\ pc = "reads" /\ at > Len(messages)
  /\ Finish("ok")
  /\ UNCHANGED << inbox, list, fetch, read >>

FetchStep(w) == FetchReturns(w) \/ FetchThrows(w)

ScanStep ==
  \/ ListPage \/ ListFails \/ DetailsFetched \/ SkipMessage \/ BeginExtraction
  \/ GetAttachmentText \/ AttachmentReturns \/ ExtractReturns \/ ExtractThrows \/ AnswerScan

Next == ScanStep \/ (\E w \in Workers : FetchStep(w))

\* Requests end (fetch has its own limits), and so does the model.
Fairness == WF_vars(ScanStep) /\ \A w \in Workers : WF_vars(FetchStep(w))

Spec == Init /\ [][Next]_vars /\ Fairness

-----------------------------------------------------------------------------
(***************************************************************************)
(* Properties.                                                             *)
(***************************************************************************)
\* The candidates are of these messages, one for each and in their order.
CandidatesOf(set) ==
  /\ { candidates[i].message : i \in DOMAIN candidates } = set
  /\ \A i, j \in DOMAIN candidates : i < j => candidates[i].message < candidates[j].message

\* A scan that answers has every message up to the limit, each once and in the order
\* of the list, whichever worker fetched it and however late, and every booking among
\* them as a candidate: no failure turns into a shorter answer (listRecentMessages
\* returns the first error; scanInbox catches nothing).
AnswerIsWhole ==
  outcome = "ok" =>
    /\ messages = [i \in 1..Least(mail, MaxMessages) |-> i]
    /\ CandidatesOf(bookings \cap ToSet(messages))

\* "True if more matching messages existed than were fetched" (email-ingest.port.ts):
\* an answer is marked as truncated exactly if messages were left at the provider.
\* Those that the last page brought beyond the limit are cut without the mark.
CutIsTold ==
  outcome = "ok" =>
    /\ truncated <=> got < mail
    /\ truncated => Len(messages) = MaxMessages
    /\ Len(messages) < mail /\ ~ truncated =>
         got = mail /\ MaxMessages < mail /\ mail < MaxMessages + PageSize

\* Every scan ends, and so does every request it has begun, also those that go on
\* after one of them has thrown.
ScanSettles == <>[](pc = "done" /\ \A w \in Workers : worker[w] = 0)
=============================================================================
