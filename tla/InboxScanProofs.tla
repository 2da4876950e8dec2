--------------------------- MODULE InboxScanProofs ----------------------------
(***************************************************************************)
(* What a scan answers is whole, for every inbox, page size, limit and     *)
(* number of workers, whichever of them is late and whatever fails.        *)
(***************************************************************************)
EXTENDS InboxScan, TLAPS

Reading == { "reads", "extracts", "attachment" }

InboxTypeOK ==
  /\ source \in { "gmail", "outlook" } /\ mail \in Nat
  /\ bookings \in SUBSET (1..mail)
  /\ pc \in { "lists", "details", "done" } \cup Reading
  /\ got \in 0..mail /\ truncated \in BOOLEAN
  /\ worker \in [Workers -> Nat] /\ nextIndex \in Nat \ { 0 }
  /\ results \in Seq(Int) /\ messages \in Seq(Nat)
  /\ at \in Nat \ { 0 } /\ candidates \in Seq([message : Nat, found : BOOLEAN])
  /\ outcome \in { "none", "ok", "error", "thrown" }
  /\ outcome = "none" <=> pc # "done"

\* While pages are listed the limit is not reached; afterwards the mark says whether
\* messages are left, and at most the rest of a page is beyond the limit.
ListInv ==
  /\ pc = "lists" => ~ truncated /\ got < MaxMessages
  /\ pc \in { "details" } \cup Reading \/ outcome = "ok" =>
       /\ truncated <=> got < mail
       /\ truncated => got >= MaxMessages
       /\ got < MaxMessages + PageSize

\* A message is fetched by one worker at a time, and only before its result is there.
EachFetchedOnce ==
  \A w \in Workers : worker[w] # 0 =>
    /\ worker[w] \in DOMAIN results /\ results[worker[w]] = 0
    /\ \A v \in Workers \ { w } : worker[v] # worker[w]

\* No worker is idle while messages are left, and what was taken is being fetched or
\* has its result at its own place.
FetchInv ==
  /\ nextIndex <= Len(results) + 1
  /\ EachFetchedOnce
  /\ \A w \in Workers : worker[w] < nextIndex
  /\ \A i \in DOMAIN results : i >= nextIndex => results[i] = 0
  /\ pc = "details" =>
       /\ Len(results) = Least(mail, MaxMessages)
       /\ \A i \in DOMAIN results : results[i] \in { 0, i, Failed }
       /\ nextIndex <= Len(results) => \E w \in Workers : worker[w] # 0
       /\ \A i \in DOMAIN results :
            results[i] = 0 /\ i < nextIndex => \E w \in Workers : worker[w] = i

\* The bookings before the one that is looked at are candidates.
ReadInv ==
  /\ pc \in { "lists", "details" } => at = 1 /\ candidates = << >>
  /\ pc \in Reading \/ outcome = "ok" =>
       /\ messages = [i \in 1..Least(mail, MaxMessages) |-> i]
       /\ at <= Len(messages) + 1
       /\ CandidatesOf(bookings \cap 1..(at - 1))
  /\ pc \in { "extracts", "attachment" } => at <= Len(messages) /\ messages[at] \in bookings
  /\ outcome = "ok" => at > Len(messages)

InboxInv == InboxTypeOK /\ ListInv /\ FetchInv /\ ReadInv

-----------------------------------------------------------------------------
\* The smaller of two numbers is one of them and no larger than either.
LEMMA LeastIs ==
  ASSUME NEW m \in Int, NEW n \in Int
  PROVE  Least(m, n) \in { m, n } /\ Least(m, n) <= m /\ Least(m, n) <= n
BY DEF Least

\* The bounds, one by one.
LEMMA Bounds ==
  /\ PageSize \in Nat /\ PageSize > 0
  /\ MaxMessages \in Nat /\ MaxMessages > 0
  /\ Concurrency \in Nat /\ Concurrency > 0
  /\ MaxMail \in Nat
BY BoundsAssumption

\* A scan that has not begun.
LEMMA InitInv == Init => InboxInv
<1> SUFFICES ASSUME Init PROVE InboxInv
  OBVIOUS
<1>1. InboxTypeOK
  <2>1. results \in Seq(Int) /\ messages \in Seq(Nat) /\ candidates \in Seq([message : Nat, found : BOOLEAN])
    BY DEF Init
  <2>2. mail \in Nat /\ bookings \in SUBSET (1..mail) /\ got \in 0..mail
    BY Bounds DEF Init
  <2>3. worker \in [Workers -> Nat]
    BY DEF Init
  <2>4. /\ source \in { "gmail", "outlook" } /\ pc = "lists" /\ truncated \in BOOLEAN
        /\ nextIndex = 1 /\ at = 1 /\ outcome = "none"
    BY DEF Init
  <2> QED
    BY <2>1, <2>2, <2>3, <2>4 DEF InboxTypeOK, Reading
<1>2. ListInv
  BY Bounds DEF Init, ListInv, Reading
<1>3. FetchInv
  BY DEF Init, FetchInv, EachFetchedOnce, Workers
<1>4. ReadInv
  BY DEF Init, ReadInv, Reading
<1> QED
  BY <1>1, <1>2, <1>3, <1>4 DEF InboxInv

\* Once the pages are listed, the listing is what the answer will say of it, and as
\* many messages are read as there are up to the limit.
LEMMA ListPageKeeps ==
  ASSUME InboxInv, ListPage PROVE InboxInv'
<1>1. PICK n \in 0..Least(PageSize, mail - got) :
        (n = 0 => got = mail) /\ got' = got + n
  BY DEF ListPage
<1>2. /\ pc = "lists" /\ UNCHANGED << inbox, at, calls, candidates, outcome >>
      /\ truncated' \in BOOLEAN
      /\ truncated' <=> got' < mail /\ got' >= MaxMessages
      /\ \/ got' < mail /\ ~ truncated' /\ UNCHANGED << pc, fetch, messages >>
         \/ ~ (got' < mail /\ ~ truncated') /\ Listed(Least(got', MaxMessages))
  BY DEF ListPage
<1>3. /\ source' = source /\ mail' = mail /\ bookings' = bookings
      /\ at' = at /\ candidates' = candidates /\ outcome' = outcome
  BY <1>2 DEF inbox
<1>4. /\ mail \in Nat /\ got \in 0..mail /\ got < MaxMessages
      /\ outcome = "none" /\ at = 1 /\ candidates = << >>
  BY <1>2 DEF InboxInv, InboxTypeOK, ListInv, ReadInv
<1>5. n \in Nat /\ n <= PageSize /\ got' \in 0..mail /\ got' < MaxMessages + PageSize
  <2>1. Least(PageSize, mail - got) \in Int /\ Least(PageSize, mail - got) <= PageSize
        /\ Least(PageSize, mail - got) <= mail - got
    BY <1>4, Bounds, LeastIs
  <2> QED
    BY <1>1, <1>4, <2>1, Bounds
<1>6. truncated' \in BOOLEAN
  BY <1>2
<1>7. CASE got' < mail /\ ~ truncated' /\ UNCHANGED << pc, fetch, messages >>
  <2>1. pc' = pc /\ worker' = worker /\ nextIndex' = nextIndex /\ results' = results
        /\ messages' = messages
    BY <1>7 DEF fetch
  <2>2. got' < MaxMessages
    BY <1>2, <1>5, <1>7, Bounds
  <2>3. InboxTypeOK'
    BY <1>2, <1>3, <1>5, <1>6, <2>1 DEF InboxInv, InboxTypeOK, Reading, Workers
  <2>4. ListInv'
    BY <1>2, <1>3, <1>4, <1>7, <2>1, <2>2 DEF ListInv, Reading
  <2>5. FetchInv'
    BY <1>2, <2>1 DEF InboxInv, FetchInv, EachFetchedOnce
  <2>6. ReadInv'
    BY <1>2, <1>3, <1>4, <2>1 DEF ReadInv, Reading
  <2> QED
    BY <2>3, <2>4, <2>5, <2>6 DEF InboxInv
<1>8. CASE ~ (got' < mail /\ ~ truncated') /\ Listed(Least(got', MaxMessages))
  <2> DEFINE m == Least(got', MaxMessages)
  <2>1. m = Least(mail, MaxMessages) /\ m \in Nat /\ m <= mail
    BY <1>2, <1>4, <1>5, <1>8, Bounds DEF Least
  <2>2. /\ truncated' <=> got' < mail
        /\ truncated' => got' >= MaxMessages
    BY <1>2, <1>4, <1>5, <1>8
  <2>3. Listed(m)
    BY <1>8
  <2> HIDE DEF m
  <2>4. CASE source = "gmail" /\ m > 0
    <3>1. /\ pc' = "details"
          /\ worker' = [w \in Workers |-> IF w <= m THEN w ELSE 0]
          /\ nextIndex' = Least(Concurrency, m) + 1
          /\ results' = [i \in 1..m |-> 0]
          /\ messages' = messages
      BY <2>3, <2>4 DEF Listed
    <3>2. Least(Concurrency, m) \in Nat /\ Least(Concurrency, m) > 0 /\ Least(Concurrency, m) <= m
      BY <2>1, <2>4, Bounds DEF Least
    <3>3. worker' \in [Workers -> Nat] /\ nextIndex' \in Nat \ { 0 } /\ results' \in Seq(Int)
      <4>1. worker' \in [Workers -> Nat]
        BY <3>1, <2>1 DEF Workers
      <4>2. results' \in Seq(Int)
        BY <3>1, <2>1
      <4> QED
        BY <3>1, <3>2, <4>1, <4>2
    <3>4. Len(results') = m /\ DOMAIN results' = 1..m
      BY <3>1, <2>1
    <3>5. InboxTypeOK'
      BY <1>3, <1>4, <1>5, <1>6, <3>1, <3>3 DEF InboxInv, InboxTypeOK, Reading, Workers
    <3>6. ListInv'
      BY <1>3, <1>4, <1>5, <2>2, <3>1 DEF ListInv, Reading
    <3>7. FetchInv'
      <4>1. nextIndex' <= Len(results') + 1
        BY <3>1, <3>2, <3>4, <2>1
      <4>2. EachFetchedOnce'
        <5> SUFFICES ASSUME NEW w \in Workers, worker'[w] # 0
              PROVE  /\ worker'[w] \in DOMAIN results' /\ results'[worker'[w]] = 0
                     /\ \A v \in Workers \ { w } : worker'[v] # worker'[w]
          BY DEF EachFetchedOnce
        <5>1. w \in 1..Concurrency /\ w <= m /\ worker'[w] = w
          BY <3>1 DEF Workers
        <5>2. \A v \in Workers : worker'[v] \in { v, 0 }
          BY <3>1
        <5> QED
          BY <3>1, <3>4, <5>1, <5>2, <2>1, Bounds
      <4>3. \A w \in Workers : worker'[w] < nextIndex'
        <5> SUFFICES ASSUME NEW w \in Workers PROVE worker'[w] < nextIndex'
          OBVIOUS
        <5>1. w \in 1..Concurrency /\ worker'[w] = IF w <= m THEN w ELSE 0
          BY <3>1 DEF Workers
        <5> QED
          BY <3>1, <3>2, <5>1, <2>1, Bounds DEF Least
      <4>4. \A i \in DOMAIN results' : results'[i] = 0
        BY <3>1, <3>4
      <4>5. \E w \in Workers : worker'[w] # 0
        <5>1. 1 \in Workers /\ worker'[1] = 1
          BY <2>1, <2>4, <3>1, Bounds DEF Workers
        <5> QED
          BY <5>1
      <4>6. ASSUME NEW i \in DOMAIN results', i < nextIndex'
            PROVE  \E w \in Workers : worker'[w] = i
        <5>1. i \in Workers /\ i <= m
          BY <3>1, <3>2, <3>4, <4>6, <2>1, Bounds DEF Workers, Least
        <5> QED
          BY <3>1, <5>1
      <4>7. Len(results') = Least(mail', MaxMessages)
        BY <1>3, <2>1, <3>4
      <4> QED
        BY <4>1, <4>2, <4>3, <4>4, <4>5, <4>6, <4>7 DEF FetchInv
    <3>8. ReadInv'
      BY <1>3, <1>4, <3>1 DEF ReadInv, Reading
    <3> QED
      BY <3>5, <3>6, <3>7, <3>8 DEF InboxInv
  <2>5. CASE ~ (source = "gmail" /\ m > 0)
    <3>1. /\ pc' = "reads" /\ messages' = [i \in 1..m |-> i]
          /\ worker' = worker /\ nextIndex' = nextIndex /\ results' = results
      BY <2>3, <2>5 DEF Listed, fetch
    <3>2. messages' \in Seq(Nat) /\ Len(messages') = m
      BY <3>1, <2>1
    <3>3. InboxTypeOK'
      BY <1>3, <1>4, <1>5, <1>6, <3>1, <3>2 DEF InboxInv, InboxTypeOK, Reading, Workers
    <3>4. ListInv'
      BY <1>3, <1>4, <1>5, <2>2, <3>1 DEF ListInv, Reading
    <3>5. FetchInv'
      BY <3>1 DEF InboxInv, FetchInv, EachFetchedOnce
    <3>6. ReadInv'
      <4>1. CandidatesOf(bookings \cap 1..(at - 1))'
        BY <1>3, <1>4 DEF CandidatesOf
      <4> QED
        BY <1>3, <1>4, <2>1, <3>1, <3>2, <4>1 DEF ReadInv, Reading
    <3> QED
      BY <3>3, <3>4, <3>5, <3>6 DEF InboxInv
  <2> QED
    BY <2>4, <2>5
<1> QED
  BY <1>2, <1>7, <1>8

\* A scan that ends without an answer says nothing.
LEMMA FailureKeeps ==
  ASSUME InboxInv, outcome' \in { "error", "thrown" }, pc' = "done",
         UNCHANGED << inbox, list, fetch, read >>
  PROVE  InboxInv'
<1>1. /\ source' = source /\ mail' = mail /\ bookings' = bookings
      /\ got' = got /\ truncated' = truncated
      /\ worker' = worker /\ nextIndex' = nextIndex /\ results' = results
      /\ messages' = messages /\ at' = at /\ candidates' = candidates
  BY DEF inbox, list, fetch, read
<1>2. InboxTypeOK'
  BY <1>1 DEF InboxInv, InboxTypeOK, Reading, Workers
<1>3. ListInv'
  BY <1>1 DEF ListInv, Reading
<1>4. FetchInv'
  BY <1>1 DEF InboxInv, FetchInv, EachFetchedOnce
<1>5. ReadInv'
  BY <1>1 DEF ReadInv, Reading
<1> QED
  BY <1>2, <1>3, <1>4, <1>5 DEF InboxInv

\* A worker whose request has ended takes the next message, if one is left.
LEMMA FetchReturnsKeeps ==
  ASSUME InboxInv, NEW w \in Workers, FetchReturns(w) PROVE InboxInv'
<1>1. PICK result \in { worker[w], Failed } : results' = [results EXCEPT ![worker[w]] = result]
  BY DEF FetchReturns
<1>2. /\ worker[w] # 0 /\ TakeNext(w)
      /\ pc' = pc /\ outcome' = outcome /\ source' = source /\ mail' = mail
      /\ bookings' = bookings /\ got' = got /\ truncated' = truncated
      /\ messages' = messages /\ at' = at /\ candidates' = candidates
  BY DEF FetchReturns, inbox, list, read
<1>3. /\ worker \in [Workers -> Nat] /\ nextIndex \in Nat \ { 0 } /\ results \in Seq(Int)
      /\ Len(results) \in Nat /\ DOMAIN results = 1..Len(results)
  BY DEF InboxInv, InboxTypeOK
<1> DEFINE i == worker[w]
           next == IF nextIndex <= Len(results) THEN nextIndex ELSE 0
<1>4. i \in DOMAIN results /\ results[i] = 0 /\ i < nextIndex
  BY <1>2 DEF InboxInv, FetchInv, EachFetchedOnce
<1>5. /\ worker' = [worker EXCEPT ![w] = next] /\ next \in Nat
      /\ nextIndex' = (IF nextIndex <= Len(results) THEN nextIndex + 1 ELSE nextIndex)
      /\ nextIndex' \in Nat \ { 0 }
  BY <1>2, <1>3 DEF TakeNext
<1>6. /\ results' \in Seq(Int) /\ Len(results') = Len(results) /\ DOMAIN results' = DOMAIN results
      /\ results'[i] = result
      /\ \A j \in DOMAIN results : j # i => results'[j] = results[j]
  BY <1>1, <1>3, <1>4 DEF Failed
<1>7. result # 0
  BY <1>2, <1>3 DEF Failed
<1>8. worker'[w] = next /\ \A v \in Workers : v # w => worker'[v] = worker[v]
  BY <1>3, <1>5
<1> HIDE DEF i
<1>9. InboxTypeOK'
  <2>1. worker' \in [Workers -> Nat]
    BY <1>3, <1>5
  <2> QED
    BY <1>2, <1>5, <1>6, <2>1 DEF InboxInv, InboxTypeOK, Workers
<1>10. ListInv'
  BY <1>2 DEF InboxInv, ListInv
<1>11. FetchInv'
  <2>1. nextIndex' <= Len(results') + 1
    BY <1>3, <1>5, <1>6 DEF InboxInv, FetchInv
  <2>2. EachFetchedOnce'
    <3> SUFFICES ASSUME NEW v \in Workers, worker'[v] # 0
        PROVE  /\ worker'[v] \in DOMAIN results' /\ results'[worker'[v]] = 0
               /\ \A u \in Workers \ { v } : worker'[u] # worker'[v]
      BY DEF EachFetchedOnce
    <3>1. CASE v = w
      <4>1. worker'[v] = nextIndex /\ nextIndex <= Len(results)
        BY <1>3, <1>8, <3>1
      <4>2. nextIndex \in DOMAIN results /\ nextIndex # i
        BY <1>3, <1>4, <4>1
      <4>3. results[nextIndex] = 0
        BY <1>3, <4>2 DEF InboxInv, FetchInv
      <4>4. results'[nextIndex] = 0
        BY <1>6, <4>2, <4>3
      <4>5. \A u \in Workers \ { v } : worker'[u] < nextIndex
        BY <1>8, <3>1 DEF InboxInv, FetchInv
      <4>6. \A u \in Workers \ { v } : worker'[u] \in Nat
        BY <1>3, <1>8, <3>1
      <4> QED
        BY <1>3, <1>6, <4>1, <4>2, <4>4, <4>5, <4>6
    <3>2. CASE v # w
      <4>1. worker'[v] = worker[v] /\ worker[v] # 0 /\ worker[v] \in Nat
        BY <1>3, <1>8, <3>2
      <4>2. /\ worker[v] \in DOMAIN results /\ results[worker[v]] = 0 /\ worker[v] < nextIndex
            /\ \A u \in Workers \ { v } : worker[u] # worker[v]
        BY <4>1 DEF InboxInv, FetchInv, EachFetchedOnce
      <4>3. worker[v] # i
        BY <3>2, <4>2 DEF i
      <4>4. worker'[w] # worker[v]
        BY <1>3, <1>8, <4>1, <4>2
      <4> QED
        BY <1>6, <1>8, <4>1, <4>2, <4>3, <4>4
    <3> QED
      BY <3>1, <3>2
  <2>3. \A v \in Workers : worker'[v] < nextIndex'
    <3> SUFFICES ASSUME NEW v \in Workers PROVE worker'[v] < nextIndex'
      OBVIOUS
    <3>1. worker[v] < nextIndex /\ worker[v] \in Nat
      BY <1>3 DEF InboxInv, FetchInv
    <3> QED
      BY <1>3, <1>5, <1>8, <3>1
  <2>4. ASSUME NEW j \in DOMAIN results', j >= nextIndex' PROVE results'[j] = 0
    <3>1. j \in DOMAIN results /\ j >= nextIndex /\ j # i
      BY <1>3, <1>4, <1>5, <1>6, <2>4
    <3> QED
      BY <1>6, <3>1 DEF InboxInv, FetchInv
  <2>5. ASSUME pc' = "details"
        PROVE  /\ Len(results') = Least(mail', MaxMessages)
               /\ \A j \in DOMAIN results' : results'[j] \in { 0, j, Failed }
               /\ nextIndex' <= Len(results') => \E v \in Workers : worker'[v] # 0
               /\ \A j \in DOMAIN results' :
                    results'[j] = 0 /\ j < nextIndex' => \E v \in Workers : worker'[v] = j
    <3>1. /\ Len(results) = Least(mail, MaxMessages)
          /\ \A j \in DOMAIN results : results[j] \in { 0, j, Failed }
          /\ \A j \in DOMAIN results :
               results[j] = 0 /\ j < nextIndex => \E v \in Workers : worker[v] = j
      BY <1>2, <2>5 DEF InboxInv, FetchInv
    <3>2. Len(results') = Least(mail', MaxMessages)
      BY <1>2, <1>6, <3>1
    <3>3. \A j \in DOMAIN results' : results'[j] \in { 0, j, Failed }
      BY <1>1, <1>6, <3>1 DEF i
    <3>4. ASSUME nextIndex' <= Len(results') PROVE worker'[w] # 0
      BY <1>3, <1>5, <1>6, <1>8, <3>4
    <3>5. ASSUME NEW j \in DOMAIN results', results'[j] = 0, j < nextIndex'
          PROVE  \E v \in Workers : worker'[v] = j
      <4>1. j # i /\ results[j] = 0 /\ j \in DOMAIN results
        BY <1>6, <1>7, <3>5
      <4>2. CASE j < nextIndex
        <5>1. PICK v \in Workers : worker[v] = j
          BY <3>1, <4>1, <4>2
        <5>2. v # w
          BY <4>1, <5>1 DEF i
        <5> QED
          BY <1>8, <5>1, <5>2
      <4>3. CASE ~ (j < nextIndex)
        <5>1. j = nextIndex /\ nextIndex <= Len(results)
          BY <1>3, <1>5, <3>5, <4>1, <4>3
        <5> QED
          BY <1>8, <5>1
      <4> QED
        BY <4>2, <4>3
    <3> QED
      BY <3>2, <3>3, <3>4, <3>5
  <2> QED
    BY <2>1, <2>2, <2>3, <2>4, <2>5 DEF FetchInv
<1>12. ReadInv'
  BY <1>2 DEF InboxInv, ReadInv, CandidatesOf
<1> QED
  BY <1>9, <1>10, <1>11, <1>12 DEF InboxInv

\* A worker that has thrown has no message, and the scan is over.
LEMMA FetchThrowsKeeps ==
  ASSUME InboxInv, NEW w \in Workers, FetchThrows(w) PROVE InboxInv'
<1>1. /\ worker' = [worker EXCEPT ![w] = 0]
      /\ pc' = (IF pc = "details" THEN "done" ELSE pc)
      /\ outcome' = (IF pc = "details" THEN "thrown" ELSE outcome)
      /\ source' = source /\ mail' = mail /\ bookings' = bookings
      /\ got' = got /\ truncated' = truncated /\ nextIndex' = nextIndex /\ results' = results
      /\ messages' = messages /\ at' = at /\ candidates' = candidates
  BY DEF FetchThrows, Finish, inbox, list, read
<1>2. /\ worker \in [Workers -> Nat] /\ nextIndex \in Nat \ { 0 }
  BY DEF InboxInv, InboxTypeOK
<1>3. worker'[w] = 0 /\ \A v \in Workers : v # w => worker'[v] = worker[v]
  BY <1>1, <1>2
<1>4. InboxTypeOK'
  <2>1. worker' \in [Workers -> Nat]
    BY <1>1, <1>2
  <2> QED
    BY <1>1, <2>1 DEF InboxInv, InboxTypeOK, Workers
<1>5. ListInv'
  BY <1>1 DEF InboxInv, ListInv, Reading
<1>6. FetchInv'
  <2>1. EachFetchedOnce'
    BY <1>1, <1>3 DEF InboxInv, FetchInv, EachFetchedOnce
  <2>2. \A v \in Workers : worker'[v] < nextIndex'
    BY <1>1, <1>2, <1>3 DEF InboxInv, FetchInv
  <2> QED
    BY <1>1, <2>1, <2>2 DEF InboxInv, FetchInv
<1>7. ReadInv'
  BY <1>1 DEF InboxInv, ReadInv, CandidatesOf, Reading
<1> QED
  BY <1>4, <1>5, <1>6, <1>7 DEF InboxInv

\* Idle workers have left nothing: without a failure the results are the messages.
LEMMA DetailsFetchedKeeps ==
  ASSUME InboxInv, DetailsFetched PROVE InboxInv'
<1>1. /\ pc = "details" /\ \A w \in Workers : worker[w] = 0
      /\ UNCHANGED << inbox, list, fetch, at, calls, candidates >>
  BY DEF DetailsFetched
<1>2. CASE pc' = "done" /\ outcome' \in { "error", "thrown" } /\ messages' = messages
  BY <1>1, <1>2, FailureKeeps DEF read
<1>3. CASE Failed \notin ToSet(results) /\ pc' = "reads" /\ messages' = results /\ outcome' = outcome
  <2>1. /\ source' = source /\ mail' = mail /\ bookings' = bookings
        /\ got' = got /\ truncated' = truncated /\ worker' = worker
        /\ nextIndex' = nextIndex /\ results' = results /\ at' = at /\ candidates' = candidates
    BY <1>1 DEF inbox, list, fetch
  <2>2. /\ results \in Seq(Int) /\ DOMAIN results = 1..Len(results) /\ Len(results) \in Nat
        /\ nextIndex \in Nat /\ Len(results) = Least(mail, MaxMessages)
        /\ mail \in Nat /\ at = 1 /\ candidates = << >> /\ outcome = "none"
    BY <1>1 DEF InboxInv, InboxTypeOK, FetchInv, ReadInv
  <2>3. nextIndex > Len(results)
    BY <1>1, <2>2 DEF InboxInv, FetchInv
  <2>4. ASSUME NEW i \in DOMAIN results PROVE results[i] = i
    <3>1. results[i] # Failed
      BY <1>3 DEF ToSet
    <3>2. \A w \in Workers : worker[w] # i
      BY <1>1, <2>2
    <3>3. results[i] # 0
      BY <1>1, <2>2, <2>3, <3>2 DEF InboxInv, FetchInv
    <3> QED
      BY <1>1, <3>1, <3>3 DEF InboxInv, FetchInv
  <2>5. results = [i \in 1..Least(mail, MaxMessages) |-> i]
    BY <2>2, <2>4
  <2>6. messages' \in Seq(Nat)
    <3>1. results \in [1..Len(results) -> Nat]
      BY <2>2, <2>4
    <3> QED
      BY <1>3, <2>2, <3>1
  <2>7. InboxTypeOK'
    BY <1>1, <1>3, <2>1, <2>6 DEF InboxInv, InboxTypeOK, Workers, Reading
  <2>8. ListInv'
    BY <1>1, <1>3, <2>1 DEF InboxInv, ListInv, Reading
  <2>9. FetchInv'
    BY <1>3, <2>1 DEF InboxInv, FetchInv, EachFetchedOnce
  <2>10. ReadInv'
    <3>1. CandidatesOf(bookings \cap 1..(at - 1))'
      BY <2>1, <2>2 DEF CandidatesOf
    <3>2. at' <= Len(messages') + 1
      BY <1>3, <2>1, <2>2
    <3> QED
      BY <1>3, <2>1, <2>2, <2>5, <3>1, <3>2 DEF ReadInv, Reading
  <2> QED
    BY <2>7, <2>8, <2>9, <2>10 DEF InboxInv
<1> QED
  BY <1>2, <1>3 DEF DetailsFetched, Finish

\* A message that is no booking adds no candidate, and none is missing.
LEMMA SkipMessageKeeps ==
  ASSUME InboxInv, SkipMessage PROVE InboxInv'
<1>1. /\ pc = "reads" /\ at <= Len(messages) /\ messages[at] \notin bookings /\ at' = at + 1
      /\ UNCHANGED << source, mail, bookings, pc, got, truncated, worker, nextIndex, results,
                      messages, candidates, outcome >>
  BY DEF SkipMessage, inbox, list, fetch
<1>2. at \in Nat \ { 0 } /\ bookings \in SUBSET (1..mail) /\ mail \in Nat
  BY DEF InboxInv, InboxTypeOK
<1>3. /\ messages = [i \in 1..Least(mail, MaxMessages) |-> i]
      /\ Len(messages) = Least(mail, MaxMessages) /\ Len(messages) \in Nat /\ messages[at] = at
      /\ CandidatesOf(bookings \cap 1..(at - 1))
  <2>1. messages = [i \in 1..Least(mail, MaxMessages) |-> i]
        /\ CandidatesOf(bookings \cap 1..(at - 1))
    BY <1>1 DEF InboxInv, ReadInv, Reading
  <2>2. Least(mail, MaxMessages) \in Nat
    BY <1>2, Bounds DEF Least
  <2> QED
    BY <1>1, <1>2, <2>1, <2>2
<1>4. bookings \cap 1..(at' - 1) = bookings \cap 1..(at - 1)
  BY <1>1, <1>2, <1>3
<1>5. CandidatesOf(bookings \cap 1..(at - 1))'
  BY <1>1, <1>3, <1>4 DEF CandidatesOf
<1>6. InboxTypeOK'
  BY <1>1, <1>2 DEF InboxInv, InboxTypeOK, Workers, Reading
<1>7. ListInv'
  BY <1>1 DEF InboxInv, ListInv
<1>8. FetchInv'
  BY <1>1 DEF InboxInv, FetchInv, EachFetchedOnce
<1>9. ReadInv'
  <2>3. outcome # "ok" /\ Len(messages) \in Nat
    BY <1>1, <1>3 DEF InboxInv, InboxTypeOK
  <2>1. outcome' # "ok" /\ at' <= Len(messages') + 1
    BY <1>1, <1>2, <2>3
  <2>2. messages' = [i \in 1..Least(mail', MaxMessages) |-> i]
    BY <1>1, <1>3
  <2> QED
    BY <1>1, <1>5, <2>1, <2>2 DEF ReadInv, Reading
<1> QED
  BY <1>6, <1>7, <1>8, <1>9 DEF InboxInv

\* A booking becomes the last candidate.
LEMMA ExtractReturnsKeeps ==
  ASSUME InboxInv, ExtractReturns PROVE InboxInv'
<1>1. PICK found \in BOOLEAN :
        candidates' = Append(candidates, [message |-> messages[at], found |-> found])
  BY DEF ExtractReturns
<1>2. /\ pc = "extracts" /\ pc' = "reads" /\ at' = at + 1
      /\ UNCHANGED << source, mail, bookings, got, truncated, worker, nextIndex, results,
                      messages, outcome >>
  BY DEF ExtractReturns, inbox, list, fetch
<1>3. /\ at \in Nat \ { 0 } /\ bookings \in SUBSET (1..mail) /\ mail \in Nat
      /\ candidates \in Seq([message : Nat, found : BOOLEAN])
      /\ Len(candidates) \in Nat /\ DOMAIN candidates = 1..Len(candidates)
      /\ outcome # "ok"
  BY <1>2 DEF InboxInv, InboxTypeOK
<1>4. /\ messages = [i \in 1..Least(mail, MaxMessages) |-> i]
      /\ Len(messages) = Least(mail, MaxMessages) /\ Len(messages) \in Nat
      /\ at <= Len(messages) /\ messages[at] = at /\ at \in bookings
      /\ CandidatesOf(bookings \cap 1..(at - 1))
  <2>1. /\ messages = [i \in 1..Least(mail, MaxMessages) |-> i]
        /\ CandidatesOf(bookings \cap 1..(at - 1))
        /\ at <= Len(messages) /\ messages[at] \in bookings
    BY <1>2 DEF InboxInv, ReadInv, Reading
  <2>2. Least(mail, MaxMessages) \in Nat
    BY <1>3, Bounds DEF Least
  <2> QED
    BY <1>3, <2>1, <2>2
<1> DEFINE c == [message |-> at, found |-> found]
<1>5. c \in [message : Nat, found : BOOLEAN] /\ c.message = at
  BY <1>3
<1>6. candidates' = Append(candidates, c)
  BY <1>1, <1>4
<1> HIDE DEF c
<1>7. /\ candidates' \in Seq([message : Nat, found : BOOLEAN])
      /\ DOMAIN candidates' = 1..(Len(candidates) + 1)
      /\ \A i \in DOMAIN candidates : candidates'[i] = candidates[i]
      /\ candidates'[Len(candidates) + 1] = c
  BY <1>3, <1>5, <1>6
<1>8. CandidatesOf(bookings \cap 1..(at - 1))'
  <2>1. bookings \cap 1..(at' - 1) = (bookings \cap 1..(at - 1)) \cup { at }
    BY <1>2, <1>3, <1>4
  <2>2. /\ { candidates[i].message : i \in DOMAIN candidates } = bookings \cap 1..(at - 1)
        /\ \A i, j \in DOMAIN candidates : i < j => candidates[i].message < candidates[j].message
    BY <1>4 DEF CandidatesOf
  <2>3. { candidates'[i].message : i \in DOMAIN candidates' }
          = { candidates[i].message : i \in DOMAIN candidates } \cup { at }
    <3>1. DOMAIN candidates' = DOMAIN candidates \cup { Len(candidates) + 1 }
      BY <1>3, <1>7
    <3>2. { candidates'[i].message : i \in DOMAIN candidates' }
            = { candidates'[i].message : i \in DOMAIN candidates }
                \cup { candidates'[Len(candidates) + 1].message }
      BY <3>1
    <3>3. { candidates'[i].message : i \in DOMAIN candidates }
            = { candidates[i].message : i \in DOMAIN candidates }
      BY <1>7
    <3> QED
      BY <1>5, <1>7, <3>2, <3>3
  <2>4. ASSUME NEW i \in DOMAIN candidates', NEW j \in DOMAIN candidates', i < j
        PROVE  candidates'[i].message < candidates'[j].message
    <3>1. i \in DOMAIN candidates /\ candidates'[i] = candidates[i]
      BY <1>3, <1>7, <2>4
    <3>2. CASE j \in DOMAIN candidates
      BY <1>7, <2>2, <2>4, <3>1, <3>2
    <3>3. CASE j = Len(candidates) + 1
      <4>1. candidates[i].message \in 1..(at - 1)
        BY <2>2, <3>1
      <4> QED
        BY <1>3, <1>5, <1>7, <3>1, <3>3, <4>1
    <3> QED
      BY <1>3, <1>7, <3>2, <3>3
  <2> QED
    BY <1>2, <2>1, <2>2, <2>3, <2>4 DEF CandidatesOf
<1>9. InboxTypeOK'
  BY <1>2, <1>3, <1>7 DEF InboxInv, InboxTypeOK, Workers, Reading
<1>10. ListInv'
  BY <1>2 DEF InboxInv, ListInv, Reading
<1>11. FetchInv'
  BY <1>2 DEF InboxInv, FetchInv, EachFetchedOnce
<1>12. ReadInv'
  <2>3. at <= Len(messages) /\ Len(messages) \in Nat
    BY <1>4
  <2>1. outcome' # "ok" /\ at' <= Len(messages') + 1
    BY <1>2, <1>3, <2>3
  <2>2. messages' = [i \in 1..Least(mail', MaxMessages) |-> i]
    BY <1>2, <1>4
  <2> QED
    BY <1>2, <1>8, <2>1, <2>2 DEF ReadInv, Reading
<1> QED
  BY <1>9, <1>10, <1>11, <1>12 DEF InboxInv

\* The steps of an extraction and the answer find what they leave.
LEMMA ReadingKeeps ==
  ASSUME InboxInv, BeginExtraction \/ GetAttachmentText \/ AttachmentReturns \/ AnswerScan
  PROVE  InboxInv'
<1>1. UNCHANGED << source, mail, bookings, got, truncated, worker, nextIndex, results,
                   messages, at, candidates >>
  BY DEF BeginExtraction, GetAttachmentText, AttachmentReturns, AnswerScan,
         inbox, list, fetch, read
<1>2. /\ pc \in Reading /\ outcome = "none"
      /\ \/ pc' \in Reading /\ outcome' = "none"
         \/ pc' = "done" /\ outcome' = "ok" /\ at > Len(messages)
      /\ pc' \in { "extracts", "attachment" } => at <= Len(messages) /\ messages[at] \in bookings
  BY DEF BeginExtraction, GetAttachmentText, AttachmentReturns, AnswerScan, Finish, Reading,
         InboxInv, InboxTypeOK, ReadInv
<1>3. InboxTypeOK'
  BY <1>1, <1>2 DEF InboxInv, InboxTypeOK, Workers, Reading
<1>4. ListInv'
  BY <1>1, <1>2 DEF InboxInv, ListInv, Reading
<1>5. FetchInv'
  BY <1>1, <1>2 DEF InboxInv, FetchInv, EachFetchedOnce, Reading
<1>6. ReadInv'
  <2>1. CandidatesOf(bookings \cap 1..(at - 1))'
    BY <1>1, <1>2 DEF InboxInv, ReadInv, CandidatesOf
  <2> QED
    BY <1>1, <1>2, <2>1 DEF InboxInv, ReadInv, Reading
<1> QED
  BY <1>3, <1>4, <1>5, <1>6 DEF InboxInv

-----------------------------------------------------------------------------
\* Every step keeps the invariant.
LEMMA NextKeeps == InboxInv /\ [Next]_vars => InboxInv'
<1> SUFFICES ASSUME InboxInv, [Next]_vars PROVE InboxInv'
  OBVIOUS
<1>1. CASE ListPage
  BY <1>1, ListPageKeeps
<1>2. CASE ListFails
  BY <1>2, FailureKeeps DEF ListFails, Finish
<1>3. CASE DetailsFetched
  BY <1>3, DetailsFetchedKeeps
<1>4. CASE SkipMessage
  BY <1>4, SkipMessageKeeps
<1>5. CASE BeginExtraction \/ GetAttachmentText \/ AttachmentReturns \/ AnswerScan
  BY <1>5, ReadingKeeps
<1>6. CASE ExtractReturns
  BY <1>6, ExtractReturnsKeeps
<1>7. CASE ExtractThrows
  BY <1>7, FailureKeeps DEF ExtractThrows, Finish
<1>8. ASSUME NEW w \in Workers, FetchStep(w) PROVE InboxInv'
  BY <1>8, FetchReturnsKeeps, FetchThrowsKeeps DEF FetchStep
<1>9. CASE UNCHANGED vars
  <2>1. UNCHANGED << source, mail, bookings, pc, got, truncated, worker, nextIndex, results,
                     messages, at, candidates, outcome >>
    BY <1>9 DEF vars, inbox, list, fetch, read
  <2> QED
    BY <2>1 DEF InboxInv, InboxTypeOK, ListInv, FetchInv, EachFetchedOnce, ReadInv, CandidatesOf,
                Workers, Reading
<1> QED
  BY <1>1, <1>2, <1>3, <1>4, <1>5, <1>6, <1>7, <1>8, <1>9 DEF Next, ScanStep

\* InboxInv always holds.
LEMMA InboxInvariant == Spec => []InboxInv
BY InitInv, NextKeeps, PTL DEF Spec

\* Whichever worker fetches a message and however late it is, the answer has every
\* message up to the limit in its place, and every booking among them.
THEOREM ScansAreWhole == Spec => []AnswerIsWhole
<1>1. InboxInv => AnswerIsWhole
  <2> SUFFICES ASSUME InboxInv, outcome = "ok"
      PROVE  /\ messages = [i \in 1..Least(mail, MaxMessages) |-> i]
             /\ CandidatesOf(bookings \cap ToSet(messages))
    BY DEF AnswerIsWhole
  <2>1. /\ messages = [i \in 1..Least(mail, MaxMessages) |-> i]
        /\ at <= Len(messages) + 1 /\ at > Len(messages)
        /\ CandidatesOf(bookings \cap 1..(at - 1))
    BY DEF InboxInv, ReadInv
  <2>2. Least(mail, MaxMessages) \in Nat /\ at \in Nat
    BY Bounds DEF InboxInv, InboxTypeOK, Least
  <2>3. Len(messages) = Least(mail, MaxMessages) /\ at - 1 = Least(mail, MaxMessages)
    BY <2>1, <2>2
  <2>4. ToSet(messages) = 1..(at - 1)
    BY <2>1, <2>3 DEF ToSet
  <2> QED
    BY <2>1, <2>4
<1> QED
  BY <1>1, InboxInvariant, PTL

\* An answer is marked as cut when a page was left, and otherwise less than a page is
\* missing from it.
THEOREM CutsAreTold == Spec => []CutIsTold
<1>1. InboxInv => CutIsTold
  <2> SUFFICES ASSUME InboxInv, outcome = "ok"
      PROVE  /\ truncated <=> got < mail
             /\ truncated => Len(messages) = MaxMessages
             /\ Len(messages) < mail /\ ~ truncated =>
                  got = mail /\ MaxMessages < mail /\ mail < MaxMessages + PageSize
    BY DEF CutIsTold
  <2>1. /\ truncated <=> got < mail
        /\ truncated => got >= MaxMessages
        /\ got < MaxMessages + PageSize
        /\ messages = [i \in 1..Least(mail, MaxMessages) |-> i]
        /\ got \in 0..mail /\ mail \in Nat
    BY DEF InboxInv, ListInv, ReadInv, InboxTypeOK
  <2>2. Least(mail, MaxMessages) \in Nat
    BY <2>1, Bounds DEF Least
  <2>3. Len(messages) = Least(mail, MaxMessages)
    BY <2>1, <2>2
  <2>4. truncated => Len(messages) = MaxMessages
    BY <2>1, <2>3, Bounds DEF Least
  <2>5. ASSUME Len(messages) < mail, ~ truncated
        PROVE  got = mail /\ MaxMessages < mail /\ mail < MaxMessages + PageSize
    <3>1. got = mail
      BY <2>1, <2>5
    <3> QED
      BY <2>1, <2>3, <2>5, <3>1, Bounds DEF Least
  <2> QED
    BY <2>1, <2>4, <2>5
<1> QED
  BY <1>1, InboxInvariant, PTL

\* No two workers fetch the same message at once, and none fetches again what has a
\* result (nextIndex++ has no await between its test and its step).
THEOREM FetchedOnce == Spec => []EachFetchedOnce
<1>1. InboxInv => EachFetchedOnce
  BY DEF InboxInv, FetchInv
<1> QED
  BY <1>1, InboxInvariant, PTL
=============================================================================
