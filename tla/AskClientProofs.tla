-------------------------- MODULE AskClientProofs --------------------------
(***************************************************************************)
(* Proofs about AskClient for every finite set of asks, every number of    *)
(* lanes and every bound.  An ask has its borrow from Begin to EndBorrow,  *)
(* and its ticket within it; its identity was new when it was taken.       *)
(***************************************************************************)
EXTENDS AskClient, FiniteSetTheorems, TLAPS

starting == {"idle", "identified"}
waiting == {"begun", "queued", "checking", "awaiting"}
ending == {"resuming", "accepting", "done"}

\* The types, but for the lanes.
Types ==
  /\ phase \in {"open", "sealed", "released"}
  /\ borrowed \subseteq Asks
  /\ at \in [Asks -> starting \cup waiting \cup {"awaited", "destroying", "returning"} \cup ending]
  /\ ticket \in [Asks -> {"none", "live", "awaited", "canceled", "destroyed"}]
  /\ status \in [Asks -> {"none", "response", "deadletter", "otherKind", "wouldBlock", "failure"}]
  /\ verdict \in [Asks -> Verdicts]
  /\ nextID \in 0..MaxID
  /\ id \in [Asks -> 0..MaxID]
  /\ matched \in [{"response", "deadletter"} -> Nat]

\* What the place of an ask says of its borrow, its ticket, its identity and its
\* outcome.
Facts(a) ==
  /\ a \in borrowed <=> at[a] \notin starting \cup ending
  /\ ticket[a] = "awaited" <=> at[a] = "awaiting"
  /\ at[a] \in starting \cup ending \cup {"returning"} => ticket[a] \in {"none", "destroyed"}
  /\ at[a] = "idle" => id[a] = 0
  /\ id[a] <= nextID
  /\ at[a] \in starting \cup waiting => status[a] = "none"
  /\ status[a] = "failure" => at[a] = "awaited" \/ verdict[a] = "failure"
  /\ verdict[a] = "answered" => status[a] \in {"response", "deadletter", "otherKind"}
  /\ verdict[a] \in {"response", "deadletter", "undecoded"} => at[a] = "done"

DistinctIDs == \A a, b \in Asks : a # b /\ id[a] # 0 => id[a] # id[b]

countedAs(k) == {a \in Asks : status[a] = k /\ verdict[a] \in {k, "undecoded"}}

Matched == \A k \in {"response", "deadletter"} : matched[k] = Cardinality(countedAs(k))

AskInv ==
  /\ Types
  /\ phase = "released" => borrowed = {}
  /\ \A a \in Asks : Facts(a)
  /\ DistinctIDs
  /\ Matched

LEMMA InitInv == Init => AskInv
  <1> SUFFICES ASSUME Init PROVE AskInv
    OBVIOUS
  <1> USE AskAssumption DEF Init, hostState
  <1>1. Types /\ (phase = "released" => borrowed = {})
    BY DEF Types, Session!Init, starting, Verdicts
  <1>2. \A a \in Asks : Facts(a)
    BY DEF Facts, Session!Init, starting, waiting, ending
  <1>3. DistinctIDs
    BY DEF DistinctIDs
  <1>4. Matched
    <2>1. \A k \in {"response", "deadletter"} : countedAs(k) = {}
      BY DEF countedAs
    <2>2. QED
      BY <2>1, FS_EmptySet DEF Matched
  <1>5. QED
    BY <1>1, <1>2, <1>3, <1>4 DEF AskInv

-----------------------------------------------------------------------------
(* Identities and counters.                                                *)

\* A step that gives out no identity keeps them distinct.
LEMMA NoNewID == ASSUME DistinctIDs, UNCHANGED id PROVE DistinctIDs'
  BY DEF DistinctIDs

\* A step that ends no counted ask keeps the counters true.
LEMMA NothingCounted ==
  ASSUME Matched, UNCHANGED matched,
         \A k \in {"response", "deadletter"} : countedAs(k)' = countedAs(k)
  PROVE  Matched'
  BY DEF Matched

\* An ask that is not answered may change its status and its verdict, as long as
\* the verdict does not become that of an answer.
LEMMA NotAnAnswer ==
  ASSUME AskInv, NEW a \in Asks, at[a] # "done", UNCHANGED matched,
         status' \in [Asks -> {"none", "response", "deadletter", "otherKind", "wouldBlock", "failure"}],
         verdict' \in [Asks -> Verdicts],
         \A b \in Asks \ {a} : status'[b] = status[b] /\ verdict'[b] = verdict[b],
         verdict'[a] \notin {"response", "deadletter", "undecoded"}
  PROVE  Matched'
  <1>1. verdict[a] \notin {"response", "deadletter", "undecoded"}
    BY DEF AskInv, Facts
  <1>2. \A k \in {"response", "deadletter"} : countedAs(k)' = countedAs(k)
    BY <1>1 DEF countedAs
  <1>3. QED
    BY <1>2, NothingCounted DEF AskInv

\* An answer counts once, under its own kind.
LEMMA AcceptCounts ==
  ASSUME AskInv, NEW a \in Asks, Accept(a)
  PROVE  Matched'
  <1> USE DEF AskInv
  <1>1. CASE verdict[a] # "answered"
    <2>1. UNCHANGED <<matched, verdict, status>>
      BY <1>1 DEF Accept
    <2>2. \A k \in {"response", "deadletter"} : countedAs(k)' = countedAs(k)
      BY <2>1 DEF countedAs
    <2>3. QED
      BY <2>1, <2>2, NothingCounted
  <1>2. CASE verdict[a] = "answered"
    <2> SUFFICES ASSUME NEW k \in {"response", "deadletter"}
                 PROVE  matched'[k] = Cardinality(countedAs(k)')
      BY DEF Matched
    <2>1. PICK v \in {status[a], "undecoded"} \ {"otherKind"} : verdict' = [verdict EXCEPT ![a] = v]
      BY <1>2 DEF Accept, set
    <2>2. /\ status' = status
          /\ matched'[k] = matched[k] + (IF k = status[a] THEN 1 ELSE 0)
      BY <1>2 DEF Accept, Types
    <2>3. a \notin countedAs(k)
      BY <1>2 DEF countedAs
    <2>4. /\ IsFiniteSet(countedAs(k))
          /\ matched[k] = Cardinality(countedAs(k))
          /\ matched[k] \in Nat
      BY AskAssumption, FS_Subset DEF countedAs, Matched, Types
    <2>5. verdict'[a] = v /\ \A b \in Asks \ {a} : verdict'[b] = verdict[b]
      BY <2>1 DEF Types
    <2>6. CASE k = status[a]
      <3>1. countedAs(k)' = countedAs(k) \cup {a}
        BY <2>2, <2>5, <2>6 DEF countedAs
      <3>2. Cardinality(countedAs(k) \cup {a}) = Cardinality(countedAs(k)) + 1
        BY <2>3, <2>4, FS_AddElement
      <3>3. matched'[k] = Cardinality(countedAs(k)) + 1
        BY <2>2, <2>4, <2>6
      <3>4. QED
        BY <3>1, <3>2, <3>3
    <2>7. CASE k # status[a]
      <3>1. countedAs(k)' = countedAs(k)
        BY <1>2, <2>2, <2>5, <2>7 DEF countedAs
      <3>2. QED
        BY <2>2, <2>4, <2>7, <3>1
    <2>8. QED
      BY <2>6, <2>7
  <1>3. QED
    BY <1>1, <1>2 DEF Matched

-----------------------------------------------------------------------------
(* The steps: what an ask does to itself, and what the session does.       *)

LEMMA BeginKeeps ==
  ASSUME AskInv, NEW a \in Asks,
         CheckCancellation(a) \/ TakeIdentity(a) \/ BeginRefused(a) \/ Begin(a)
  PROVE  AskInv'
  <1> USE DEF AskInv, hostState, session, goto, set
  <1>1. CASE CheckCancellation(a) \/ BeginRefused(a)
    <2> USE <1>1 DEF CheckCancellation, BeginRefused
    <2>1. Types'
      BY DEF Types, ending, Verdicts
    <2>2. \A b \in Asks : Facts(b)'
      BY DEF Facts, Types, starting, waiting, ending
    <2>3. Matched'
      <3>1. at[a] # "done"
        OBVIOUS
      <3>2. verdict'[a] \notin {"response", "deadletter", "undecoded"}
        BY DEF Types
      <3>3. \A b \in Asks \ {a} : status'[b] = status[b] /\ verdict'[b] = verdict[b]
        BY DEF Types
      <3>4. QED
        BY <2>1, <3>1, <3>2, <3>3, NotAnAnswer DEF Types
    <2>4. QED
      BY <2>1, <2>2, <2>3, NoNewID
  <1>2. CASE TakeIdentity(a)
    <2> USE <1>2, AskAssumption DEF TakeIdentity
    <2>1. Types'
      BY DEF Types, starting, ending, Verdicts
    <2>2. \A b \in Asks : Facts(b)'
      BY DEF Facts, Types, starting, waiting, ending
    <2>3. DistinctIDs'
      BY DEF DistinctIDs, Facts, Types
    <2>4. Matched'
      <3>1. at[a] # "done"
        OBVIOUS
      <3>2. verdict'[a] \notin {"response", "deadletter", "undecoded"}
        BY DEF Types, Facts
      <3>3. \A b \in Asks \ {a} : status'[b] = status[b] /\ verdict'[b] = verdict[b]
        BY DEF Types
      <3>4. QED
        BY <2>1, <3>1, <3>2, <3>3, NotAnAnswer DEF Types
    <2>5. QED
      BY <2>1, <2>2, <2>3, <2>4
  <1>3. CASE Begin(a)
    <2> USE <1>3 DEF Begin, Session!Borrow
    <2>1. Types'
      BY DEF Types, waiting
    <2>2. \A b \in Asks : Facts(b)'
      BY DEF Facts, Types, starting, waiting, ending
    <2>3. Matched'
      BY NothingCounted DEF countedAs
    <2>4. QED
      BY <2>1, <2>2, <2>3, NoNewID
  <1>4. QED
    BY <1>1, <1>2, <1>3

\* Steps that touch no verdict and no borrow.
LEMMA LaneKeeps ==
  ASSUME AskInv, NEW a \in Asks,
         Enqueue(a) \/ LaneRuns(a) \/ AwaitReturns(a) \/ DestroyTicket(a) \/ Resume(a)
  PROVE  AskInv'
  <1> USE DEF AskInv, hostState, session, goto, Enqueue, LaneRuns, AwaitReturns, DestroyTicket, Resume
  <1>1. Types'
    <2>1. CASE Enqueue(a)
      BY <2>1 DEF Types, waiting, ending
    <2>2. CASE LaneRuns(a)
      BY <2>2 DEF Types, waiting, ending
    <2>3. CASE AwaitReturns(a)
      BY <2>3 DEF Types, waiting, ending
    <2>4. CASE DestroyTicket(a)
      BY <2>4 DEF Types, waiting, ending
    <2>5. CASE Resume(a)
      BY <2>5 DEF Types, waiting, ending
    <2>6. QED
      BY <2>1, <2>2, <2>3, <2>4, <2>5
  <1>2. \A b \in Asks : Facts(b)'
    BY DEF Facts, Types, starting, waiting, ending
  <1>3. Matched'
    <2>1. at[a] # "done" /\ verdict'[a] \notin {"response", "deadletter", "undecoded"}
      BY DEF Facts
    <2>2. \A b \in Asks \ {a} : status'[b] = status[b] /\ verdict'[b] = verdict[b]
      BY DEF Types
    <2>3. QED
      BY <1>1, <2>1, <2>2, NotAnAnswer DEF Types
  <1>4. QED
    BY <1>1, <1>2, <1>3, NoNewID

\* Steps that settle the verdict of an ask that is not counted yet.
LEMMA VerdictKeeps ==
  ASSUME AskInv, NEW a \in Asks, CheckIntent(a) \/ Project(a)
  PROVE  AskInv'
  <1> USE DEF AskInv, hostState, session, goto, set, CheckIntent, Project
  <1>1. Types'
    BY DEF Types, waiting, Verdicts
  <1>2. \A b \in Asks : Facts(b)'
    BY DEF Facts, Types, starting, waiting, ending
  <1>3. Matched'
    <2>1. at[a] # "done" /\ verdict'[a] \notin {"response", "deadletter", "undecoded"}
      BY DEF Facts, Types
    <2>2. \A b \in Asks \ {a} : status'[b] = status[b] /\ verdict'[b] = verdict[b]
      BY DEF Types
    <2>3. QED
      BY <1>1, <2>1, <2>2, NotAnAnswer DEF Types
  <1>4. QED
    BY <1>1, <1>2, <1>3, NoNewID

\* The borrow goes back, with it perhaps the session.
LEMMA EndBorrowKeeps ==
  ASSUME AskInv, NEW a \in Asks, EndBorrow(a)
  PROVE  AskInv'
  <1> USE DEF AskInv, hostState, goto, EndBorrow, Session!Return
  <1>1. Types' /\ (phase' = "released" => borrowed' = {})
    BY DEF Types, ending
  <1>2. \A b \in Asks : Facts(b)'
    BY DEF Facts, Types, starting, waiting, ending
  <1>3. Matched'
    BY NothingCounted DEF countedAs
  <1>4. QED
    BY <1>1, <1>2, <1>3, NoNewID

LEMMA AcceptKeeps ==
  ASSUME AskInv, NEW a \in Asks, Accept(a)
  PROVE  AskInv'
  <1> USE DEF AskInv, session, goto, set, Accept
  <1>1. /\ status[a] # "failure" \/ verdict[a] = "failure"
        /\ verdict[a] = "answered" => status[a] \in {"response", "deadletter", "otherKind"}
    BY DEF Facts
  <1>2. Types'
    <2>1. matched' \in [{"response", "deadletter"} -> Nat]
      BY DEF Types
    <2>2. verdict' \in [Asks -> Verdicts]
      <3>1. CASE verdict[a] # "answered"
        BY <3>1 DEF Types
      <3>2. CASE verdict[a] = "answered"
        BY <1>1, <3>2 DEF Types, Verdicts
      <3>3. QED
        BY <3>1, <3>2
    <2>3. QED
      BY <2>1, <2>2 DEF Types, ending
  <1>3. \A b \in Asks : Facts(b)'
    BY <1>1 DEF Facts, Types, starting, waiting, ending
  <1>4. QED
    BY <1>2, <1>3, AcceptCounts, NoNewID

\* Others' steps and stuttering: nothing of an ask changes.
LEMMA OthersKeep ==
  ASSUME AskInv, Others \/ UNCHANGED vars \/ \E a \in AsyncAsks : Cancel(a)
  PROVE  AskInv'
  <1> USE DEF AskInv, hostState, session, vars, Others, Cancel, Session!Seal, Session!Release
  <1>1. Types' /\ (phase' = "released" => borrowed' = {})
    BY DEF Types
  <1>2. \A b \in Asks : Facts(b)'
    BY DEF Facts
  <1>3. Matched'
    BY NothingCounted DEF countedAs
  <1>4. QED
    BY <1>1, <1>2, <1>3, NoNewID

LEMMA StepInv == AskInv /\ [Next]_vars => AskInv'
  BY BeginKeeps, LaneKeeps, VerdictKeeps, EndBorrowKeeps, AcceptKeeps, OthersKeep DEF Next, Continue

-----------------------------------------------------------------------------
(* The lanes.                                                              *)

enqueued == {"queued", "checking", "awaiting", "awaited", "destroying", "returning", "resuming"}

holds(l, i, a) == l \in lane /\ i \in 1..Len(queue[l]) /\ queue[l][i] = a

\* An asynchronous ask is in one place of one lane while it is enqueued, and only
\* the job at the head of a lane has left "queued".
JobsInv ==
  /\ \A a \in AsyncAsks : at[a] \in enqueued <=> \E l \in lane : \E i \in 1..Len(queue[l]) : holds(l, i, a)
  /\ \A a \in AsyncAsks, l, m \in lane : \A i \in 1..Len(queue[l]), j \in 1..Len(queue[m]) :
       holds(l, i, a) /\ holds(m, j, a) => l = m /\ i = j
  /\ \A a \in AsyncAsks, l \in lane : \A i \in 1..Len(queue[l]) :
       holds(l, i, a) /\ at[a] # "queued" => i = 1

LaneInv ==
  /\ intent \in [AsyncAsks -> BOOLEAN]
  /\ next \in lane
  /\ queue \in [lane -> Seq(AsyncAsks)]
  /\ \A a \in Asks : at[a] \in {"begun", "queued", "resuming"} => a \in AsyncAsks
  /\ JobsInv

LEMMA InitLanes == Init => LaneInv
  <1> SUFFICES ASSUME Init PROVE LaneInv
    OBVIOUS
  <1>1. \A a \in Asks : at[a] = "idle"
    BY DEF Init
  <1>2. /\ intent \in [AsyncAsks -> BOOLEAN]
        /\ next \in lane
        /\ queue \in [lane -> Seq(AsyncAsks)]
    BY AskAssumption DEF Init, lane
  <1>3. \A l \in lane : 1..Len(queue[l]) = {}
    BY DEF Init
  <1>4. JobsInv
    BY <1>1, <1>3 DEF JobsInv, enqueued, Asks
  <1>5. QED
    BY <1>1, <1>2, <1>4 DEF LaneInv

\* Jobs keep their places in the lanes.
LEMMA JobsStay ==
  ASSUME JobsInv, UNCHANGED queue,
         \A a \in AsyncAsks : (at'[a] \in enqueued <=> at[a] \in enqueued) /\ (at[a] = "queued" => at'[a] = "queued")
  PROVE  JobsInv'
  BY DEF JobsInv, holds

\* Steps that leave the lanes alone and start no job.
LEMMA LanesStay ==
  ASSUME Types, LaneInv, NEW a \in Asks,
         \/ CheckCancellation(a) \/ TakeIdentity(a) \/ BeginRefused(a) \/ Begin(a)
         \/ CheckIntent(a) \/ AwaitReturns(a) \/ Project(a) \/ DestroyTicket(a) \/ EndBorrow(a) \/ Accept(a)
  PROVE  LaneInv'
  <1> USE AskAssumption DEF LaneInv
  <1>1. UNCHANGED <<intent, next, queue>>
    BY DEF CheckCancellation, TakeIdentity, BeginRefused, Begin, CheckIntent, AwaitReturns, Project,
           DestroyTicket, EndBorrow, Accept, hostState
  <1>2. /\ at' = [at EXCEPT ![a] = at'[a]]
        /\ at'[a] \in {"begun", "queued", "resuming"} => a \in AsyncAsks
        /\ a \in AsyncAsks => (at'[a] \in enqueued <=> at[a] \in enqueued) /\ at[a] # "queued"
    <2> USE DEF Types, goto, enqueued
    <2>1. CASE CheckCancellation(a) \/ TakeIdentity(a) \/ BeginRefused(a)
      BY <2>1 DEF CheckCancellation, TakeIdentity, BeginRefused
    <2>2. CASE Begin(a)
      BY <2>2 DEF Begin, Asks
    <2>3. CASE CheckIntent(a) \/ AwaitReturns(a) \/ Project(a) \/ DestroyTicket(a)
      BY <2>3 DEF CheckIntent, AwaitReturns, Project, DestroyTicket
    <2>4. CASE EndBorrow(a)
      BY <2>4 DEF EndBorrow, Asks
    <2>5. CASE Accept(a)
      BY <2>5 DEF Accept
    <2>6. QED
      BY <2>1, <2>2, <2>3, <2>4, <2>5
  <1>3. \A b \in Asks : at'[b] = IF b = a THEN at'[a] ELSE at[b]
    BY <1>2 DEF Types
  <1>4. JobsInv'
    BY <1>1, <1>2, <1>3, JobsStay DEF Asks
  <1>5. QED
    BY <1>1, <1>2, <1>3, <1>4

\* The job a lane runs is at its head.
LEMMA LaneRunsHead ==
  ASSUME Types, LaneInv, NEW a \in Asks, LaneRuns(a)
  PROVE  LaneInv'
  <1> USE AskAssumption DEF LaneInv
  <1>1. /\ at[a] = "queued" /\ a \in AsyncAsks
        /\ UNCHANGED <<intent, next, queue>>
        /\ \A b \in Asks : at'[b] = IF b = a THEN "checking" ELSE at[b]
    BY DEF LaneRuns, goto, hostState, Types
  <1>2. PICK m \in lane : queue[m] # <<>> /\ Head(queue[m]) = a
    BY DEF LaneRuns, runs
  <1>3. holds(m, 1, a) /\ 1 \in 1..Len(queue[m])
    BY <1>2 DEF holds
  <1>4. JobsInv'
    <2>1. \A b, l, i : holds(l, i, b)' <=> holds(l, i, b)
      BY <1>1 DEF holds
    <2>2. \A b \in AsyncAsks : at'[b] \in enqueued <=> at[b] \in enqueued
      BY <1>1 DEF Asks, enqueued
    <2>3. \A l \in lane : \A i \in 1..Len(queue[l]) : holds(l, i, a) => i = 1
      BY <1>1, <1>3 DEF JobsInv
    <2>4. \A b \in AsyncAsks, l \in lane : \A i \in 1..Len(queue[l]) :
            holds(l, i, b) /\ at'[b] # "queued" => i = 1
      <3> SUFFICES ASSUME NEW b \in AsyncAsks, NEW l \in lane, NEW i \in 1..Len(queue[l]),
                          holds(l, i, b), at'[b] # "queued"
                   PROVE  i = 1
        OBVIOUS
      <3>1. b = a \/ at[b] # "queued"
        BY <1>1 DEF Asks
      <3>2. QED
        BY <2>3, <3>1 DEF JobsInv
    <2>5. QED
      BY <1>1, <2>1, <2>2, <2>4 DEF JobsInv
  <1>5. QED
    BY <1>1, <1>4

LEMMA EnqueueAtEnd ==
  ASSUME Types, LaneInv, NEW a \in Asks, Enqueue(a)
  PROVE  LaneInv'
  <1> USE AskAssumption DEF LaneInv
  <1> DEFINE n == Len(queue[next])
  <1>1. /\ at[a] = "begun" /\ a \in AsyncAsks
        /\ UNCHANGED intent
        /\ \A b \in Asks : at'[b] = IF b = a THEN "queued" ELSE at[b]
        /\ next' = (next + 1) % Lanes
        /\ queue' = [queue EXCEPT ![next] = Append(queue[next], a)]
    BY DEF Enqueue, goto, Types
  <1>2. next' \in lane
    BY <1>1 DEF lane
  <1>3. queue' \in [lane -> Seq(AsyncAsks)]
    BY <1>1
  <1>4. /\ n \in Nat /\ Len(queue'[next]) = n + 1 /\ queue'[next][n + 1] = a
        /\ \A i \in 1..n : queue'[next][i] = queue[next][i]
        /\ \A l \in lane \ {next} : queue'[l] = queue[l]
    BY <1>1
  <1>5. \A b \in AsyncAsks, l \in lane : \A i \in 1..Len(queue'[l]) :
          holds(l, i, b)' <=> holds(l, i, b) \/ (b = a /\ l = next /\ i = n + 1)
    BY <1>4 DEF holds
  <1>6. \A l \in lane : \A i \in 1..Len(queue[l]) : i \in 1..Len(queue'[l]) /\ ~holds(l, i, a)
    <2>1. \A l \in lane : \A i \in 1..Len(queue[l]) : ~holds(l, i, a)
      BY <1>1 DEF JobsInv, enqueued
    <2>2. QED
      BY <1>4, <2>1
  <1>7. JobsInv'
    <2> HIDE DEF n
    <2>1. \A b \in AsyncAsks : at'[b] \in enqueued <=> at[b] \in enqueued \/ b = a
      BY <1>1 DEF enqueued, Asks
    <2>2. ASSUME NEW b \in AsyncAsks
          PROVE  at'[b] \in enqueued <=> \E l \in lane : \E i \in 1..Len(queue'[l]) : holds(l, i, b)'
      <3>1. CASE b = a
        <4>1. n + 1 \in 1..Len(queue'[next])
          BY <1>4
        <4>2. QED
          BY <1>5, <2>1, <3>1, <4>1
      <3>2. CASE b # a
        <4>1. \A l, i : holds(l, i, b) => l \in lane /\ i \in 1..Len(queue[l])
          BY DEF holds
        <4>2. QED
          BY <1>5, <1>6, <2>1, <3>2, <4>1 DEF JobsInv
      <3>3. QED
        BY <3>1, <3>2
    <2>3. \A b \in AsyncAsks, l \in lane : \A i \in 1..Len(queue'[l]) : holds(l, i, b) => i \in 1..Len(queue[l])
      BY DEF holds
    <2>4. \A b \in AsyncAsks, l, m \in lane : \A i \in 1..Len(queue'[l]), j \in 1..Len(queue'[m]) :
            holds(l, i, b)' /\ holds(m, j, b)' => l = m /\ i = j
      BY <1>5, <1>6, <2>3 DEF JobsInv
    <2>5. \A b \in AsyncAsks, l \in lane : \A i \in 1..Len(queue'[l]) :
            holds(l, i, b)' /\ at'[b] # "queued" => i = 1
      <3> SUFFICES ASSUME NEW b \in AsyncAsks, NEW l \in lane, NEW i \in 1..Len(queue'[l]),
                          holds(l, i, b)', at'[b] # "queued"
                   PROVE  i = 1
        OBVIOUS
      <3>1. b # a /\ at[b] # "queued"
        BY <1>1 DEF Asks
      <3>2. holds(l, i, b) /\ i \in 1..Len(queue[l])
        BY <1>5, <2>3, <3>1
      <3>3. QED
        BY <3>1, <3>2 DEF JobsInv
    <2>6. QED
      BY <2>2, <2>4, <2>5 DEF JobsInv
  <1>8. \A b \in Asks : at'[b] \in {"begun", "queued", "resuming"} => b \in AsyncAsks
    BY <1>1
  <1>9. QED
    BY <1>1, <1>2, <1>3, <1>7, <1>8

\* The job that ends is the head of one lane, whose other jobs move up.
LEMMA ResumeHead ==
  ASSUME Types, LaneInv, NEW a \in Asks, Resume(a)
  PROVE  LaneInv'
  <1> USE AskAssumption DEF LaneInv
  <1>1. /\ at[a] = "resuming" /\ a \in AsyncAsks
        /\ UNCHANGED <<intent, next>>
        /\ \A b \in Asks : at'[b] = IF b = a THEN "accepting" ELSE at[b]
        /\ queue' = [l \in lane |-> IF queue[l] # <<>> /\ Head(queue[l]) = a THEN Tail(queue[l]) ELSE queue[l]]
    BY DEF Resume, goto, hostState, Types
  <1>2. PICK m \in lane : holds(m, 1, a) /\ 1 \in 1..Len(queue[m])
    <2>1. PICK l \in lane : \E i \in 1..Len(queue[l]) : holds(l, i, a)
      BY <1>1 DEF JobsInv, enqueued
    <2>2. PICK i \in 1..Len(queue[l]) : holds(l, i, a)
      BY <2>1
    <2>3. i = 1
      BY <1>1, <2>2 DEF JobsInv
    <2>4. QED
      BY <2>2, <2>3
  <1>3. \A l \in lane \ {m} : \A i \in 1..Len(queue[l]) : ~holds(l, i, a)
    BY <1>1, <1>2 DEF JobsInv
  <1>4. queue[m] # <<>> /\ Head(queue[m]) = a /\ queue[m] \in Seq(AsyncAsks)
    BY <1>2 DEF holds
  <1>5. \A l \in lane \ {m} : ~(queue[l] # <<>> /\ Head(queue[l]) = a)
    <2> SUFFICES ASSUME NEW l \in lane \ {m}, queue[l] # <<>>, Head(queue[l]) = a PROVE FALSE
      OBVIOUS
    <2>1. queue[l] \in Seq(AsyncAsks) /\ 1 \in 1..Len(queue[l]) /\ queue[l][1] = a
      OBVIOUS
    <2>2. QED
      BY <1>3, <2>1 DEF holds
  <1>6. queue'[m] = Tail(queue[m]) /\ \A l \in lane \ {m} : queue'[l] = queue[l]
    BY <1>1, <1>4, <1>5
  <1>7. queue' \in [lane -> Seq(AsyncAsks)]
    BY <1>1
  <1> DEFINE was(l, i) == IF l = m THEN i + 1 ELSE i
  <1>8. \A b \in AsyncAsks, l \in lane : \A i \in 1..Len(queue'[l]) :
          was(l, i) \in 1..Len(queue[l]) /\ (holds(l, i, b)' <=> holds(l, was(l, i), b))
    <2> SUFFICES ASSUME NEW b \in AsyncAsks, NEW l \in lane, NEW i \in 1..Len(queue'[l])
                 PROVE  was(l, i) \in 1..Len(queue[l]) /\ (holds(l, i, b)' <=> holds(l, was(l, i), b))
      OBVIOUS
    <2>1. CASE l = m
      <3>1. /\ Len(queue[m]) \in Nat \ {0} /\ Len(Tail(queue[m])) = Len(queue[m]) - 1
            /\ \A j \in 1..Len(Tail(queue[m])) : Tail(queue[m])[j] = queue[m][j + 1]
        BY <1>4
      <3>2. /\ i \in 1..Len(queue[m]) - 1 /\ i \in 1..Len(Tail(queue[m]))
            /\ queue'[m][i] = queue[m][i + 1]
        BY <1>6, <2>1, <3>1
      <3>3. i + 1 \in 1..Len(queue[m])
        BY <3>1, <3>2
      <3>4. QED
        BY <2>1, <3>2, <3>3 DEF holds
    <2>2. CASE l # m
      BY <1>6, <2>2 DEF holds
    <2>3. QED
      BY <2>1, <2>2
  <1>9. \A l \in lane : \A j \in 1..Len(queue[l]) :
          \/ l = m /\ j = 1
          \/ \E i \in 1..Len(queue'[l]) : was(l, i) = j
    <2> SUFFICES ASSUME NEW l \in lane, NEW j \in 1..Len(queue[l]), ~(l = m /\ j = 1)
                 PROVE  \E i \in 1..Len(queue'[l]) : was(l, i) = j
      OBVIOUS
    <2>1. CASE l = m
      <3>1. Len(queue'[m]) = Len(queue[m]) - 1 /\ j - 1 \in 1..Len(queue'[m]) /\ was(m, j - 1) = j
        BY <1>4, <1>6, <2>1
      <3>2. QED
        BY <2>1, <3>1
    <2>2. CASE l # m
      BY <1>6, <2>2
    <2>3. QED
      BY <2>1, <2>2
  <1>10. JobsInv'
    <2>1. ASSUME NEW b \in AsyncAsks
          PROVE  at'[b] \in enqueued <=> \E l \in lane : \E i \in 1..Len(queue'[l]) : holds(l, i, b)'
      <3>1. CASE b = a
        <4>1. at'[a] \notin enqueued
          BY <1>1 DEF enqueued
        <4>2. ASSUME NEW l \in lane, NEW i \in 1..Len(queue'[l]), holds(l, i, a)' PROVE FALSE
          <5>1. holds(l, was(l, i), a) /\ was(l, i) \in 1..Len(queue[l]) /\ i \in Nat \ {0}
            BY <1>1, <1>8, <4>2
          <5>2. l = m /\ was(l, i) = 1
            BY <1>1, <1>2, <5>1 DEF JobsInv
          <5>3. QED
            BY <5>1, <5>2
        <4>3. QED
          BY <3>1, <4>1, <4>2
      <3>2. CASE b # a
        <4>1. at'[b] = at[b]
          BY <1>1, <3>2 DEF Asks
        <4>2. ~holds(m, 1, b)
          BY <1>2, <3>2 DEF holds
        <4>3. (\E l \in lane : \E j \in 1..Len(queue[l]) : holds(l, j, b)) <=>
              \E l \in lane : \E i \in 1..Len(queue'[l]) : holds(l, i, b)'
          <5> HIDE DEF was
          <5>1. QED
            BY <1>8, <1>9, <4>2
        <4>4. QED
          BY <4>1, <4>3 DEF JobsInv
      <3>3. QED
        BY <3>1, <3>2
    <2>2. \A b \in AsyncAsks, l, k \in lane : \A i \in 1..Len(queue'[l]), j \in 1..Len(queue'[k]) :
            holds(l, i, b)' /\ holds(k, j, b)' => l = k /\ i = j
      <3> SUFFICES ASSUME NEW b \in AsyncAsks, NEW l \in lane, NEW k \in lane,
                          NEW i \in 1..Len(queue'[l]), NEW j \in 1..Len(queue'[k]),
                          holds(l, i, b)', holds(k, j, b)'
                   PROVE  l = k /\ i = j
        OBVIOUS
      <3>1. l = k /\ was(l, i) = was(k, j)
        <4> HIDE DEF was
        <4>1. QED
          BY <1>8 DEF JobsInv
      <3>2. QED
        BY <3>1
    <2>3. \A b \in AsyncAsks, l \in lane : \A i \in 1..Len(queue'[l]) :
            holds(l, i, b)' /\ at'[b] # "queued" => i = 1
      <3> SUFFICES ASSUME NEW b \in AsyncAsks, NEW l \in lane, NEW i \in 1..Len(queue'[l]),
                          holds(l, i, b)', at'[b] # "queued"
                   PROVE  i = 1
        OBVIOUS
      <3>1. at[b] # "queued"
        BY <1>1 DEF Asks
      <3>2. was(l, i) = 1
        <4> HIDE DEF was
        <4>1. QED
          BY <1>8, <3>1 DEF JobsInv
      <3>3. QED
        BY <3>2
    <2>4. QED
      BY <2>1, <2>2, <2>3 DEF JobsInv
  <1>11. QED
    BY <1>1, <1>7, <1>10

LEMMA LaneStep == AskInv /\ LaneInv /\ [Next]_vars => LaneInv'
  <1> SUFFICES ASSUME AskInv, LaneInv, [Next]_vars PROVE LaneInv'
    OBVIOUS
  <1>1. Types
    BY DEF AskInv
  <1>2. ASSUME NEW a \in AsyncAsks, Cancel(a) PROVE LaneInv'
    BY <1>2 DEF LaneInv, JobsInv, holds, Cancel
  <1>3. CASE Others \/ UNCHANGED vars
    BY <1>3 DEF LaneInv, JobsInv, holds, Others, vars
  <1>4. QED
    BY <1>1, <1>2, <1>3, LanesStay, LaneRunsHead, EnqueueAtEnd, ResumeHead DEF Next, Continue

\* A lane is no longer than there are asks.
LEMMA LaneBound ==
  ASSUME LaneInv, NEW l \in lane
  PROVE  Len(queue[l]) \in Nat /\ Len(queue[l]) <= Cardinality(Asks)
  <1>1. queue[l] \in Seq(AsyncAsks) /\ Len(queue[l]) \in Nat
    BY DEF LaneInv
  <1>2. queue[l] \in [1..Len(queue[l]) -> Asks]
    BY <1>1 DEF Asks
  <1>3. \A i, j \in 1..Len(queue[l]) : queue[l][i] = queue[l][j] => i = j
    BY <1>1 DEF LaneInv, JobsInv, holds
  <1>4. IsFiniteSet(1..Len(queue[l])) /\ Cardinality(1..Len(queue[l])) = Len(queue[l])
    BY <1>1, FS_Interval
  <1>5. Cardinality(Asks) \in Nat
    BY AskAssumption, FS_CardinalityType
  <1>6. ~(Cardinality(Asks) < Cardinality(1..Len(queue[l])))
    BY <1>2, <1>3, <1>4, AskAssumption, FS_PigeonHole
  <1>7. QED
    BY <1>1, <1>4, <1>5, <1>6

-----------------------------------------------------------------------------
(* The theorems. *)

\* In every behaviour of a host's asks the invariant holds.
THEOREM AskInvHolds == Spec => []AskInv
  BY InitInv, StepInv, PTL DEF Spec

\* When the session has released the ask client no ticket is left: awaitResult's
\* deferred block destroys the ticket before it ends the borrow.
THEOREM TicketsAreGone == Spec => []TicketsBeforeRelease
  <1>1. AskInv => TicketsBeforeRelease
    BY DEF AskInv, Types, Facts, TicketsBeforeRelease, starting, ending
  <1>2. QED
    BY <1>1, AskInvHolds, PTL

\* beginAsk gives no message identity to two asks, and the next one is always new.
THEOREM IdentitiesAreUnique == Spec => []IdentitiesUnique
  <1>1. AskInv => IdentitiesUnique
    BY AskAssumption DEF AskInv, Types, Facts, DistinctIDs, IdentitiesUnique
  <1>2. QED
    BY <1>1, AskInvHolds, PTL

\* What Core reported of an ask is what its caller gets, and what accept counts.
THEOREM OutcomesAreKept == Spec => []OutcomeKept
  <1>1. AskInv => OutcomeKept
    <2>1. ASSUME AskInv, NEW a \in Asks, status[a] = "failure", at[a] = "done"
          PROVE  verdict[a] = "failure"
      BY <2>1 DEF AskInv, Facts
    <2>2. ASSUME AskInv, NEW k \in DOMAIN matched
          PROVE  matched[k] = Cardinality({a \in Asks : status[a] = k /\ verdict[a] \in {k, "undecoded"}})
      <3>1. k \in {"response", "deadletter"}
        BY <2>2 DEF AskInv, Types
      <3>2. matched[k] = Cardinality(countedAs(k))
        BY <2>2, <3>1 DEF AskInv, Matched
      <3>3. QED
        BY <3>2 DEF countedAs
    <2>3. QED
      BY <2>1, <2>2 DEF OutcomeKept
  <1>2. QED
    BY <1>1, AskInvHolds, PTL

\* While a native wait is inside Core, no other call is made on its ticket: onCancel
\* only records its intent.
THEOREM TicketsAreSerialized == Spec => TicketSerialized
  <1> DEFINE serialized ==
        \A a \in Asks :
          ticket[a] = "awaited" /\ ticket'[a] # "awaited" => at[a] = "awaiting" /\ at'[a] = "awaited"
  <1>1. AskInv /\ [Next]_vars => [serialized]_vars
    <2> SUFFICES ASSUME AskInv, [Next]_vars, NEW a \in Asks, ticket[a] = "awaited", ticket'[a] # "awaited"
                 PROVE  at[a] = "awaiting" /\ at'[a] = "awaited"
      BY DEF vars
    <2>1. at[a] = "awaiting"
      BY DEF AskInv, Facts
    <2>2. PICK b \in Asks : CheckIntent(b) \/ AwaitReturns(b) \/ Project(b) \/ DestroyTicket(b) \/ Begin(b)
      BY DEF Next, Continue, vars, Others, Cancel, CheckCancellation, TakeIdentity, BeginRefused, Enqueue,
             LaneRuns, EndBorrow, Resume, Accept
    <2>3. a = b /\ AwaitReturns(b)
      BY <2>1, <2>2 DEF AskInv, Types, CheckIntent, AwaitReturns, Project, DestroyTicket, Begin
    <2>4. QED
      BY <2>1, <2>3 DEF AskInv, Types, AwaitReturns, goto
  <1>2. QED
    BY <1>1, AskInvHolds, PTL DEF Spec, TicketSerialized

\* A job is in one place of one lane, from Enqueue until its continuation is
\* resumed, and only the first job of a lane runs.
THEOREM JobsAreInOneLane == Spec => []LaneInv
  BY InitLanes, LaneStep, AskInvHolds, PTL DEF Spec

\* The variables keep their types; a job is in one lane from the time it is
\* enqueued until its continuation is resumed, for every number of asks and lanes.
THEOREM AskTypeHolds == Spec => []TypeOK
  <1>1. AskInv /\ LaneInv => TypeOK
    <2> SUFFICES ASSUME AskInv, LaneInv PROVE TypeOK
      OBVIOUS
    <2> DEFINE places(a) == {p \in lane \X (1..Cardinality(Asks)) :
                               p[2] <= Len(queue[p[1]]) /\ queue[p[1]][p[2]] = a}
    <2>1. ASSUME NEW a \in AsyncAsks
          PROVE  Cardinality(places(a)) = IF at[a] \in {"idle", "identified", "begun", "accepting", "done"} THEN 0 ELSE 1
      <3>1. at[a] \in {"idle", "identified", "begun", "accepting", "done"} <=> at[a] \notin enqueued
        BY DEF AskInv, Types, starting, waiting, ending, enqueued, Asks
      <3>2. \A p \in places(a) : p[1] \in lane /\ p[2] \in 1..Len(queue[p[1]]) /\ holds(p[1], p[2], a) /\ p = <<p[1], p[2]>>
        BY LaneBound DEF holds
      <3>3. CASE at[a] \notin enqueued
        <4>1. places(a) = {}
          <5> HIDE DEF places
          <5>1. QED
            BY <3>2, <3>3 DEF LaneInv, JobsInv
        <4>2. QED
          BY <3>1, <3>3, <4>1, FS_EmptySet
      <3>4. CASE at[a] \in enqueued
        <4> PICK l \in lane : \E i \in 1..Len(queue[l]) : holds(l, i, a)
          BY <3>4 DEF LaneInv, JobsInv
        <4>1. PICK i \in 1..Len(queue[l]) : holds(l, i, a)
          OBVIOUS
        <4>2. i \in 1..Cardinality(Asks) /\ i <= Len(queue[l])
          <5>1. Len(queue[l]) \in Nat /\ Len(queue[l]) <= Cardinality(Asks) /\ Cardinality(Asks) \in Nat
            BY LaneBound, FS_CardinalityType, AskAssumption
          <5>2. QED
            BY <5>1
        <4>3. <<l, i>> \in places(a)
          BY <4>1, <4>2 DEF holds
        <4>4. \A p \in places(a) : p = <<l, i>>
          <5> HIDE DEF places
          <5>1. QED
            BY <3>2, <4>1 DEF LaneInv, JobsInv
        <4>5. places(a) = {<<l, i>>}
          <5> HIDE DEF places
          <5>1. QED
            BY <4>3, <4>4
        <4>6. QED
          BY <3>1, <3>4, <4>5, FS_Singleton
      <3>5. QED
        BY <3>3, <3>4
    <2>2. /\ phase \in {"open", "sealed", "released"} /\ borrowed \subseteq Asks
          /\ at \in [Asks -> {"idle", "identified", "begun", "queued", "checking", "awaiting", "awaited",
                              "destroying", "returning", "resuming", "accepting", "done"}]
          /\ ticket \in [Asks -> {"none", "live", "awaited", "canceled", "destroyed"}]
          /\ verdict \in [Asks -> Verdicts]
          /\ id \in [Asks -> 0..MaxID] /\ nextID \in 0..MaxID
      BY DEF AskInv, Types, starting, waiting, ending
    <2>3. QED
      BY <2>1, <2>2 DEF TypeOK, LaneInv
  <1>2. QED
    BY <1>1, AskInvHolds, JobsAreInOneLane, PTL

\* The session's count of active asks is right at every moment: whoever has begun
\* has a borrow, whoever returned, was refused or canceled has none.
THEOREM BorrowsAreAsks == Spec => []BorrowedWhileAsked
  <1>1. AskInv => BorrowedWhileAsked
    BY DEF AskInv, Types, Facts, starting, waiting, ending, BorrowedWhileAsked
  <1>2. QED
    BY <1>1, AskInvHolds, PTL

\* A lane is never held up: the job at its head can always go on, whatever its ask
\* came to, and so can every ask outside the lanes.
THEOREM AsksNeverStuck == Spec => []NeverStuck
  <1>1. AskInv /\ LaneInv => NeverStuck
    <2> SUFFICES ASSUME AskInv, LaneInv, NEW a \in Asks, at[a] \notin {"idle", "identified", "done"}
                 PROVE  \/ canContinue(a)
                        \/ \E l \in lane : canContinue(Head(queue[l])) /\ \E i \in 1..Len(queue[l]) : queue[l][i] = a
      BY DEF NeverStuck
    <2>1. ASSUME NEW b \in Asks, at[b] \in enqueued \ {"queued"} PROVE canContinue(b)
      BY <2>1 DEF enqueued, canContinue, AskInv, Types, Facts, starting, ending
    <2>2. CASE at[a] # "queued"
      <3>1. at[a] \in (enqueued \ {"queued"}) \cup {"begun", "accepting"}
        BY <2>2 DEF AskInv, Types, starting, waiting, ending, enqueued
      <3>2. QED
        BY <2>1, <3>1 DEF canContinue
    <2>3. CASE at[a] = "queued"
      <3> PICK l \in lane : \E i \in 1..Len(queue[l]) : holds(l, i, a)
        BY <2>3 DEF LaneInv, JobsInv, enqueued
      <3>1. PICK i \in 1..Len(queue[l]) : queue[l][i] = a
        BY DEF holds
      <3>2. queue[l] \in Seq(AsyncAsks) /\ 1 \in 1..Len(queue[l])
        BY <3>1 DEF LaneInv
      <3>3. PICK b \in AsyncAsks : b = queue[l][1]
        BY <3>2
      <3>4. b = Head(queue[l]) /\ queue[l] # <<>>
        BY <3>2, <3>3
      <3>5. at[b] \in enqueued
        BY <3>2, <3>3 DEF LaneInv, JobsInv, holds
      <3>6. canContinue(b)
        BY <2>1, <3>4, <3>5 DEF canContinue, runs, Asks
      <3>7. QED
        BY <3>1, <3>4, <3>6
    <2>4. QED
      BY <2>2, <2>3
  <1>2. QED
    BY <1>1, AskInvHolds, JobsAreInOneLane, PTL

\* A cancellation that a job finds when its lane runs it is never lost again, and
\* keeps it out of Core for good (CheckIntent, Project, Accept).
THEOREM CancellationIsKept == Spec => CancellationStays
  <1> DEFINE A == \A a \in AsyncAsks : willBeCanceled(a) => willBeCanceled(a)'
  <1>1. AskInv /\ LaneInv /\ [Next]_vars => [A]_vars
    <2> SUFFICES ASSUME AskInv, LaneInv, Next, NEW a \in AsyncAsks, willBeCanceled(a)
                 PROVE  willBeCanceled(a)'
      OBVIOUS
    <2> USE DEF AskInv, Types, LaneInv, hostState
    <2>1. a \in Asks
      BY DEF Asks
    <2>2. ASSUME NEW b \in Asks, b # a,
                 CheckCancellation(b) \/ TakeIdentity(b) \/ BeginRefused(b) \/ Begin(b) \/ Continue(b)
          PROVE  UNCHANGED <<intent, at[a], status[a], verdict[a]>>
      BY <2>1, <2>2 DEF CheckCancellation, TakeIdentity, BeginRefused, Begin, Continue, Enqueue, LaneRuns,
             CheckIntent, AwaitReturns, Project, DestroyTicket, EndBorrow, Resume, Accept, goto, set
    <2>3. CASE CheckCancellation(a) \/ TakeIdentity(a) \/ BeginRefused(a) \/ Begin(a) \/ Enqueue(a)
               \/ AwaitReturns(a) \/ Project(a)
      BY <2>3 DEF willBeCanceled, CheckCancellation, TakeIdentity, BeginRefused, Begin, Enqueue, AwaitReturns, Project
    <2>4. CASE LaneRuns(a)
      BY <2>1, <2>4 DEF willBeCanceled, LaneRuns, goto
    <2>5. CASE CheckIntent(a)
      BY <2>1, <2>5 DEF willBeCanceled, CheckIntent, canceled, goto, set
    <2>6. CASE DestroyTicket(a) \/ EndBorrow(a) \/ Resume(a)
      BY <2>1, <2>6 DEF willBeCanceled, DestroyTicket, EndBorrow, Resume, goto
    <2>7. CASE Accept(a)
      BY <2>1, <2>7 DEF willBeCanceled, Accept, goto
    <2>8. CASE \E b \in AsyncAsks : Cancel(b)
      BY <2>1, <2>8 DEF willBeCanceled, Cancel
    <2>9. CASE Others
      BY <2>9 DEF willBeCanceled, Others
    <2>10. CASE \E b \in Asks \ {a} : CheckCancellation(b) \/ TakeIdentity(b) \/ BeginRefused(b) \/ Begin(b) \/ Continue(b)
      BY <2>2, <2>10 DEF willBeCanceled
    <2>11. QED
      BY <2>1, <2>3, <2>4, <2>5, <2>6, <2>7, <2>8, <2>9, <2>10 DEF Next, Continue
  <1>2. QED
    BY <1>1, AskInvHolds, JobsAreInOneLane, PTL DEF Spec, CancellationStays
=============================================================================
