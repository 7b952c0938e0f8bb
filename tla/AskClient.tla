----------------------------- MODULE AskClient -----------------------------
(***************************************************************************)
(* The asking side of one host: RuntimeHostClient's tickets, the serial    *)
(* Dispatch lanes of RuntimeAskExecutor on which asynchronous asks wait,   *)
(* and RuntimeCancellation.  The session is used through what it promises: *)
(* a ticket's borrow is one of NativeOwner, which RuntimeSession           *)
(* implements.                                                             *)
(*                                                                         *)
(* A task that is canceled only records its intent.  The worker that owns  *)
(* the ticket reads it, before and after the native wait, so that calls on *)
(* one ticket are never concurrent.                                        *)
(***************************************************************************)
EXTENDS Naturals, Sequences, FiniteSets

CONSTANTS
  SyncAsks,         \* calls of ask and askPayload
  AsyncAsks,        \* calls of askPayloadAsync
  Lanes,            \* 8 in the code
  MaxActive,        \* 64 in the code
  MaxID             \* UInt64.max in the code

Asks == SyncAsks \cup AsyncAsks

ASSUME AskAssumption ==
  /\ SyncAsks \cap AsyncAsks = {}
  /\ IsFiniteSet(Asks)
  /\ Lanes \in Nat \ {0}
  /\ MaxActive \in Nat \ {0}
  /\ MaxID \in Nat

VARIABLES
  phase, borrowed,  \* the session: NativeOwner's variables
  at,               \* where each ask is
  intent,           \* RuntimeCancellation.cancelled
  ticket,           \* Core's ticket
  status,           \* what the native wait returned
  verdict,          \* what the caller gets
  queue,            \* each lane's jobs, the running one first
  next,             \* Lanes.next
  nextID,           \* the last message identity given out
  id,               \* the identity of each ask, 0 before it has one
  matched           \* matchedResponses and matchedDeadletters

hostState == <<nextID, id, matched>>
vars == <<phase, borrowed, at, intent, ticket, status, verdict, queue, next, hostState>>

Session == INSTANCE NativeOwner WITH Borrowers <- Asks
session == <<phase, borrowed>>

lane == 0 .. Lanes - 1

Init ==
  /\ Session!Init
  /\ at = [a \in Asks |-> "idle"]
  /\ intent = [a \in AsyncAsks |-> FALSE]
  /\ ticket = [a \in Asks |-> "none"]
  /\ status = [a \in Asks |-> "none"]
  /\ verdict = [a \in Asks |-> "none"]
  /\ queue = [l \in lane |-> <<>>]
  /\ next = 0
  /\ nextID = 0
  /\ id = [a \in Asks |-> 0]
  /\ matched = [k \in {"response", "deadletter"} |-> 0]

goto(a, p) == at' = [at EXCEPT ![a] = p]
set(a, v) == verdict' = [verdict EXCEPT ![a] = v]

canceled(a) == a \in AsyncAsks /\ intent[a]
runs(a) == \E l \in lane : queue[l] # <<>> /\ Head(queue[l]) = a

-----------------------------------------------------------------------------
(* Beginning an ask. *)

\* A task that is already canceled throws before it has a ticket.
CheckCancellation(a) ==
  /\ at[a] = "idle"
  /\ canceled(a)
  /\ set(a, "canceled")
  /\ goto(a, "done")
  /\ UNCHANGED <<session, intent, ticket, status, queue, next, hostState>>

\* Under clientLock: the next identity, or a refusal when the last one is spent.
TakeIdentity(a) ==
  /\ at[a] = "idle"
  /\ ~canceled(a)
  /\ \/ /\ nextID < MaxID
        /\ nextID' = nextID + 1
        /\ id' = [id EXCEPT ![a] = nextID']
        /\ goto(a, "identified")
        /\ UNCHANGED verdict
     \/ /\ nextID = MaxID
        /\ set(a, "exhausted")
        /\ goto(a, "done")
        /\ UNCHANGED <<nextID, id>>
  /\ UNCHANGED <<session, intent, ticket, status, queue, next, matched>>

\* Mutant of BeginRefused: the identity of a refused ask is given back.
GiveIdentityBack(a) ==
  /\ at[a] = "identified"
  /\ set(a, "refused")
  /\ goto(a, "done")
  /\ nextID' = nextID - 1
  /\ UNCHANGED <<session, intent, ticket, status, queue, next, id, matched>>

\* The request cannot be built, or session.begin refuses it: closed, 64 active,
\* or refused by Core.  Its identity stays spent.
BeginRefused(a) ==
  /\ at[a] = "identified"
  /\ set(a, "refused")
  /\ goto(a, "done")
  /\ UNCHANGED <<session, intent, ticket, status, queue, next, hostState>>

Begin(a) ==
  /\ at[a] = "identified"
  /\ Cardinality(borrowed) < MaxActive
  /\ Session!Borrow(a)
  /\ ticket' = [ticket EXCEPT ![a] = "live"]
  /\ goto(a, IF a \in SyncAsks THEN "checking" ELSE "begun")
  /\ UNCHANGED <<intent, status, verdict, queue, next, hostState>>

-----------------------------------------------------------------------------
(* RuntimeAskExecutor. *)

\* A lane is chosen under the lock, and the job is appended to its queue.
Enqueue(a) ==
  /\ at[a] = "begun"
  /\ queue' = [queue EXCEPT ![next] = Append(queue[next], a)]
  /\ next' = (next + 1) % Lanes
  /\ goto(a, "queued")
  /\ UNCHANGED <<session, intent, ticket, status, verdict, hostState>>

LaneRuns(a) ==
  /\ at[a] = "queued"
  /\ runs(a)
  /\ goto(a, "checking")
  /\ UNCHANGED <<session, intent, ticket, status, verdict, queue, next, hostState>>

\* onCancel: may happen at any time, in any thread.

\* Mutant of Cancel: onCancel cancels the ticket itself.
CancelTicket(a) ==
  /\ at[a] # "done"
  /\ ~intent[a]
  /\ intent' = [intent EXCEPT ![a] = TRUE]
  /\ ticket' = [ticket EXCEPT ![a] = IF @ \in {"live", "awaited"} THEN "canceled" ELSE @]
  /\ UNCHANGED <<session, at, status, verdict, queue, next, hostState>>

Cancel(a) ==
  /\ at[a] # "done"
  /\ ~intent[a]
  /\ intent' = [intent EXCEPT ![a] = TRUE]
  /\ UNCHANGED <<session, at, ticket, status, verdict, queue, next, hostState>>

-----------------------------------------------------------------------------
(* awaitResult, on the calling thread or on a lane. *)

\* Mutant of CheckIntent: no look at the intent before the wait.
CheckNothing(a) ==
  /\ at[a] = "checking"
  /\ ticket' = [ticket EXCEPT ![a] = "awaited"]
  /\ goto(a, "awaiting")
  /\ UNCHANGED <<session, intent, status, verdict, queue, next, hostState>>

CheckIntent(a) ==
  /\ at[a] = "checking"
  /\ \/ /\ canceled(a)
        /\ ticket' = [ticket EXCEPT ![a] = "canceled"]
        /\ set(a, "canceled")
        /\ goto(a, "destroying")
     \/ /\ ~canceled(a)
        /\ ticket' = [ticket EXCEPT ![a] = "awaited"]
        /\ goto(a, "awaiting")
        /\ UNCHANGED verdict
  /\ UNCHANGED <<session, intent, status, queue, next, hostState>>

\* ask_ticket_await returns within the caller's window.
AwaitReturns(a) ==
  /\ at[a] = "awaiting"
  /\ \E s \in {"response", "deadletter", "otherKind", "wouldBlock", "failure"} :
       status' = [status EXCEPT ![a] = s]
  /\ ticket' = [ticket EXCEPT ![a] = "live"]
  /\ goto(a, "awaited")
  /\ UNCHANGED <<session, intent, verdict, queue, next, hostState>>

\* Mutant of Project: the intent is looked at before the status.
ProjectCanceled(a) ==
  /\ at[a] = "awaited"
  /\ \/ /\ canceled(a)
        /\ ticket' = [ticket EXCEPT ![a] = "canceled"]
        /\ set(a, "canceled")
     \/ /\ ~canceled(a)
        /\ set(a, IF status[a] = "wouldBlock" THEN "timeout" ELSE
                  IF status[a] = "failure" THEN "failure" ELSE "answered")
        /\ UNCHANGED ticket
  /\ goto(a, "destroying")
  /\ UNCHANGED <<session, intent, status, queue, next, hostState>>

\* A failure of Core is reported even if the task was canceled meanwhile; the
\* copy of an answer may fail as well.
Project(a) ==
  /\ at[a] = "awaited"
  /\ \/ /\ status[a] = "failure"
        /\ set(a, "failure")
        /\ UNCHANGED ticket
     \/ /\ status[a] # "failure"
        /\ canceled(a)
        /\ ticket' = [ticket EXCEPT ![a] = "canceled"]
        /\ set(a, "canceled")
     \/ /\ status[a] = "wouldBlock"
        /\ ~canceled(a)
        /\ set(a, "timeout")
        /\ UNCHANGED ticket
     \/ /\ status[a] \in {"response", "deadletter", "otherKind"}
        /\ ~canceled(a)
        /\ \E v \in {"answered", "failure"} : set(a, v)
        /\ UNCHANGED ticket
  /\ goto(a, "destroying")
  /\ UNCHANGED <<session, intent, status, queue, next, hostState>>

\* Mutant of DestroyTicket: the borrow is returned before the ticket.
EndBorrowFirst(a) ==
  /\ at[a] = "destroying"
  /\ Session!Return(a)
  /\ goto(a, "returning")
  /\ UNCHANGED <<intent, ticket, status, verdict, queue, next, hostState>>

DestroyTicket(a) ==
  /\ at[a] = "destroying"
  /\ ticket' = [ticket EXCEPT ![a] = "destroyed"]
  /\ goto(a, "returning")
  /\ UNCHANGED <<session, intent, status, verdict, queue, next, hostState>>

\* Mutant of EndBorrow: a canceled ask returns early.
EndBorrowUnlessCanceled(a) ==
  /\ at[a] = "returning"
  /\ IF verdict[a] = "canceled" THEN UNCHANGED session ELSE Session!Return(a)
  /\ goto(a, IF a \in SyncAsks THEN "accepting" ELSE "resuming")
  /\ UNCHANGED <<intent, ticket, status, verdict, queue, next, hostState>>

EndBorrow(a) ==
  /\ at[a] = "returning"
  /\ Session!Return(a)
  /\ goto(a, IF a \in SyncAsks THEN "accepting" ELSE "resuming")
  /\ UNCHANGED <<intent, ticket, status, verdict, queue, next, hostState>>

\* Mutant of Resume: an error does not resume the continuation.
ResumeOnSuccess(a) ==
  /\ at[a] = "resuming"
  /\ verdict[a] = "answered"
  /\ queue' = [l \in lane |-> IF queue[l] # <<>> /\ Head(queue[l]) = a THEN Tail(queue[l]) ELSE queue[l]]
  /\ goto(a, "accepting")
  /\ UNCHANGED <<session, intent, ticket, status, verdict, next, hostState>>

\* The continuation is resumed, with a result or an error, and the lane goes on.
Resume(a) ==
  /\ at[a] = "resuming"
  /\ queue' = [l \in lane |-> IF queue[l] # <<>> /\ Head(queue[l]) = a THEN Tail(queue[l]) ELSE queue[l]]
  /\ goto(a, "accepting")
  /\ UNCHANGED <<session, intent, ticket, status, verdict, next, hostState>>

\* accept, which an error skips: answers are counted under clientLock, then an
\* unknown kind is refused and what is left may fail to decode.
Accept(a) ==
  /\ at[a] = "accepting"
  /\ IF verdict[a] = "answered"
     THEN /\ matched' = [k \in DOMAIN matched |-> matched[k] + (IF k = status[a] THEN 1 ELSE 0)]
          /\ \E v \in {status[a], "undecoded"} \ {"otherKind"} : set(a, v)
     ELSE UNCHANGED <<matched, verdict>>
  /\ goto(a, "done")
  /\ UNCHANGED <<session, intent, ticket, status, queue, next, nextID, id>>

-----------------------------------------------------------------------------
(* The rest of the session: close() seals it, the runner releases it. *)
Others ==
  /\ Session!Seal \/ Session!Release
  /\ UNCHANGED <<at, intent, ticket, status, verdict, queue, next, hostState>>

Continue(a) ==
  \/ Enqueue(a) \/ LaneRuns(a)
  \/ CheckIntent(a) \/ AwaitReturns(a) \/ Project(a)
  \/ DestroyTicket(a) \/ EndBorrow(a) \/ Resume(a) \/ Accept(a)

Next ==
  \/ \E a \in Asks : CheckCancellation(a) \/ TakeIdentity(a) \/ BeginRefused(a) \/ Begin(a) \/ Continue(a)
  \/ \E a \in AsyncAsks : Cancel(a)
  \/ Others

Spec == Init /\ [][Next]_vars

\* A call that has begun goes on; the native wait is bounded by its window.
Fairness ==
  /\ \A a \in Asks : WF_vars(Continue(a))
  /\ WF_vars(Session!Release /\ Others)

FairSpec == Spec /\ Fairness

-----------------------------------------------------------------------------
(* Properties *)

Verdicts == {"none", "refused", "exhausted", "canceled", "timeout", "failure",
             "answered", "undecoded", "response", "deadletter"}

\* The variables keep their types; a job is in one lane from the time it is
\* enqueued until its continuation is resumed.
TypeOK ==
  /\ phase \in {"open", "sealed", "released"}
  /\ borrowed \subseteq Asks
  /\ at \in [Asks -> {"idle", "identified", "begun", "queued", "checking", "awaiting", "awaited",
                      "destroying", "returning", "resuming", "accepting", "done"}]
  /\ intent \in [AsyncAsks -> BOOLEAN]
  /\ ticket \in [Asks -> {"none", "live", "awaited", "canceled", "destroyed"}]
  /\ verdict \in [Asks -> Verdicts]
  /\ next \in lane
  /\ id \in [Asks -> 0..MaxID] /\ nextID \in 0..MaxID
  /\ \A a \in AsyncAsks :
       Cardinality({p \in lane \X (1..Cardinality(Asks)) :
                      p[2] <= Len(queue[p[1]]) /\ queue[p[1]][p[2]] = a})
         = IF at[a] \in {"idle", "identified", "begun", "accepting", "done"} THEN 0 ELSE 1

\* The borrow outlives the ticket: when the session has released the ask client,
\* no ticket of it is left (client.h: destroyed after host calls quiesce).
TicketsBeforeRelease ==
  phase = "released" => \A a \in Asks : ticket[a] \in {"none", "destroyed"}

\* Calls on one ticket are serialized: while a wait is inside Core nothing
\* cancels or destroys that ticket.
TicketSerialized ==
  [][\A a \in Asks :
       ticket[a] = "awaited" /\ ticket'[a] # "awaited" => at[a] = "awaiting" /\ at'[a] = "awaited"]_vars

\* No two asks of a host carry the same message identity (Core matches answers by
\* it), nor will a later one, although refused asks interleave with others that have
\* taken theirs.
IdentitiesUnique ==
  /\ \A a, b \in Asks : a # b /\ id[a] # 0 => id[a] # id[b]
  /\ nextID + 1 \notin {id[a] : a \in Asks}

\* Cancellation never hides what Core reported: a failed wait is a failure to the
\* caller.  And the host's counters are what its callers were answered, canceled
\* and timed out asks excluded.
OutcomeKept ==
  /\ \A a \in Asks : status[a] = "failure" /\ at[a] = "done" => verdict[a] = "failure"
  /\ \A k \in DOMAIN matched :
       matched[k] = Cardinality({a \in Asks : status[a] = k /\ verdict[a] \in {k, "undecoded"}})

\* Cancellation that comes while the job is queued takes effect, and the native
\* wait is never entered.
QueuedCancellation ==
  \A a \in AsyncAsks :
    at[a] = "queued" /\ intent[a] ~> verdict[a] = "canceled" /\ status[a] = "none"

\* What keeps that promise at each step: an ask canceled before its wait stays on
\* the way that leads to no wait and to a canceled verdict.
willBeCanceled(a) ==
  /\ intent[a] /\ status[a] = "none"
  /\ \/ at[a] \in {"queued", "checking"}
     \/ at[a] \in {"destroying", "returning", "resuming", "accepting", "done"} /\ verdict[a] = "canceled"

CancellationStays == [][\A a \in AsyncAsks : willBeCanceled(a) => willBeCanceled(a)']_vars

\* Every ask that has begun returns to its caller, whatever waits before it in
\* its lane.
AskReturns == \A a \in Asks : at[a] = "begun" \/ at[a] = "checking" ~> at[a] = "done"

\* The ask's next step can be taken: only a job that its lane does not run waits.
canContinue(a) ==
  \/ at[a] \in {"begun", "checking", "awaiting", "awaited", "destroying", "resuming", "accepting"}
  \/ at[a] = "queued" /\ runs(a)
  \/ at[a] = "returning" /\ a \in borrowed

\* No ask waits for one that cannot go on: each that has begun can take its next
\* step, or is queued in a lane whose first job can take its own.
NeverStuck ==
  \A a \in Asks :
    at[a] \notin {"idle", "identified", "done"} =>
      \/ canContinue(a)
      \/ \E l \in lane : canContinue(Head(queue[l])) /\ \E i \in 1..Len(queue[l]) : queue[l][i] = a

\* The session is borrowed by exactly the asks that have a ticket to wait on or to
\* destroy: none is counted before it has one, nor once it ended, whatever its end.
BorrowedWhileAsked ==
  borrowed = {a \in Asks : at[a] \in {"begun", "queued", "checking", "awaiting", "awaited",
                                      "destroying", "returning"}}

\* The asks keep their side of the ownership promise: every borrow is returned,
\* canceled, timed out and failed ones too, so a sealed session is released.
ReturnsBorrows == Session!Spec
=============================================================================
