--------------------------- MODULE RuntimeSession ---------------------------
(***************************************************************************)
(* RuntimeSession: who may touch the native objects of one started host,   *)
(* and who retires them.  Actors: the runner (one serial Dispatch queue    *)
(* that reads delivered requests and runs the handlers), ask borrowers,    *)
(* callers of close(), and the deinit of RuntimeHost.                      *)
(*                                                                         *)
(* A section of code under RuntimeSession.lock is one step, the native     *)
(* calls it makes included: every other access to that state takes the     *)
(* same lock.  Native calls made outside the lock (reading, releasing a    *)
(* frame, awaiting and destroying a ticket) are steps of their own.        *)
(***************************************************************************)
EXTENDS Naturals, FiniteSets

CONSTANTS
  Asks,            \* borrowers: threads and tasks that ask
  HandlerAsks,     \* those of them that ask from inside a request handler
  Closers,         \* threads that call close()
  HandlerClosers,  \* those of them that call it from inside a request handler
  NoOne,           \* nobody holds closeLock
  MaxActive,       \* 64 in the code: admitted asks per session
  MaxRefusals      \* how often runtime_stop may refuse (0: never, as documented)

ASSUME SessionAssumption ==
  /\ HandlerAsks \subseteq Asks
  /\ IsFiniteSet(Asks)
  /\ HandlerClosers \subseteq Closers
  /\ NoOne \notin Closers
  /\ MaxActive \in Nat \ {0}
  /\ MaxRefusals \in Nat

VARIABLES
  session,      \* the fields RuntimeSession.lock guards, and Core's own state
  runner,       \* where the request runner is
  frame,        \* it holds a delivered frame
  reader,       \* the native request reader is live
  readFailure,  \* RuntimeSession.readFailure is set
  readerDone,   \* readerDone.leave() has been called
  ask,          \* where each borrower is
  closer,       \* where each caller of close() is
  closeOwner,   \* the caller that holds closeLock
  verdict,      \* how each caller's last close() ended
  host,         \* the application holds the host, or its deinit has run
  refusals      \* stops refused so far

vars == <<session, runner, frame, reader, readFailure, readerDone,
          ask, closer, closeOwner, verdict, host, refusals>>

SessionFields ==
  [runtime         : {"live", "nil"},       \* the Swift pointer
   core            : {"started", "stopped", "destroyed"},
   closing         : BOOLEAN,
   readerRetired   : BOOLEAN,
   stopped         : BOOLEAN,
   stopFailure     : BOOLEAN,
   failedStopOwner : BOOLEAN,               \* the session retains itself
   activeAsks      : Nat,
   retirements     : 0..2]                  \* calls of retirementDone.leave()

Init ==
  /\ session = [runtime |-> "live", core |-> "started", closing |-> FALSE,
                readerRetired |-> FALSE, stopped |-> FALSE, stopFailure |-> FALSE,
                failedStopOwner |-> FALSE, activeAsks |-> 0, retirements |-> 0]
  /\ runner = "checking"
  /\ frame = FALSE
  /\ reader = "live"
  /\ readFailure = FALSE
  /\ readerDone = FALSE
  /\ ask = [a \in Asks |-> "idle"]
  /\ closer = [c \in Closers |-> "idle"]
  /\ closeOwner = NoOne
  /\ verdict = [c \in Closers |-> "none"]
  /\ host = "held"
  /\ refusals = 0

-----------------------------------------------------------------------------
(* The two operations that run under the lock, as functions of its fields. *)

mayStop(s) == s.readerRetired /\ ~s.stopped /\ s.runtime = "live"

stopLocked(s, accepted) ==
  IF mayStop(s)
  THEN [s EXCEPT !.core = IF accepted THEN "stopped" ELSE s.core,
                 !.stopped = accepted,
                 !.stopFailure = ~accepted,
                 !.failedStopOwner = ~accepted]
  ELSE s

mayRetire(s) ==
  s.readerRetired /\ s.stopped /\ s.activeAsks = 0 /\ s.runtime = "live"

\* Destroys the ask client, the handles and the runtime, in that order.
retireLocked(s) ==
  IF mayRetire(s)
  THEN [s EXCEPT !.core = "destroyed", !.runtime = "nil",
                 !.retirements = s.retirements + 1]
  ELSE s

\* Mutant of isOpen: closing does not seal admission.
isOpenUntilRetired(s) == s.runtime = "live"

isOpen(s) == ~s.closing /\ s.runtime = "live"

\* Core accepts a stop or, within the budget, refuses it.
StopOutcome(s, accepted) ==
  /\ accepted \in BOOLEAN
  /\ mayStop(s) \/ accepted
  /\ accepted \/ refusals < MaxRefusals
  /\ refusals' = IF accepted THEN refusals ELSE refusals + 1

-----------------------------------------------------------------------------
(* The request runner. *)

runnerOnly == <<ask, closer, closeOwner, verdict, host>>

\* while !isClosing
CheckClosing ==
  /\ runner = "checking"
  /\ runner' = IF session.closing THEN "exiting" ELSE "reading"
  /\ UNCHANGED <<session, frame, reader, readFailure, readerDone, refusals, runnerOnly>>

\* reader_read: nothing within 100 ms, a frame, a terminal status, a native
\* failure without a frame, or a frame the runner cannot read.
Read ==
  /\ runner = "reading"
  /\ \/ runner' = "checking" /\ UNCHANGED <<frame, readFailure>>
     \/ runner' = "dispatching" /\ frame' = TRUE /\ UNCHANGED readFailure
     \/ runner' = "exiting" /\ UNCHANGED <<frame, readFailure>>
     \/ runner' = "exiting" /\ readFailure' = TRUE /\ UNCHANGED frame
     \/ runner' = "rejecting" /\ frame' = TRUE /\ readFailure' = TRUE
  /\ UNCHANGED <<session, reader, readerDone, refusals, runnerOnly>>

\* The handler returns and the frame is released.  It cannot return while it
\* waits for an ask of its own or is inside a close() of its own.
DispatchReturns ==
  /\ runner = "dispatching"
  /\ \A a \in HandlerAsks : ask[a] = "idle"
  /\ \A c \in HandlerClosers : closer[c] = "idle"
  /\ runner' = "checking"
  /\ frame' = FALSE
  /\ UNCHANGED <<session, reader, readFailure, readerDone, refusals, runnerOnly>>

ReleaseRejected ==
  /\ runner = "rejecting"
  /\ runner' = "exiting"
  /\ frame' = FALSE
  /\ UNCHANGED <<session, reader, readFailure, readerDone, refusals, runnerOnly>>

\* Mutant of DestroyReader: the runner leaves the reader to Core's stop.
KeepReader ==
  /\ runner = "exiting"
  /\ runner' = "retiring"
  /\ UNCHANGED <<session, frame, reader, readFailure, readerDone, refusals, runnerOnly>>

DestroyReader ==
  /\ runner = "exiting"
  /\ runner' = "retiring"
  /\ reader' = "destroyed"
  /\ UNCHANGED <<session, frame, readFailure, readerDone, refusals, runnerOnly>>

\* The locked part of the runner's exit.
RunnerRetires ==
  /\ runner = "retiring"
  /\ runner' = "leaving"
  /\ LET s == [session EXCEPT !.readerRetired = TRUE, !.closing = TRUE]
     IN \E accepted \in BOOLEAN :
          /\ StopOutcome(s, accepted)
          /\ session' = retireLocked(stopLocked(s, accepted))
  /\ UNCHANGED <<frame, reader, readFailure, readerDone, runnerOnly>>

RunnerLeaves ==
  /\ runner = "leaving"
  /\ runner' = "gone"
  /\ readerDone' = TRUE
  /\ UNCHANGED <<session, frame, reader, readFailure, refusals, runnerOnly>>

Runner ==
  \/ CheckClosing \/ Read \/ DispatchReturns \/ ReleaseRejected
  \/ DestroyReader \/ RunnerRetires \/ RunnerLeaves

-----------------------------------------------------------------------------
(* Ask borrowers. *)

asksOnly == <<runner, frame, reader, readFailure, readerDone,
              closer, closeOwner, verdict, host, refusals>>

\* begin: a refused ask changes nothing and throws.
Begin(a) ==
  /\ ask[a] = "idle"
  /\ host = "held"
  /\ a \in HandlerAsks => runner = "dispatching"
  /\ isOpen(session)
  /\ session.activeAsks < MaxActive
  /\ ask' = [ask EXCEPT ![a] = "awaiting"]
  /\ session' = [session EXCEPT !.activeAsks = session.activeAsks + 1]
  /\ UNCHANGED asksOnly

\* The await ends (result, timeout, CLOSED, failure) or is skipped for a
\* cancelled task, and the ticket is destroyed.
DestroyTicket(a) ==
  /\ ask[a] = "awaiting"
  /\ ask' = [ask EXCEPT ![a] = "returning"]
  /\ UNCHANGED <<session, asksOnly>>

\* Mutant of endBorrow: the last borrower does not retire.
endBorrowOnly(a) ==
  /\ ask[a] = "returning"
  /\ ask' = [ask EXCEPT ![a] = "idle"]
  /\ session' = [session EXCEPT !.activeAsks = session.activeAsks - 1]
  /\ UNCHANGED asksOnly

endBorrow(a) ==
  /\ ask[a] = "returning"
  /\ ask' = [ask EXCEPT ![a] = "idle"]
  /\ session' = retireLocked([session EXCEPT !.activeAsks = session.activeAsks - 1])
  /\ UNCHANGED asksOnly

Asking(a) == DestroyTicket(a) \/ endBorrow(a)

-----------------------------------------------------------------------------
(* Callers of close(), and the last reference to the host. *)

closersOnly == <<runner, frame, reader, readFailure, readerDone, ask, host>>

\* The Dispatch specific key tells a handler that closes its own host.
onRequestQueue(c) == c \in HandlerClosers

CallClose(c) ==
  /\ closer[c] = "idle"
  /\ host = "held"
  /\ c \in HandlerClosers => runner = "dispatching"
  /\ \/ /\ onRequestQueue(c)
        /\ verdict' = [verdict EXCEPT ![c] = "reentrant"]
        /\ UNCHANGED <<closer, closeOwner>>
     \/ /\ ~onRequestQueue(c)
        /\ closeOwner # NoOne
        /\ verdict' = [verdict EXCEPT ![c] = "busy"]
        /\ UNCHANGED <<closer, closeOwner>>
     \/ /\ ~onRequestQueue(c)
        /\ closeOwner = NoOne
        /\ closeOwner' = c
        /\ closer' = [closer EXCEPT ![c] = "sealing"]
        /\ verdict' = [verdict EXCEPT ![c] = "none"]
  /\ UNCHANGED <<session, refusals, closersOnly>>

\* requestRetirement
Seal(c) ==
  /\ closer[c] = "sealing"
  /\ closer' = [closer EXCEPT ![c] = "joining"]
  /\ session' = [session EXCEPT !.closing = TRUE]
  /\ UNCHANGED <<closeOwner, verdict, refusals, closersOnly>>

\* The call returns or throws, and closeLock is released.
Finish(c, how) ==
  /\ closer' = [closer EXCEPT ![c] = "idle"]
  /\ closeOwner' = NoOne
  /\ verdict' = [verdict EXCEPT ![c] = how]

\* Mutant of Join: a join that times out goes on to stop.
JoinOrGoOn(c) ==
  /\ closer[c] = "joining"
  /\ closer' = [closer EXCEPT ![c] = "stopping"]
  /\ UNCHANGED <<session, closeOwner, verdict, refusals, closersOnly>>

\* Mutant of Join: waits for the retirement, without a deadline.
JoinRetirement(c) ==
  /\ closer[c] = "joining"
  /\ session.retirements > 0
  /\ closer' = [closer EXCEPT ![c] = "stopping"]
  /\ UNCHANGED <<session, closeOwner, verdict, refusals, closersOnly>>

\* readerDone.wait, one second
Join(c) ==
  /\ closer[c] = "joining"
  /\ \/ /\ readerDone
        /\ closer' = [closer EXCEPT ![c] = "stopping"]
        /\ UNCHANGED <<closeOwner, verdict>>
     \/ ~readerDone /\ Finish(c, "joinTimeout")
  /\ UNCHANGED <<session, refusals, closersOnly>>

\* Stops and retires unless the runner's own stop was accepted.
CloseStops(c) ==
  /\ closer[c] = "stopping"
  /\ \E accepted \in BOOLEAN :
       /\ StopOutcome(session, accepted)
       /\ session' = IF session.stopped THEN session
                     ELSE retireLocked(stopLocked(session, accepted))
  /\ \/ session'.stopFailure /\ Finish(c, "stopRefused")
     \/ /\ ~session'.stopFailure
        /\ closer' = [closer EXCEPT ![c] = "draining"]
        /\ UNCHANGED <<closeOwner, verdict>>
  /\ UNCHANGED closersOnly

\* retirementDone.wait, one second
Drain(c) ==
  /\ closer[c] = "draining"
  /\ \/ session.retirements > 0 /\ Finish(c, "ok")
     \/ session.retirements = 0 /\ Finish(c, "drainTimeout")
  /\ UNCHANGED <<session, refusals, closersOnly>>

Closing(c) == Seal(c) \/ Join(c) \/ CloseStops(c) \/ Drain(c)

\* RuntimeHost.deinit: no call on the host is running when its last reference
\* goes, and the runner's dispatch closure holds it only weakly.
Deinit ==
  /\ host = "held"
  /\ runner # "dispatching"
  /\ \A a \in Asks : ask[a] = "idle"
  /\ \A c \in Closers : closer[c] = "idle"
  /\ host' = "dropped"
  /\ session' = [session EXCEPT !.closing = TRUE]
  /\ UNCHANGED <<runner, frame, reader, readFailure, readerDone,
                 ask, closer, closeOwner, verdict, refusals>>

-----------------------------------------------------------------------------
Next ==
  \/ Runner
  \/ \E a \in Asks : Begin(a) \/ Asking(a)
  \/ \E c \in Closers : CallClose(c) \/ Closing(c)
  \/ Deinit

Spec == Init /\ [][Next]_vars

\* Dispatch runs the queued runner, handlers return, every native wait has a
\* timeout and a started call goes on.  Nobody is obliged to ask, to close or
\* to drop the host.
Fairness ==
  /\ WF_vars(Runner)
  /\ \A a \in Asks : WF_vars(Asking(a))
  /\ \A c \in Closers : WF_vars(Closing(c))

FairSpec == Spec /\ Fairness

-----------------------------------------------------------------------------
(* Correctness. *)

RunnerPlaces == {"checking", "reading", "dispatching", "rejecting",
                 "exiting", "retiring", "leaving", "gone"}
CloserPlaces == {"idle", "sealing", "joining", "stopping", "draining"}
Verdicts == {"none", "ok", "busy", "reentrant",
             "joinTimeout", "stopRefused", "drainTimeout"}

\* Every variable keeps its type.
TypeOK ==
  /\ session \in SessionFields
  /\ runner \in RunnerPlaces
  /\ frame \in BOOLEAN
  /\ reader \in {"live", "destroyed"}
  /\ readFailure \in BOOLEAN
  /\ readerDone \in BOOLEAN
  /\ ask \in [Asks -> {"idle", "awaiting", "returning"}]
  /\ closer \in [Closers -> CloserPlaces]
  /\ closeOwner \in Closers \cup {NoOne}
  /\ verdict \in [Closers -> Verdicts]
  /\ host \in {"held", "dropped"}
  /\ refusals \in 0..MaxRefusals

borrowers == {a \in Asks : ask[a] # "idle"}

\* Core serves the reader until the reader is gone: the runner releases its
\* frame, destroys the reader, and only then may anyone (the runner itself or
\* a caller of close()) stop the runtime.
ReaderBeforeStop ==
  /\ frame => reader = "live"
  /\ reader = "live" => session.core = "started"

\* The client, the handles and the runtime are destroyed after an accepted
\* stop, after the reader, and when no borrower is left: not even one that has
\* destroyed its ticket and is about to give the borrow back.
RetirementOrder ==
  session.core = "destroyed" =>
    /\ reader = "destroyed"
    /\ session.stopped
    /\ borrowers = {}

\* activeAsks is the number of borrowers, whatever begin, endBorrow and the
\* threads that seal the session interleave to.
BorrowsCounted == session.activeAsks = Cardinality(borrowers)

\* Whoever comes last retires (the runner, a borrower or a caller of close()):
\* when the lock is free, nothing that may be retired is left unretired, and
\* nothing is retired twice (a second leave of the group would trap).
RetiredExactlyWhenDue ==
  /\ ~mayRetire(session)
  /\ session.retirements = (IF session.runtime = "nil" THEN 1 ELSE 0)
  /\ session.runtime = "nil" <=> session.core = "destroyed"

\* A refused stop leaves every owner in place for the next close(), and the
\* session retains itself.
RefusedStopKeepsOwner ==
  session.stopFailure \/ session.failedStopOwner =>
    /\ session.failedStopOwner
    /\ session.runtime = "live"
    /\ session.core = "started"
    /\ ~session.stopped

\* A close() that returned without an error has found the runner gone and every
\* native object retired, and one that goes on past the stop has found it
\* accepted: a stale failure is never reported, a fresh one never lost.
CloseTellsTheTruth ==
  \A c \in Closers :
    /\ verdict[c] = "ok" => readerDone /\ session.core = "destroyed"
    /\ closer[c] = "draining" => session.stopped /\ ~session.stopFailure

\* A handler never waits for the runner it runs on: its close() is refused.
NeverJoinsItself == \A c \in HandlerClosers : closer[c] = "idle"

\* The session implements NativeOwner.
Owner == INSTANCE NativeOwner WITH
  Borrowers <- Asks,
  borrowed  <- borrowers,
  phase     <- IF session.runtime = "nil" THEN "released"
               ELSE IF session.closing THEN "sealed" ELSE "open"

\* Every step of the session is a step of NativeOwner or a stutter.
OwnsNativeObjects == Owner!Safe

\* Sealing is enough: whether by a close() that timed out, by the deinit of the
\* host or by a failed reader, the session ends up retired with no further call,
\* unless Core refuses the stop.  Then a close() that gets to stop a Core that
\* refuses no more retires it.
SealRetires ==
  /\ session.closing ~> session.core = "destroyed" \/ session.stopFailure
  /\ \A c \in Closers :
       closer[c] = "stopping" /\ refusals = MaxRefusals ~> session.core = "destroyed"

\* Every close() returns or throws.
CloseReturns == \A c \in Closers : closer[c] # "idle" ~> closer[c] = "idle"

\* Dropping the host retires the session.
DropRetires == host = "dropped" ~> session.core = "destroyed"
=============================================================================
