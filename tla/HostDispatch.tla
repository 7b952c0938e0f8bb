---------------------------- MODULE HostDispatch ----------------------------
(***************************************************************************)
(* RuntimeHost as the application sees it: threads register handlers while *)
(* the request runner dispatches to them.  The runner remembers its last   *)
(* target and handler and takes no lock when the same target comes again.  *)
(*                                                                         *)
(* A handler may itself register or ask for diagnostics: the runner holds *)
(* no lock then, so that is one more thread.                               *)
(*                                                                         *)
(* Two locks: the session's and clientLock.  A section that takes one lock *)
(* and no other is one step and needs it free; `locked` shows the holder   *)
(* where a lock is kept while another is waited for.                       *)
(***************************************************************************)
EXTENDS Naturals, FiniteSets

CONSTANTS
  Threads,          \* application threads
  Targets,
  size,             \* size[t]: bytes of a target's name
  None,             \* no handler, no target, no holder
  MaxHandlers,      \* 256 in the code
  MaxBytes,         \* 64 KiB in the code
  MaxProjected,     \* 256 in the code: longer names are not remembered
  MaxRequests       \* requests delivered (a bound of the model)

ASSUME DispatchAssumption ==
  /\ size \in [Targets -> Nat \ {0}]
  /\ IsFiniteSet(Targets)
  /\ None \notin Threads \cup Targets
  /\ {MaxHandlers, MaxBytes, MaxProjected, MaxRequests} \subseteq Nat

VARIABLES
  closing,          \* the session is sealed
  locked,           \* the holder of each lock
  handlers,         \* the thread whose handler a target has
  registrationBytes,
  projection,       \* dispatchProjection: target and handler
  thread,           \* what each thread is doing
  runner,           \* where the runner is in dispatchRequest
  request,          \* the request, and what was registered when it came
  handler,          \* the handler found for it
  taken,            \* requests handed over by Core
  deliveredRequests,
  replies,          \* replies Core was given
  dispatchFailures

counters == <<taken, deliveredRequests, replies, dispatchFailures>>
vars == <<closing, locked, handlers, registrationBytes, projection,
          thread, runner, request, handler, counters>>

nothing == [target |-> None, handler |-> None]
idle == [at |-> "idle", target |-> None]
noRequest == [target |-> None, oneWay |-> FALSE, expected |-> None]

Init ==
  /\ closing = FALSE
  /\ locked = [l \in {"session", "client"} |-> None]
  /\ handlers = [t \in Targets |-> None]
  /\ registrationBytes = 0
  /\ projection = nothing
  /\ thread = [p \in Threads |-> idle]
  /\ runner = "checking"
  /\ request = noRequest
  /\ handler = None
  /\ taken = 0 /\ deliveredRequests = 0 /\ replies = 0 /\ dispatchFailures = 0

free(l) == locked[l] = None
hold(l, p) == locked' = [locked EXCEPT ![l] = p]
registered == {t \in Targets : handlers[t] # None}
become(p, place) == thread' = [thread EXCEPT ![p] = place]

-----------------------------------------------------------------------------
(* Application threads. *)

runnerOnly == <<projection, runner, request, handler, counters>>

\* register enters session.withOpen; a sealed session refuses it.
Register(p, t) ==
  /\ thread[p].at = "idle"
  /\ free("session")
  /\ ~closing
  /\ hold("session", p)
  /\ become(p, [at |-> "registering", target |-> t])
  /\ UNCHANGED <<closing, handlers, registrationBytes, runnerOnly>>

\* Mutant of fits: one handler too many.
fitsOneMore(t) ==
  /\ Cardinality(registered) <= MaxHandlers
  /\ size[t] <= MaxBytes - registrationBytes

fits(t) ==
  /\ Cardinality(registered) < MaxHandlers
  /\ size[t] <= MaxBytes - registrationBytes

\* Mutant of Insert: a second registration replaces the first.
InsertOrReplace(p) ==
  /\ thread[p].at = "registering"
  /\ free("client")
  /\ LET t == thread[p].target
     IN \/ /\ fits(t)
           /\ handlers' = [handlers EXCEPT ![t] = p]
           /\ registrationBytes' = registrationBytes + size[t]
        \/ ~fits(t) /\ UNCHANGED <<handlers, registrationBytes>>
  /\ hold("session", None)
  /\ become(p, idle)
  /\ UNCHANGED <<closing, runnerOnly>>

\* The inner section, under both locks: a target that has a handler, or does not
\* fit, is refused.
Insert(p) ==
  /\ thread[p].at = "registering"
  /\ free("client")
  /\ LET t == thread[p].target
     IN \/ /\ handlers[t] = None
           /\ fits(t)
           /\ handlers' = [handlers EXCEPT ![t] = p]
           /\ registrationBytes' = registrationBytes + size[t]
        \/ /\ handlers[t] # None \/ ~fits(t)
           /\ UNCHANGED <<handlers, registrationBytes>>
  /\ hold("session", None)
  /\ become(p, idle)
  /\ UNCHANGED <<closing, runnerOnly>>

\* Mutant of Diagnose: clientLock is kept while the session is asked.
DiagnoseHolding(p) ==
  /\ thread[p].at = "idle"
  /\ free("client")
  /\ hold("client", p)
  /\ become(p, [at |-> "diagnosing", target |-> None])
  /\ UNCHANGED <<closing, handlers, registrationBytes, runnerOnly>>

\* dispatchDiagnostics copies the counters under clientLock ...
Diagnose(p) ==
  /\ thread[p].at = "idle"
  /\ free("client")
  /\ become(p, [at |-> "diagnosing", target |-> None])
  /\ UNCHANGED <<closing, locked, handlers, registrationBytes, runnerOnly>>

\* ... and then reads the session's failure under the session's lock.
ReadFailure(p) ==
  /\ thread[p].at = "diagnosing"
  /\ free("session")
  /\ locked' = [l \in DOMAIN locked |-> IF locked[l] = p THEN None ELSE locked[l]]
  /\ become(p, idle)
  /\ UNCHANGED <<closing, handlers, registrationBytes, runnerOnly>>

\* close(), a failed reader or the deinit seal the session.
Seal ==
  /\ ~closing
  /\ free("session")
  /\ closing' = TRUE
  /\ UNCHANGED <<locked, handlers, registrationBytes, thread, runnerOnly>>

-----------------------------------------------------------------------------
(* The runner: its loop, and dispatchRequest. *)

threadsOnly == <<closing, locked, handlers, registrationBytes, thread>>
uncounted == UNCHANGED counters
fail == runner' = "failing" /\ UNCHANGED <<request, handler, counters>>
finish == runner' = "checking" /\ request' = noRequest /\ handler' = None

\* The loop's condition, under the session's lock.
CheckClosing ==
  /\ runner = "checking"
  /\ free("session")
  /\ runner' = IF closing THEN "exiting" ELSE "reading"
  /\ UNCHANGED <<projection, request, handler, counters, threadsOnly>>

\* reader_read: a request, nothing, or the end.
Deliver(t, oneWay) ==
  /\ runner = "reading"
  /\ taken < MaxRequests
  /\ request' = [target |-> t, oneWay |-> oneWay, expected |-> handlers[t]]
  /\ taken' = taken + 1
  /\ runner' = "projecting"
  /\ UNCHANGED <<projection, handler, deliveredRequests, replies, dispatchFailures, threadsOnly>>

NoRequest ==
  /\ runner = "reading"
  /\ runner' \in {"checking", "exiting"}
  /\ UNCHANGED <<projection, request, handler, counters, threadsOnly>>

\* The runner's exit seals the session, whatever ended the loop.
Exit ==
  /\ runner = "exiting"
  /\ free("session")
  /\ closing' = TRUE
  /\ runner' = "gone"
  /\ UNCHANGED <<locked, handlers, registrationBytes, thread,
                 projection, request, handler, counters>>

\* copy_request_dispatch fails, its target is not one, or, once the handler is
\* known, its payload cannot be copied.
Unreadable ==
  /\ runner \in {"projecting", "counting"}
  /\ fail
  /\ UNCHANGED <<projection, threadsOnly>>

projected == projection.target # None /\ projection.target = request.target

UseProjection ==
  /\ runner = "projecting"
  /\ projected
  /\ handler' = projection.handler
  /\ runner' = "counting"
  /\ UNCHANGED <<projection, request, counters, threadsOnly>>

\* Found handlers are remembered, misses are not.
LookUp ==
  /\ runner = "projecting"
  /\ ~projected
  /\ free("client")
  /\ handler' = handlers[request.target]
  /\ projection' = IF size[request.target] <= MaxProjected /\ handler' # None
                   THEN [target |-> request.target, handler |-> handler'] ELSE projection
  /\ runner' = "counting"
  /\ UNCHANGED <<request, counters, threadsOnly>>

\* A request without a handler ends here, unanswered.
Count ==
  /\ runner = "counting"
  /\ free("client")
  /\ \/ handler # None /\ runner' = "running" /\ UNCHANGED <<request, handler>>
     \/ handler = None /\ finish
  /\ deliveredRequests' = deliveredRequests + 1
  /\ UNCHANGED <<projection, taken, replies, dispatchFailures, threadsOnly>>

\* The handler returns or throws; a one-way request gets no reply.
HandlerReturns ==
  /\ runner = "running"
  /\ \/ fail
     \/ request.oneWay /\ finish /\ uncounted
     \/ ~request.oneWay /\ runner' = "replying" /\ UNCHANGED <<request, handler, counters>>
  /\ UNCHANGED <<projection, threadsOnly>>

submit ==
  /\ ~closing
  /\ replies' = replies + 1
  /\ finish
  /\ UNCHANGED <<taken, deliveredRequests, dispatchFailures>>

\* Mutant of Reply: a closed session is passed over in silence.
ReplyOrForget ==
  /\ runner = "replying"
  /\ free("session")
  /\ submit \/ fail \/ (closing /\ finish /\ uncounted)
  /\ UNCHANGED <<projection, threadsOnly>>

\* Under session.withOpen: builds and submits the reply, or throws.
Reply ==
  /\ runner = "replying"
  /\ free("session")
  /\ submit \/ fail
  /\ UNCHANGED <<projection, threadsOnly>>

Fail ==
  /\ runner = "failing"
  /\ free("client")
  /\ dispatchFailures' = dispatchFailures + 1
  /\ finish
  /\ UNCHANGED <<taken, deliveredRequests, replies, projection, threadsOnly>>

-----------------------------------------------------------------------------
Dispatch ==
  \/ CheckClosing \/ NoRequest \/ Exit
  \/ Unreadable \/ UseProjection \/ LookUp \/ Count
  \/ HandlerReturns \/ Reply \/ Fail

Continue(p) == Insert(p) \/ ReadFailure(p)

Next ==
  \/ \E p \in Threads : Diagnose(p) \/ Continue(p) \/ \E t \in Targets : Register(p, t)
  \/ Seal
  \/ \E t \in Targets, oneWay \in BOOLEAN : Deliver(t, oneWay)
  \/ Dispatch

Spec == Init /\ [][Next]_vars

\* Locks are granted in the end, handlers return, started calls go on.
Fairness ==
  /\ SF_vars(Dispatch)
  /\ \A p \in Threads : SF_vars(Continue(p))

FairSpec == Spec /\ Fairness

-----------------------------------------------------------------------------
(* Properties. *)

\* The type invariant; a remembered target always has a handler.
TypeOK ==
  /\ closing \in BOOLEAN
  /\ locked \in [{"session", "client"} -> Threads \cup {None}]
  /\ handlers \in [Targets -> Threads \cup {None}]
  /\ registrationBytes \in 0..MaxBytes
  /\ projection \in [target : Targets, handler : Threads] \cup {nothing}
  /\ thread \in [Threads -> [at : {"idle", "registering", "diagnosing"},
                             target : Targets \cup {None}]]
  /\ runner \in {"checking", "reading", "projecting", "counting", "running",
                  "replying", "failing", "exiting", "gone"}
  /\ request \in [target : Targets \cup {None}, oneWay : BOOLEAN,
                   expected : Threads \cup {None}]
  /\ handler \in Threads \cup {None}
  /\ {taken, deliveredRequests, replies, dispatchFailures} \subseteq 0..MaxRequests

\* What dispatchRequest found for a request is the handler of its own target, and
\* a handler registered before the request came is never missed, whether the
\* answer came from the table or, without a lock, from dispatchProjection.
RightHandler ==
  runner \in {"counting", "running", "replying"} =>
    /\ handler # None => handlers[request.target] = handler
    /\ request.expected # None => handler = request.expected

\* The runner's unlocked copy agrees with the table at every moment, also while
\* other threads register.
ProjectionCurrent ==
  projection # nothing => handlers[projection.target] = projection.handler

\* register's two limits, the running total being of names that were registered.
WithinLimits ==
  /\ Cardinality(registered) <= MaxHandlers
  /\ registrationBytes <= MaxBytes

\* dispatchRequest leaves no two-way request with a handler behind in silence: it
\* is answered or counted as a failure, once, also when the session was sealed
\* while the handler ran.
Answered ==
  [][request.target # None /\ request'.target = None /\ handler # None /\ ~request.oneWay
     => \/ replies' = replies + 1 /\ UNCHANGED dispatchFailures
        \/ dispatchFailures' = dispatchFailures + 1 /\ UNCHANGED replies]_vars

\* register and dispatchDiagnostics return and every request is done with: the two
\* locks are always taken in one order, so no two callers block each other, or the
\* runner.
CallsReturn ==
  /\ \A p \in Threads : thread[p].at # "idle" ~> thread[p].at = "idle"
  /\ request.target # None ~> request.target = None

\* What a thread inside a call, and the runner, need for their next step.
canContinue(p) ==
  \/ thread[p].at = "registering" /\ free("client")
  \/ thread[p].at = "diagnosing" /\ free("session")
runnerCanContinue ==
  /\ runner \in {"checking", "replying", "exiting"} => free("session")
  /\ runner \in {"counting", "failing"} => free("client")
  /\ runner = "projecting" => projected \/ free("client")

\* The safety core of CallsReturn: whoever waits for a lock, a caller or the runner,
\* waits for a thread that can go on and that gives the lock up when it does.  No
\* circle of waiting passes through register, dispatchDiagnostics and dispatchRequest.
NeverStuck ==
  LET passing == \E p \in Threads : locked["session"] = p /\ canContinue(p)
  IN /\ \A p \in Threads : thread[p].at # "idle" => canContinue(p) \/ passing
     /\ runnerCanContinue \/ passing
=============================================================================
