------------------------- MODULE HostDispatchProofs -------------------------
(***************************************************************************)
(* Proofs about HostDispatch for every set of threads and targets and every *)
(* limit.  What makes the unlocked projection sound is that a handler, once *)
(* registered, stays: HandlersStay.                                         *)
(***************************************************************************)
EXTENDS HostDispatch, FiniteSetTheorems, TLAPS

serving == {"projecting", "counting", "running", "replying", "failing"}

\* The runner has a request exactly while it serves one, and what was registered
\* when it came still is.
RequestInv ==
  /\ runner \in serving <=> request.target # None
  /\ request.expected # None =>
       request.target # None /\ handlers[request.target] = request.expected
  /\ runner \in {"checking", "reading", "projecting"} => handler = None
  /\ runner \in {"running", "replying"} => handler # None

\* Each request was delivered, answered and failed at most once.
CountsInv ==
  /\ deliveredRequests + (IF runner \in {"projecting", "counting"} THEN 1 ELSE 0) <= taken
  /\ replies + dispatchFailures + (IF runner \in serving THEN 1 ELSE 0) <= taken

DispatchInv ==
  /\ TypeOK
  /\ RequestInv
  /\ CountsInv
  /\ ProjectionCurrent
  /\ RightHandler
  /\ \A p \in Threads : thread[p].at = "registering" => thread[p].target \in Targets

LEMMA InitInv == Init => DispatchInv
  <1> SUFFICES ASSUME Init PROVE DispatchInv
    OBVIOUS
  <1> USE DispatchAssumption DEF Init, noRequest, idle
  <1>1. TypeOK
    <2>1. registrationBytes \in 0..MaxBytes
      OBVIOUS
    <2>2. {taken, deliveredRequests, replies, dispatchFailures} \subseteq 0..MaxRequests
      OBVIOUS
    <2>3. QED
      BY <2>1, <2>2 DEF TypeOK
  <1>2. RequestInv /\ CountsInv /\ RightHandler
    BY DEF RequestInv, CountsInv, RightHandler, serving
  <1>3. ProjectionCurrent
    BY DEF ProjectionCurrent
  <1>4. \A p \in Threads : thread[p].at # "registering"
    OBVIOUS
  <1>5. QED
    BY <1>1, <1>2, <1>3, <1>4 DEF DispatchInv

\* A step of a thread keeps every handler there is and touches nothing of the
\* runner's: what the runner knows stays true.
LEMMA HandlersStay ==
  ASSUME DispatchInv, UNCHANGED runnerOnly,
         handlers' \in [Targets -> Threads \cup {None}],
         \A t \in Targets : handlers[t] # None => handlers'[t] = handlers[t]
  PROVE  RequestInv' /\ CountsInv' /\ ProjectionCurrent' /\ RightHandler'
  <1>1. UNCHANGED <<projection, runner, request, handler, taken,
                    deliveredRequests, replies, dispatchFailures>>
    BY DEF runnerOnly, counters
  <1>2. RequestInv'
    BY <1>1, DispatchAssumption DEF DispatchInv, TypeOK, RequestInv, serving
  <1>3. CountsInv'
    BY <1>1 DEF DispatchInv, CountsInv, serving
  <1>4. ProjectionCurrent'
    BY <1>1, DispatchAssumption DEF DispatchInv, TypeOK, ProjectionCurrent, nothing
  <1>5. RightHandler'
    BY <1>1, DispatchAssumption DEF DispatchInv, TypeOK, RequestInv, serving, RightHandler
  <1>6. QED
    BY <1>2, <1>3, <1>4, <1>5

-----------------------------------------------------------------------------
(* One lemma per actor. *)

LEMMA InsertInv ==
  ASSUME DispatchInv, NEW p \in Threads, Insert(p)
  PROVE  DispatchInv'
  <1> DEFINE t == thread[p].target
  <1>1. t \in Targets /\ size[t] \in Nat
    BY DispatchAssumption DEF DispatchInv, Insert
  <1>2. /\ handlers' \in [Targets -> Threads \cup {None}]
        /\ registrationBytes' \in 0..MaxBytes
        /\ \A u \in Targets : handlers[u] # None => handlers'[u] = handlers[u]
    <2>1. CASE handlers[t] = None /\ fits(t) /\ handlers' = [handlers EXCEPT ![t] = p]
               /\ registrationBytes' = registrationBytes + size[t]
      BY <1>1, <2>1, DispatchAssumption DEF DispatchInv, TypeOK, fits
    <2>2. CASE UNCHANGED <<handlers, registrationBytes>>
      BY <2>2 DEF DispatchInv, TypeOK
    <2>3. QED
      BY <2>1, <2>2 DEF Insert
  <1>3. RequestInv' /\ CountsInv' /\ ProjectionCurrent' /\ RightHandler'
    BY <1>2, HandlersStay DEF Insert
  <1>4. thread' \in [Threads -> [at : {"idle", "registering", "diagnosing"},
                                 target : Targets \cup {None}]]
        /\ \A q \in Threads : thread'[q].at = "registering" => thread'[q].target \in Targets
    BY DEF DispatchInv, TypeOK, Insert, become, idle
  <1>5. TypeOK'
    BY <1>2, <1>4 DEF DispatchInv, TypeOK, Insert, hold, runnerOnly, counters
  <1>6. QED
    BY <1>3, <1>4, <1>5 DEF DispatchInv

\* The steps of threads, and sealing, that leave the table alone.
LEMMA CallerInv ==
  ASSUME DispatchInv, Seal \/ \E p \in Threads : Diagnose(p) \/ ReadFailure(p)
                                                 \/ \E t \in Targets : Register(p, t)
  PROVE  DispatchInv'
  <1>1. UNCHANGED <<handlers, registrationBytes>> /\ UNCHANGED runnerOnly
    BY DEF Seal, Diagnose, ReadFailure, Register
  <1>2. RequestInv' /\ CountsInv' /\ ProjectionCurrent' /\ RightHandler'
    BY <1>1, HandlersStay DEF DispatchInv, TypeOK
  <1>3. /\ thread' \in [Threads -> [at : {"idle", "registering", "diagnosing"},
                                    target : Targets \cup {None}]]
        /\ \A q \in Threads : thread'[q].at = "registering" => thread'[q].target \in Targets
    <2>1. CASE Seal
      BY <2>1 DEF Seal, DispatchInv, TypeOK
    <2>2. ASSUME NEW p \in Threads, Diagnose(p) \/ ReadFailure(p) PROVE <1>3!1 /\ <1>3!2
      BY <2>2 DEF Diagnose, ReadFailure, become, idle, DispatchInv, TypeOK
    <2>3. ASSUME NEW p \in Threads, NEW t \in Targets, Register(p, t) PROVE <1>3!1 /\ <1>3!2
      BY <2>3 DEF Register, become, DispatchInv, TypeOK
    <2>4. QED
      BY <2>1, <2>2, <2>3
  <1>4. locked' \in [{"session", "client"} -> Threads \cup {None}] /\ closing' \in BOOLEAN
    <2>1. locked \in [{"session", "client"} -> Threads \cup {None}] /\ closing \in BOOLEAN
      BY DEF DispatchInv, TypeOK
    <2>2. CASE Seal
      BY <2>1, <2>2 DEF Seal
    <2>3. ASSUME NEW p \in Threads, Diagnose(p) PROVE <1>4
      BY <2>1, <2>3 DEF Diagnose
    <2>4. ASSUME NEW p \in Threads, ReadFailure(p) PROVE <1>4
      BY <2>1, <2>4 DEF ReadFailure
    <2>5. ASSUME NEW p \in Threads, NEW t \in Targets, Register(p, t) PROVE <1>4
      BY <2>1, <2>5 DEF Register, hold
    <2>6. QED
      BY <2>2, <2>3, <2>4, <2>5
  <1>5. TypeOK'
    BY <1>1, <1>3, <1>4 DEF DispatchInv, TypeOK, runnerOnly, counters
  <1>6. QED
    BY <1>2, <1>3, <1>5 DEF DispatchInv

\* The runner's loop, outside a request.
LEMMA LoopInv ==
  ASSUME DispatchInv,
         CheckClosing \/ NoRequest \/ Exit
         \/ \E t \in Targets, oneWay \in BOOLEAN : Deliver(t, oneWay)
  PROVE  DispatchInv'
  <1> USE DispatchAssumption
          DEF DispatchInv, TypeOK, RequestInv, CountsInv, ProjectionCurrent,
              RightHandler, serving, threadsOnly, counters, noRequest
  <1>1. CASE CheckClosing
    BY <1>1 DEF CheckClosing
  <1>2. CASE NoRequest
    BY <1>2 DEF NoRequest
  <1>3. CASE Exit
    BY <1>3 DEF Exit
  <1>4. CASE \E t \in Targets, oneWay \in BOOLEAN : Deliver(t, oneWay)
    BY <1>4 DEF Deliver
  <1>5. QED
    BY <1>1, <1>2, <1>3, <1>4

\* dispatchRequest: the handler comes from the projection or from the table, and
\* both agree with what was registered.
LEMMA ServeInv ==
  ASSUME DispatchInv,
         Unreadable \/ UseProjection \/ LookUp \/ Count \/ HandlerReturns \/ Reply \/ Fail
  PROVE  DispatchInv'
  <1> USE DispatchAssumption
          DEF DispatchInv, TypeOK, RequestInv, CountsInv, ProjectionCurrent,
              RightHandler, serving, threadsOnly, counters, noRequest, fail, finish,
              uncounted
  <1>1. CASE Unreadable
    BY <1>1 DEF Unreadable
  <1>2. CASE UseProjection
    <2> USE <1>2 DEF UseProjection
    <2>1. /\ projection.handler \in Threads
          /\ projection.handler = handlers[request.target]
      BY DEF projected, nothing
    <2>2. TypeOK'
      BY <2>1
    <2>3. RequestInv' /\ CountsInv' /\ ProjectionCurrent' /\ RightHandler'
      BY <2>1 DEF nothing
    <2>4. QED
      BY <2>2, <2>3
  <1>3. CASE LookUp
    <2> USE <1>3 DEF LookUp
    <2>1. request.target \in Targets /\ handlers[request.target] \in Threads \cup {None}
      OBVIOUS
    <2>2. /\ projection' \in [target : Targets, handler : Threads] \cup {nothing}
          /\ ProjectionCurrent'
      BY <2>1 DEF nothing
    <2>3. TypeOK'
      BY <2>1, <2>2
    <2>4. RequestInv' /\ CountsInv' /\ RightHandler'
      BY <2>1
    <2>5. QED
      BY <2>2, <2>3, <2>4
  <1>4. CASE Count
    <2> USE <1>4 DEF Count
    <2>1. deliveredRequests' \in 0..MaxRequests
      OBVIOUS
    <2>2. CASE handler # None /\ runner' = "running" /\ UNCHANGED <<request, handler>>
      BY <2>1, <2>2
    <2>3. CASE handler = None /\ finish
      BY <2>1, <2>3
    <2>4. QED
      BY <2>2, <2>3
  <1>5. CASE HandlerReturns
    <2> USE <1>5 DEF HandlerReturns
    <2>1. CASE fail
      BY <2>1
    <2>2. CASE request.oneWay /\ finish /\ uncounted
      BY <2>2
    <2>3. CASE ~request.oneWay /\ runner' = "replying" /\ UNCHANGED <<request, handler, counters>>
      BY <2>3
    <2>4. QED
      BY <2>1, <2>2, <2>3
  <1>6. CASE Reply
    <2> USE <1>6 DEF Reply
    <2>1. CASE submit
      <3>1. replies' \in 0..MaxRequests
        BY <2>1 DEF submit
      <3>2. QED
        BY <2>1, <3>1 DEF submit
    <2>2. CASE fail
      BY <2>2
    <2>3. QED
      BY <2>1, <2>2
  <1>7. CASE Fail
    BY <1>7 DEF Fail
  <1>8. QED
    BY <1>1, <1>2, <1>3, <1>4, <1>5, <1>6, <1>7

LEMMA StepInv == DispatchInv /\ [Next]_vars => DispatchInv'
  <1> SUFFICES ASSUME DispatchInv, [Next]_vars PROVE DispatchInv'
    OBVIOUS
  <1>1. CASE Next
    BY <1>1, InsertInv, CallerInv, LoopInv, ServeInv DEF Next, Dispatch, Continue
  <1>2. CASE UNCHANGED vars
    BY <1>2 DEF vars, DispatchInv, TypeOK, RequestInv, CountsInv, ProjectionCurrent,
                RightHandler, counters
  <1>3. QED
    BY <1>1, <1>2

-----------------------------------------------------------------------------
(* The theorems. *)

\* In every behaviour of the host's dispatch the invariant holds.
THEOREM DispatchInvHolds == Spec => []DispatchInv
  BY InitInv, StepInv, PTL DEF Spec

\* Every variable of the host's dispatch keeps its type, the counters included.
THEOREM DispatchTypeHolds == Spec => []TypeOK
  <1>1. DispatchInv => TypeOK
    BY DEF DispatchInv
  <1>2. QED
    BY <1>1, DispatchInvHolds, PTL

\* Whatever threads register meanwhile, a request runs the handler of its own target
\* and finds one that was there when it came (projectDispatchTarget).
THEOREM HandlerIsRight == Spec => []RightHandler
  <1>1. DispatchInv => RightHandler
    BY DEF DispatchInv
  <1>2. QED
    BY <1>1, DispatchInvHolds, PTL

\* dispatchProjection, read without a lock, never disagrees with the table.
THEOREM ProjectionStaysCurrent == Spec => []ProjectionCurrent
  <1>1. DispatchInv => ProjectionCurrent
    BY DEF DispatchInv
  <1>2. QED
    BY <1>1, DispatchInvHolds, PTL

\* The table of handlers stays within both limits, in whatever order threads register.
THEOREM RegistrationsWithinLimits == Spec => []WithinLimits
  <1>1. Init => WithinLimits
    <2> SUFFICES ASSUME Init PROVE WithinLimits
      OBVIOUS
    <2>1. registered = {}
      BY DEF Init, registered
    <2>2. QED
      BY <2>1, FS_EmptySet, DispatchAssumption DEF Init, WithinLimits
  <1>2. DispatchInv /\ DispatchInv' /\ WithinLimits /\ [Next]_vars => WithinLimits'
    <2> SUFFICES ASSUME DispatchInv, DispatchInv', WithinLimits, [Next]_vars
                 PROVE  WithinLimits'
      OBVIOUS
    <2>1. registrationBytes' <= MaxBytes
      BY DispatchAssumption DEF DispatchInv, TypeOK
    <2>2. IsFiniteSet(registered)
      BY DispatchAssumption, FS_Subset DEF registered
    <2>3. CASE handlers' = handlers
      BY <2>1, <2>3 DEF WithinLimits, registered
    <2>4. CASE handlers' # handlers
      <3>1. PICK p \in Threads : Insert(p)
        BY <2>4 DEF Next, vars, Continue, Dispatch, Register, Diagnose, ReadFailure, Seal, Deliver,
                    runnerOnly, threadsOnly, CheckClosing, NoRequest, Exit, Unreadable,
                    UseProjection, LookUp, Count, HandlerReturns, Reply, Fail
      <3> DEFINE t == thread[p].target
      <3>2. /\ t \in Targets
            /\ Cardinality(registered) < MaxHandlers
            /\ handlers' = [handlers EXCEPT ![t] = p]
        BY <2>4, <3>1 DEF Insert, fits, DispatchInv
      <3>3. registered' = registered \cup {t}
        BY <3>2, DispatchAssumption DEF registered, DispatchInv, TypeOK
      <3> HIDE DEF t
      <3>4. Cardinality(registered) \in Nat
        BY <2>2, FS_CardinalityType
      <3>5. Cardinality(registered \cup {t}) <= MaxHandlers
        <4>1. CASE t \in registered
          <5>1. registered \cup {t} = registered
            BY <4>1
          <5>2. QED
            BY <3>2, <3>4, <5>1, DispatchAssumption
        <4>2. CASE t \notin registered
          <5>1. Cardinality(registered \cup {t}) = Cardinality(registered) + 1
            BY <2>2, <4>2, FS_AddElement
          <5>2. QED
            BY <3>2, <3>4, <5>1, DispatchAssumption
        <4>3. QED
          BY <4>1, <4>2
      <3>6. QED
        BY <2>1, <3>3, <3>5 DEF WithinLimits
    <2>5. QED
      BY <2>3, <2>4
  <1>3. QED
    BY <1>1, <1>2, DispatchInvHolds, PTL DEF Spec

\* A two-way request with a handler ends answered or counted as failed, never both
\* (dispatchRequest).
THEOREM RequestsAreAnswered == Spec => Answered
  <1> DEFINE step == request.target # None /\ request'.target = None
                     /\ handler # None /\ ~request.oneWay
             done == \/ replies' = replies + 1 /\ UNCHANGED dispatchFailures
                     \/ dispatchFailures' = dispatchFailures + 1 /\ UNCHANGED replies
  <1>1. DispatchInv /\ [Next]_vars => [step => done]_vars
    <2> SUFFICES ASSUME DispatchInv, [Next]_vars, step PROVE done \/ UNCHANGED vars
      OBVIOUS
    <2>1. CASE \E p \in Threads : Diagnose(p) \/ Continue(p) \/ \E t \in Targets : Register(p, t)
      BY <2>1 DEF Diagnose, Continue, Insert, ReadFailure, Register, runnerOnly
    <2>2. CASE Seal
      BY <2>2 DEF Seal, runnerOnly
    <2>3. CASE \E t \in Targets, oneWay \in BOOLEAN : Deliver(t, oneWay)
      BY <2>3, DispatchAssumption DEF Deliver
    <2>4. CASE CheckClosing \/ NoRequest \/ Exit \/ Unreadable \/ UseProjection \/ LookUp
      BY <2>4 DEF CheckClosing, NoRequest, Exit, Unreadable, UseProjection, LookUp, fail
    <2>5. CASE Count
      BY <2>5 DEF Count
    <2>6. CASE HandlerReturns
      BY <2>6 DEF HandlerReturns, fail
    <2>7. CASE Reply
      BY <2>7 DEF Reply, submit, fail
    <2>8. CASE Fail
      BY <2>8 DEF Fail
    <2>9. QED
      BY <2>1, <2>2, <2>3, <2>4, <2>5, <2>6, <2>7, <2>8 DEF Next, Dispatch
  <1>2. QED
    BY <1>1, DispatchInvHolds, PTL DEF Spec, Answered
-----------------------------------------------------------------------------
(* The two locks. *)

\* clientLock is never kept while another lock is waited for; the session's is, by a
\* thread that registers.
LocksInv ==
  /\ free("client")
  /\ \A p \in Threads : thread[p].at = "registering" <=> locked["session"] = p

LEMMA LocksHold == Spec => []LocksInv
  <1>1. Init => LocksInv
    BY DispatchAssumption DEF Init, LocksInv, free, idle
  <1>2. DispatchInv /\ LocksInv /\ [Next]_vars => LocksInv'
    <2> SUFFICES ASSUME DispatchInv, LocksInv, [Next]_vars PROVE LocksInv'
      OBVIOUS
    <2> USE DispatchAssumption DEF DispatchInv, TypeOK, LocksInv, free
    <2>1. ASSUME NEW p \in Threads, NEW t \in Targets, Register(p, t) PROVE LocksInv'
      BY <2>1 DEF Register, hold, become
    <2>2. ASSUME NEW p \in Threads, Insert(p) PROVE LocksInv'
      BY <2>2 DEF Insert, hold, become, idle
    <2>3. ASSUME NEW p \in Threads, Diagnose(p) PROVE LocksInv'
      BY <2>3 DEF Diagnose, become, idle
    <2>4. ASSUME NEW p \in Threads, ReadFailure(p) PROVE LocksInv'
      BY <2>4 DEF ReadFailure, become, idle
    <2>5. CASE UNCHANGED <<locked, thread>>
      BY <2>5
    <2>6. QED
      <3>1. CASE Seal
        BY <2>5, <3>1 DEF Seal
      <3>2. CASE \E t \in Targets, oneWay \in BOOLEAN : Deliver(t, oneWay)
        BY <2>5, <3>2 DEF Deliver, threadsOnly
      <3>3. CASE Dispatch
        BY <2>5, <3>3 DEF Dispatch, CheckClosing, NoRequest, Exit, Unreadable, UseProjection, LookUp,
               Count, HandlerReturns, Reply, Fail, threadsOnly
      <3>4. CASE UNCHANGED vars
        BY <2>5, <3>4 DEF vars
      <3>5. QED
        BY <2>1, <2>2, <2>3, <2>4, <3>1, <3>2, <3>3, <3>4 DEF Next, Continue
  <1>3. QED
    BY <1>1, <1>2, DispatchInvHolds, PTL DEF Spec

\* register, dispatchDiagnostics and dispatchRequest cannot wait for one another in a
\* circle: the only lock kept while another is awaited is the session's, and whoever
\* keeps it finds clientLock free.
THEOREM DispatchNeverStuck == Spec => []NeverStuck
  <1>1. DispatchInv /\ LocksInv => NeverStuck
    <2> SUFFICES ASSUME DispatchInv, LocksInv PROVE NeverStuck
      OBVIOUS
    <2>1. CASE free("session")
      BY <2>1 DEF DispatchInv, TypeOK, LocksInv, NeverStuck, canContinue, runnerCanContinue
    <2>2. CASE ~free("session")
      <3>1. locked["session"] \in Threads
        BY <2>2 DEF DispatchInv, TypeOK, free
      <3>2. canContinue(locked["session"])
        BY <3>1 DEF LocksInv, canContinue
      <3>3. QED
        BY <3>1, <3>2 DEF NeverStuck
    <2>3. QED
      BY <2>1, <2>2
  <1>2. QED
    BY <1>1, DispatchInvHolds, LocksHold, PTL
=============================================================================
