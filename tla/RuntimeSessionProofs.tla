------------------------ MODULE RuntimeSessionProofs ------------------------
(***************************************************************************)
(* Proofs about RuntimeSession, for every set of borrowers and callers and *)
(* every bound.  SessionInv is the inductive invariant: it ties each actor *)
(* to what the session's fields say of it, which is what lets a locked     *)
(* section conclude from the fields alone that nobody else is inside Core. *)
(***************************************************************************)
EXTENDS RuntimeSession, FiniteSetTheorems, TLAPS

\* What the locked sections keep true of the fields they guard.
Consistent(s) ==
  /\ s.readerRetired => s.closing
  /\ s.stopped => s.readerRetired
  /\ s.stopped <=> s.core # "started"
  /\ s.stopFailure <=> s.failedStopOwner
  /\ s.stopFailure => ~s.stopped
  /\ s.retirements = (IF s.runtime = "nil" THEN 1 ELSE 0)
  /\ s.runtime = "nil" <=> s.core = "destroyed"

\* The runner alone frees the frame and the reader, and readerRetired and
\* readerDone say how far its exit has come.
RunnerInv ==
  /\ frame <=> runner \in {"dispatching", "rejecting"}
  /\ reader = "live" <=> runner \notin {"retiring", "leaving", "gone"}
  /\ session.readerRetired <=> runner \in {"leaving", "gone"}
  /\ readerDone <=> runner = "gone"

\* A caller past the join has found the runner gone.
CloserInv ==
  \A c \in Closers :
    /\ closer[c] \in {"stopping", "draining"} => readerDone
    /\ closer[c] = "draining" => session.stopped
    /\ verdict[c] = "ok" => readerDone /\ session.core = "destroyed"
    /\ c \in HandlerClosers => closer[c] = "idle"

SessionInv ==
  /\ TypeOK
  /\ Consistent(session)
  /\ ~mayRetire(session)
  /\ RunnerInv
  /\ CloserInv
  /\ BorrowsCounted
  /\ session.core = "destroyed" => borrowers = {}

-----------------------------------------------------------------------------
(* The two locked operations. *)

LEMMA StopKeeps ==
  ASSUME NEW s \in SessionFields, Consistent(s), NEW accepted \in BOOLEAN
  PROVE  LET t == stopLocked(s, accepted)
         IN  /\ t \in SessionFields
             /\ Consistent(t)
             /\ t.closing = s.closing
             /\ t.readerRetired = s.readerRetired
             /\ t.activeAsks = s.activeAsks
             /\ s.stopped => t = s
             /\ s.core = "destroyed" <=> t.core = "destroyed"
             /\ s.readerRetired /\ ~t.stopFailure /\ (mayStop(s) \/ accepted) => t.stopped
  BY DEF SessionFields, Consistent, stopLocked, mayStop

LEMMA RetireKeeps ==
  ASSUME NEW s \in SessionFields, Consistent(s)
  PROVE  LET t == retireLocked(s)
         IN  /\ t \in SessionFields
             /\ Consistent(t)
             /\ ~mayRetire(t)
             /\ t.closing = s.closing
             /\ t.readerRetired = s.readerRetired
             /\ t.activeAsks = s.activeAsks
             /\ t.stopped = s.stopped
             /\ t.stopFailure = s.stopFailure
             /\ s.core = "destroyed" => t.core = "destroyed"
             /\ t.core = "destroyed" => s.core = "destroyed" \/ s.activeAsks = 0
  <1> DEFINE t == retireLocked(s)
  <1>1. CASE ~mayRetire(s)
    BY <1>1 DEF retireLocked
  <1>2. CASE mayRetire(s)
    <2>1. s.retirements = 0 /\ s.stopped /\ s.activeAsks = 0
      BY <1>2 DEF Consistent, mayRetire
    <2>2. t = [s EXCEPT !.core = "destroyed", !.runtime = "nil", !.retirements = 1]
      BY <1>2, <2>1 DEF retireLocked
    <2> HIDE DEF t
    <2>3. t = [runtime |-> "nil", core |-> "destroyed", closing |-> s.closing,
               readerRetired |-> s.readerRetired, stopped |-> s.stopped,
               stopFailure |-> s.stopFailure, failedStopOwner |-> s.failedStopOwner,
               activeAsks |-> s.activeAsks, retirements |-> 1]
      BY <2>2 DEF SessionFields
    <2>4. t \in SessionFields
      BY <2>3 DEF SessionFields
    <2>5. Consistent(t) /\ ~mayRetire(t)
      BY <2>1, <2>3 DEF Consistent, mayRetire
    <2>6. QED
      BY <2>1, <2>3, <2>4, <2>5 DEF t
  <1>3. QED
    BY <1>1, <1>2

LEMMA StopRetireKeeps ==
  ASSUME NEW s \in SessionFields, Consistent(s), NEW accepted \in BOOLEAN
  PROVE  LET t == retireLocked(stopLocked(s, accepted))
         IN  /\ t \in SessionFields
             /\ Consistent(t)
             /\ ~mayRetire(t)
             /\ t.closing = s.closing
             /\ t.readerRetired = s.readerRetired
             /\ t.activeAsks = s.activeAsks
             /\ s.stopped => t.stopped
             /\ s.core = "destroyed" => t.core = "destroyed"
             /\ t.core = "destroyed" => s.core = "destroyed" \/ s.activeAsks = 0
             /\ s.readerRetired /\ ~t.stopFailure /\ (mayStop(s) \/ accepted) => t.stopped
  <1> DEFINE u == stopLocked(s, accepted)
  <1>1. /\ u \in SessionFields
        /\ Consistent(u)
        /\ u.closing = s.closing
        /\ u.readerRetired = s.readerRetired
        /\ u.activeAsks = s.activeAsks
        /\ s.stopped => u = s
        /\ s.core = "destroyed" <=> u.core = "destroyed"
        /\ s.readerRetired /\ ~u.stopFailure /\ (mayStop(s) \/ accepted) => u.stopped
    BY StopKeeps
  <1> HIDE DEF u
  <1>2. LET t == retireLocked(u)
         IN  /\ t \in SessionFields
             /\ Consistent(t)
             /\ ~mayRetire(t)
             /\ t.closing = u.closing
             /\ t.readerRetired = u.readerRetired
             /\ t.activeAsks = u.activeAsks
             /\ t.stopped = u.stopped
             /\ t.stopFailure = u.stopFailure
             /\ u.core = "destroyed" => t.core = "destroyed"
             /\ t.core = "destroyed" => u.core = "destroyed" \/ u.activeAsks = 0
    BY <1>1, RetireKeeps
  <1>3. QED
    BY <1>1, <1>2 DEF u

LEMMA BorrowersFinite ==
  ASSUME TypeOK
  PROVE  /\ IsFiniteSet(borrowers)
         /\ Cardinality(borrowers) \in Nat
         /\ Cardinality(borrowers) = 0 <=> borrowers = {}
  <1>1. borrowers \in SUBSET Asks
    BY DEF borrowers
  <1>2. IsFiniteSet(borrowers)
    BY <1>1, FS_Subset, SessionAssumption
  <1>3. QED
    BY <1>2, FS_CardinalityType, FS_EmptySet

\* A borrower joins or leaves the borrowers, and nobody else moves.
LEMMA BorrowsMove ==
  ASSUME TypeOK, NEW a \in Asks
  PROVE  /\ ask[a] = "idle" /\ ask' = [ask EXCEPT ![a] = "awaiting"] =>
              /\ borrowers' = borrowers \cup {a}
              /\ Cardinality(borrowers') = Cardinality(borrowers) + 1
         /\ ask[a] = "awaiting" /\ ask' = [ask EXCEPT ![a] = "returning"] =>
              borrowers' = borrowers
         /\ ask[a] = "returning" /\ ask' = [ask EXCEPT ![a] = "idle"] =>
              /\ borrowers' = borrowers \ {a}
              /\ Cardinality(borrowers') = Cardinality(borrowers) - 1
              /\ Cardinality(borrowers) > 0
  <1>1. ASSUME ask[a] = "idle", ask' = [ask EXCEPT ![a] = "awaiting"]
        PROVE  /\ borrowers' = borrowers \cup {a}
               /\ Cardinality(borrowers') = Cardinality(borrowers) + 1
    <2>1. borrowers' = borrowers \cup {a} /\ a \notin borrowers
      BY <1>1 DEF borrowers, TypeOK
    <2>2. QED
      BY <2>1, BorrowersFinite, FS_AddElement
  <1>2. ASSUME ask[a] = "awaiting", ask' = [ask EXCEPT ![a] = "returning"]
        PROVE  borrowers' = borrowers
    BY <1>2 DEF borrowers, TypeOK
  <1>3. ASSUME ask[a] = "returning", ask' = [ask EXCEPT ![a] = "idle"]
        PROVE  /\ borrowers' = borrowers \ {a}
               /\ Cardinality(borrowers') = Cardinality(borrowers) - 1
               /\ Cardinality(borrowers) > 0
    <2>1. borrowers' = borrowers \ {a} /\ a \in borrowers
      BY <1>3 DEF borrowers, TypeOK
    <2>2. QED
      BY <2>1, BorrowersFinite, FS_RemoveElement
  <1>4. QED
    BY <1>1, <1>2, <1>3

-----------------------------------------------------------------------------
(* The invariant, one step per action. *)

isRetired == session.core = "destroyed"

\* What the steps of everyone but the borrowers do: they leave the borrows
\* alone, they only ever seal, and they retire only when nobody borrows.
QuietStep ==
  /\ borrowers' = borrowers
  /\ session.closing => session'.closing
  /\ isRetired => isRetired'
  /\ isRetired' => isRetired \/ borrowers = {}


LEMMA InitInv == Init => SessionInv
  <1> SUFFICES ASSUME Init PROVE SessionInv
    OBVIOUS
  <1>1. TypeOK
    <2>1. session \in SessionFields
      BY DEF Init, SessionFields
    <2>2. refusals \in 0..MaxRefusals
      BY SessionAssumption DEF Init
    <2>3. QED
      BY <2>1, <2>2 DEF Init, TypeOK, RunnerPlaces, CloserPlaces, Verdicts
  <1>2. borrowers = {}
    BY DEF Init, borrowers
  <1>3. BorrowsCounted
    BY <1>2, FS_EmptySet DEF Init, BorrowsCounted
  <1>4. Consistent(session) /\ ~mayRetire(session)
    BY DEF Init, Consistent, mayRetire
  <1>5. RunnerInv /\ CloserInv
    BY DEF Init, RunnerInv, CloserInv
  <1>6. QED
    BY <1>1, <1>2, <1>3, <1>4, <1>5 DEF SessionInv

\* Steps of the runner outside the lock leave the session's fields alone.
LEMMA RunnerOutsideLock ==
  ASSUME SessionInv,
         CheckClosing \/ Read \/ DispatchReturns \/ ReleaseRejected
           \/ DestroyReader \/ RunnerLeaves
  PROVE  SessionInv' /\ QuietStep
  <1> USE DEF SessionInv, runnerOnly
  <1>1. UNCHANGED <<session, ask, closer, closeOwner, verdict, host, refusals>>
    BY DEF CheckClosing, Read, DispatchReturns, ReleaseRejected, DestroyReader, RunnerLeaves
  <1>2. TypeOK'
    BY <1>1 DEF TypeOK, RunnerPlaces, CheckClosing, Read, DispatchReturns,
                ReleaseRejected, DestroyReader, RunnerLeaves
  <1>3. RunnerInv'
    BY <1>1 DEF RunnerInv, CheckClosing, Read, DispatchReturns, ReleaseRejected,
                DestroyReader, RunnerLeaves
  <1>4. CloserInv'
    BY <1>1 DEF CloserInv, CheckClosing, Read, DispatchReturns, ReleaseRejected,
                DestroyReader, RunnerLeaves
  <1>5. borrowers' = borrowers
    BY <1>1 DEF borrowers
  <1>6. QED
    BY <1>1, <1>2, <1>3, <1>4, <1>5 DEF Consistent, mayRetire, BorrowsCounted,
                                        QuietStep, isRetired

LEMMA RunnerRetiresInv ==
  ASSUME SessionInv, RunnerRetires
  PROVE  SessionInv' /\ QuietStep
  <1> USE DEF SessionInv, runnerOnly
  <1> DEFINE s == [session EXCEPT !.readerRetired = TRUE, !.closing = TRUE]
  <1>1. /\ runner = "retiring" /\ runner' = "leaving"
        /\ UNCHANGED <<frame, reader, readFailure, readerDone,
                       ask, closer, closeOwner, verdict, host>>
    BY DEF RunnerRetires
  <1>2. PICK accepted \in BOOLEAN :
          /\ StopOutcome(s, accepted)
          /\ session' = retireLocked(stopLocked(s, accepted))
    BY DEF RunnerRetires
  <1>3. /\ s \in SessionFields
        /\ s.closing /\ s.readerRetired
        /\ s.activeAsks = session.activeAsks
        /\ s.core = session.core
        /\ s.stopped = session.stopped
        /\ s.stopFailure = session.stopFailure
        /\ s.failedStopOwner = session.failedStopOwner
        /\ s.runtime = session.runtime
        /\ s.retirements = session.retirements
    BY DEF TypeOK, SessionFields
  <1>4. Consistent(s)
    BY <1>3 DEF Consistent
  <1>5. refusals' \in 0..MaxRefusals
    BY <1>2, SessionAssumption DEF StopOutcome, TypeOK
  <1> HIDE DEF s
  <1>6. /\ session' \in SessionFields
        /\ Consistent(session')
        /\ ~mayRetire(session')
        /\ session'.closing /\ session'.readerRetired
        /\ session'.activeAsks = session.activeAsks
        /\ session.stopped => session'.stopped
        /\ session.core = "destroyed" => session'.core = "destroyed"
        /\ session'.core = "destroyed" => session.core = "destroyed" \/ session.activeAsks = 0
    BY <1>2, <1>3, <1>4, StopRetireKeeps
  <1>7. borrowers' = borrowers
    BY <1>1 DEF borrowers
  <1>8. TypeOK'
    BY <1>1, <1>5, <1>6 DEF TypeOK, RunnerPlaces
  <1>9. RunnerInv'
    BY <1>1, <1>6 DEF RunnerInv
  <1>10. CloserInv'
    BY <1>1, <1>6 DEF CloserInv
  <1>11. BorrowsCounted' /\ (session'.core = "destroyed" => borrowers' = {})
    BY <1>6, <1>7, BorrowersFinite DEF BorrowsCounted
  <1>12. QuietStep
    BY <1>6, <1>7, BorrowersFinite DEF QuietStep, isRetired, BorrowsCounted
  <1>13. QED
    BY <1>6, <1>8, <1>9, <1>10, <1>11, <1>12

LEMMA BeginInv ==
  ASSUME SessionInv, NEW a \in Asks, Begin(a)
  PROVE  /\ SessionInv'
         /\ ~session.closing /\ session.runtime = "live"
         /\ session'.closing = session.closing /\ session'.runtime = session.runtime
         /\ a \notin borrowers
         /\ borrowers' = borrowers \cup {a}
  <1> USE DEF SessionInv, asksOnly
  <1>1. /\ ask[a] = "idle"
        /\ ask' = [ask EXCEPT ![a] = "awaiting"]
        /\ session' = [session EXCEPT !.activeAsks = session.activeAsks + 1]
        /\ isOpen(session)
        /\ UNCHANGED <<runner, frame, reader, readFailure, readerDone,
                       closer, closeOwner, verdict, host, refusals>>
    BY DEF Begin
  <1>2. /\ session' \in SessionFields
        /\ session'.activeAsks = session.activeAsks + 1
        /\ session'.closing = session.closing
        /\ session'.readerRetired = session.readerRetired
        /\ session'.stopped = session.stopped
        /\ session'.stopFailure = session.stopFailure
        /\ session'.failedStopOwner = session.failedStopOwner
        /\ session'.core = session.core
        /\ session'.runtime = session.runtime
        /\ session'.retirements = session.retirements
    BY <1>1 DEF TypeOK, SessionFields
  <1>3. session.activeAsks \in Nat
    BY DEF TypeOK, SessionFields
  <1>4. Consistent(session)' /\ ~mayRetire(session)'
    BY <1>2, <1>3 DEF Consistent, mayRetire
  <1>5. TypeOK'
    BY <1>1, <1>2 DEF TypeOK
  <1>6. RunnerInv' /\ CloserInv'
    BY <1>1, <1>2 DEF RunnerInv, CloserInv
  <1>7. BorrowsCounted'
    BY <1>1, <1>2, BorrowsMove DEF BorrowsCounted
  <1>8. session.core # "destroyed"
    BY <1>1 DEF isOpen, Consistent, TypeOK, SessionFields
  <1>9. /\ ~session.closing /\ session.runtime = "live"
        /\ a \notin borrowers /\ borrowers' = borrowers \cup {a}
    BY <1>1, BorrowsMove DEF isOpen, borrowers
  <1>10. QED
    BY <1>2, <1>4, <1>5, <1>6, <1>7, <1>8, <1>9

LEMMA DestroyTicketInv ==
  ASSUME SessionInv, NEW a \in Asks, DestroyTicket(a)
  PROVE  SessionInv' /\ QuietStep
  <1> USE DEF SessionInv, asksOnly
  <1>1. borrowers' = borrowers
    BY BorrowsMove DEF DestroyTicket
  <1>2. TypeOK'
    BY DEF DestroyTicket, TypeOK
  <1>3. RunnerInv' /\ CloserInv'
    BY DEF DestroyTicket, RunnerInv, CloserInv
  <1>4. UNCHANGED session
    BY DEF DestroyTicket
  <1>5. QED
    BY <1>1, <1>2, <1>3, <1>4 DEF Consistent, mayRetire, BorrowsCounted, QuietStep, isRetired

LEMMA EndBorrowInv ==
  ASSUME SessionInv, NEW a \in Asks, endBorrow(a)
  PROVE  /\ SessionInv'
         /\ session'.closing = session.closing
         /\ isRetired => isRetired'
         /\ isRetired' => isRetired \/ borrowers' = {}
         /\ a \in borrowers
         /\ borrowers' = borrowers \ {a}
  <1> USE DEF SessionInv, asksOnly
  <1> DEFINE s == [session EXCEPT !.activeAsks = session.activeAsks - 1]
  <1>1. /\ ask[a] = "returning"
        /\ ask' = [ask EXCEPT ![a] = "idle"]
        /\ session' = retireLocked(s)
        /\ UNCHANGED <<runner, frame, reader, readFailure, readerDone,
                       closer, closeOwner, verdict, host, refusals>>
    BY DEF endBorrow
  <1>2. /\ Cardinality(borrowers') = Cardinality(borrowers) - 1
        /\ Cardinality(borrowers) > 0
        /\ borrowers' = borrowers \ {a}
    BY <1>1, BorrowsMove
  <1>3. /\ Cardinality(borrowers) \in Nat
        /\ session.activeAsks = Cardinality(borrowers)
        /\ session.activeAsks - 1 \in Nat
    BY <1>2, BorrowersFinite DEF BorrowsCounted
  <1>4. /\ s \in SessionFields
        /\ s.activeAsks = session.activeAsks - 1
        /\ s.closing = session.closing
        /\ s.readerRetired = session.readerRetired
        /\ s.stopped = session.stopped
        /\ s.stopFailure = session.stopFailure
        /\ s.failedStopOwner = session.failedStopOwner
        /\ s.core = session.core
        /\ s.runtime = session.runtime
        /\ s.retirements = session.retirements
    BY <1>3 DEF TypeOK, SessionFields
  <1>5. Consistent(s)
    BY <1>4 DEF Consistent
  <1> HIDE DEF s
  <1>6. /\ session' \in SessionFields
        /\ Consistent(session')
        /\ ~mayRetire(session')
        /\ session'.closing = session.closing
        /\ session'.readerRetired = session.readerRetired
        /\ session'.activeAsks = session.activeAsks - 1
        /\ session'.stopped = session.stopped
        /\ session.core = "destroyed" => session'.core = "destroyed"
        /\ session'.core = "destroyed" => session.core = "destroyed" \/ s.activeAsks = 0
    BY <1>1, <1>4, <1>5, RetireKeeps
  <1>7. TypeOK'
    BY <1>1, <1>6 DEF TypeOK
  <1>8. RunnerInv' /\ CloserInv'
    BY <1>1, <1>6 DEF RunnerInv, CloserInv
  <1>9. BorrowsCounted'
    BY <1>2, <1>3, <1>6 DEF BorrowsCounted
  <1>10. TypeOK' => (Cardinality(borrowers') = 0 <=> borrowers' = {})
    <2>1. IsFiniteSet(borrowers')
      BY <1>2, BorrowersFinite, FS_RemoveElement
    <2>2. QED
      BY <2>1, FS_EmptySet
  <1>11. session'.core = "destroyed" => borrowers' = {}
    <2>1. CASE session.core = "destroyed"
      BY <2>1, <1>2
    <2>2. CASE s.activeAsks = 0
      BY <2>2, <1>2, <1>3, <1>4, <1>7, <1>10
    <2>3. QED
      BY <2>1, <2>2, <1>6
  <1>12. a \in borrowers
    BY <1>1 DEF borrowers
  <1>13. QED
    BY <1>2, <1>6, <1>7, <1>8, <1>9, <1>11, <1>12 DEF isRetired

\* The two steps that only set closing: requestRetirement and the host's deinit.
LEMMA SealInv ==
  ASSUME SessionInv,
         session' = [session EXCEPT !.closing = TRUE],
         UNCHANGED <<runner, frame, reader, readFailure, readerDone, ask, refusals>>
  PROVE  /\ session' \in SessionFields
         /\ Consistent(session)' /\ ~mayRetire(session)'
         /\ session'.stopped = session.stopped
         /\ session'.core = session.core
         /\ RunnerInv'
         /\ BorrowsCounted'
         /\ QuietStep
  <1> USE DEF SessionInv
  <1>1. /\ session' \in SessionFields
        /\ session'.closing
        /\ session'.activeAsks = session.activeAsks
        /\ session'.readerRetired = session.readerRetired
        /\ session'.stopped = session.stopped
        /\ session'.stopFailure = session.stopFailure
        /\ session'.failedStopOwner = session.failedStopOwner
        /\ session'.core = session.core
        /\ session'.runtime = session.runtime
        /\ session'.retirements = session.retirements
    BY DEF TypeOK, SessionFields
  <1>2. borrowers' = borrowers
    BY DEF borrowers
  <1>3. QED
    BY <1>1, <1>2 DEF Consistent, mayRetire, RunnerInv, BorrowsCounted, QuietStep, isRetired

LEMMA CloseOutsideLock ==
  ASSUME SessionInv, NEW c \in Closers, CallClose(c) \/ Join(c) \/ Drain(c)
  PROVE  SessionInv' /\ QuietStep
  <1> USE DEF SessionInv, closersOnly, Finish
  <1>1. UNCHANGED <<session, runner, frame, reader, readFailure, readerDone, ask, host, refusals>>
    BY DEF CallClose, Join, Drain
  <1>2. borrowers' = borrowers
    BY <1>1 DEF borrowers
  <1>3. /\ closer' \in [Closers -> CloserPlaces]
        /\ closeOwner' \in Closers \cup {NoOne}
        /\ verdict' \in [Closers -> Verdicts]
    BY DEF CallClose, Join, Drain, TypeOK, CloserPlaces, Verdicts
  <1>4. CloserInv'
    <2>1. CASE CallClose(c)
      BY <1>1, <2>1 DEF CallClose, CloserInv, TypeOK, onRequestQueue
    <2>2. CASE Join(c)
      BY <1>1, <2>2 DEF Join, CloserInv, TypeOK
    <2>3. CASE Drain(c)
      <3>1. session.retirements > 0 => session.core = "destroyed"
        BY DEF Consistent
      <3>2. QED
        BY <1>1, <2>3, <3>1 DEF Drain, CloserInv, TypeOK
    <2>4. QED
      BY <2>1, <2>2, <2>3
  <1>5. TypeOK' /\ RunnerInv'
    BY <1>1, <1>3 DEF TypeOK, RunnerInv
  <1>6. QED
    BY <1>1, <1>2, <1>4, <1>5 DEF Consistent, mayRetire, BorrowsCounted, QuietStep, isRetired

LEMMA CloseStopsInv ==
  ASSUME SessionInv, NEW c \in Closers, CloseStops(c)
  PROVE  SessionInv' /\ QuietStep
  <1> USE DEF SessionInv, closersOnly, Finish
  <1>1. /\ closer[c] = "stopping"
        /\ UNCHANGED <<runner, frame, reader, readFailure, readerDone, ask, host>>
        /\ \/ session'.stopFailure /\ Finish(c, "stopRefused")
           \/ /\ ~session'.stopFailure
              /\ closer' = [closer EXCEPT ![c] = "draining"]
              /\ UNCHANGED <<closeOwner, verdict>>
    BY DEF CloseStops
  <1>2. PICK accepted \in BOOLEAN :
          /\ StopOutcome(session, accepted)
          /\ session' = IF session.stopped THEN session
                        ELSE retireLocked(stopLocked(session, accepted))
    BY DEF CloseStops
  <1>3. refusals' \in 0..MaxRefusals
    BY <1>2, SessionAssumption DEF StopOutcome, TypeOK
  <1>4. session.readerRetired /\ readerDone
    BY <1>1 DEF CloserInv, RunnerInv
  <1>5. session \in SessionFields /\ Consistent(session)
    BY DEF TypeOK
  <1>6. /\ session' \in SessionFields
        /\ Consistent(session')
        /\ ~mayRetire(session')
        /\ session'.closing = session.closing
        /\ session'.readerRetired = session.readerRetired
        /\ session'.activeAsks = session.activeAsks
        /\ session.stopped => session'.stopped
        /\ session.core = "destroyed" => session'.core = "destroyed"
        /\ session'.core = "destroyed" => session.core = "destroyed" \/ session.activeAsks = 0
        /\ ~session'.stopFailure => session'.stopped
    <2>1. CASE session.stopped
      BY <2>1, <1>2, <1>5
    <2>2. CASE ~session.stopped
      <3>1. mayStop(session) \/ accepted
        BY <1>2 DEF StopOutcome
      <3>2. session' = retireLocked(stopLocked(session, accepted))
        BY <2>2, <1>2
      <3>3. QED
        BY <1>4, <1>5, <3>1, <3>2, StopRetireKeeps
    <2>3. QED
      BY <2>1, <2>2
  <1>7. borrowers' = borrowers
    BY <1>1 DEF borrowers
  <1>8. TypeOK'
    BY <1>1, <1>3, <1>6 DEF TypeOK, CloserPlaces, Verdicts
  <1>9. RunnerInv'
    BY <1>1, <1>6 DEF RunnerInv
  <1>10. CloserInv'
    BY <1>1, <1>4, <1>6 DEF CloserInv, TypeOK
  <1>11. BorrowsCounted' /\ (session'.core = "destroyed" => borrowers' = {})
    BY <1>6, <1>7, BorrowersFinite DEF BorrowsCounted
  <1>12. QuietStep
    BY <1>6, <1>7, BorrowersFinite DEF QuietStep, isRetired, BorrowsCounted
  <1>13. QED
    BY <1>6, <1>8, <1>9, <1>10, <1>11, <1>12

\* Every step is quiet, grants a borrow while the session is open, or takes one
\* back and then may retire.
Granted(a) ==
  /\ ~session.closing /\ session.runtime = "live"
  /\ session'.closing = session.closing /\ session'.runtime = session.runtime
  /\ a \notin borrowers
  /\ borrowers' = borrowers \cup {a}

Returned(a) ==
  /\ session'.closing = session.closing
  /\ isRetired => isRetired'
  /\ isRetired' => isRetired \/ borrowers' = {}
  /\ a \in borrowers
  /\ borrowers' = borrowers \ {a}

LEMMA StepInv ==
  ASSUME SessionInv, [Next]_vars
  PROVE  /\ SessionInv'
         /\ QuietStep \/ \E a \in Asks : Granted(a) \/ Returned(a)
  <1>1. CASE Runner
    BY <1>1, RunnerOutsideLock, RunnerRetiresInv DEF Runner
  <1>2. ASSUME NEW a \in Asks, Begin(a) PROVE SessionInv' /\ Granted(a)
    BY <1>2, BeginInv DEF Granted
  <1>3. ASSUME NEW a \in Asks, DestroyTicket(a) PROVE SessionInv' /\ QuietStep
    BY <1>3, DestroyTicketInv
  <1>4. ASSUME NEW a \in Asks, endBorrow(a) PROVE SessionInv' /\ Returned(a)
    BY <1>4, EndBorrowInv DEF Returned
  <1>5. ASSUME NEW c \in Closers, Seal(c) PROVE SessionInv' /\ QuietStep
    <2>1. /\ closer[c] = "sealing"
          /\ closer' = [closer EXCEPT ![c] = "joining"]
          /\ session' = [session EXCEPT !.closing = TRUE]
          /\ UNCHANGED <<closeOwner, verdict, refusals, runner, frame, reader,
                         readFailure, readerDone, ask, host>>
      BY <1>5 DEF Seal, closersOnly
    <2>2. TypeOK'
      BY <2>1, SealInv DEF SessionInv, TypeOK, CloserPlaces
    <2>3. CloserInv'
      BY <2>1, SealInv DEF SessionInv, CloserInv, TypeOK
    <2>4. QED
      BY <2>1, <2>2, <2>3, SealInv DEF SessionInv, QuietStep
  <1>6. ASSUME NEW c \in Closers, CallClose(c) \/ Join(c) \/ CloseStops(c) \/ Drain(c)
        PROVE  SessionInv' /\ QuietStep
    BY <1>6, CloseOutsideLock, CloseStopsInv
  <1>7. CASE Deinit
    <2>1. /\ host' = "dropped"
          /\ session' = [session EXCEPT !.closing = TRUE]
          /\ UNCHANGED <<runner, frame, reader, readFailure, readerDone,
                         ask, closer, closeOwner, verdict, refusals>>
      BY <1>7 DEF Deinit
    <2>2. TypeOK'
      BY <2>1, SealInv DEF SessionInv, TypeOK
    <2>3. CloserInv'
      BY <2>1, SealInv DEF SessionInv, CloserInv
    <2>4. QED
      BY <2>1, <2>2, <2>3, SealInv DEF SessionInv, QuietStep
  <1>8. CASE UNCHANGED vars
    BY <1>8 DEF vars, SessionInv, TypeOK, Consistent, mayRetire, RunnerInv, CloserInv,
                BorrowsCounted, borrowers, QuietStep, isRetired
  <1>9. QED
    BY <1>1, <1>2, <1>3, <1>4, <1>5, <1>6, <1>7, <1>8 DEF Next, Asking, Closing

-----------------------------------------------------------------------------
(* The theorems. *)

\* In every behaviour of the session the invariant holds.
THEOREM InvariantHolds == Spec => []SessionInv
  <1>1. SessionInv /\ [Next]_vars => SessionInv'
    BY StepInv
  <1>2. QED
    BY <1>1, InitInv, PTL DEF Spec

\* Every variable of the session keeps its type, for every number of actors.
THEOREM TypeHolds == Spec => []TypeOK
  <1>1. SessionInv => TypeOK
    BY DEF SessionInv
  <1>2. QED
    BY <1>1, InvariantHolds, PTL

\* The frame is released and the reader destroyed before Core is stopped, by
\* whichever of the runner and the callers of close() stops it.
THEOREM ReaderGoesFirst == Spec => []ReaderBeforeStop
  <1>1. SessionInv => ReaderBeforeStop
    BY DEF SessionInv, TypeOK, SessionFields, Consistent, RunnerInv, ReaderBeforeStop
  <1>2. QED
    BY <1>1, InvariantHolds, PTL

\* Native objects are destroyed after the reader and an accepted stop, and
\* while no ask borrows them (retireLocked).
THEOREM RetiresInOrder == Spec => []RetirementOrder
  <1>1. SessionInv => RetirementOrder
    BY DEF SessionInv, TypeOK, SessionFields, Consistent, RunnerInv, RetirementOrder
  <1>2. QED
    BY <1>1, InvariantHolds, PTL

\* activeAsks counts the borrowers (begin and endBorrow).
THEOREM CountsBorrows == Spec => []BorrowsCounted
  <1>1. SessionInv => BorrowsCounted
    BY DEF SessionInv
  <1>2. QED
    BY <1>1, InvariantHolds, PTL

\* No retirement is missed and none happens twice, whoever comes last.
THEOREM RetiresWhenDue == Spec => []RetiredExactlyWhenDue
  <1>1. SessionInv => RetiredExactlyWhenDue
    BY DEF SessionInv, Consistent, RetiredExactlyWhenDue
  <1>2. QED
    BY <1>1, InvariantHolds, PTL

\* A refused runtime_stop leaves the owners in place (stopLocked).
THEOREM RefusalKeepsOwner == Spec => []RefusedStopKeepsOwner
  <1>1. SessionInv => RefusedStopKeepsOwner
    BY DEF SessionInv, TypeOK, SessionFields, Consistent, RefusedStopKeepsOwner
  <1>2. QED
    BY <1>1, InvariantHolds, PTL

\* close() returns without an error only when everything is retired.
THEOREM CloseIsTruthful == Spec => []CloseTellsTheTruth
  <1>1. SessionInv => CloseTellsTheTruth
    BY DEF SessionInv, Consistent, CloserInv, CloseTellsTheTruth
  <1>2. QED
    BY <1>1, InvariantHolds, PTL

\* A close() made by a request handler never waits for its own runner.
THEOREM HandlerNeverJoinsItself == Spec => []NeverJoinsItself
  <1>1. SessionInv => NeverJoinsItself
    BY SessionAssumption DEF SessionInv, CloserInv, NeverJoinsItself
  <1>2. QED
    BY <1>1, InvariantHolds, PTL

\* The session implements NativeOwner: open, sealed, released, and released
\* only when nobody borrows.
THEOREM SessionImplementsOwner == Spec => OwnsNativeObjects
  <1>1. Init => Owner!Init
    BY DEF Init, Owner!Init, borrowers
  <1>2. SessionInv /\ [Next]_vars => [Owner!Next]_(Owner!vars)
    <2> SUFFICES ASSUME SessionInv, [Next]_vars PROVE [Owner!Next]_(Owner!vars)
      OBVIOUS
    <2>1. /\ SessionInv'
          /\ session.runtime = "nil" <=> isRetired
          /\ (session.runtime = "nil" <=> isRetired)'
          /\ isRetired => session.closing
          /\ (isRetired => session.closing)'
      BY StepInv DEF SessionInv, Consistent, isRetired
    <2>2. CASE QuietStep
      BY <2>1, <2>2 DEF QuietStep, Owner!Next, Owner!Seal, Owner!Release, Owner!vars
    <2>3. ASSUME NEW a \in Asks, Granted(a) PROVE Owner!Borrow(a)
      BY <2>3 DEF Granted, Owner!Borrow
    <2>4. ASSUME NEW a \in Asks, Returned(a) PROVE Owner!Return(a)
      BY <2>1, <2>4 DEF Returned, Owner!Return
    <2>5. QED
      BY <2>2, <2>3, <2>4, StepInv DEF Owner!Next
  <1>3. QED
    BY <1>1, <1>2, InvariantHolds, PTL DEF Spec, OwnsNativeObjects, Owner!Safe
=============================================================================
