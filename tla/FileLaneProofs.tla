--------------------------- MODULE FileLaneProofs ---------------------------
(***************************************************************************)
(* Proofs about FileLane for every finite set of threads.  The counter that *)
(* close() trusts is the number of threads inside the native lane, and only *)
(* one thread closes: so what it finds after its last wait stays true.      *)
(***************************************************************************)
EXTENDS FileLane, FiniteSetTheorems, TLAPS

isInside(t) == place[t] \in {"calling", "waiting", "leaving"}

\* One thread carries out the close, from the moment the lane refuses calls until
\* it is gone, and its place says how far the native lane has come.
CloserInv ==
  /\ \A t, u \in Threads : isCloser(t) /\ isCloser(u) => t = u
  /\ closing /\ lane = "live" <=> \E t \in Threads : isCloser(t)
  /\ ~closing => core = "started"
  /\ \A t \in Threads :
       /\ place[t] = "stopping" => core = "started"
       /\ place[t] = "joining" => core = "stopping"
       /\ place[t] = "draining" => core = "stopped"
       /\ place[t] = "following" => closing

LaneInv ==
  /\ TypeOK
  /\ activeCalls = Cardinality(counted)
  /\ CloserInv
  /\ lane = "nil" <=> core = "destroyed"
  /\ lane = "nil" => closing /\ counted = {}

\* A thread that enters or leaves moves the count by one.
LEMMA CountMoves ==
  ASSUME NEW S \in SUBSET Threads, NEW t \in Threads
  PROVE  /\ Cardinality(S) \in 0..Cardinality(Threads)
         /\ t \notin S => Cardinality(S \cup {t}) = Cardinality(S) + 1
         /\ t \in S => Cardinality(S \ {t}) = Cardinality(S) - 1
         /\ Cardinality(S) = 0 <=> S = {}
  <1>1. /\ IsFiniteSet(S) /\ Cardinality(S) <= Cardinality(Threads)
        /\ Cardinality(S) \in Nat /\ Cardinality(Threads) \in Nat
    BY ThreadsAssumption, FS_Subset, FS_CardinalityType
  <1>2. t \notin S => Cardinality(S \cup {t}) = Cardinality(S) + 1
    BY <1>1, FS_AddElement
  <1>3. t \in S => Cardinality(S \ {t}) = Cardinality(S) - 1
    BY <1>1, FS_RemoveElement
  <1>4. Cardinality(S) = 0 <=> S = {}
    BY <1>1, FS_EmptySet
  <1>5. QED
    BY <1>1, <1>2, <1>3, <1>4

LEMMA InitInv == Init => LaneInv
  <1> SUFFICES ASSUME Init PROVE LaneInv
    OBVIOUS
  <1>1. counted = {}
    BY DEF Init, counted
  <1>2. activeCalls = Cardinality(counted)
    BY <1>1, FS_EmptySet DEF Init
  <1>3. TypeOK
    <2>1. Cardinality(Threads) \in Nat
      BY FS_CardinalityType, ThreadsAssumption
    <2>2. activeCalls \in 0..Cardinality(Threads)
      BY <2>1 DEF Init
    <2>3. place \in [Threads -> Places]
      BY DEF Init, Places
    <2>4. QED
      BY <2>2, <2>3 DEF Init, TypeOK
  <1>4. QED
    BY <1>1, <1>2, <1>3 DEF Init, LaneInv, CloserInv, isCloser

-----------------------------------------------------------------------------
(* What each step preserves. *)

\* The counter follows the threads inside, whatever the step.
LEMMA CountKept ==
  ASSUME LaneInv, NEW t \in Threads, NEW p \in Places, goto(t, p),
         \/ ~isInside(t) /\ p \notin {"calling", "waiting", "leaving"} /\ activeCalls' = activeCalls
         \/ isInside(t) /\ p \in {"calling", "waiting", "leaving"} /\ activeCalls' = activeCalls
         \/ ~isInside(t) /\ p \in {"calling", "waiting", "leaving"} /\ activeCalls' = activeCalls + 1
         \/ isInside(t) /\ p \notin {"calling", "waiting", "leaving"} /\ activeCalls' = activeCalls - 1
  PROVE  /\ place' \in [Threads -> Places]
         /\ activeCalls' = Cardinality(counted')
         /\ activeCalls' \in 0..Cardinality(Threads)
  <1>1. /\ place' \in [Threads -> Places]
        /\ counted \in SUBSET Threads /\ counted' \in SUBSET Threads
        /\ t \in counted <=> isInside(t)
    BY DEF LaneInv, TypeOK, goto, counted, isInside
  <1>2. counted' = IF p \in {"calling", "waiting", "leaving"}
                   THEN counted \cup {t} ELSE counted \ {t}
    BY DEF LaneInv, TypeOK, goto, counted
  <1>3. /\ Cardinality(counted') \in 0..Cardinality(Threads)
        /\ t \notin counted => Cardinality(counted \cup {t}) = Cardinality(counted) + 1
        /\ t \in counted => Cardinality(counted \ {t}) = Cardinality(counted) - 1
    BY <1>1, CountMoves
  <1>4. activeCalls' = Cardinality(counted')
    <2>1. CASE p \in {"calling", "waiting", "leaving"}
      <3>1. CASE isInside(t)
        <4>1. counted' = counted
          BY <1>1, <1>2, <2>1, <3>1
        <4>2. QED
          BY <4>1, <2>1, <3>1 DEF LaneInv
      <3>2. CASE ~isInside(t)
        BY <1>1, <1>2, <1>3, <2>1, <3>2 DEF LaneInv
      <3>3. QED
        BY <3>1, <3>2
    <2>2. CASE p \notin {"calling", "waiting", "leaving"}
      <3>1. CASE isInside(t)
        BY <1>1, <1>2, <1>3, <2>2, <3>1 DEF LaneInv
      <3>2. CASE ~isInside(t)
        <4>1. counted' = counted
          BY <1>1, <1>2, <2>2, <3>2
        <4>2. QED
          BY <4>1, <2>2, <3>2 DEF LaneInv
      <3>3. QED
        BY <3>1, <3>2
    <2>3. QED
      BY <2>1, <2>2
  <1>5. QED
    BY <1>1, <1>3, <1>4

\* The steps of withLane.
LEMMA CallInv ==
  ASSUME LaneInv, NEW t \in Threads,
         Enter(t, "calling") \/ Enter(t, "waiting") \/ CallReturns(t)
         \/ WaitAnswered(t) \/ WaitWoken(t) \/ Leave(t)
  PROVE  LaneInv'
  <1>1. /\ UNCHANGED <<lane, closing, core>>
        /\ asleep' \subseteq asleep
        /\ ~isCloser(t) /\ ~isCloser(t)' /\ place'[t] # "following"
        /\ \A u \in Threads : u # t => place'[u] = place[u]
    BY DEF LaneInv, TypeOK, Enter, CallReturns, WaitAnswered, WaitWoken, Leave, goto, isCloser
  <1>2. /\ place' \in [Threads -> Places]
        /\ activeCalls' = Cardinality(counted')
        /\ activeCalls' \in 0..Cardinality(Threads)
    <2>1. CASE Enter(t, "calling") \/ Enter(t, "waiting")
      BY <2>1, CountKept DEF Enter, isInside, Places
    <2>2. CASE CallReturns(t) \/ WaitAnswered(t) \/ WaitWoken(t)
      BY <2>2, CountKept DEF CallReturns, WaitAnswered, WaitWoken, isInside, Places
    <2>3. CASE Leave(t)
      BY <2>3, CountKept DEF Leave, isInside, Places
    <2>4. QED
      BY <2>1, <2>2, <2>3
  <1>3. lane = "nil" => counted' = {}
    BY <1>1 DEF LaneInv, TypeOK, counted, Enter, CallReturns, WaitAnswered, WaitWoken,
                Leave, goto
  <1>4. CloserInv'
    BY <1>1 DEF LaneInv, CloserInv, isCloser
  <1>5. QED
    BY <1>1, <1>2, <1>3, <1>4 DEF LaneInv, TypeOK

\* The steps of close() before its last wait, and a sleeper's waking.
LEMMA CloseInv ==
  ASSUME LaneInv, NEW t \in Threads,
         CallClose(t) \/ StopBegins(t) \/ StopReturns(t) \/ Follow(t) \/ Wake(t)
  PROVE  LaneInv'
  <1> USE DEF LaneInv, TypeOK
  <1>1. CASE CallClose(t)
    <2>1. /\ place' \in [Threads -> Places]
          /\ activeCalls' = Cardinality(counted') /\ activeCalls' \in 0..Cardinality(Threads)
      BY <1>1, CountKept DEF CallClose, isInside, Places
    <2>2. CloserInv'
      BY <1>1 DEF CallClose, goto, CloserInv, isCloser
    <2>3. QED
      BY <1>1, <2>1, <2>2 DEF CallClose
  <1>2. CASE StopBegins(t) \/ StopReturns(t)
    <2>1. /\ place' \in [Threads -> Places]
          /\ activeCalls' = Cardinality(counted') /\ activeCalls' \in 0..Cardinality(Threads)
      BY <1>2, CountKept DEF StopBegins, StopReturns, isInside, Places
    <2>2. CloserInv'
      BY <1>2 DEF StopBegins, StopReturns, goto, CloserInv, isCloser
    <2>3. lane = "live"
      BY <1>2 DEF StopBegins, StopReturns, CloserInv, isCloser
    <2>4. QED
      BY <1>2, <2>1, <2>2, <2>3 DEF StopBegins, StopReturns
  <1>3. CASE Follow(t) /\ UNCHANGED place
    BY <1>3 DEF Follow, sleep, counted, CloserInv, isCloser
  <1>4. CASE Follow(t) /\ goto(t, "idle") /\ UNCHANGED asleep
    <2>1. /\ place' \in [Threads -> Places]
          /\ activeCalls' = Cardinality(counted') /\ activeCalls' \in 0..Cardinality(Threads)
      BY <1>4, CountKept DEF Follow, isInside, Places
    <2>2. CloserInv' /\ counted' = counted
      BY <1>4 DEF Follow, goto, CloserInv, isCloser, counted
    <2>3. QED
      BY <1>4, <2>1, <2>2 DEF Follow
  <1>5. CASE Wake(t)
    BY <1>5 DEF Wake, counted, CloserInv, isCloser
  <1>6. QED
    BY <1>1, <1>2, <1>3, <1>4, <1>5 DEF Follow

\* The last wait: with the counter at zero nobody is inside, and nobody can enter.
LEMMA DrainInv ==
  ASSUME LaneInv, NEW t \in Threads, Drain(t)
  PROVE  LaneInv'
  <1> USE DEF LaneInv, TypeOK
  <1>1. CASE activeCalls # 0 /\ sleep(t) /\ UNCHANGED <<lane, core, place>>
    BY <1>1 DEF Drain, sleep, counted, CloserInv, isCloser
  <1>2. CASE activeCalls = 0 /\ core' = "destroyed" /\ lane' = "nil" /\ asleep' = {}
             /\ goto(t, "idle")
    <2>1. closing /\ lane = "live" /\ \A u \in Threads : isCloser(u) => u = t
      BY DEF Drain, CloserInv, isCloser
    <2>2. counted = {}
      BY <1>2, CountMoves DEF counted
    <2>3. /\ place' \in [Threads -> Places]
          /\ activeCalls' = Cardinality(counted') /\ activeCalls' \in 0..Cardinality(Threads)
      BY <1>2, CountKept DEF Drain, isInside, Places
    <2>4. counted' = {}
      BY <1>2, <2>2 DEF goto, counted
    <2>5. CloserInv'
      BY <1>2, <2>1 DEF Drain, goto, CloserInv, isCloser
    <2>6. QED
      BY <1>2, <2>1, <2>3, <2>4, <2>5 DEF Drain
  <1>3. QED
    BY <1>1, <1>2 DEF Drain

LEMMA StepInv == LaneInv /\ [Next]_vars => LaneInv'
  <1> SUFFICES ASSUME LaneInv, [Next]_vars PROVE LaneInv'
    OBVIOUS
  <1>1. CASE Next
    BY <1>1, CallInv, CloseInv, DrainInv DEF Next, Continue
  <1>2. CASE UNCHANGED vars
    BY <1>2 DEF vars, LaneInv, TypeOK, CloserInv, isCloser, counted
  <1>3. QED
    BY <1>1, <1>2

-----------------------------------------------------------------------------
(* The theorems. *)

\* In every behaviour of the lane the invariant holds: activeCalls is the number of
\* threads inside (withLane), and one thread closes (close).
THEOREM LaneInvHolds == Spec => []LaneInv
  BY InitInv, StepInv, PTL DEF Spec

\* Every variable of the lane keeps its type, for every number of threads.
THEOREM LaneTypeHolds == Spec => []TypeOK
  <1>1. LaneInv => TypeOK
    BY DEF LaneInv
  <1>2. QED
    BY <1>1, LaneInvHolds, PTL

\* The native lane is destroyed stopped and empty (close).
THEOREM DestroyedLast == Spec => DestroyLast
  <1> DEFINE A == core # "destroyed" /\ core' = "destroyed" => core = "stopped" /\ counted = {}
  <1>1. LaneInv /\ [Next]_vars => [A]_vars
    <2> SUFFICES ASSUME LaneInv, Next, core # "destroyed", core' = "destroyed"
                 PROVE  core = "stopped" /\ counted = {}
      OBVIOUS
    <2>1. PICK t \in Threads : Drain(t)
      BY DEF Next, Continue, Enter, CallReturns, WaitAnswered, WaitWoken, Leave, CallClose,
             StopBegins, StopReturns, Wake, Follow
    <2>2. activeCalls = 0 /\ core = "stopped"
      BY <2>1 DEF Drain, LaneInv, CloserInv
    <2>3. counted = {}
      BY <2>2, CountMoves DEF LaneInv, counted
    <2>4. QED
      BY <2>2, <2>3
  <1>2. QED
    BY <1>1, LaneInvHolds, PTL DEF Spec, DestroyLast

\* No close() returns before the lane is gone, neither the closer's nor a follower's.
THEOREM CloseIsFinal == Spec => CloseMeansGone
  <1> DEFINE A == \A t \in Threads :
                    (isCloser(t) \/ place[t] = "following") /\ place'[t] = "idle" => lane' = "nil"
  <1>1. LaneInv /\ [Next]_vars => [A]_vars
    <2> SUFFICES ASSUME LaneInv, Next, NEW t \in Threads,
                        isCloser(t) \/ place[t] = "following", place'[t] = "idle"
                 PROVE  lane' = "nil"
      OBVIOUS
    <2>1. place \in [Threads -> Places] /\ place[t] # "idle"
      BY DEF LaneInv, TypeOK, isCloser
    <2>2. PICK u \in Threads : Enter(u, "calling") \/ Enter(u, "waiting") \/ WaitAnswered(u)
                               \/ CallClose(u) \/ Wake(u) \/ Continue(u)
      BY DEF Next
    <2>3. u = t /\ (Drain(t) \/ Follow(t))
      BY <2>1, <2>2 DEF Continue, Enter, CallReturns, WaitAnswered, WaitWoken, Leave,
                        CallClose, StopBegins, StopReturns, Wake, Drain, Follow, goto, isCloser
    <2>4. QED
      BY <2>1, <2>3 DEF Drain, Follow
  <1>2. QED
    BY <1>1, LaneInvHolds, PTL DEF Spec, CloseMeansGone

\* Whoever sleeps in condition.wait() has something to wait for: the broadcasts of
\* withLane's last leaver and of close() reach everyone they concern.
THEOREM WakeupsReach == Spec => []NoLostWakeup
  <1>1. Init => NoLostWakeup
    BY DEF Init, NoLostWakeup
  <1>2. LaneInv /\ NoLostWakeup /\ [Next]_vars => NoLostWakeup'
    <2> SUFFICES ASSUME LaneInv, NoLostWakeup, [Next]_vars, NEW u \in asleep'
                 PROVE  /\ lane' = "live"
                        /\ place'[u] = "following" \/ (place'[u] = "draining" /\ activeCalls' > 0)
      BY DEF NoLostWakeup
    <2> USE DEF LaneInv, TypeOK
    <2>1. CASE UNCHANGED vars
      BY <2>1 DEF vars, NoLostWakeup
    <2>2. ASSUME NEW t \in Threads,
                 Enter(t, "calling") \/ Enter(t, "waiting") \/ CallReturns(t) \/ WaitAnswered(t)
                 \/ WaitWoken(t) \/ CallClose(t) \/ StopBegins(t) \/ StopReturns(t) \/ Wake(t)
          PROVE  /\ u \in asleep /\ place'[u] = place[u] /\ lane' = lane /\ activeCalls' >= activeCalls
      BY <2>2 DEF NoLostWakeup, Enter, CallReturns, WaitAnswered, WaitWoken, CallClose, StopBegins,
                  StopReturns, Wake, goto
    <2>3. ASSUME NEW t \in Threads, Leave(t)
          PROVE  u \in asleep /\ place'[u] = place[u] /\ lane' = lane /\ activeCalls' > 0
      <3>1. activeCalls' # 0 /\ u \in asleep /\ u # t
        BY <2>3 DEF Leave, NoLostWakeup
      <3>2. counted' = counted \ {t} /\ t \in counted
        BY <2>3 DEF Leave, counted, goto
      <3>3. activeCalls' \in Nat
        BY <2>3, StepInv, FS_CardinalityType, ThreadsAssumption DEF Next, Continue
      <3>4. QED
        BY <2>3, <3>1, <3>3 DEF Leave, goto
    <2>4. ASSUME NEW t \in Threads, Drain(t)
          PROVE  /\ lane' = "live" /\ activeCalls' = activeCalls /\ place' = place
                 /\ u \in asleep \/ (place[u] = "draining" /\ activeCalls > 0)
      BY <2>4, FS_CardinalityType, ThreadsAssumption DEF Drain, sleep, CloserInv, isCloser
    <2>5. ASSUME NEW t \in Threads, Follow(t)
          PROVE  /\ activeCalls' = activeCalls /\ lane' = lane
                 /\ \/ u \in asleep /\ place'[u] = place[u]
                    \/ lane = "live" /\ place'[u] = "following"
      BY <2>5 DEF Follow, sleep, goto, NoLostWakeup
    <2>6. CASE \E t \in Threads : Enter(t, "calling") \/ Enter(t, "waiting") \/ CallReturns(t) \/ WaitAnswered(t)
                 \/ WaitWoken(t) \/ CallClose(t) \/ StopBegins(t) \/ StopReturns(t) \/ Wake(t)
      <3>1. u \in asleep /\ place'[u] = place[u] /\ lane' = lane /\ activeCalls' >= activeCalls
        BY <2>2, <2>6
      <3>2. activeCalls' \in Int /\ activeCalls \in Int
        BY StepInv, FS_CardinalityType, ThreadsAssumption
      <3>3. QED
        BY <3>1, <3>2 DEF NoLostWakeup
    <2>7. CASE \E t \in Threads : Leave(t) \/ Drain(t) \/ Follow(t)
      BY <2>3, <2>4, <2>5, <2>7 DEF NoLostWakeup
    <2>8. QED
      BY <2>1, <2>6, <2>7 DEF Next, Continue
  <1>3. QED
    BY <1>1, <1>2, LaneInvHolds, PTL DEF Spec

\* A close() that has begun can never be blocked for good: a follower waits for the
\* closer, the closer for the calls, and a call, once the lane has stopped, for nobody.
THEOREM CloseNeverStuck == Spec => []NeverStuck
  <1>1. LaneInv /\ NoLostWakeup => NeverStuck
    <2> SUFFICES ASSUME LaneInv, NoLostWakeup, NEW t \in Threads, isCloser(t) \/ place[t] = "following"
                 PROVE  \E u \in Threads : canContinue(u)
      BY DEF NeverStuck
    <2> USE DEF LaneInv, TypeOK
    <2>1. CASE t \notin asleep
      BY <2>1 DEF isCloser, canContinue
    <2>2. CASE t \in asleep
      <3>1. closing /\ lane = "live"
        BY <2>2 DEF NoLostWakeup, CloserInv, isCloser
      <3>2. PICK u \in Threads : isCloser(u)
        BY <3>1 DEF CloserInv
      <3>3. CASE u \notin asleep
        BY <3>2, <3>3 DEF isCloser, canContinue
      <3>4. CASE u \in asleep
        <4>1. place[u] = "draining" /\ activeCalls > 0 /\ core = "stopped"
          BY <3>2, <3>4 DEF NoLostWakeup, isCloser, CloserInv
        <4>2. counted # {}
          BY <4>1, FS_EmptySet
        <4>3. PICK v \in Threads : place[v] \in {"calling", "waiting", "leaving"}
          BY <4>2 DEF counted
        <4>4. QED
          BY <4>1, <4>3 DEF canContinue
      <3>5. QED
        BY <3>3, <3>4
    <2>3. QED
      BY <2>1, <2>2
  <1>2. QED
    BY <1>1, LaneInvHolds, WakeupsReach, PTL

\* The lane's steps are NativeOwner's: calls borrow while it is open and return,
\* close() seals, and the destruction releases what nobody borrows.
THEOREM LaneIsSafeOwner == Spec => Owner!Safe
  <1>1. Init => Owner!Init
    BY DEF Init, Owner!Init, counted
  <1>2. LaneInv /\ [Next]_vars => [Owner!Next]_(Owner!vars)
    <2> SUFFICES ASSUME LaneInv, [Next]_vars PROVE [Owner!Next]_(Owner!vars)
      OBVIOUS
    <2> USE DEF LaneInv, TypeOK
    <2>1. CASE UNCHANGED vars
      BY <2>1 DEF vars, Owner!vars, counted
    <2>2. ASSUME NEW t \in Threads, Enter(t, "calling") \/ Enter(t, "waiting")
          PROVE  Owner!Borrow(t)
      BY <2>2 DEF Enter, goto, counted, Owner!Borrow
    <2>3. ASSUME NEW t \in Threads, Leave(t) PROVE Owner!Return(t)
      BY <2>3 DEF Leave, goto, counted, Owner!Return
    <2>4. ASSUME NEW t \in Threads, CallClose(t) PROVE [Owner!Seal]_(Owner!vars)
      BY <2>4 DEF CallClose, goto, counted, Owner!Seal, Owner!vars
    <2>5. ASSUME NEW t \in Threads, Drain(t) PROVE [Owner!Release]_(Owner!vars)
      <3>1. CASE UNCHANGED <<lane, core, place>>
        BY <2>5, <3>1 DEF Drain, counted, Owner!vars
      <3>2. CASE activeCalls = 0 /\ lane' = "nil" /\ goto(t, "idle")
        <4>1. counted = {}
          BY <3>2, CountMoves DEF counted
        <4>2. counted' = {}
          BY <3>2, <4>1 DEF goto, counted
        <4>3. closing /\ lane = "live"
          BY <2>5 DEF Drain, CloserInv, isCloser
        <4>4. QED
          BY <2>5, <3>2, <4>1, <4>2, <4>3 DEF Drain, Owner!Release
      <3>3. QED
        BY <2>5, <3>1, <3>2 DEF Drain
    <2>6. ASSUME NEW t \in Threads,
                 CallReturns(t) \/ WaitAnswered(t) \/ WaitWoken(t) \/ StopBegins(t)
                 \/ StopReturns(t) \/ Follow(t) \/ Wake(t)
          PROVE  UNCHANGED Owner!vars
      BY <2>6 DEF CallReturns, WaitAnswered, WaitWoken, StopBegins, StopReturns, Follow,
                  Wake, goto, counted, Owner!vars
    <2>7. QED
      BY <2>1, <2>2, <2>3, <2>4, <2>5, <2>6 DEF Next, Continue, Owner!Next
  <1>3. QED
    BY <1>1, <1>2, LaneInvHolds, PTL DEF Spec, Owner!Safe
=============================================================================
