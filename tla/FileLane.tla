------------------------------ MODULE FileLane ------------------------------
(***************************************************************************)
(* FileLane: host threads call into a native lane, some of them blocking   *)
(* inside it until a transfer advances, while others close it.  close()    *)
(* refuses new calls, stops the native lane, which wakes the blocked       *)
(* calls, waits until every call has left, and only then destroys it.      *)
(*                                                                         *)
(* A section under the NSCondition is one step; wait() puts the thread in  *)
(* `asleep` until a broadcast, or for no reason.                           *)
(***************************************************************************)
EXTENDS Naturals, FiniteSets

CONSTANT Threads        \* host threads that use the lane

ASSUME ThreadsAssumption == IsFiniteSet(Threads)

VARIABLES
  lane,                 \* the pointer: "live" or "nil"
  closing,
  activeCalls,
  asleep,               \* threads in condition.wait()
  core,                 \* the native lane
  place                 \* where each thread is

vars == <<lane, closing, activeCalls, asleep, core, place>>

Places == {"idle", "calling", "waiting", "leaving",
           "stopping", "joining", "draining", "following"}

Init ==
  /\ lane = "live"
  /\ closing = FALSE
  /\ activeCalls = 0
  /\ asleep = {}
  /\ core = "started"
  /\ place = [t \in Threads |-> "idle"]

goto(t, p) == place' = [place EXCEPT ![t] = p]

-----------------------------------------------------------------------------
(* withLane *)

\* "waiting" is waitTransfer, "calling" every other operation.  Once closing
\* the call throws and changes nothing.
Enter(t, p) ==
  /\ place[t] = "idle"
  /\ ~closing
  /\ lane = "live"
  /\ activeCalls' = activeCalls + 1
  /\ goto(t, p)
  /\ UNCHANGED <<lane, closing, asleep, core>>

CallReturns(t) ==
  /\ place[t] = "calling"
  /\ goto(t, "leaving")
  /\ UNCHANGED <<lane, closing, activeCalls, asleep, core>>

\* The sequence advances or the timeout expires.
WaitAnswered(t) ==
  /\ place[t] = "waiting"
  /\ core = "started"
  /\ goto(t, "leaving")
  /\ UNCHANGED <<lane, closing, activeCalls, asleep, core>>

\* The native lane stops.
WaitWoken(t) ==
  /\ place[t] = "waiting"
  /\ core # "started"
  /\ goto(t, "leaving")
  /\ UNCHANGED <<lane, closing, activeCalls, asleep, core>>

\* Mutant of Leave: no broadcast.
LeaveSilently(t) ==
  /\ place[t] = "leaving"
  /\ activeCalls' = activeCalls - 1
  /\ goto(t, "idle")
  /\ UNCHANGED <<lane, closing, asleep, core>>

Leave(t) ==
  /\ place[t] = "leaving"
  /\ activeCalls' = activeCalls - 1
  /\ asleep' = IF activeCalls' = 0 THEN {} ELSE asleep
  /\ goto(t, "idle")
  /\ UNCHANGED <<lane, closing, core>>

-----------------------------------------------------------------------------
(* close *)

\* Mutant of CallClose: waits for the calls before it stops the lane.
CloseDrainsFirst(t) ==
  /\ place[t] = "idle"
  /\ lane = "live"
  /\ closing' = TRUE
  /\ goto(t, IF closing THEN "following" ELSE "draining")
  /\ UNCHANGED <<lane, activeCalls, asleep, core>>

\* The first caller closes, any other follows it; once the lane is nil the
\* call returns at once.
CallClose(t) ==
  /\ place[t] = "idle"
  /\ lane = "live"
  /\ closing' = TRUE
  /\ goto(t, IF closing THEN "following" ELSE "stopping")
  /\ UNCHANGED <<lane, activeCalls, asleep, core>>

\* file_lane_stop: refuses work, wakes the waits, then joins the workers.
StopBegins(t) ==
  /\ place[t] = "stopping"
  /\ core' = "stopping"
  /\ goto(t, "joining")
  /\ UNCHANGED <<lane, closing, activeCalls, asleep>>

StopReturns(t) ==
  /\ place[t] = "joining"
  /\ core' = "stopped"
  /\ goto(t, "draining")
  /\ UNCHANGED <<lane, closing, activeCalls, asleep>>

\* condition.wait(), in a loop that tests its condition again.
sleep(t) == asleep' = asleep \cup {t}

Wake(t) ==
  /\ t \in asleep
  /\ asleep' = asleep \ {t}
  /\ UNCHANGED <<lane, closing, activeCalls, core, place>>

Drain(t) ==
  /\ place[t] = "draining"
  /\ t \notin asleep
  /\ \/ activeCalls # 0 /\ sleep(t) /\ UNCHANGED <<lane, core, place>>
     \/ /\ activeCalls = 0
        /\ core' = "destroyed"
        /\ lane' = "nil"
        /\ asleep' = {}
        /\ goto(t, "idle")
  /\ UNCHANGED <<closing, activeCalls>>

\* Mutant of Follow: does not wait.
FollowOnce(t) ==
  /\ place[t] = "following"
  /\ t \notin asleep
  /\ goto(t, "idle")
  /\ UNCHANGED <<lane, closing, activeCalls, asleep, core>>

Follow(t) ==
  /\ place[t] = "following"
  /\ t \notin asleep
  /\ \/ lane = "live" /\ sleep(t) /\ UNCHANGED place
     \/ lane = "nil" /\ goto(t, "idle") /\ UNCHANGED asleep
  /\ UNCHANGED <<lane, closing, activeCalls, core>>

-----------------------------------------------------------------------------
Continue(t) ==
  \/ CallReturns(t) \/ WaitWoken(t) \/ Leave(t)
  \/ StopBegins(t) \/ StopReturns(t) \/ Drain(t) \/ Follow(t)

Next == \E t \in Threads :
  \/ Enter(t, "calling") \/ Enter(t, "waiting") \/ WaitAnswered(t)
  \/ CallClose(t) \/ Wake(t)
  \/ Continue(t)

Spec == Init /\ [][Next]_vars

\* A call goes on, and a native wait ends once the lane stops.  No wait is
\* assumed to end because its transfer advances, nor a sleeper to wake unasked.
Fairness == \A t \in Threads : WF_vars(Continue(t))

FairSpec == Spec /\ Fairness

-----------------------------------------------------------------------------
(* Properties *)

counted == {t \in Threads : place[t] \in {"calling", "waiting", "leaving"}}
isCloser(t) == place[t] \in {"stopping", "joining", "draining"}

\* The variables keep their types.
TypeOK ==
  /\ lane \in {"live", "nil"} /\ closing \in BOOLEAN
  /\ activeCalls \in 0..Cardinality(Threads)
  /\ asleep \subseteq Threads
  /\ core \in {"started", "stopping", "stopped", "destroyed"}
  /\ place \in [Threads -> Places]

\* The native lane is destroyed only after it has been stopped and while no
\* call is inside: destroy substitutes neither (file_lane.h:288).
DestroyLast ==
  [][core # "destroyed" /\ core' = "destroyed" => core = "stopped" /\ counted = {}]_vars

\* No close() returns before the lane is destroyed, not even the one that found
\* another under way.
CloseMeansGone ==
  [][\A t \in Threads :
       (isCloser(t) \/ place[t] = "following") /\ place'[t] = "idle" => lane' = "nil"]_vars

\* No wakeup is lost: whoever sleeps on the condition still has something to wait
\* for, the closer a call that has not left, a follower the lane that is not gone.
NoLostWakeup ==
  \A t \in asleep :
    /\ lane = "live"
    /\ place[t] = "following" \/ (place[t] = "draining" /\ activeCalls > 0)

\* The thread's next step can be taken: it is not asleep, nor in a native wait that
\* only an answer would end.
canContinue(t) ==
  \/ place[t] \in {"calling", "leaving", "stopping", "joining"}
  \/ place[t] = "waiting" /\ core # "started"
  \/ place[t] \in {"draining", "following"} /\ t \notin asleep

\* close() and the calls inside never wait for each other, however many there are:
\* while a close() is under way, some thread can take its next step.
NeverStuck ==
  (\E t \in Threads : isCloser(t) \/ place[t] = "following") => \E t \in Threads : canContinue(t)

\* The lane implements the ownership promise: calls borrow it while it is open,
\* close() seals it, and it is destroyed only when no call uses it.
Owner == INSTANCE NativeOwner WITH
  Borrowers <- Threads,
  phase <- IF lane = "nil" THEN "released" ELSE IF closing THEN "sealed" ELSE "open",
  borrowed <- counted

\* It keeps the promise in full: once sealed it is released, although a call may
\* be blocked in a wait that nothing but the stop ends.
OwnsLane == Owner!Spec

\* Every close() returns.
CloseReturns ==
  \A t \in Threads : isCloser(t) \/ place[t] = "following" ~> place[t] = "idle"
=============================================================================
