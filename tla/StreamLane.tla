----------------------------- MODULE StreamLane -----------------------------
(***************************************************************************)
(* StreamLane and its StreamCallbackOwners: host threads register source   *)
(* and consumer callbacks with Core, which keeps a bare pointer to each    *)
(* callback's context.  The table of owners must keep a context alive for  *)
(* as long as Core may use it, release it outside the lane's lock, stay    *)
(* within its storage, and be emptied by close().                          *)
(*                                                                         *)
(* `cond` is the lane's NSCondition.  A section that is entered and left   *)
(* in one step needs it free; an admission holds it across its native      *)
(* call, during which Core's workers may already use the new context.      *)
(***************************************************************************)
EXTENDS Naturals, FiniteSets

CONSTANTS
  Threads,      \* host threads that use the lane
  Keys,         \* (session id, direction) pairs
  Contexts,     \* addresses of callback holders; a freed one may be reused
  None,         \* no thread, no context, no entry, no record
  Capacity,     \* records Core retains
  MayLose       \* the outcome of an admission may be lost (call() throws)

VARIABLES
  lane,         \* the pointer: "live" or "nil"
  closing,
  activeCalls,
  cond,         \* the thread that holds the condition
  asleep,       \* the threads that wait on it
  entries,      \* StreamCallbackOwners.entries
  core,         \* "started", "stopping", "stopped" or "destroyed"
  records,      \* Core's records
  place,        \* where each thread is
  call,         \* its operation: key, context and what came of it
  retired,      \* owners it will release
  live          \* contexts that have not been freed

vars == <<lane, closing, activeCalls, cond, asleep, entries,
          core, records, place, call, retired, live>>

\* An owner whose outcome is received is resolved; until then it also keeps
\* the owner it is to replace.
Entries == [root : Contexts, resolved : BOOLEAN, previous : Contexts \cup {None}]

\* "running": a worker is inside the callback.
Records == [context : Contexts, state : {"waiting", "active", "running", "terminal"}]

Calls == [key : Keys \cup {None}, context : Contexts \cup {None},
          outcome : {"none", "ok", "refused", "lost", "unresolved", "exhausted"}]

ASSUME LaneAssumption ==
  /\ None \notin Threads \cup Contexts
  /\ None \notin Entries /\ None \notin Records
  /\ IsFiniteSet(Threads) /\ IsFiniteSet(Keys)
  /\ Capacity \in Nat \ {0}
  /\ MayLose \in BOOLEAN

noCall == [key |-> None, context |-> None, outcome |-> "none"]

Init ==
  /\ lane = "live"
  /\ closing = FALSE
  /\ activeCalls = 0
  /\ cond = None
  /\ asleep = {}
  /\ entries = [k \in Keys |-> None]
  /\ core = "started"
  /\ records = [k \in Keys |-> None]
  /\ place = [t \in Threads |-> "idle"]
  /\ call = [t \in Threads |-> noCall]
  /\ retired = [t \in Threads |-> {}]
  /\ live = {}

goto(t, p) == place' = [place EXCEPT ![t] = p]
retire(t, cs) == retired' = [retired EXCEPT ![t] = retired[t] \cup (cs \ {None})]

-----------------------------------------------------------------------------
(* StreamCallbackOwners. *)

\* Mutant of limit: no room for a candidate.
limitTight == Capacity

limit == Capacity + 1
owned(es) == {k \in Keys : es[k] # None}
rootsOf(es) == {es[k].root : k \in owned(es)} \cup {es[k].previous : k \in owned(es)}

\* Resolved owners whose record Core no longer has (get_session: BAD_STATE).
absent(es) == {k \in owned(es) : es[k].resolved /\ records[k] = None}

\* Mutant of prune: nothing is ever pruned.
pruneNothing(es) == es

prune(es) == [k \in Keys |-> IF k \in absent(es) THEN None ELSE es[k]]
pruned(es) == {es[k].root : k \in absent(es)}

-----------------------------------------------------------------------------
(* withLane *)

closeState == <<lane, closing, asleep, core, records, live>>

enter(t, p) ==
  /\ place[t] = "idle"
  /\ cond = None
  /\ ~closing
  /\ activeCalls' = activeCalls + 1
  /\ goto(t, p)

\* session, waitSession, pressure, waitPressure, stats, boundPort: they only
\* read, outside the lock, and may wait.
EnterRead(t) ==
  /\ enter(t, "reading")
  /\ UNCHANGED <<lane, closing, cond, asleep, entries, core, records, call, retired, live>>

ReadReturns(t) ==
  /\ place[t] = "reading"
  /\ goto(t, "leaving")
  /\ UNCHANGED <<activeCalls, cond, entries, call, retired, closeState>>

\* preparePublish, preparePublishGrant, subscribe: the holder is allocated.
EnterAdmit(t, k, c) ==
  /\ enter(t, "admitting")
  /\ c \notin live
  /\ live' = live \cup {c}
  /\ call' = [call EXCEPT ![t] = [key |-> k, context |-> c, outcome |-> "none"]]
  /\ UNCHANGED <<lane, closing, cond, asleep, entries, core, records, retired>>

EnterControl(t, k) ==
  /\ enter(t, "controlling")
  /\ call' = [call EXCEPT ![t] = [key |-> k, context |-> None, outcome |-> "none"]]
  /\ UNCHANGED <<lane, closing, cond, asleep, entries, core, records, retired, live>>

\* Balances activeCalls, and wakes the closer at zero.
Leave(t) ==
  /\ place[t] = "leaving"
  /\ cond = None
  /\ activeCalls' = activeCalls - 1
  /\ asleep' = IF activeCalls' = 0 THEN {} ELSE asleep
  /\ goto(t, "releasing")
  /\ UNCHANGED <<lane, closing, cond, entries, core, records, call, retired, live>>

\* The retired owners go out of scope and application deinits run.  They may
\* call close() on this lane: CallClose starts from here too.
Release(t) ==
  /\ place[t] = "releasing"
  /\ live' = live \ retired[t]
  /\ retired' = [retired EXCEPT ![t] = {}]
  /\ call' = [call EXCEPT ![t] = noCall]
  /\ goto(t, "idle")
  /\ UNCHANGED <<lane, closing, activeCalls, cond, asleep, entries, core, records>>

-----------------------------------------------------------------------------
(* Admission: admit in StreamCallbackOwners, under the condition. *)

outcome(t, o) == call' = [call EXCEPT ![t].outcome = o]

\* Before the native call: refuse, or publish the candidate.
Publish(t) ==
  /\ place[t] = "admitting"
  /\ cond = None
  /\ LET k    == call[t].key
         c    == call[t].context
         full == entries[k] = None /\ Cardinality(owned(entries)) = limit
         es   == IF full THEN prune(entries) ELSE entries
     IN \/ /\ entries[k] # None /\ ~entries[k].resolved
           /\ outcome(t, "unresolved")
           /\ retire(t, {c})
           /\ goto(t, "leaving")
           /\ UNCHANGED <<cond, entries>>
        \/ /\ full /\ Cardinality(owned(es)) = limit
           /\ outcome(t, "exhausted")
           /\ retire(t, {c})
           /\ goto(t, "leaving")
           /\ entries' = es
           /\ UNCHANGED cond
        \/ /\ entries[k] # None => entries[k].resolved
           /\ full => Cardinality(owned(es)) < limit
           /\ cond' = t
           /\ entries' = [es EXCEPT ![k] =
                [root |-> c, resolved |-> FALSE,
                 previous |-> IF es[k] = None THEN None ELSE es[k].root]]
           /\ retire(t, IF full THEN pruned(entries) ELSE {})
           /\ goto(t, "calling")
           /\ UNCHANGED call
  /\ UNCHANGED <<activeCalls, closeState>>

\* Core refuses, or registers the context: over a record of the same key that
\* is not in use, or, when it is full, after dropping terminal records.
coreAccepts(t, dropped) ==
  LET k == call[t].key
      retained == {j \in Keys : records[j] # None}
  IN /\ core = "started"
     /\ dropped \subseteq {j \in retained \ {k} : records[j].state = "terminal"}
     /\ records[k] # None => records[k].state \in {"waiting", "terminal"} /\ dropped = {}
     /\ records[k] = None => (dropped # {} <=> Cardinality(retained) = Capacity)
     /\ records' = [j \in Keys |->
          IF j = k THEN [context |-> call[t].context, state |-> "waiting"]
          ELSE IF j \in dropped THEN None ELSE records[j]]

NativeAdmit(t) ==
  /\ place[t] = "calling"
  /\ \/ \E dropped \in SUBSET Keys : coreAccepts(t, dropped) /\ outcome(t, "ok")
     \/ outcome(t, "refused") /\ UNCHANGED records
     \/ /\ MayLose
        /\ outcome(t, "lost")
        /\ \/ \E dropped \in SUBSET Keys : coreAccepts(t, dropped)
           \/ UNCHANGED records
  /\ goto(t, "called")
  /\ UNCHANGED <<lane, closing, activeCalls, cond, asleep, entries, core, retired, live>>

\* Mutant of Resolve: a refusal removes the key.
ResolveDropsPrevious(t) ==
  /\ place[t] = "called"
  /\ LET k  == call[t].key
         e  == entries[k]
         es == [entries EXCEPT ![k] = [root |-> e.root, resolved |-> TRUE, previous |-> None]]
     IN \/ /\ call[t].outcome = "ok"
           /\ entries' = prune(es)
           /\ retire(t, {e.previous} \cup pruned(es))
        \/ /\ call[t].outcome = "refused"
           /\ entries' = [entries EXCEPT ![k] = None]
           /\ retire(t, {e.root, e.previous})
        \/ call[t].outcome = "lost" /\ UNCHANGED <<entries, retired>>
  /\ cond' = None
  /\ goto(t, "leaving")
  /\ UNCHANGED <<activeCalls, call, closeState>>

\* After it: keep the candidate and let the previous owner go, or the reverse;
\* an outcome that is not received keeps both.
Resolve(t) ==
  /\ place[t] = "called"
  /\ LET k  == call[t].key
         e  == entries[k]
         es == [entries EXCEPT ![k] = [root |-> e.root, resolved |-> TRUE, previous |-> None]]
     IN \/ /\ call[t].outcome = "ok"
           /\ entries' = prune(es)
           /\ retire(t, {e.previous} \cup pruned(es))
        \/ /\ call[t].outcome = "refused"
           /\ entries' = [entries EXCEPT ![k] =
                IF e.previous = None THEN None
                ELSE [root |-> e.previous, resolved |-> TRUE, previous |-> None]]
           /\ retire(t, {e.root})
        \/ call[t].outcome = "lost" /\ UNCHANGED <<entries, retired>>
  /\ cond' = None
  /\ goto(t, "leaving")
  /\ UNCHANGED <<activeCalls, call, closeState>>

\* Mutant of Forget: the status of Core is ignored.
ForgetAnyway(t) ==
  /\ place[t] = "controlling"
  /\ cond = None
  /\ LET k == call[t].key
     IN /\ records' = IF records[k] # None /\ records[k].state = "terminal"
                      THEN [records EXCEPT ![k] = None] ELSE records
        /\ entries' = [entries EXCEPT ![k] = None]
        /\ retire(t, IF entries[k] = None THEN {} ELSE {entries[k].root, entries[k].previous})
  /\ goto(t, "leaving")
  /\ UNCHANGED <<lane, closing, activeCalls, cond, asleep, core, call, live>>

\* Mutant of Forget: the owner that was to be replaced is not retired.
ForgetRootOnly(t) ==
  /\ place[t] = "controlling"
  /\ cond = None
  /\ LET k == call[t].key
     IN \/ /\ records[k] # None /\ records[k].state = "terminal"
           /\ records' = [records EXCEPT ![k] = None]
           /\ entries' = [entries EXCEPT ![k] = None]
           /\ retire(t, IF entries[k] = None THEN {} ELSE {entries[k].root})
        \/ /\ records[k] # None => records[k].state # "terminal"
           /\ UNCHANGED <<records, entries, retired>>
  /\ goto(t, "leaving")
  /\ UNCHANGED <<lane, closing, activeCalls, cond, asleep, core, call, live>>

\* forget: Core lets a terminal record go, then the owners are retired.  It
\* refuses any other, and a key it does not know.
Forget(t) ==
  /\ place[t] = "controlling"
  /\ cond = None
  /\ LET k == call[t].key
     IN \/ /\ records[k] # None /\ records[k].state = "terminal"
           /\ records' = [records EXCEPT ![k] = None]
           /\ entries' = [entries EXCEPT ![k] = None]
           /\ retire(t, IF entries[k] = None THEN {} ELSE {entries[k].root, entries[k].previous})
        \/ /\ records[k] # None => records[k].state # "terminal"
           /\ UNCHANGED <<records, entries, retired>>
  /\ goto(t, "leaving")
  /\ UNCHANGED <<lane, closing, activeCalls, cond, asleep, core, call, live>>

\* cancel: at once for a record not yet in use, later for an active one.
Cancel(t) ==
  /\ place[t] = "controlling"
  /\ cond = None
  /\ LET k == call[t].key
     IN records' = IF records[k] # None /\ records[k].state = "waiting"
                   THEN [records EXCEPT ![k].state = "terminal"] ELSE records
  /\ goto(t, "leaving")
  /\ UNCHANGED <<lane, closing, activeCalls, cond, asleep, entries, core, call, retired, live>>

-----------------------------------------------------------------------------
(* Core's workers.  Stop cancels before it joins: no callback starts then. *)

workersOnly == <<lane, closing, activeCalls, cond, asleep, entries,
                 core, place, call, retired, live>>

CallbackStarts(k) ==
  /\ core = "started"
  /\ records[k] # None /\ records[k].state \in {"waiting", "active"}
  /\ records' = [records EXCEPT ![k].state = "running"]
  /\ UNCHANGED workersOnly

CallbackReturns(k) ==
  /\ records[k] # None /\ records[k].state = "running"
  /\ \E s \in {"active", "terminal"} : records' = [records EXCEPT ![k].state = s]
  /\ UNCHANGED workersOnly

RecordEnds(k) ==
  /\ records[k] # None /\ records[k].state \in {"waiting", "active"}
  /\ records' = [records EXCEPT ![k].state = "terminal"]
  /\ UNCHANGED workersOnly

-----------------------------------------------------------------------------
(* close *)

CallClose(t) ==
  /\ place[t] \in {"idle", "releasing"}
  /\ cond = None
  /\ lane = "live"
  /\ closing' = TRUE
  /\ goto(t, IF closing THEN "following" ELSE "stopping")
  /\ UNCHANGED <<lane, activeCalls, cond, asleep, entries, core, records, call, retired, live>>

StopBegins(t) ==
  /\ place[t] = "stopping"
  /\ core' = "stopping"
  /\ goto(t, "joining")
  /\ UNCHANGED <<lane, closing, activeCalls, cond, asleep, entries, records, call, retired, live>>

\* stream_stop returns: the workers have been joined.
StopReturns(t) ==
  /\ place[t] = "joining"
  /\ \A k \in Keys : records[k] # None => records[k].state # "running"
  /\ core' = "stopped"
  /\ records' = [k \in Keys |->
       IF records[k] = None THEN None ELSE [records[k] EXCEPT !.state = "terminal"]]
  /\ goto(t, "draining")
  /\ UNCHANGED <<lane, closing, activeCalls, cond, asleep, entries, call, retired, live>>

sleep(t) == asleep' = asleep \cup {t}

\* Mutant of Drain: does not wait for the calls.
DrainAtOnce(t) ==
  /\ place[t] = "draining"
  /\ t \notin asleep
  /\ cond = None
  /\ core' = "destroyed"
  /\ records' = [k \in Keys |-> None]
  /\ entries' = [k \in Keys |-> None]
  /\ retire(t, rootsOf(entries))
  /\ lane' = "nil"
  /\ asleep' = {}
  /\ goto(t, "releasing")
  /\ UNCHANGED <<closing, activeCalls, cond, call, live>>

\* Mutant of Drain: the owners are not detached.
DrainKeepsOwners(t) ==
  /\ place[t] = "draining"
  /\ t \notin asleep
  /\ cond = None
  /\ \/ /\ activeCalls # 0
        /\ sleep(t)
        /\ UNCHANGED <<lane, core, records, place>>
     \/ /\ activeCalls = 0
        /\ core' = "destroyed"
        /\ records' = [k \in Keys |-> None]
        /\ lane' = "nil"
        /\ asleep' = {}
        /\ goto(t, "releasing")
  /\ UNCHANGED <<closing, activeCalls, cond, entries, call, retired, live>>

\* Waits for the calls, then destroys the lane and detaches the owners.
Drain(t) ==
  /\ place[t] = "draining"
  /\ t \notin asleep
  /\ cond = None
  /\ \/ /\ activeCalls # 0
        /\ sleep(t)
        /\ UNCHANGED <<lane, core, records, entries, place, retired>>
     \/ /\ activeCalls = 0
        /\ core' = "destroyed"
        /\ records' = [k \in Keys |-> None]
        /\ entries' = [k \in Keys |-> None]
        /\ retire(t, rootsOf(entries))
        /\ lane' = "nil"
        /\ asleep' = {}
        /\ goto(t, "releasing")
  /\ UNCHANGED <<closing, activeCalls, cond, call, live>>

\* A second close() waits until the first is done.
Follow(t) ==
  /\ place[t] = "following"
  /\ t \notin asleep
  /\ cond = None
  /\ \/ lane = "live" /\ sleep(t) /\ UNCHANGED place
     \/ lane = "nil" /\ goto(t, "releasing") /\ UNCHANGED asleep
  /\ UNCHANGED <<lane, closing, activeCalls, cond, entries, core, records, call, retired, live>>

-----------------------------------------------------------------------------
Start(t) ==
  \/ EnterRead(t)
  \/ \E k \in Keys, c \in Contexts : EnterAdmit(t, k, c)
  \/ \E k \in Keys : EnterControl(t, k)
  \/ CallClose(t)

Continue(t) ==
  \/ ReadReturns(t) \/ Publish(t) \/ NativeAdmit(t) \/ Resolve(t)
  \/ Forget(t) \/ Cancel(t) \/ Leave(t) \/ Release(t)
  \/ StopBegins(t) \/ StopReturns(t) \/ Drain(t) \/ Follow(t)

Next ==
  \/ \E t \in Threads : Start(t) \/ Continue(t)
  \/ \E k \in Keys : CallbackStarts(k) \/ CallbackReturns(k) \/ RecordEnds(k)

Spec == Init /\ [][Next]_vars

\* A call that has started goes on (every native wait is bounded and stop wakes
\* it; the condition is not held forever) and callbacks return.
Fairness ==
  /\ \A t \in Threads : SF_vars(Continue(t))
  /\ \A k \in Keys : WF_vars(CallbackReturns(k))

FairSpec == Spec /\ Fairness

-----------------------------------------------------------------------------
(* Properties *)

counted == {t \in Threads :
  place[t] \in {"reading", "admitting", "controlling", "calling", "called", "leaving"}}

\* The variables keep their types, and activeCalls counts exactly the calls
\* between the two halves of withLane.
TypeOK ==
  /\ lane \in {"live", "nil"} /\ closing \in BOOLEAN
  /\ activeCalls = Cardinality(counted)
  /\ cond \in Threads \cup {None} /\ asleep \subseteq Threads
  /\ entries \in [Keys -> Entries \cup {None}]
  /\ core \in {"started", "stopping", "stopped", "destroyed"}
  /\ records \in [Keys -> Records \cup {None}]
  /\ place \in [Threads -> {"idle", "reading", "admitting", "controlling", "calling", "called",
       "leaving", "releasing", "stopping", "joining", "draining", "following"}]
  /\ call \in [Threads -> Calls]
  /\ retired \in [Threads -> SUBSET Contexts]
  /\ live \subseteq Contexts

\* A context that Core may pass to a callback is never freed: the thunks take
\* it unretained (StreamLane.swift:336, :353) and only the table keeps it alive.
ContextsAlive ==
  \A k \in Keys : records[k] # None => records[k].context \in live

\* Whatever Core registered is owned under the same key: by the entry's root
\* once the outcome is received, by the root or the owner it would replace
\* until then.
OwnersCoverCore ==
  \A k \in Keys : records[k] # None =>
    /\ entries[k] # None
    /\ \/ records[k].context = entries[k].root
       \/ ~entries[k].resolved /\ records[k].context = entries[k].previous

\* Outside an admission, when every outcome is received, the table owns nothing
\* for a record Core has let go: replaced, evicted and forgotten callbacks are
\* all retired (admit prunes after each success).
OwnersOnlyForCore ==
  cond = None => \A k \in Keys : entries[k] # None => records[k] # None

\* No holder is lost: each is owned by the table, about to be released by a
\* thread, or the argument of an admission under way.
NothingLeaks ==
  \A c \in live :
    \/ c \in rootsOf(entries)
    \/ \E t \in Threads : c \in retired[t]
    \/ \E t \in Threads : place[t] = "admitting" /\ call[t].context = c

\* The table stays within the storage reserved for it (Core's capacity and one
\* candidate), whatever outcomes are lost, and that storage is no tighter than it
\* must be: admission is refused for want of it only while an outcome is
\* unresolved.  Otherwise eviction in Core makes room, and Core alone decides.
StorageSuffices ==
  /\ [](Cardinality(owned(entries)) <= Capacity + 1)
  /\ [][\A t \in Threads :
         call'[t].outcome = "exhausted" /\ call[t].outcome # "exhausted"
           => \E k \in Keys : entries[k] # None /\ ~entries[k].resolved]_vars

isCloser(t) == place[t] \in {"stopping", "joining", "draining"}

\* No wakeup is lost: whoever sleeps on the condition still has something to wait
\* for, the closer a call that has not left, a follower the lane that is not gone.
NoLostWakeup ==
  \A t \in asleep :
    /\ lane = "live"
    /\ place[t] = "following" \/ (place[t] = "draining" /\ activeCalls > 0)

\* The thread's next step can be taken: it does not sleep, the condition it needs is
\* free, and the workers it joins are out of the application's callbacks.
canContinue(t) ==
  \/ place[t] \in {"reading", "calling", "called", "releasing", "stopping"}
  \/ place[t] \in {"admitting", "controlling", "leaving"} /\ cond = None
  \/ place[t] = "joining" /\ \A k \in Keys : records[k] # None => records[k].state # "running"
  \/ place[t] \in {"draining", "following"} /\ t \notin asleep /\ cond = None

\* Calls, close() and the admission that holds the condition never wait for each
\* other in a circle: while any of them is under way, a thread can take its next
\* step, unless the closer waits for a callback that has not returned.
NeverStuck ==
  (\E t \in Threads : place[t] # "idle") =>
    \/ \E t \in Threads : canContinue(t)
    \/ \E k \in Keys : records[k] # None /\ records[k].state = "running"

\* What close() leaves: no owner in the table, no record in Core, and no holder but
\* those that a thread is about to release.
ClosedLaneIsEmpty ==
  lane = "nil" =>
    /\ \A k \in Keys : entries[k] = None /\ records[k] = None
    /\ \A c \in live : \E t \in Threads : c \in retired[t]

\* The lane implements the ownership promise: calls borrow it while it is open,
\* close() seals it, and it is destroyed only when no call uses it.
Owner == INSTANCE NativeOwner WITH
  Borrowers <- Threads,
  phase <- IF lane = "nil" THEN "released" ELSE IF closing THEN "sealed" ELSE "open",
  borrowed <- counted

OwnsLane == Owner!Safe

\* Once close() has begun, the lane is destroyed and no holder outlives it: the
\* last call to leave wakes the closer, and a deinit that runs when a holder is
\* released may itself close the lane.
LaneReleased == closing ~> lane = "nil" /\ live = {}
=============================================================================
