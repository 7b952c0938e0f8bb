------------------------------ MODULE Startup ------------------------------
(***************************************************************************)
(* From the library to a running host or lane: RuntimeHost.start, and the  *)
(* openInternal of FileLane and StreamLane.  Each call of Core on the way  *)
(* may fail, and what exists by then is released: a host's objects by the  *)
(* catch block of start, a lane by its own constructor.  What came up is   *)
(* retired by its session or closed, in the order Core asks for            *)
(* (CoreContract).                                                         *)
(***************************************************************************)
EXTENDS Naturals

CONSTANTS
  Hosts, FileLanes, StreamLanes,
  Secured,          \* hosts whose spec has a security intent
  Owned,            \* lanes opened with an owner
  Paths, Files, resolve, Fallbacks, Symbols, None

Starters == Hosts \cup FileLanes \cup StreamLanes

VARIABLES
  at, path, handle, processLock, processHandle, processPath, table, mapped, exports,
  step,             \* where each start is
  live              \* what each has of Core: objects made, configuration applied, state

libraryState == <<at, path, handle, processLock, processHandle, processPath, table, mapped, exports>>
vars == <<libraryState, step, live>>

Library == INSTANCE NativeLibrary

ASSUME StartupAssumption ==
  /\ Hosts \cap (FileLanes \cup StreamLanes) = {}
  /\ FileLanes \cap StreamLanes = {}
  /\ Secured \subseteq Hosts
  /\ Owned \subseteq FileLanes \cup StreamLanes
  /\ Library!LibraryAssumption

Init ==
  /\ Library!Init
  /\ step = [w \in Starters |-> "library"]
  /\ live = [w \in Starters |-> {}]

goto(w, s) == step' = [step EXCEPT ![w] = s]

\* A call of Core: it is made in one place, yields what it yields and leads to
\* the next one, or fails, yields nothing and leads out.
Calls(w, here, yield, next, out) ==
  /\ step[w] = here
  /\ \/ goto(w, next) /\ live' = [live EXCEPT ![w] = @ \cup yield]
     \/ goto(w, out) /\ UNCHANGED live
  /\ UNCHANGED libraryState

\* A release, of whatever there is of it.
Releases(w, here, what, next) ==
  /\ step[w] = here
  /\ goto(w, next)
  /\ live' = [live EXCEPT ![w] = @ \ what]
  /\ UNCHANGED libraryState

-----------------------------------------------------------------------------
(* The library, and the first questions to it. *)

OpenLibrary(w) ==
  /\ step[w] = "library"
  /\ Library!Open(w) \/ Library!Opening(w)
  /\ UNCHANGED <<step, live>>

LibraryOpened(w) ==
  /\ step[w] = "library"
  /\ \/ at[w] = "open" /\ goto(w, IF w \in Hosts THEN "abi" ELSE "feature")
     \/ at[w] = "failed" /\ goto(w, "ended")
  /\ UNCHANGED <<libraryState, live>>

CheckABI(w) == Calls(w, "abi", {}, "create", "closing")

\* A lane asks Core whether the feature is compiled in, then about owner grants
\* if it has an owner.
CheckFeature(w) ==
  Calls(w, "feature", {}, IF w \in Owned THEN "grants" ELSE "createLane", "closing")

CheckGrants(w) == Calls(w, "grants", {}, "createLane", "closing")

-----------------------------------------------------------------------------
(* RuntimeHost.start *)

CreateNative(w) == Calls(w, "create", {"runtime"}, "network", "closing")

ApplyNetwork(w) ==
  Calls(w, "network", {"policy"}, IF w \in Secured THEN "security" ELSE "routes", "destroyReader")

\* Core returns a status and a result; the host goes on only if it was applied.
ApplySecurity(w) ==
  /\ step[w] = "security"
  /\ \E ok \in BOOLEAN, result \in BOOLEAN :
       /\ goto(w, IF ok /\ result THEN "routes" ELSE "destroyReader")
       /\ live' = [live EXCEPT ![w] = @ \cup (IF ok /\ result THEN {"security"} ELSE {})]
  /\ UNCHANGED libraryState

ApplyRoutes(w) == Calls(w, "routes", {"snapshot"}, "handles", "destroyReader")

GetHandles(w) == Calls(w, "handles", {"handles", "exported"}, "start", "destroyReader")

StartRuntime(w) == Calls(w, "start", {"started"}, "client", "destroyReader")

CreateClient(w) == Calls(w, "client", {"client"}, "reader", "destroyReader")

CreateReader(w) == Calls(w, "reader", {"reader"}, "up", "destroyReader")

\* A stop that Core accepts.
Stops(w, here, next) ==
  /\ step[w] = here
  /\ "started" \in live[w]
  /\ live' = [live EXCEPT ![w] = (@ \ {"started"}) \cup {"stopped"}]
  /\ goto(w, next)
  /\ UNCHANGED libraryState

\* The catch block.
DestroyReader(w) == Releases(w, "destroyReader", {"reader"}, "stop")

\* The status of this stop is ignored.
StopRuntime(w) == Stops(w, "stop", "destroyClient") \/ Releases(w, "stop", {}, "destroyClient")

\* Mutant of DestroyClient: the handles are closed first.
HandlesFirst(w) == Releases(w, "destroyClient", {"handles"}, "closeHandles")

DestroyClient(w) == Releases(w, "destroyClient", {"client"}, "closeHandles")

CloseHandles(w) == Releases(w, "closeHandles", {"handles"}, "destroyRuntime")

\* runtime_destroy stops a runtime that is still started.
DestroyRuntime(w) == Releases(w, "destroyRuntime", live[w] \ {"handles"}, "closing")

-----------------------------------------------------------------------------
(* The lanes *)

CreateLane(w) ==
  Calls(w, "createLane", {"lane"}, IF w \in StreamLanes THEN "owners" ELSE "startLane", "closing")

\* Mutant of StreamOwners: a capacity that does not fit leaves the lane.
StreamOwnersOrLeave(w) == Calls(w, "owners", {}, "startLane", "closing")

\* A stream lane's statistics, whose capacity bounds its table of owners.
StreamOwners(w) == Calls(w, "owners", {}, "startLane", "destroyLane")

StartLane(w) == Calls(w, "startLane", {"started"}, "up", "destroyLane")

DestroyLane(w) == Releases(w, "destroyLane", {"lane"}, "closing")

-----------------------------------------------------------------------------
\* library.close, or the deinit of the wrapper.
CloseLibrary(w) ==
  /\ step[w] = "closing"
  /\ Library!Close(w)
  /\ goto(w, "ended")
  /\ UNCHANGED live

(* What is up ends: a host by the retirement of its session, which goes on *)
(* as the catch block does, a lane by its close.                           *)

RetireReader(w) == w \in Hosts /\ Releases(w, "up", {"reader"}, "retiring")

\* Refused, the session stays as it is, until a close tries again.
RetireStop(w) == Stops(w, "retiring", "destroyClient")

StopLane(w) == w \notin Hosts /\ Releases(w, "up", {"started"}, "destroyLane")

-----------------------------------------------------------------------------
StartHost(w) ==
  \/ CheckABI(w) \/ CreateNative(w) \/ ApplyNetwork(w) \/ ApplySecurity(w) \/ ApplyRoutes(w)
  \/ GetHandles(w) \/ StartRuntime(w) \/ CreateClient(w) \/ CreateReader(w)
  \/ DestroyReader(w) \/ StopRuntime(w) \/ DestroyClient(w) \/ CloseHandles(w) \/ DestroyRuntime(w)

StartALane(w) ==
  \/ CheckFeature(w) \/ CheckGrants(w) \/ CreateLane(w)
  \/ StreamOwners(w) \/ StartLane(w) \/ DestroyLane(w)

Starting(w) ==
  OpenLibrary(w) \/ LibraryOpened(w) \/ StartHost(w) \/ StartALane(w) \/ CloseLibrary(w)

Ending(w) == RetireReader(w) \/ RetireStop(w) \/ StopLane(w)

Next == \E w \in Starters : Starting(w) \/ Ending(w)

Spec == Init /\ [][Next]_vars

\* A start that is under way goes on: no call of Core blocks for ever, and each
\* start takes processLock once.
FairSpec == Spec /\ \A w \in Starters : WF_vars(at[w] # "idle" /\ Starting(w))

-----------------------------------------------------------------------------
(* Properties *)

inHost == {"abi", "create", "network", "security", "routes", "handles", "start", "client", "reader",
           "destroyReader", "stop", "retiring", "destroyClient", "closeHandles", "destroyRuntime"}
inLane == {"feature", "grants", "createLane", "owners", "startLane", "destroyLane"}
Facts == {"runtime", "policy", "security", "snapshot", "handles", "exported", "started", "stopped",
          "client", "reader", "lane"}

\* Every variable keeps its type, and a start is in its own constructor.
TypeOK ==
  /\ step \in [Starters -> inHost \cup inLane \cup {"library", "up", "closing", "ended"}]
  /\ \A w \in Starters : (step[w] \in inHost => w \in Hosts) /\ (step[w] \in inLane => w \notin Hosts)
  /\ live \in [Starters -> SUBSET Facts]

\* What a start that returns has of Core: a started runtime with its policy, its
\* routes, its handles, client and reader, and security if the spec asks for it
\* (RuntimeSession begins here), or a started lane.
complete(w) ==
  IF w \in Hosts
  THEN {"runtime", "policy", "snapshot", "handles", "exported", "started", "client", "reader"}
       \cup (IF w \in Secured THEN {"security"} ELSE {})
  ELSE {"lane", "started"}

\* A start that returns owns everything it should and no less; one that throws,
\* wherever it failed, has released what it had made and let go of the library, as
\* a host that was retired and a lane that was closed have.
StartIsAllOrNothing ==
  \A w \in Starters :
    /\ step[w] = "up" => live[w] = complete(w) /\ handle[w] # None
    /\ step[w] = "ended" => live[w] = {} /\ handle[w] = None

Core(w) == INSTANCE CoreContract WITH has <- live[w], library <- handle[w] # None

\* Each host and each lane keeps the order that Core's headers ask for, on the way
\* up, from any point of failure down, and when it is retired.
KeepsContract ==
  /\ \A w \in Starters : Core(w)!Init
  /\ [][\A w \in Starters : Core(w)!Next \/ UNCHANGED Core(w)!vars]_vars

\* While no start is loading, exactly the published library exists, mapped once with
\* one table: a failed open has left nothing.
LoadLeavesNothing == Library!LoadLeavesNothing

\* Whatever handle a host or a lane holds, the bridge may call through it: it is
\* the process's library of its own path, mapped and filled, whoever has closed.
HandlesUsable == Library!HandlesUsable

\* Every start ends, up or thrown, whatever the starts that raced it for the library
\* ended with.
StartReturns == \A w \in Starters : at[w] = "entering" ~> step[w] \in {"up", "ended"}
=============================================================================
