---------------------------- MODULE StartupProofs ----------------------------
(***************************************************************************)
(* Theorems about Startup and the NativeLibrary it composes, for any hosts *)
(* and lanes, files, paths and number of symbols.                          *)
(*                                                                         *)
(* The library: processLock makes an open one section, so at any time      *)
(* there is the published library, or one that is being loaded, or none,   *)
(* and a wrapper has a handle only to the first.                           *)
(*                                                                         *)
(* The starts: every start owns all it should or nothing, and each         *)
(* instance of Core is used in the order CoreContract asks for.  Both      *)
(* follow from one table: what a start has of Core at each of its steps.   *)
(***************************************************************************)
EXTENDS Startup, TLAPS

-----------------------------------------------------------------------------
(* The library.                                                            *)

\* The lock is held by the open that is between calloc and its end, and only
\* while nothing is published.
LockInv ==
  /\ \A w \in Starters : at[w] \in {"mapping", "loading"} <=> processLock = w
  /\ processLock # None => processHandle = None

\* The published library has a file and a filled table.
PublishedInv ==
  IF processHandle = None THEN processPath = None
  ELSE processPath # None /\ table[processHandle] = Symbols

\* A table exists while its library is loaded or published.
TableInv ==
  \A w \in Starters : table[w] # None <=> w \in {processHandle, processLock}

loads(w, f) == at[w] = "loading" /\ path[w] = f

MappedInv ==
  \A f \in Files : mapped[f] = IF f = processPath \/ \E w \in Starters : loads(w, f) THEN 1 ELSE 0

\* What each wrapper has.
WrapperInv ==
  \A w \in Starters :
    /\ at[w] \in {"entering", "mapping", "loading"} => path[w] \in Files
    /\ handle[w] # None => at[w] = "open" /\ handle[w] = processHandle /\ path[w] = processPath

LibInv ==
  /\ Library!TypeOK
  /\ LockInv /\ PublishedInv /\ TableInv /\ MappedInv /\ WrapperInv

-----------------------------------------------------------------------------
LEMMA LibraryFacts ==
  /\ None \notin Starters \cup Paths \cup Files \cup Nat
  /\ resolve \in [Paths -> Files]
  /\ Symbols \in Nat
  /\ 0..Symbols \subseteq Nat
  BY StartupAssumption DEF Library!LibraryAssumption

\* The path a start uses is one it was given.
LEMMA NativePathType ==
  ASSUME NEW explicit \in Paths \cup {None}, NEW f \in Fallbacks
  PROVE  Library!nativePath(explicit, f) \in Paths \cup {None}
  BY StartupAssumption DEF Library!nativePath, Library!LibraryAssumption

LEMMA InitLib == Init => LibInv
  BY LibraryFacts DEF Init, Library!Init, LibInv, Library!TypeOK, LockInv, PublishedInv,
                      TableInv, MappedInv, WrapperInv, loads

LEMMA OpenKeeps == ASSUME LibInv, NEW w \in Starters, Library!Open(w) PROVE LibInv'
  <1>1. /\ at[w] = "idle"
        /\ \/ at' = [at EXCEPT ![w] = "failed"] /\ path' = path
           \/ \E f \in Files : path' = [path EXCEPT ![w] = f] /\ at' = [at EXCEPT ![w] = "entering"]
        /\ UNCHANGED <<handle, processLock, processHandle, processPath, table, mapped, exports>>
    <2>1. ASSUME NEW explicit \in Paths \cup {None}, NEW f \in Fallbacks, Library!nativePath(explicit, f) # None
          PROVE  resolve[Library!nativePath(explicit, f)] \in Files
      BY <2>1, LibraryFacts, NativePathType
    <2>2. QED
      BY <2>1 DEF Library!Open, Library!goto, Library!process
  <1>2. Library!TypeOK'
    BY <1>1 DEF LibInv, Library!TypeOK
  <1>3. LockInv' /\ PublishedInv' /\ TableInv' /\ WrapperInv'
    BY <1>1, LibraryFacts DEF LibInv, Library!TypeOK, LockInv, PublishedInv, TableInv, WrapperInv
  <1>4. MappedInv'
    <2>1. \A u \in Starters, f \in Files : loads(u, f)' <=> loads(u, f)
      BY <1>1 DEF loads, LibInv, Library!TypeOK
    <2>2. QED
      BY <1>1, <2>1 DEF MappedInv, LibInv
  <1>5. QED
    BY <1>2, <1>3, <1>4 DEF LibInv

LEMMA LookUpKeeps == ASSUME LibInv, NEW w \in Starters, Library!LookUp(w) PROVE LibInv'
  <1>1. /\ at[w] = "entering" /\ processLock = None /\ processHandle # None
        /\ \/ processPath = path[w] /\ handle' = [handle EXCEPT ![w] = processHandle] /\ at' = [at EXCEPT ![w] = "open"]
           \/ at' = [at EXCEPT ![w] = "failed"] /\ handle' = handle
        /\ UNCHANGED <<path, processLock, processHandle, processPath, table, mapped, exports>>
    BY DEF Library!LookUp, Library!goto, Library!process
  <1>2. Library!TypeOK'
    BY <1>1 DEF LibInv, Library!TypeOK
  <1>3. LockInv' /\ PublishedInv' /\ TableInv' /\ WrapperInv'
    BY <1>1, LibraryFacts DEF LibInv, Library!TypeOK, LockInv, PublishedInv, TableInv, WrapperInv
  <1>4. MappedInv'
    <2>1. \A u \in Starters, f \in Files : loads(u, f)' <=> loads(u, f)
      BY <1>1 DEF loads, LibInv, Library!TypeOK
    <2>2. QED
      BY <1>1, <2>1 DEF MappedInv, LibInv
  <1>5. QED
    BY <1>2, <1>3, <1>4 DEF LibInv

LEMMA AllocateKeeps == ASSUME LibInv, NEW w \in Starters, Library!Allocate(w) PROVE LibInv'
  <1>1. /\ at[w] = "entering" /\ processLock = None /\ processHandle = None
        /\ \/ at' = [at EXCEPT ![w] = "failed"] /\ UNCHANGED <<processLock, table>>
           \/ processLock' = w /\ table' = [table EXCEPT ![w] = 0] /\ at' = [at EXCEPT ![w] = "mapping"]
        /\ UNCHANGED <<path, handle, processHandle, processPath, mapped, exports>>
    BY DEF Library!Allocate, Library!goto, Library!process
  <1>2. Library!TypeOK'
    BY <1>1, LibraryFacts DEF LibInv, Library!TypeOK
  <1>3. LockInv' /\ PublishedInv' /\ TableInv' /\ WrapperInv'
    BY <1>1, LibraryFacts DEF LibInv, Library!TypeOK, LockInv, PublishedInv, TableInv, WrapperInv
  <1>4. MappedInv'
    <2>1. \A u \in Starters, f \in Files : loads(u, f)' <=> loads(u, f)
      BY <1>1 DEF loads, LibInv, Library!TypeOK
    <2>2. QED
      BY <1>1, <2>1 DEF MappedInv, LibInv
  <1>5. QED
    BY <1>2, <1>3, <1>4 DEF LibInv

LEMMA MapKeeps == ASSUME LibInv, NEW w \in Starters, Library!Map(w) PROVE LibInv'
  <1>0. at[w] = "mapping" /\ UNCHANGED <<path, handle, processHandle, processPath, exports>>
    BY DEF Library!Map, Library!process
  <1>1. /\ processLock = w /\ processHandle = None /\ processPath = None /\ path[w] \in Files
        /\ \A u \in Starters : handle[u] = None /\ at[u] # "loading"
    BY <1>0, LibraryFacts DEF LibInv, LockInv, PublishedInv, WrapperInv
  <1>2. mapped[path[w]] = 0
    BY <1>1, LibraryFacts DEF LibInv, MappedInv, loads
  <1>3. CASE Library!Abandon(w) /\ UNCHANGED mapped
    <2>1. Library!TypeOK'
      BY <1>0, <1>3 DEF LibInv, Library!TypeOK, Library!Abandon, Library!goto
    <2>2. LockInv' /\ PublishedInv' /\ TableInv' /\ WrapperInv'
      BY <1>0, <1>1, <1>3, LibraryFacts DEF LibInv, Library!TypeOK, LockInv, PublishedInv, TableInv, WrapperInv,
                                            Library!Abandon, Library!goto
    <2>3. \A u \in Starters : at'[u] # "loading"
      BY <1>1, <1>3 DEF LibInv, Library!TypeOK, Library!Abandon, Library!goto
    <2>4. MappedInv'
      BY <1>0, <1>1, <1>3, <2>3 DEF LibInv, MappedInv, loads
    <2>5. QED
      BY <2>1, <2>2, <2>4 DEF LibInv
  <1>4. CASE /\ mapped' = [mapped EXCEPT ![path[w]] = @ + 1]
             /\ Library!goto(w, "loading") /\ UNCHANGED <<table, processLock>>
    <2>1. mapped' \in [Files -> Nat] /\ mapped'[path[w]] = 1 /\ \A f \in Files \ {path[w]} : mapped'[f] = mapped[f]
      BY <1>1, <1>2, <1>4 DEF LibInv, Library!TypeOK
    <2>2. Library!TypeOK'
      BY <1>0, <1>4, <2>1 DEF LibInv, Library!TypeOK, Library!goto
    <2>3. LockInv' /\ PublishedInv' /\ TableInv' /\ WrapperInv'
      BY <1>0, <1>1, <1>4, LibraryFacts DEF LibInv, Library!TypeOK, LockInv, PublishedInv, TableInv, WrapperInv, Library!goto
    <2>4. \A u \in Starters, f \in Files : loads(u, f)' <=> u = w /\ f = path[w]
      BY <1>0, <1>1, <1>4 DEF loads, LibInv, Library!TypeOK, Library!goto
    <2>5. \A f \in Files : mapped[f] = 0
      BY <1>1, LibraryFacts DEF LibInv, MappedInv, loads
    <2>6. MappedInv'
      BY <1>0, <1>1, <2>1, <2>4, <2>5, LibraryFacts DEF MappedInv
    <2>7. QED
      BY <2>2, <2>3, <2>6 DEF LibInv
  <1>5. QED
    BY <1>3, <1>4 DEF Library!Map

\* What holds of an open that is loading.
loadingOnly(w) ==
  /\ processLock = w /\ processHandle = None /\ processPath = None /\ path[w] \in Files
  /\ \A u \in Starters : handle[u] = None /\ (at[u] = "loading" <=> u = w)
  /\ \A f \in Files : mapped[f] = IF f = path[w] THEN 1 ELSE 0

LEMMA Loading == ASSUME LibInv, NEW w \in Starters, at[w] = "loading" PROVE loadingOnly(w)
  <1>1. /\ processLock = w /\ processHandle = None /\ processPath = None /\ path[w] \in Files
        /\ \A u \in Starters : handle[u] = None /\ (at[u] = "loading" <=> u = w)
    BY LibraryFacts DEF LibInv, LockInv, PublishedInv, WrapperInv
  <1>2. \A f \in Files : mapped[f] = IF f = path[w] THEN 1 ELSE 0
    BY <1>1, LibraryFacts DEF LibInv, MappedInv, loads
  <1>3. QED
    BY <1>1, <1>2 DEF loadingOnly

LEMMA LoadSymbolKeeps == ASSUME LibInv, NEW w \in Starters, Library!LoadSymbol(w) PROVE LibInv'
  <1>0. at[w] = "loading" /\ UNCHANGED <<path, handle, processHandle, processPath, exports>>
    BY DEF Library!LoadSymbol, Library!process
  <1>1. loadingOnly(w)
    BY <1>0, Loading
  <1>2. CASE table' = [table EXCEPT ![w] = @ + 1] /\ UNCHANGED <<at, processLock, mapped>>
    <2>1. table[w] \in 0..Symbols /\ table[w] < Symbols
      BY <1>1, LibraryFacts DEF LibInv, TableInv, Library!TypeOK, Library!LoadSymbol, loadingOnly
    <2>2. table[w] + 1 \in 0..Symbols /\ table[w] + 1 # None
      BY <2>1, LibraryFacts
    <2>3. table' \in [Starters -> 0..Symbols \cup {None}] /\ table'[w] # None /\ \A u \in Starters \ {w} : table'[u] = table[u]
      BY <1>2, <2>2 DEF LibInv, Library!TypeOK
    <2>4. Library!TypeOK'
      BY <1>0, <1>2, <2>3 DEF LibInv, Library!TypeOK
    <2>5. LockInv' /\ PublishedInv' /\ TableInv' /\ WrapperInv' /\ MappedInv'
      BY <1>0, <1>1, <1>2, <2>3 DEF LibInv, LockInv, PublishedInv, TableInv, WrapperInv, MappedInv, loads, loadingOnly
    <2>6. QED
      BY <2>4, <2>5 DEF LibInv
  <1>3. CASE Library!Abandon(w) /\ mapped' = [mapped EXCEPT ![path[w]] = @ - 1]
    <2>1. mapped' \in [Files -> Nat] /\ \A f \in Files : mapped'[f] = 0
      <3>1. mapped \in [Files -> Nat] /\ path[w] \in Files /\ mapped[path[w]] = 1
        BY <1>1 DEF LibInv, Library!TypeOK, loadingOnly
      <3>2. QED
        BY <1>1, <1>3, <3>1 DEF loadingOnly
    <2>2. Library!TypeOK'
      BY <1>0, <1>3, <2>1 DEF LibInv, Library!TypeOK, Library!Abandon, Library!goto
    <2>3. \A u \in Starters : at'[u] # "loading"
      BY <1>1, <1>3 DEF LibInv, Library!TypeOK, Library!Abandon, Library!goto, loadingOnly
    <2>4. LockInv' /\ PublishedInv' /\ TableInv' /\ WrapperInv'
      BY <1>0, <1>1, <1>3, LibraryFacts DEF LibInv, Library!TypeOK, LockInv, PublishedInv, TableInv, WrapperInv,
                                            Library!Abandon, Library!goto, loadingOnly
    <2>5. MappedInv'
      BY <1>0, <1>1, <2>1, <2>3, LibraryFacts DEF MappedInv, loads, loadingOnly
    <2>6. QED
      BY <2>2, <2>4, <2>5 DEF LibInv
  <1>4. QED
    BY <1>2, <1>3 DEF Library!LoadSymbol

LEMMA PublishKeeps == ASSUME LibInv, NEW w \in Starters, Library!Publish(w) PROVE LibInv'
  <1>0. /\ at[w] = "loading" /\ table[w] = Symbols
        /\ handle' = [handle EXCEPT ![w] = w] /\ processHandle' = w /\ processPath' = path[w]
        /\ processLock' = None /\ at' = [at EXCEPT ![w] = "open"]
        /\ UNCHANGED <<path, table, mapped, exports>>
    BY DEF Library!Publish, Library!goto
  <1>1. loadingOnly(w)
    BY <1>0, Loading
  <1>2. Library!TypeOK'
    BY <1>0, <1>1 DEF LibInv, Library!TypeOK, loadingOnly
  <1>3. LockInv' /\ PublishedInv' /\ TableInv' /\ WrapperInv'
    BY <1>0, <1>1, LibraryFacts DEF LibInv, Library!TypeOK, LockInv, PublishedInv, TableInv, WrapperInv, loadingOnly
  <1>4. \A u \in Starters : at'[u] # "loading"
    BY <1>0, <1>1 DEF LibInv, Library!TypeOK, loadingOnly
  <1>5. MappedInv'
    BY <1>0, <1>1, <1>4 DEF MappedInv, loads, loadingOnly
  <1>6. QED
    BY <1>2, <1>3, <1>5 DEF LibInv

LEMMA CloseKeeps == ASSUME LibInv, NEW w \in Starters, Library!Close(w) PROVE LibInv'
  <1>1. /\ at[w] = "open" /\ handle' = [handle EXCEPT ![w] = None] /\ at' = [at EXCEPT ![w] = "closed"]
        /\ UNCHANGED <<path, processLock, processHandle, processPath, table, mapped, exports>>
    BY DEF Library!Close, Library!goto, Library!process
  <1>2. Library!TypeOK'
    BY <1>1 DEF LibInv, Library!TypeOK
  <1>3. LockInv' /\ PublishedInv' /\ TableInv' /\ WrapperInv'
    BY <1>1 DEF LibInv, Library!TypeOK, LockInv, PublishedInv, TableInv, WrapperInv
  <1>4. MappedInv'
    <2>1. \A u \in Starters, f \in Files : loads(u, f)' <=> loads(u, f)
      BY <1>1 DEF loads, LibInv, Library!TypeOK
    <2>2. QED
      BY <1>1, <2>1 DEF MappedInv, LibInv
  <1>5. QED
    BY <1>2, <1>3, <1>4 DEF LibInv

-----------------------------------------------------------------------------
\* Whatever else a start does leaves the library alone.
LEMMA OthersKeep == ASSUME LibInv, UNCHANGED libraryState PROVE LibInv'
  BY DEF libraryState, LibInv, Library!TypeOK, LockInv, PublishedInv, TableInv, MappedInv, WrapperInv, loads

LEMMA LibStepKeeps == ASSUME LibInv, [Next]_vars PROVE LibInv'
  <1>1. ASSUME NEW w \in Starters, OpenLibrary(w) PROVE LibInv'
    BY <1>1, OpenKeeps, LookUpKeeps, AllocateKeeps, MapKeeps, LoadSymbolKeeps, PublishKeeps
       DEF OpenLibrary, Library!Opening
  <1>2. ASSUME NEW w \in Starters, CloseLibrary(w) PROVE LibInv'
    BY <1>2, CloseKeeps DEF CloseLibrary
  <1>3. ASSUME NEW w \in Starters, LibraryOpened(w) \/ StartHost(w) \/ StartALane(w) \/ Ending(w)
        PROVE  UNCHANGED libraryState
    BY <1>3 DEF LibraryOpened, StartHost, StartALane, Ending, RetireReader, RetireStop, StopLane,
         CheckABI, CreateNative, ApplyNetwork, ApplySecurity, ApplyRoutes, GetHandles, StartRuntime,
         CreateClient, CreateReader, DestroyReader, StopRuntime, DestroyClient, CloseHandles,
         DestroyRuntime, CheckFeature, CheckGrants, CreateLane, StreamOwners, StartLane, DestroyLane,
         Calls, Releases, Stops
  <1>4. QED
    BY <1>1, <1>2, <1>3, OthersKeep DEF Next, Starting, vars

\* At any time the process has no library, or one being loaded under the lock, or
\* the published one.
THEOREM LibInvHolds == Spec => []LibInv
  BY InitLib, LibStepKeeps, PTL DEF Spec

\* The library's variables keep their types.
THEOREM LibraryTypeHolds == Spec => []Library!TypeOK
  <1>1. LibInv => Library!TypeOK
    BY DEF LibInv
  <1>2. QED
    BY <1>1, LibInvHolds, PTL

\* An open that fails, at whatever call or symbol, leaves no table and no mapping;
\* only the published file is mapped, once, whatever was tried before and after it.
THEOREM FailedLoadsLeaveNothing == Spec => []LoadLeavesNothing
  <1>1. LibInv => LoadLeavesNothing
    <2> SUFFICES ASSUME LibInv, processLock = None
                 PROVE  /\ {w \in Starters : table[w] # None} = {processHandle} \ {None}
                        /\ \A f \in Files : mapped[f] = IF f = processPath THEN 1 ELSE 0
      BY DEF LoadLeavesNothing, Library!LoadLeavesNothing
    <2>1. {w \in Starters : table[w] # None} = {processHandle} \ {None}
      BY LibraryFacts DEF LibInv, TableInv, Library!TypeOK
    <2>2. \A w \in Starters : at[w] # "loading"
      BY LibraryFacts DEF LibInv, LockInv
    <2>3. \A f \in Files : mapped[f] = IF f = processPath THEN 1 ELSE 0
      BY <2>2 DEF LibInv, MappedInv, loads
    <2>4. QED
      BY <2>1, <2>3
  <1>2. QED
    BY <1>1, LibInvHolds, PTL

\* The bridge may call through any handle a host or a lane holds: nothing that
\* others open or close takes the library from it.
THEOREM HandlesStayUsable == Spec => []HandlesUsable
  <1>1. LibInv => HandlesUsable
    <2> SUFFICES ASSUME LibInv, NEW w \in Starters, handle[w] # None
                 PROVE  /\ handle[w] = processHandle /\ path[w] = processPath
                        /\ mapped[path[w]] > 0 /\ table[handle[w]] = Symbols
      BY DEF HandlesUsable, Library!HandlesUsable
    <2>1. handle[w] = processHandle /\ path[w] = processPath
      BY DEF LibInv, WrapperInv
    <2>2. processPath \in Files /\ table[processHandle] = Symbols
      BY <2>1 DEF LibInv, PublishedInv, Library!TypeOK
    <2>3. mapped[processPath] = 1
      BY <2>2 DEF LibInv, MappedInv
    <2>4. QED
      BY <2>1, <2>2, <2>3
  <1>2. QED
    BY <1>1, LibInvHolds, PTL

-----------------------------------------------------------------------------
(* The starts.                                                             *)

Steps == inHost \cup inLane \cup {"library", "up", "closing", "ended"}

\* A wrapper is open as long as it has a handle.
OpenInv ==
  /\ at \in [Starters -> {"idle", "entering", "mapping", "loading", "open", "failed", "closed"}]
  /\ handle \in [Starters -> Starters \cup {None}]
  /\ processHandle \in Starters \cup {None}
  /\ \A w \in Starters : at[w] = "open" <=> handle[w] # None

\* The library is held from the first step after it was opened to the last.
HoldsLibrary(w) ==
  /\ step[w] = "library" => at[w] # "closed"
  /\ step[w] = "ended" => at[w] # "open"
  /\ step[w] \notin {"library", "ended"} => at[w] = "open"

configured(w) == {"runtime", "policy"} \cup (IF w \in Secured THEN {"security"} ELSE {})

\* On its way up a host has what the calls so far have yielded.
HostUp(w) ==
  /\ step[w] \in {"abi", "create"} => live[w] = {}
  /\ step[w] = "network" => live[w] = {"runtime"}
  /\ step[w] = "security" => w \in Secured /\ live[w] = {"runtime", "policy"}
  /\ step[w] = "routes" => live[w] = configured(w)
  /\ step[w] = "handles" => live[w] = configured(w) \cup {"snapshot"}
  /\ step[w] = "start" => live[w] = configured(w) \cup {"snapshot", "handles", "exported"}
  /\ step[w] = "client" => live[w] = configured(w) \cup {"snapshot", "handles", "exported", "started"}
  /\ step[w] = "reader" => live[w] = complete(w) \ {"reader"}
  /\ step[w] = "up" => live[w] = complete(w)

\* On its way down it has lost, in this order, the reader, the client and the handles.
HostDown(w) ==
  /\ step[w] = "retiring" => live[w] = complete(w) \ {"reader"}
  /\ step[w] \in {"destroyReader", "stop", "destroyClient", "closeHandles", "destroyRuntime"}
       => "runtime" \in live[w] /\ "reader" \notin live[w]
  /\ step[w] \in {"closeHandles", "destroyRuntime"} => "client" \notin live[w]
  /\ step[w] = "destroyRuntime" => "handles" \notin live[w]

LaneHas(w) ==
  /\ step[w] \in {"feature", "grants", "createLane"} => live[w] = {}
  /\ step[w] \in {"owners", "startLane", "destroyLane"} => live[w] = {"lane"}
  /\ step[w] = "up" => live[w] = complete(w)

StartInv(w) ==
  /\ HoldsLibrary(w)
  /\ step[w] \in {"library", "closing", "ended"} => live[w] = {}
  /\ step[w] \in inHost => w \in Hosts
  /\ step[w] \in inLane => w \notin Hosts
  /\ w \in Hosts => HostUp(w) /\ HostDown(w)
  /\ w \notin Hosts => LaneHas(w)

Inv ==
  /\ OpenInv
  /\ step \in [Starters -> Steps]
  /\ live \in [Starters -> SUBSET Facts]
  /\ \A w \in Starters : StartInv(w)

\* One step of what Core allows, or none.
keeps(w) == Core(w)!Next \/ UNCHANGED Core(w)!vars

others(w) == \A u \in Starters \ {w} :
  at'[u] = at[u] /\ handle'[u] = handle[u] /\ step'[u] = step[u] /\ live'[u] = live[u]

LEMMA NoneIsNoStarter == None \notin Starters
  BY StartupAssumption DEF Library!LibraryAssumption

LEMMA InitInv == Init => Inv /\ \A w \in Starters : Core(w)!Init
  <1> SUFFICES ASSUME Init PROVE Inv /\ \A w \in Starters : Core(w)!Init
    OBVIOUS
  <1>1. OpenInv
    BY NoneIsNoStarter DEF Init, Library!Init, OpenInv
  <1>2. ASSUME NEW w \in Starters PROVE step[w] = "library" /\ live[w] = {} /\ at[w] = "idle" /\ handle[w] = None
    BY DEF Init, Library!Init
  <1>3. step \in [Starters -> Steps] /\ live \in [Starters -> SUBSET Facts]
    BY DEF Init, Steps
  <1>4. ASSUME NEW w \in Starters PROVE StartInv(w) /\ Core(w)!Init
    BY <1>2 DEF StartInv, HoldsLibrary, HostUp, HostDown, LaneHas, inHost, inLane, Core!Init
  <1>5. QED
    BY <1>1, <1>3, <1>4 DEF Inv

\* Opening the library moves one wrapper, which gets a handle if it comes to be open.
LEMMA Opens ==
  ASSUME OpenInv, NEW w \in Starters, Library!Open(w) \/ Library!Opening(w)
  PROVE  /\ OpenInv'
         /\ at[w] # "open" /\ at'[w] # "closed"
         /\ \A u \in Starters \ {w} : at'[u] = at[u] /\ handle'[u] = handle[u]
  <1>1. CASE Library!Open(w)
    BY <1>1 DEF Library!Open, Library!goto, OpenInv, Library!process
  <1>2. CASE Library!LookUp(w)
    BY <1>2 DEF Library!LookUp, Library!goto, OpenInv, Library!process
  <1>3. CASE Library!Allocate(w)
    BY <1>3 DEF Library!Allocate, Library!goto, OpenInv, Library!process
  <1>4. CASE Library!Map(w)
    BY <1>4 DEF Library!Map, Library!Abandon, Library!goto, OpenInv, Library!process
  <1>5. CASE Library!LoadSymbol(w)
    BY <1>5 DEF Library!LoadSymbol, Library!Abandon, Library!goto, OpenInv, Library!process
  <1>6. CASE Library!Publish(w)
    BY <1>6, NoneIsNoStarter DEF Library!Publish, Library!goto, OpenInv
  <1>7. QED
    BY <1>1, <1>2, <1>3, <1>4, <1>5, <1>6 DEF Library!Opening

LEMMA OpeningStep ==
  ASSUME Inv, NEW w \in Starters, OpenLibrary(w)
  PROVE  OpenInv' /\ StartInv(w)' /\ keeps(w) /\ others(w) /\ UNCHANGED <<step, live>>
  <1>1. OpenInv' /\ at[w] # "open" /\ at'[w] # "closed" /\ others(w) /\ UNCHANGED <<step, live>>
    BY Opens DEF Inv, OpenLibrary, others
  <1>2. StartInv(w) /\ step[w] = "library"
    BY DEF Inv, OpenLibrary
  <1>3. StartInv(w)'
    BY <1>1, <1>2 DEF StartInv, HoldsLibrary, HostUp, HostDown, LaneHas, inHost, inLane
  <1>4. handle[w] = None
    BY <1>1 DEF Inv, OpenInv
  <1>5. Core(w)!OpenLibrary \/ UNCHANGED Core(w)!vars
    BY <1>1, <1>4 DEF Core!OpenLibrary, Core!vars
  <1>6. QED
    BY <1>1, <1>3, <1>5 DEF keeps, Core!Next

-----------------------------------------------------------------------------
(* What the three kinds of step do to their own start, and to no other. *)

own(w) ==
  /\ OpenInv'
  /\ step' \in [Starters -> Steps] /\ live' \in [Starters -> SUBSET Facts]
  /\ at'[w] = at[w] /\ handle'[w] = handle[w]
  /\ others(w)

LEMMA CallStep ==
  ASSUME Inv, NEW w \in Starters, NEW here, NEW yield \in SUBSET Facts,
         NEW next \in Steps, NEW out \in Steps, Calls(w, here, yield, next, out)
  PROVE  /\ own(w)
         /\ step[w] = here
         /\ \/ step'[w] = next /\ live'[w] = live[w] \cup yield
            \/ step'[w] = out /\ live'[w] = live[w]
  <1>1. OpenInv' /\ UNCHANGED <<at, handle>>
    BY DEF Inv, OpenInv, Calls, libraryState
  <1>2. /\ step' \in [Starters -> Steps] /\ live' \in [Starters -> SUBSET Facts]
        /\ \A u \in Starters \ {w} : step'[u] = step[u] /\ live'[u] = live[u]
    BY DEF Inv, Calls, goto
  <1>3. /\ step[w] = here
        /\ \/ step'[w] = next /\ live'[w] = live[w] \cup yield
           \/ step'[w] = out /\ live'[w] = live[w]
    BY DEF Inv, Calls, goto
  <1>4. QED
    BY <1>1, <1>2, <1>3 DEF own, others

\* A call that yields nothing.
LEMMA AskStep ==
  ASSUME Inv, NEW w \in Starters, NEW here,
         NEW next \in Steps, NEW out \in Steps, Calls(w, here, {}, next, out)
  PROVE  own(w) /\ step[w] = here /\ step'[w] \in {next, out} /\ live'[w] = live[w]
  <1>1. OpenInv' /\ UNCHANGED <<at, handle>>
    BY DEF Inv, OpenInv, Calls, libraryState
  <1>2. /\ step' \in [Starters -> Steps] /\ live' = live /\ live \in [Starters -> SUBSET Facts]
        /\ \A u \in Starters \ {w} : step'[u] = step[u]
        /\ step[w] = here /\ step'[w] \in {next, out}
    <2>1. live' = live
      BY DEF Inv, Calls
    <2>2. QED
      BY <2>1 DEF Inv, Calls, goto
  <1>3. QED
    BY <1>1, <1>2 DEF own, others

LEMMA ReleaseStep ==
  ASSUME Inv, NEW w \in Starters, NEW here, NEW what, NEW next \in Steps, Releases(w, here, what, next)
  PROVE  own(w) /\ step[w] = here /\ step'[w] = next /\ live'[w] = live[w] \ what
  <1>1. OpenInv' /\ UNCHANGED <<at, handle>>
    BY DEF Inv, OpenInv, Releases, libraryState
  <1>2. /\ step' \in [Starters -> Steps] /\ live' \in [Starters -> SUBSET Facts]
        /\ \A u \in Starters \ {w} : step'[u] = step[u] /\ live'[u] = live[u]
        /\ step[w] = here /\ step'[w] = next /\ live'[w] = live[w] \ what
    BY DEF Inv, Releases, goto
  <1>3. QED
    BY <1>1, <1>2 DEF own, others

LEMMA StopStep ==
  ASSUME Inv, NEW w \in Starters, NEW here, NEW next \in Steps, Stops(w, here, next)
  PROVE  /\ own(w)
         /\ step[w] = here /\ step'[w] = next
         /\ "started" \in live[w] /\ live'[w] = (live[w] \ {"started"}) \cup {"stopped"}
  <1>1. OpenInv' /\ UNCHANGED <<at, handle>>
    BY DEF Inv, OpenInv, Stops, libraryState
  <1>2. /\ step' \in [Starters -> Steps] /\ live' \in [Starters -> SUBSET Facts]
        /\ \A u \in Starters \ {w} : step'[u] = step[u] /\ live'[u] = live[u]
        /\ step[w] = here /\ step'[w] = next
        /\ "started" \in live[w] /\ live'[w] = (live[w] \ {"started"}) \cup {"stopped"}
    BY DEF Inv, Stops, goto, Facts
  <1>3. QED
    BY <1>1, <1>2 DEF own, others

-----------------------------------------------------------------------------
(* The lanes *)

LEMMA LaneStep ==
  ASSUME Inv, NEW w \in Starters, StartALane(w) \/ StopLane(w)
  PROVE  own(w) /\ StartInv(w)' /\ keeps(w)
  <1> USE DEF Steps, inHost, inLane, StartInv, HoldsLibrary, LaneHas
  <1>0. StartInv(w) /\ (handle[w] # None <=> at[w] = "open")
    BY DEF Inv, OpenInv
  <1>1. CASE CheckFeature(w) \/ CheckGrants(w)
    <2>1. own(w) /\ step[w] \in {"feature", "grants"} /\ live'[w] = live[w]
          /\ step'[w] \in {"grants", "createLane", "closing"}
      <3>1. CASE CheckFeature(w)
        BY <3>1, AskStep DEF CheckFeature
      <3>2. CASE CheckGrants(w)
        BY <3>2, AskStep DEF CheckGrants
      <3>3. QED
        BY <1>1, <3>1, <3>2
    <2>2. QED
      BY <1>0, <2>1 DEF own, keeps, Core!vars
  <1>2. CASE CreateLane(w)
    <2>1. /\ own(w) /\ step[w] = "createLane"
          /\ \/ step'[w] \in {"owners", "startLane"} /\ live'[w] = live[w] \cup {"lane"}
             \/ step'[w] = "closing" /\ live'[w] = live[w]
      BY <1>2, CallStep DEF CreateLane, Facts
    <2>2. live[w] = {} /\ handle[w] # None /\ w \notin Hosts
      BY <1>0, <2>1
    <2>3. StartInv(w)'
      BY <1>0, <2>1, <2>2 DEF own
    <2>4. Core(w)!CreateLane \/ UNCHANGED Core(w)!vars
      BY <2>1, <2>2 DEF own, Core!CreateLane, Core!adds, Core!becomes, Core!vars
    <2>5. QED
      BY <2>1, <2>3, <2>4 DEF keeps, Core!Next
  <1>3. CASE StreamOwners(w)
    <2>1. /\ own(w) /\ step[w] = "owners"
          /\ step'[w] \in {"startLane", "destroyLane"} /\ live'[w] = live[w]
      BY <1>3, AskStep DEF StreamOwners
    <2>2. QED
      BY <1>0, <2>1 DEF own, keeps, Core!vars
  <1>4. CASE StartLane(w)
    <2>1. /\ own(w) /\ step[w] = "startLane"
          /\ \/ step'[w] = "up" /\ live'[w] = live[w] \cup {"started"}
             \/ step'[w] = "destroyLane" /\ live'[w] = live[w]
      BY <1>4, CallStep DEF StartLane, Facts
    <2>2. live[w] = {"lane"} /\ w \notin Hosts
      BY <1>0, <2>1
    <2>3. StartInv(w)'
      BY <1>0, <2>1, <2>2 DEF own, complete
    <2>4. Core(w)!StartLane \/ UNCHANGED Core(w)!vars
      BY <2>1, <2>2 DEF own, Core!StartLane, Core!adds, Core!becomes, Core!vars
    <2>5. QED
      BY <2>1, <2>3, <2>4 DEF keeps, Core!Next
  <1>5. CASE DestroyLane(w)
    <2>1. own(w) /\ step[w] = "destroyLane" /\ step'[w] = "closing" /\ live'[w] = live[w] \ {"lane"}
      BY <1>5, ReleaseStep DEF DestroyLane
    <2>2. live[w] = {"lane"} /\ w \notin Hosts /\ live'[w] = {}
      BY <1>0, <2>1
    <2>3. StartInv(w)'
      BY <1>0, <2>1, <2>2 DEF own
    <2>4. Core(w)!DestroyLane
      BY <2>1, <2>2 DEF own, Core!DestroyLane, Core!becomes
    <2>5. QED
      BY <2>1, <2>3, <2>4 DEF keeps, Core!Next
  <1>6. CASE StopLane(w)
    <2>1. /\ own(w) /\ w \notin Hosts /\ step[w] = "up" /\ step'[w] = "destroyLane"
          /\ live'[w] = live[w] \ {"started"}
      BY <1>6, ReleaseStep DEF StopLane
    <2>2. live[w] = {"lane", "started"} /\ live'[w] = {"lane"}
      BY <1>0, <2>1 DEF complete
    <2>3. StartInv(w)'
      BY <1>0, <2>1, <2>2 DEF own
    <2>4. Core(w)!StopLane
      BY <2>1, <2>2 DEF own, Core!StopLane, Core!becomes
    <2>5. QED
      BY <2>1, <2>3, <2>4 DEF keeps, Core!Next
  <1>7. QED
    BY <1>1, <1>2, <1>3, <1>4, <1>5, <1>6 DEF StartALane

-----------------------------------------------------------------------------
(* The way up of a host *)

LEMMA HostUpStep ==
  ASSUME Inv, NEW w \in Starters,
         \/ CheckABI(w) \/ CreateNative(w) \/ ApplyNetwork(w) \/ ApplySecurity(w) \/ ApplyRoutes(w)
         \/ GetHandles(w) \/ StartRuntime(w) \/ CreateClient(w) \/ CreateReader(w)
  PROVE  own(w) /\ StartInv(w)' /\ keeps(w)
  <1> USE DEF Steps, inHost, inLane, StartInv, HoldsLibrary, HostUp, HostDown, configured
  <1>0. StartInv(w) /\ (handle[w] # None <=> at[w] = "open")
    BY DEF Inv, OpenInv
  <1>1. CASE CheckABI(w)
    <2>1. own(w) /\ step[w] = "abi" /\ live'[w] = live[w] /\ step'[w] \in {"create", "closing"}
      BY <1>1, AskStep DEF CheckABI
    <2>2. QED
      BY <1>0, <2>1 DEF own, keeps, Core!vars
  <1>2. CASE CreateNative(w)
    <2>1. /\ own(w) /\ step[w] = "create"
          /\ \/ step'[w] = "network" /\ live'[w] = live[w] \cup {"runtime"}
             \/ step'[w] = "closing" /\ live'[w] = live[w]
      BY <1>2, CallStep DEF CreateNative, Facts
    <2>2. live[w] = {} /\ handle[w] # None /\ w \in Hosts
      BY <1>0, <2>1
    <2>3. StartInv(w)'
      BY <1>0, <2>1, <2>2 DEF own
    <2>4. Core(w)!CreateNative \/ UNCHANGED Core(w)!vars
      BY <2>1, <2>2 DEF own, Core!CreateNative, Core!adds, Core!becomes, Core!vars
    <2>5. QED
      BY <2>1, <2>3, <2>4 DEF keeps, Core!Next
  <1>3. CASE ApplyNetwork(w)
    <2>1. /\ own(w) /\ step[w] = "network"
          /\ \/ /\ step'[w] = IF w \in Secured THEN "security" ELSE "routes"
                /\ live'[w] = live[w] \cup {"policy"}
             \/ step'[w] = "destroyReader" /\ live'[w] = live[w]
      BY <1>3, CallStep DEF ApplyNetwork, Facts
    <2>2. live[w] = {"runtime"} /\ w \in Hosts
      BY <1>0, <2>1
    <2>3. StartInv(w)'
      BY <1>0, <2>1, <2>2 DEF own
    <2>4. Core(w)!ApplyNetwork \/ UNCHANGED Core(w)!vars
      BY <2>1, <2>2 DEF own, Core!ApplyNetwork, Core!created, Core!adds, Core!becomes, Core!vars
    <2>5. QED
      BY <2>1, <2>3, <2>4 DEF keeps, Core!Next
  <1>4. CASE ApplySecurity(w)
    <2>1. /\ own(w) /\ step[w] = "security"
          /\ \/ step'[w] = "routes" /\ live'[w] = live[w] \cup {"security"}
             \/ step'[w] = "destroyReader" /\ live'[w] = live[w]
      <3>1. OpenInv' /\ UNCHANGED <<at, handle>>
        BY <1>4 DEF Inv, OpenInv, ApplySecurity, libraryState
      <3>2. /\ step' \in [Starters -> Steps] /\ live' \in [Starters -> SUBSET Facts]
            /\ \A u \in Starters \ {w} : step'[u] = step[u] /\ live'[u] = live[u]
            /\ step[w] = "security"
            /\ \/ step'[w] = "routes" /\ live'[w] = live[w] \cup {"security"}
               \/ step'[w] = "destroyReader" /\ live'[w] = live[w]
        BY <1>4 DEF Inv, ApplySecurity, goto, Facts
      <3>3. QED
        BY <3>1, <3>2 DEF own, others
    <2>2. live[w] = {"runtime", "policy"} /\ w \in Hosts /\ w \in Secured
      BY <1>0, <2>1
    <2>3. StartInv(w)'
      BY <1>0, <2>1, <2>2 DEF own
    <2>4. Core(w)!ApplySecurity \/ UNCHANGED Core(w)!vars
      BY <2>1, <2>2 DEF own, Core!ApplySecurity, Core!adds, Core!becomes, Core!vars
    <2>5. QED
      BY <2>1, <2>3, <2>4 DEF keeps, Core!Next
  <1>5. CASE ApplyRoutes(w)
    <2>1. /\ own(w) /\ step[w] = "routes"
          /\ \/ step'[w] = "handles" /\ live'[w] = live[w] \cup {"snapshot"}
             \/ step'[w] = "destroyReader" /\ live'[w] = live[w]
      BY <1>5, CallStep DEF ApplyRoutes, Facts
    <2>2. live[w] = configured(w) /\ w \in Hosts
      BY <1>0, <2>1
    <2>3. StartInv(w)'
      BY <1>0, <2>1, <2>2 DEF own
    <2>4. Core(w)!ApplySnapshot \/ UNCHANGED Core(w)!vars
      BY <2>1, <2>2 DEF own, Core!ApplySnapshot, Core!adds, Core!becomes, Core!vars
    <2>5. QED
      BY <2>1, <2>3, <2>4 DEF keeps, Core!Next
  <1>6. CASE GetHandles(w)
    <2>1. /\ own(w) /\ step[w] = "handles"
          /\ \/ step'[w] = "start" /\ live'[w] = live[w] \cup {"handles", "exported"}
             \/ step'[w] = "destroyReader" /\ live'[w] = live[w]
      BY <1>6, CallStep DEF GetHandles, Facts
    <2>2. live[w] = configured(w) \cup {"snapshot"} /\ w \in Hosts
      BY <1>0, <2>1
    <2>3. StartInv(w)'
      BY <1>0, <2>1, <2>2 DEF own
    <2>4. Core(w)!GetHandles \/ UNCHANGED Core(w)!vars
      BY <2>1, <2>2 DEF own, Core!GetHandles, Core!created, Core!adds, Core!becomes, Core!vars
    <2>5. QED
      BY <2>1, <2>3, <2>4 DEF keeps, Core!Next
  <1>7. CASE StartRuntime(w)
    <2>1. /\ own(w) /\ step[w] = "start"
          /\ \/ step'[w] = "client" /\ live'[w] = live[w] \cup {"started"}
             \/ step'[w] = "destroyReader" /\ live'[w] = live[w]
      BY <1>7, CallStep DEF StartRuntime, Facts
    <2>2. live[w] = configured(w) \cup {"snapshot", "handles", "exported"} /\ w \in Hosts
      BY <1>0, <2>1
    <2>3. StartInv(w)'
      BY <1>0, <2>1, <2>2 DEF own
    <2>4. Core(w)!Start \/ UNCHANGED Core(w)!vars
      BY <2>1, <2>2 DEF own, Core!Start, Core!created, Core!adds, Core!becomes, Core!vars
    <2>5. QED
      BY <2>1, <2>3, <2>4 DEF keeps, Core!Next
  <1>8. CASE CreateClient(w)
    <2>1. /\ own(w) /\ step[w] = "client"
          /\ \/ step'[w] = "reader" /\ live'[w] = live[w] \cup {"client"}
             \/ step'[w] = "destroyReader" /\ live'[w] = live[w]
      BY <1>8, CallStep DEF CreateClient, Facts
    <2>2. live[w] = configured(w) \cup {"snapshot", "handles", "exported", "started"} /\ w \in Hosts
      BY <1>0, <2>1
    <2>3. StartInv(w)'
      BY <1>0, <2>1, <2>2 DEF own, complete
    <2>4. Core(w)!CreateClient \/ UNCHANGED Core(w)!vars
      BY <2>1, <2>2 DEF own, Core!CreateClient, Core!adds, Core!becomes, Core!vars
    <2>5. QED
      BY <2>1, <2>3, <2>4 DEF keeps, Core!Next
  <1>9. CASE CreateReader(w)
    <2>1. /\ own(w) /\ step[w] = "reader"
          /\ \/ step'[w] = "up" /\ live'[w] = live[w] \cup {"reader"}
             \/ step'[w] = "destroyReader" /\ live'[w] = live[w]
      BY <1>9, CallStep DEF CreateReader, Facts
    <2>2. live[w] = complete(w) \ {"reader"} /\ w \in Hosts
      BY <1>0, <2>1
    <2>3. StartInv(w)'
      BY <1>0, <2>1, <2>2 DEF own, complete
    <2>4. Core(w)!CreateReader \/ UNCHANGED Core(w)!vars
      BY <2>1, <2>2 DEF own, complete, Core!CreateReader, Core!adds, Core!becomes, Core!vars
    <2>5. QED
      BY <2>1, <2>3, <2>4 DEF keeps, Core!Next
  <1>10. QED
    BY <1>1, <1>2, <1>3, <1>4, <1>5, <1>6, <1>7, <1>8, <1>9

-----------------------------------------------------------------------------
(* The way down of a host, from any point of failure and when it is retired *)

LEMMA HostDownStep ==
  ASSUME Inv, NEW w \in Starters,
         \/ DestroyReader(w) \/ StopRuntime(w) \/ DestroyClient(w) \/ CloseHandles(w)
         \/ DestroyRuntime(w) \/ RetireReader(w) \/ RetireStop(w)
  PROVE  own(w) /\ StartInv(w)' /\ keeps(w)
  <1> USE DEF Steps, inHost, inLane, StartInv, HoldsLibrary, HostUp, HostDown, complete
  <1>0. StartInv(w)
    BY DEF Inv
  <1>1. CASE DestroyReader(w)
    <2>1. own(w) /\ step[w] = "destroyReader" /\ step'[w] = "stop" /\ live'[w] = live[w] \ {"reader"}
      BY <1>1, ReleaseStep DEF DestroyReader
    <2>2. w \in Hosts /\ live'[w] = live[w]
      BY <1>0, <2>1
    <2>3. QED
      BY <1>0, <2>1, <2>2 DEF own, keeps, Core!vars
  <1>2. CASE StopRuntime(w)
    <2>1. CASE Stops(w, "stop", "destroyClient")
      <3>1. /\ own(w) /\ step[w] = "stop" /\ step'[w] = "destroyClient"
            /\ "started" \in live[w] /\ live'[w] = (live[w] \ {"started"}) \cup {"stopped"}
        BY <2>1, StopStep
      <3>2. w \in Hosts /\ "runtime" \in live[w] /\ "reader" \notin live[w]
        BY <1>0, <3>1
      <3>3. StartInv(w)'
        BY <1>0, <3>1, <3>2 DEF own
      <3>4. Core(w)!Stop
        BY <3>1, <3>2 DEF own, Core!Stop, Core!becomes
      <3>5. QED
        BY <3>1, <3>3, <3>4 DEF keeps, Core!Next
    <2>2. CASE Releases(w, "stop", {}, "destroyClient")
      <3>1. own(w) /\ step[w] = "stop" /\ step'[w] = "destroyClient" /\ live'[w] = live[w]
        <4>1. own(w) /\ step[w] = "stop" /\ step'[w] = "destroyClient"
          BY <2>2, ReleaseStep
        <4>2. live'[w] = live[w] \ {}
          BY <2>2 DEF Inv, Releases
        <4>3. QED
          BY <4>1, <4>2
      <3>2. QED
        BY <1>0, <3>1 DEF own, keeps, Core!vars
    <2>3. QED
      BY <1>2, <2>1, <2>2 DEF StopRuntime
  <1>3. CASE DestroyClient(w)
    <2>1. /\ own(w) /\ step[w] = "destroyClient" /\ step'[w] = "closeHandles"
          /\ live'[w] = live[w] \ {"client"}
      BY <1>3, ReleaseStep DEF DestroyClient
    <2>2. w \in Hosts /\ "runtime" \in live[w] /\ "reader" \notin live[w]
      BY <1>0, <2>1
    <2>3. StartInv(w)'
      BY <1>0, <2>1, <2>2 DEF own
    <2>4. Core(w)!DestroyClient \/ UNCHANGED Core(w)!vars
      BY <2>1, <2>2 DEF own, Core!DestroyClient, Core!becomes, Core!vars
    <2>5. QED
      BY <2>1, <2>3, <2>4 DEF keeps, Core!Next
  <1>4. CASE CloseHandles(w)
    <2>1. /\ own(w) /\ step[w] = "closeHandles" /\ step'[w] = "destroyRuntime"
          /\ live'[w] = live[w] \ {"handles"}
      BY <1>4, ReleaseStep DEF CloseHandles
    <2>2. /\ w \in Hosts /\ "runtime" \in live[w]
          /\ "reader" \notin live[w] /\ "client" \notin live[w]
      BY <1>0, <2>1
    <2>3. StartInv(w)'
      BY <1>0, <2>1, <2>2 DEF own
    <2>4. Core(w)!CloseHandles \/ UNCHANGED Core(w)!vars
      BY <2>1, <2>2 DEF own, Core!CloseHandles, Core!becomes, Core!vars
    <2>5. QED
      BY <2>1, <2>3, <2>4 DEF keeps, Core!Next
  <1>5. CASE DestroyRuntime(w)
    <2>1. /\ own(w) /\ step[w] = "destroyRuntime" /\ step'[w] = "closing"
          /\ live'[w] = live[w] \ (live[w] \ {"handles"})
      BY <1>5, ReleaseStep DEF DestroyRuntime
    <2>2. /\ w \in Hosts /\ "runtime" \in live[w]
          /\ "reader" \notin live[w] /\ "client" \notin live[w] /\ "handles" \notin live[w]
      BY <1>0, <2>1
    <2>3. live'[w] = {} /\ live'[w] = live[w] \cap {"handles"}
      BY <2>1, <2>2
    <2>4. StartInv(w)'
      BY <1>0, <2>1, <2>2, <2>3 DEF own
    <2>5. Core(w)!Destroy
      BY <2>1, <2>2, <2>3 DEF own, Core!Destroy, Core!becomes
    <2>6. QED
      BY <2>1, <2>4, <2>5 DEF keeps, Core!Next
  <1>6. CASE RetireReader(w)
    <2>1. /\ own(w) /\ w \in Hosts /\ step[w] = "up" /\ step'[w] = "retiring"
          /\ live'[w] = live[w] \ {"reader"}
      BY <1>6, ReleaseStep DEF RetireReader
    <2>2. live[w] = complete(w) /\ "reader" \in live[w]
      BY <1>0, <2>1
    <2>3. StartInv(w)'
      BY <1>0, <2>1, <2>2 DEF own
    <2>4. Core(w)!DestroyReader
      BY <2>1, <2>2 DEF own, Core!DestroyReader, Core!becomes
    <2>5. QED
      BY <2>1, <2>3, <2>4 DEF keeps, Core!Next
  <1>7. CASE RetireStop(w)
    <2>1. /\ own(w) /\ step[w] = "retiring" /\ step'[w] = "destroyClient"
          /\ "started" \in live[w] /\ live'[w] = (live[w] \ {"started"}) \cup {"stopped"}
      BY <1>7, StopStep DEF RetireStop
    <2>2. w \in Hosts /\ "runtime" \in live[w] /\ "reader" \notin live[w]
      BY <1>0, <2>1
    <2>3. StartInv(w)'
      BY <1>0, <2>1, <2>2 DEF own
    <2>4. Core(w)!Stop
      BY <2>1, <2>2 DEF own, Core!Stop, Core!becomes
    <2>5. QED
      BY <2>1, <2>3, <2>4 DEF keeps, Core!Next
  <1>8. QED
    BY <1>1, <1>2, <1>3, <1>4, <1>5, <1>6, <1>7

-----------------------------------------------------------------------------
(* The library's own steps *)

LEMMA LibraryStep ==
  ASSUME Inv, NEW w \in Starters, OpenLibrary(w) \/ LibraryOpened(w) \/ CloseLibrary(w)
  PROVE  /\ OpenInv' /\ others(w) /\ StartInv(w)' /\ keeps(w)
         /\ step' \in [Starters -> Steps] /\ live' \in [Starters -> SUBSET Facts]
  <1> USE DEF StartInv, HoldsLibrary, HostUp, HostDown, LaneHas, inHost, inLane, Steps
  <1>1. CASE OpenLibrary(w)
    BY <1>1, OpeningStep DEF Inv
  <1>2. CASE LibraryOpened(w)
    <2>1. OpenInv' /\ UNCHANGED <<at, handle, live>>
      BY <1>2 DEF Inv, OpenInv, LibraryOpened, libraryState
    <2>2. /\ step' \in [Starters -> Steps] /\ step[w] = "library"
          /\ \/ at[w] = "open" /\ step'[w] = IF w \in Hosts THEN "abi" ELSE "feature"
             \/ at[w] = "failed" /\ step'[w] = "ended"
          /\ \A u \in Starters \ {w} : step'[u] = step[u]
      BY <1>2 DEF Inv, LibraryOpened, goto
    <2>3. live[w] = {}
      BY <2>2 DEF Inv
    <2>4. QED
      BY <2>1, <2>2, <2>3 DEF Inv, others, keeps, Core!vars
  <1>3. CASE CloseLibrary(w)
    <2>1. /\ step[w] = "closing" /\ live[w] = {} /\ live' = live
          /\ step' = [step EXCEPT ![w] = "ended"]
          /\ at' = [at EXCEPT ![w] = "closed"] /\ handle' = [handle EXCEPT ![w] = None]
          /\ at[w] = "open" /\ UNCHANGED processHandle
      BY <1>3 DEF Inv, CloseLibrary, goto, Library!Close, Library!goto, Library!process
    <2>2. OpenInv' /\ others(w) /\ at'[w] = "closed" /\ handle'[w] = None /\ handle[w] # None
      BY <2>1 DEF Inv, OpenInv, others
    <2>3. step' \in [Starters -> Steps] /\ step'[w] = "ended"
      BY <2>1 DEF Inv
    <2>4. StartInv(w)'
      BY <2>1, <2>2, <2>3
    <2>5. Core(w)!CloseLibrary
      BY <2>1, <2>2 DEF Core!CloseLibrary
    <2>6. QED
      BY <2>1, <2>2, <2>3, <2>4, <2>5 DEF Inv, keeps, Core!Next
  <1>4. QED
    BY <1>1, <1>2, <1>3

LEMMA StepKeeps ==
  ASSUME Inv, [Next]_vars
  PROVE  Inv' /\ \A w \in Starters : keeps(w)
  <1>1. CASE UNCHANGED vars
    <2>1. UNCHANGED <<at, handle, processHandle, step, live>>
      BY <1>1 DEF vars, libraryState
    <2>2. ASSUME NEW u \in Starters PROVE StartInv(u)' /\ keeps(u)
      BY <2>1 DEF Inv, StartInv, HoldsLibrary, HostUp, HostDown, LaneHas, complete, keeps, Core!vars
    <2>3. QED
      BY <2>1, <2>2 DEF Inv, OpenInv
  <1>2. ASSUME NEW w \in Starters, Starting(w) \/ Ending(w) PROVE Inv' /\ \A u \in Starters : keeps(u)
    <2>1. /\ OpenInv' /\ others(w) /\ StartInv(w)' /\ keeps(w)
          /\ step' \in [Starters -> Steps] /\ live' \in [Starters -> SUBSET Facts]
      <3>1. CASE OpenLibrary(w) \/ LibraryOpened(w) \/ CloseLibrary(w)
        BY <3>1, LibraryStep
      <3>2. CASE StartALane(w) \/ StopLane(w)
        BY <3>2, LaneStep DEF own
      <3>3. CASE StartHost(w) \/ RetireReader(w) \/ RetireStop(w)
        BY <3>3, HostUpStep, HostDownStep DEF own, StartHost
      <3>4. QED
        BY <1>2, <3>1, <3>2, <3>3 DEF Starting, Ending
    <2>2. ASSUME NEW u \in Starters \ {w} PROVE StartInv(u)' /\ keeps(u)
      <3>1. at'[u] = at[u] /\ handle'[u] = handle[u] /\ step'[u] = step[u] /\ live'[u] = live[u]
        BY <2>1 DEF others
      <3>2. QED
        BY <3>1 DEF Inv, StartInv, HoldsLibrary, HostUp, HostDown, LaneHas, complete, keeps, Core!vars
    <2>3. QED
      BY <2>1, <2>2 DEF Inv
  <1>3. QED
    BY <1>1, <1>2 DEF Next

-----------------------------------------------------------------------------
\* What a start has of Core is what its step says, at every step of every start.
THEOREM StartInvHolds == Spec => []Inv
  <1>1. Init => Inv
    BY InitInv
  <1>2. Inv /\ [Next]_vars => Inv'
    BY StepKeeps
  <1>3. QED
    BY <1>1, <1>2, PTL DEF Spec

\* The variables of the starts keep their types.
THEOREM StartTypeHolds == Spec => []TypeOK
  <1>1. Inv => TypeOK
    BY DEF Inv, StartInv, TypeOK, Steps
  <1>2. QED
    BY <1>1, StartInvHolds, PTL

\* A start that returns owns all it should; one that throws, a retired host and a
\* closed lane own nothing and have let go of the library.
THEOREM AllOrNothing == Spec => []StartIsAllOrNothing
  <1>1. ASSUME Inv PROVE StartIsAllOrNothing
    <2>1. ASSUME NEW w \in Starters, step[w] = "up" PROVE live[w] = complete(w) /\ handle[w] # None
      BY <1>1, <2>1 DEF Inv, OpenInv, StartInv, HoldsLibrary, HostUp, LaneHas
    <2>2. ASSUME NEW w \in Starters, step[w] = "ended" PROVE live[w] = {} /\ handle[w] = None
      BY <1>1, <2>2 DEF Inv, OpenInv, StartInv, HoldsLibrary
    <2>3. QED
      BY <2>1, <2>2 DEF StartIsAllOrNothing
  <1>2. QED
    BY <1>1, StartInvHolds, PTL

\* Startup implements CoreContract for every host and every lane: each of its steps
\* is a step that Core's headers allow or changes nothing of the instance.
THEOREM ContractIsKept == Spec => KeepsContract
  <1>1. Init => \A w \in Starters : Core(w)!Init
    BY InitInv
  <1>2. Inv /\ [Next]_vars => [\A w \in Starters : Core(w)!Next \/ UNCHANGED Core(w)!vars]_vars
    BY StepKeeps DEF keeps
  <1>3. QED
    BY <1>1, <1>2, StartInvHolds, PTL DEF Spec, KeepsContract
=============================================================================
