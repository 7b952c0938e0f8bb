--------------------------- MODULE NativeLibrary ---------------------------
(***************************************************************************)
(* The one native library of a process: NativeRuntimeLibrary.init under    *)
(* processLock, and below it coakka_swift_runtime_library_open, which      *)
(* allocates a table, maps the file and resolves every required symbol.    *)
(*                                                                         *)
(* The first open that succeeds decides for the process.  Later ones share *)
(* it or, for another file, are refused.  A wrapper that closes forgets    *)
(* its handle and nothing else: other hosts and lanes, and answers still   *)
(* being copied, use the library.                                          *)
(***************************************************************************)
EXTENDS Naturals

CONSTANTS
  Starters,         \* whatever opens the library: hosts, lanes
  Paths, Files,     \* as given, and with links resolved
  resolve,          \* the file a path stands for
  Fallbacks,        \* what two variables of the environment, then two places
                    \* for bundled resources, may hold at a call
  Symbols,          \* number of required symbols
  None

\* Of the constants (Startup assumes it).
LibraryAssumption ==
  /\ None \notin Starters \cup Paths \cup Files \cup Nat
  /\ resolve \in [Paths -> Files]
  /\ Fallbacks \subseteq [1..4 -> Paths \cup {None}]
  /\ Symbols \in Nat

VARIABLES
  at,               \* where each open is
  path,             \* the wrapper's canonical path
  handle,           \* the wrapper's handle: whose table it uses
  processLock,      \* the open that holds it
  processHandle, processPath,
  table,            \* for each open: None, or the number of slots filled in its table
  mapped,           \* how often each file is mapped
  exports           \* how many of the required symbols a file exports, in order

vars == <<at, path, handle, processLock, processHandle, processPath, table, mapped, exports>>
process == <<processHandle, processPath>>

Init ==
  /\ at = [w \in Starters |-> "idle"]
  /\ path = [w \in Starters |-> None]
  /\ handle = [w \in Starters |-> None]
  /\ processLock = None
  /\ processHandle = None
  /\ processPath = None
  /\ table = [w \in Starters |-> None]
  /\ mapped = [f \in Files |-> 0]
  /\ exports \in [Files -> 0..Symbols]

goto(w, p) == at' = [at EXCEPT ![w] = p]

\* The caller's path unless it is blank, else the first fallback that is given
\* and, for a resource, exists.
nativePath(explicit, f) ==
  LET orElse(p, q) == IF p # None THEN p ELSE q
  IN  orElse(explicit, orElse(f[1], orElse(f[2], orElse(f[3], f[4]))))

Open(w) ==
  /\ at[w] = "idle"
  /\ \E explicit \in Paths \cup {None}, fallbacks \in Fallbacks :
       LET p == nativePath(explicit, fallbacks) IN
       \/ p = None /\ goto(w, "failed") /\ UNCHANGED path
       \/ p # None /\ path' = [path EXCEPT ![w] = resolve[p]] /\ goto(w, "entering")
  /\ UNCHANGED <<handle, processLock, process, table, mapped, exports>>

-----------------------------------------------------------------------------
(* Under processLock. *)

\* Mutant of LookUp: a refusal keeps the lock.
LookUpAndKeepLock(w) ==
  /\ at[w] = "entering"
  /\ processLock = None
  /\ processHandle # None
  /\ IF processPath = path[w]
     THEN handle' = [handle EXCEPT ![w] = processHandle] /\ goto(w, "open") /\ UNCHANGED processLock
     ELSE goto(w, "failed") /\ processLock' = w /\ UNCHANGED handle
  /\ UNCHANGED <<path, process, table, mapped, exports>>

\* A library is loaded: the same file is shared, any other is refused.
LookUp(w) ==
  /\ at[w] = "entering"
  /\ processLock = None
  /\ processHandle # None
  /\ IF processPath = path[w]
     THEN handle' = [handle EXCEPT ![w] = processHandle] /\ goto(w, "open")
     ELSE goto(w, "failed") /\ UNCHANGED handle
  /\ UNCHANGED <<path, processLock, process, table, mapped, exports>>

\* calloc
Allocate(w) ==
  /\ at[w] = "entering"
  /\ processLock = None
  /\ processHandle = None
  /\ \/ goto(w, "failed") /\ UNCHANGED <<processLock, table>>
     \/ /\ processLock' = w
        /\ table' = [table EXCEPT ![w] = 0]
        /\ goto(w, "mapping")
  /\ UNCHANGED <<path, handle, process, mapped, exports>>

\* The open throws, with the table freed.
Abandon(w) ==
  /\ table' = [table EXCEPT ![w] = None]
  /\ processLock' = None
  /\ goto(w, "failed")

\* dlopen
Map(w) ==
  /\ at[w] = "mapping"
  /\ \/ Abandon(w) /\ UNCHANGED mapped
     \/ /\ mapped' = [mapped EXCEPT ![path[w]] = @ + 1]
        /\ goto(w, "loading")
        /\ UNCHANGED <<table, processLock>>
  /\ UNCHANGED <<path, handle, process, exports>>

\* Mutant of LoadSymbol: a missing symbol leaves the file mapped.
LoadSymbolOrLeave(w) ==
  /\ at[w] = "loading"
  /\ table[w] < Symbols
  /\ IF table[w] < exports[path[w]]
     THEN table' = [table EXCEPT ![w] = @ + 1] /\ UNCHANGED <<at, processLock, mapped>>
     ELSE Abandon(w) /\ UNCHANGED mapped
  /\ UNCHANGED <<path, handle, process, exports>>

\* LOAD_SYMBOL: the next slot is filled, or the file is closed again.
LoadSymbol(w) ==
  /\ at[w] = "loading"
  /\ table[w] < Symbols
  /\ IF table[w] < exports[path[w]]
     THEN table' = [table EXCEPT ![w] = @ + 1] /\ UNCHANGED <<at, processLock, mapped>>
     ELSE Abandon(w) /\ mapped' = [mapped EXCEPT ![path[w]] = @ - 1]
  /\ UNCHANGED <<path, handle, process, exports>>

Publish(w) ==
  /\ at[w] = "loading"
  /\ table[w] = Symbols
  /\ handle' = [handle EXCEPT ![w] = w]
  /\ processHandle' = w
  /\ processPath' = path[w]
  /\ processLock' = None
  /\ goto(w, "open")
  /\ UNCHANGED <<path, table, mapped, exports>>

-----------------------------------------------------------------------------
\* Mutant of Close: the wrapper that loaded the library closes it.
CloseLibrary(w) ==
  /\ at[w] = "open"
  /\ handle' = [handle EXCEPT ![w] = None]
  /\ goto(w, "closed")
  /\ IF processHandle = w
     THEN /\ table' = [table EXCEPT ![w] = None]
          /\ mapped' = [mapped EXCEPT ![path[w]] = @ - 1]
          /\ processHandle' = None
          /\ processPath' = None
     ELSE UNCHANGED <<table, mapped, process>>
  /\ UNCHANGED <<path, processLock, exports>>

\* close and deinit of a wrapper
Close(w) ==
  /\ at[w] = "open"
  /\ handle' = [handle EXCEPT ![w] = None]
  /\ goto(w, "closed")
  /\ UNCHANGED <<path, processLock, process, table, mapped, exports>>

Opening(w) == LookUp(w) \/ Allocate(w) \/ Map(w) \/ LoadSymbol(w) \/ Publish(w)

Next == \E w \in Starters : Open(w) \/ Opening(w) \/ Close(w)

Spec == Init /\ [][Next]_vars

-----------------------------------------------------------------------------
(* Properties *)

\* Every variable keeps its type.
TypeOK ==
  /\ at \in [Starters -> {"idle", "entering", "mapping", "loading", "open", "failed", "closed"}]
  /\ path \in [Starters -> Files \cup {None}]
  /\ handle \in [Starters -> Starters \cup {None}]
  /\ processLock \in Starters \cup {None}
  /\ processHandle \in Starters \cup {None}
  /\ processPath \in Files \cup {None}
  /\ table \in [Starters -> 0..Symbols \cup {None}]
  /\ mapped \in [Files -> Nat]
  /\ exports \in [Files -> 0..Symbols]

\* While nobody is loading, exactly the published library exists: one table, one
\* file, mapped once.  Opens that failed at whatever point have left nothing, and
\* no file but the published one is mapped.
LoadLeavesNothing ==
  processLock = None =>
    /\ {w \in Starters : table[w] # None} = {processHandle} \ {None}
    /\ \A f \in Files : mapped[f] = IF f = processPath THEN 1 ELSE 0

\* What a wrapper holds may be called: it is the process's library, of the
\* wrapper's own file, mapped, with every slot of its table filled (the bridge
\* calls through them without a test), whoever else has closed.
HandlesUsable ==
  \A w \in Starters : handle[w] # None =>
    /\ handle[w] = processHandle
    /\ path[w] = processPath
    /\ mapped[path[w]] > 0
    /\ table[handle[w]] = Symbols
=============================================================================
