# CoAkka Runtime for Swift: specifications

TLA+ models of the Swift connector in `Sources/CoAkkaRuntime` and of the C
bridge below it, the TLC configurations that check them on small instances, and
proofs, checked by TLAPS, that their safety properties hold for any number of
callers, keys, paths, bytes and libraries.

Run from this directory, with the module that `PROJECT.json` names for the run:

    tlc -config session.cfg MCRuntimeSession.tla
    tlc -config ask.cfg AskClient.tla
    tlapm RuntimeSessionProofs.tla

`PROJECT.json` lists the runs, the lines of code behind each definition, the
hazards and the theorems. Definitions under a comment "Mutant of X" are wrong
versions of X; each makes TLC find one of the properties violated, which shows
that the property depends on that piece of code.

## The system

The connector binds a binary, CoAkka Core, to Swift. Core owns routing, request
matching, transport and workers. The Swift side owns *lifetimes*: which thread
may touch a native object, when it is destroyed, which callback is kept alive
for it, and who waits for whom. Few lines decide that, and most of them run
concurrently.

| Part | State | Operations | What makes it correct |
| --- | --- | --- | --- |
| **Runtime session** `RuntimeSession.swift` | native runtime, ask client, handles, reader; `closing`, `readerRetired`, `stopped`, `stopFailure`, `failedStopOwner`, `activeAsks`; two DispatchGroups, `closeLock` | request runner, `begin`/`endBorrow`, `close`, `requestRetirement`, `withOpen` | native objects are retired exactly once, in order, under no borrower; a refused stop loses nothing; `close` reports the truth and a handler never waits for itself |
| **Ask client** `RuntimeHostClient.swift`, `RuntimeAskExecutor.swift`, `RuntimeCancellation` | message identities, tickets, 8 serial Dispatch lanes, a cancellation intent per task, client counters | `ask`, `askPayload`, `askPayloadAsync`, cancel | calls on a ticket are serialized; no identity is used twice; every ask ends once, with its own outcome, and gives its borrow back |
| **File lane** `FileLane.swift` | lane pointer, `closing`, `activeCalls`, NSCondition | transfers, snapshots, blocking waits, `close` | destroyed once, stopped and with no call inside; waits cannot hold up `close` |
| **Stream lane** `StreamLane.swift`, `StreamCallbackOwners.swift` | as the file lane, and the table of callback owners | `preparePublish`, `subscribe`, `cancel`, `forget`, reads, `close`; callbacks on Core's workers | a context Core may use is alive; owners are released outside the lock; the table is bounded |
| **Request dispatch** `RuntimeHost.swift` | handlers, registration budget, one cached projection, counters | `register`, `dispatchRequest`, `projectDispatchTarget` | the handler of the target runs; budget; a reply against a sealed session is a counted failure |
| **Host start-up** `RuntimeHost.start`, `RuntimeStartup.swift` | partially owned native objects | create, network, security, routes, handles, start, client, reader | a failure at any step releases exactly what exists, in order |
| **Native library** `NativeRuntimeLibrary.swift` | one handle and path per process | open, close, `requireHandle` | one library per process, never closed under a user |
| **C bridge** `coakka_runtime_bridge.c` | table of symbols | load, forward | a failed load leaves nothing; Core is given sized records and live objects; no refusal loses an object |
| **Envelope codec** `RuntimeEnvelopeCodec.swift` | the stack of messages being read | decode | accepts exactly the well-formed frames and gives each field its value; refuses overflow and truncation |
| **Transport configuration** `RuntimeTransport.swift`, `RuntimeStartup.swift` | none in Swift; a lock across native calls | network, startup options, apply security and connection | what is given is announced, and only that; applied means applied; no call meets a retired runtime |
| **Models, validation** `RuntimeModels.swift` | none | validation, projection | — |

How they interact. A host starts one session; the session's runner calls the
host's dispatcher for each request (a weak reference: the runner keeps the
session alive, not the host). Asks borrow the session for the life of a ticket;
an asynchronous ask does so across a Dispatch queue shared by all hosts of the
process. Handlers run on the runner and may ask or try to close. Lanes are
independent of hosts: each has its own native object and its own
`withLane`/`close` protocol; Core's workers call back into the application with
a bare pointer that the stream lane's table must keep valid. Everything shares
one native library.

What is hard: three parties may retire a session; `close()` gives up after one
second and the retirement happens later without it; a stop may be refused and
tried again; workers use a callback before the admission that registered it
has returned; an application `deinit` may reenter the lane that releases it; a
task may be canceled during its native wait; a sleeper on a condition may wake
for no reason. `PROJECT.json` lists each hazard at its line.

## Modules

| Module | Models | Extends / uses |
| --- | --- | --- |
| `NativeOwner` | the promise: ownership is open, sealed, released, and never released while borrowed | — |
| `RuntimeSession` | the session with its runner, borrowers and closers | refines `NativeOwner` |
| `FileLane` | the call and close protocol of the file lane | refines `NativeOwner` |
| `StreamLane` | the stream lane, its table of owners and Core's workers | refines `NativeOwner` |
| `AskClient` | identities, tickets, lanes and cancellation over a session | *uses* `NativeOwner` as its session |
| `HostDispatch` | handler registration and request dispatch, with both locks | — |
| `NativeLibrary` | the process-wide library: paths, loading, sharing, closing | — |
| `CoreContract` | the order of calls that Core's headers ask of one host or lane | — |
| `Startup` | the start of hosts and lanes, its failures, and the end of what started | composes `NativeLibrary`; refines `CoreContract` |
| `Transport` | network, start-up, security and connection options on their way to Core and back | — |
| `EnvelopeCodec` | the decoder over bytes, and a reference definition of a message | — |
| `Bridge` | what the C bridge does for each function Swift calls | — |
| `RuntimeSessionProofs`, `FileLaneProofs`, `HostDispatchProofs`, `StartupProofs` (with the library), `AskClientProofs`, `StreamLaneProofs`, `EnvelopeCodecProofs`; `BoundaryProofs` (`Transport` and `Bridge`) | the theorems | extend the module they are about |
| `MC*` | small instances | extend the module they are named after |

`NativeOwner` is the seam between components. `RuntimeSession` is shown to
implement it; `AskClient` then takes the session to be nothing more than a
`NativeOwner`, borrows through its actions, and is shown to keep the borrower's
side (every borrow comes back), which is what the session's liveness needs.

### RuntimeSession

`session` holds the fields `RuntimeSession.lock` guards together with the state
of Core; a section under the lock is one step, native calls included, since
every other access takes the same lock. `stopLocked` and `retireLocked` are
functions of those fields, as they are called from several sections. Outside
the lock each native call is a step: `Read`, `DispatchReturns`,
`DestroyReader`, `DestroyTicket`. `RunnerRetires` is the deferred block of the
runner as far as the lock is held, `RunnerLeaves` the `leave` after it.
`CallClose`, `Seal`, `Join`, `CloseStops`, `Drain` are the sections of
`close()`; its two one-second waits are a choice between success and timeout,
and success needs the group to have been left. `closeLock` is `closeOwner`.
Handlers that ask or close are the members of `HandlerAsks` and
`HandlerClosers`: they act only while the runner dispatches, and the dispatch
returns only when they have.

A refused ask, a getter, and a `close()` refused at the door change no state
but the caller's verdict. `Deinit` needs that no method of the host is running,
because a running method holds the host.

`StopOutcome` allows Core to refuse a stop `MaxRefusals` times. The header
documents BAD_STATE (runtime.h:739); the code prepares for it at
RuntimeSession.swift:162-167.

### FileLane and StreamLane

Both have the same `withLane`: `Enter` counts a call under the condition
unless `closing`, `Leave` balances it and wakes the closer at zero.
`CallClose` decides between the closer and a follower; then `StopBegins`,
`StopReturns`, `Drain` (waits, destroys), or `Follow`. `asleep` is the set of
threads in `condition.wait()`. In `FileLane` a sleeper may wake for no reason
(`Wake`), and a wait inside Core ends with an answer, a timeout, or because the
lane stops; only the last is assumed to happen.

`StreamLane` adds the table. `entries` is `StreamCallbackOwners.entries`: the
root, whether its outcome was received (`status != nil`), and the owner it is
to replace. An admission is `Publish` (the test of the table and the strong
publication), `NativeAdmit`, `Resolve`; the condition is held from the first to
the last, while Core's workers (`CallbackStarts`, `CallbackReturns`,
`RecordEnds`) may already use the new context. `retired` is the array that
`withCallbackMutation` releases after the lock and the borrow are gone; in
`releasing` the application's deinits run and may call `close()`. A context is
an address: once freed it may be allocated again. In the code the native call
of an admission does not throw; `MayLose` covers the path
`StreamCallbackOwners` keeps, and its tests exercise, for an outcome that is
not received.

Core's records (external) follow stream_lane.h: a record is replaced only when
it is not in use, a full lane lets terminal records go, `forget` takes terminal
ones only, and stop joins the workers.

### AskClient

`Begin` is `beginAsk` with `session.begin`; `Enqueue`, `LaneRuns` and `Resume`
are the serial Dispatch queue; `CheckIntent`, `AwaitReturns`, `Project`,
`DestroyTicket`, `EndBorrow` are `awaitResult` and its deferred block, in its
order; `Cancel` sets the intent at any time. Choosing a lane and appending to
its queue are one step: no property depends on the order in which two jobs
picked for the same lane arrive. `TakeIdentity` and `BeginRefused` are the two
sections of `beginAsk`: an identity is taken before the session is asked, and is
spent when it refuses. `MaxID` is `UInt64.max`. `Accept` is `accept` after the
session's lock is free again, where the counters are kept.

### HostDispatch

`handlers`, `registrationBytes`, `projection` and the counters are the fields
of `RuntimeHost`; `closing` and the runner's loop are what dispatch sees of the
session. `register` holds the session's lock (`withOpen`) while it waits for
`clientLock`, so it is two steps, `Register` and `Insert`, and `locked` shows
the holder between them; every other section takes one lock and is one step. A thread's
`target` is the argument of the registration it is in, and gone when that returns.
`Deliver` notes what was registered when the request came (`expected`), which
no code keeps, so that a property can ask whether it is found. `UseProjection`
is the path without a lock. A handler may itself register or ask for
diagnostics: the runner holds no lock there, so this is one more thread. Names
that Swift's `String` takes for equal are one target. The counters' wrapping at
64 bits is not reached.

### NativeLibrary, Startup and CoreContract

`Open` is everything before `processLock`, `LookUp` the test under it,
`Allocate`, `Map`, `LoadSymbol`, `Abandon` and `Publish` the load, in
`coakka_swift_runtime_library_open`'s order. `exports` says how many of the
required symbols a file has: a load may stop at any of them. A wrapper's close
drops its handle and never the library, which the process keeps.

`Startup` gives each host and lane (a member of `Starters`) one `step`, the call
it is about to make. `Calls` is a call of Core that may fail, `Releases` one that
cannot. A host that fails at any step goes down through the `catch` block in its
order; one that is up is later retired in the session's order, and lanes are
closed in theirs. The `catch` block also destroys a reader, but nothing that can
throw follows the reader's creation, so it never finds one.

`CoreContract` is written from the headers alone: `has` is what one host or lane
has of Core, and each action says when Core may be called. `KeepsContract` says
that every step of `Startup` is, for every starter, one of its actions or none.

### Transport

Values are small numbers and `None` is Swift's `nil`; a mask is the set of its
bits. `connectionOptions`, `startupOptions`, `networkOptions` and
`securityOptions` are the conversions, bit by bit. `acceptable` and the result
of `securityCall` are what runtime_transport_config.h and runtime.h say of an
apply: Core may refuse for its own reasons, a refusal leaves the prior generation
active. `Call`, `Enter` and the two applies are the lock, the gate
`requireTransportOpen` and the long call of Core; `Seal` and `Retire` are the
session's, which take the same lock.

### EnvelopeCodec

A frame is a sequence of bytes, a reader an offset and an end, and one step one
field of `decodeEnvelope` or `decodeDeadletter`; a nested envelope is a second
reader on the stack. A string is the range it was copied from; it is valid
UTF-8 if its bytes are below 128, which is exact for the frames `CodecAssumption`
allows: none has a byte from 194 to 244, with which the longer characters begin.
`varintLoop` is one turn of the loop of `readVarintRaw`, and `varints` the loop as
a function of the byte it is at; the value is put together from its last byte,
`low + 128 * rest`, which is the number the code's shifts give. The reference
(`isVarint` to `isDeadletter`) says, without reading from left to right, how a frame
may be cut into fields and what the cut means; there a number is the sum of its
digits, each with its weight, from the first byte on. `Width` is 64 in the code and 15 here, the fixed fields have 8 and
4 bytes in the code and 2 and 1 here.

### Bridge

A row per function says which pointers the bridge tests, which records it stamps,
and whether an output is passed through, cleared first or copied. `SwiftStamps`
are the records Swift stamps before the call. The sets from `StatsAndHandles` to
`StreamViews` are the records with a `struct_size` in Core's headers, and
`Contract` what its functions use, make and free. `s ++ t` lays one table over
another, as `@@` of the module TLC does, which the provers do not know. `Libraries`
are the sets of functions that the libraries Swift may find do not export. A call is
`EnterCore`, `CoreReturns` and `Return`, or `Refuse`. A call by a host makes use of symbols found when the
library was opened; a lane's are looked up at each call, so any may be missing.
Which objects Swift passes and when it frees them is assumed here (`May`) and
shown in `Startup`, `RuntimeSession` and `AskClient`.

## Runs

| Run | Question | Bounds |
| --- | --- | --- |
| `session` | order of retirement, truth of `close()`, refinement; does sealing alone retire the session, does every `close()` return? | 3 asks (1 in a handler), 3 closers (1 in a handler), `MaxActive` 2, 2 refusals |
| `session_drop` | does dropping the host retire it after a refused stop? **no**, see below | the same, 1 refusal |
| `file_lane` | no early return, blocked calls do not hold up `close()`, refinement | 4 threads |
| `stream` | nothing owned in vain, a closed lane leaves nothing, refinement | 2 threads, 2 keys, capacity 1, 3 contexts |
| `stream_lost` | no freed context in use, leaks, storage, when outcomes may be lost | 2 threads, 3 keys, capacity 1, 4 contexts |
| `ask` | serialized tickets, tickets before release, identities, outcomes; every ask returns with its borrow, queued cancellation works | 1 synchronous, 2 asynchronous asks, 1 lane, 2 borrows, 2 identities |
| `dispatch` | the right handler, answered or counted, both limits of registration; no lock cycle | 2 threads, 4 targets of which 2 fit, 2 requests |
| `startup` | failed loads and starts leave nothing, successful ones can be used, Core's order is kept, every start returns | 1 host, 2 lanes, 3 paths to 2 files, 2 symbols |
| `codec` | is what is decoded what the frame means, and does each turn of the loops use up some of it? | frames of up to 6 bytes, chosen bytes, varints of 15 bits |
| `transport` | does applied mean applied, is the gate kept, is what is given announced? | 2 threads, 4 starts, 9 security policies, 2 strategies |
| `network` | are the presence bits of a network policy exact? **no**, see below | the same starts |
| `bridge` | is Core entered as its headers ask, is anything lost? | one object of each kind; no function of a lane missing, one, or all |

Why the bounds are enough. Two callers outside a handler and one inside meet
every pair of sections of the session; `MaxActive` below the number of asks
makes admission refuse. Two refusals let the runner's stop and a `close()` both
fail before one succeeds. Capacity 1 with two keys makes Core evict, and the
table fill, at once; three keys are needed for a third admission to meet a full
table of one unresolved and one stale owner. Four contexts let two unresolved
keys keep candidate and predecessor. Fewer lanes than asks make jobs queue, and
two identities for three asks make the third find them exhausted. Of the four
targets two short ones fill the table, so that a third is refused for its number,
and a short one leaves no room for the bytes of the long one; two of them let the
projection be filled, changed and used, and the long one is never remembered. In `startup` three starters let one load, one race it and one
come after a close, over the same file by two names and over another one; a file
with one of two symbols stops a load half way, with both or none at its ends.
Varints of 15 bits take up to three bytes, so the last one can overflow, and six
bytes hold two fields of a nested message. The nine policies are one for each
shape that the code tells apart. The code's values (64 asks, 8 lanes, Core's
capacity) appear only as bounds, and the proofs are for all of them. Symmetry is
used in `stream_lost` only, which has no liveness property, over values that are
only compared. Deadlock is not checked where a system may legitimately end;
`bridge` checks it.

## Fairness

* Session: the runner goes on (Dispatch runs it, reads time out after 100 ms,
  handlers return: TRANSPORT_CONFIGURATION.md, "They must return before close
  can finish"), begun asks go on (every native wait has a timeout), and begun
  `close()` calls go on (their waits have deadlines). Nobody is obliged to ask,
  close or drop.
* File lane: a started call goes on and a native wait ends once the lane stops
  (file_lane.h, stop "wakes transfer waits"). An answer or a timeout is never
  relied on.
* Stream lane: strong fairness per started call, because the condition it needs
  may be taken by others in between; callbacks return (the API asks for bounded
  ones).
* Ask client: begun asks go on; the session releases when nothing is borrowed,
  which `SealRetires` shows of the session.
* Dispatch: strong fairness for the runner and for each started call, since a
  lock may be taken by others in between; handlers return, as above.
* Start-up: a start that has begun goes on: its calls of Core return, and the
  process lock is held for one load, which ends. Nobody is obliged to start.
* `NativeOwner` asks borrows to come back only once sealed.

## What is proved

`RuntimeSessionProofs` proves, for any finite set of asks, any set of callers of
`close()`, any `MaxActive` and any number of refusals, every safety property
that `session` checks and the refinement of `NativeOwner`, and besides them
`TypeOK`, `RetirementOrder`, `BorrowsCounted`, `RefusedStopKeepsOwner` and
`NeverJoinsItself`, which no run repeats. It assumes `SessionAssumption` only
(handler asks and closers are asks and closers, the asks are finite, `NoOne` is
no closer, the bounds are naturals).

The properties are not inductive alone. That nothing is left unretired when due
needs to know what the other two parties have already done; that `close()` is
truthful needs to know what holds between its sections. `SessionInv` adds:

* `Consistent(s)`: how the fields under the lock hang together: a retired
  pointer, a destroyed Core and one `retirementDone.leave` are the same fact;
  `stopped` needs `readerRetired`; a stop failure, the retained owner and a live
  Core go together;
* `RunnerInv`: for each place of the runner, what it has done (frame, reader,
  `readerRetired`, `readerDone`);
* `CloserInv`: who holds `closeLock`, and what a caller past each section may
  rely on;
* `~mayRetire(session)`: with the lock free, nothing is due;
* the count of borrowers, and that none is left once Core is destroyed.

The proof goes through the two locked operations first (`StopKeeps`,
`RetireKeeps`, `StopRetireKeeps`: what they do to consistent fields), then the
cardinality of the borrowers (`BorrowsMove`), then one lemma per action or
group of actions that touches the same state, then `StepInv`. The temporal
theorems combine these with PTL.

`HostDispatchProofs` proves, for any threads, any finite set of targets and any
limits, the safety properties of `dispatch`, `TypeOK`, `ProjectionCurrent` and
`NeverStuck`, from `DispatchAssumption`. The key is `HandlersStay`: threads only add handlers, so
whatever the runner has seen or remembered stays true. `RequestInv` adds where
the runner has a request and that what was registered when it came still is;
`CountsInv` bounds the counters by the requests taken. `LocksInv` is about the locks
alone: `clientLock` is never kept while another is waited for, and the session's is
kept by the one thread that registers. So whoever waits, the runner too, waits for
a thread that can go on (`NeverStuck`), which is what `CallsReturn` needs of the
code beside fairness.

`FileLaneProofs` proves, for any finite set of threads, the safety properties of
`file_lane` and that the lane implements `NativeOwner!Safe`. `LaneInv` states
that `activeCalls` is the number of threads inside, that at most one thread
closes, and what each of its places says of the native lane: so a counter at
zero, read after the stop, stays at zero. From the same invariant follow
`NoLostWakeup` (whoever sleeps on the condition still has something to wait for, so
the broadcasts of `Leave` and `Drain` are enough) and `NeverStuck` (while a `close()`
is under way some thread has a step to take, however many calls are blocked in
Core).

`StreamLaneProofs` proves, for any finite sets of threads and keys, any contexts
and any capacity, the safety properties of `stream` and `stream_lost`, `TypeOK`
(which no run repeats) and that the lane implements `NativeOwner!Safe`, from `LaneAssumption`. The
invariant has four parts. `CondInv`, `CallInv` and `CloseInv` say who is inside,
who holds the condition and what a call at each place has, as in the file lane.
`Ownership` is the centre: every context has exactly one owner (an entry's root,
an entry's predecessor, one thread's retired array, or the argument of an admission under
way), and a context is live exactly when it has one, so that freeing it once is
right and an address may be used again. `Cover` says that each record of Core has
an entry, and what of the entry it names; it is this that lets a retirement take
nothing Core still knows. `Bounds` counts the owners of the table. `PreciseInv`,
that each entry has a record once the condition is free, holds only while every
outcome is received (`~MayLose`), and so does the theorem that needs it;
`ContextsAlive`, `OwnersCoverCore`, `NothingLeaks` and `StorageSuffices` hold
either way. That an admission finds no room only when an outcome is unresolved is
a count: otherwise there is one owner per entry, as many entries as records, and
no more records than Core's capacity. Three more theorems are about closing:
`NoLostWakeup` as in the file lane; `ClosedLaneIsEmpty`, that a lane that is gone has
left no owner, no record and no holder but those a thread is about to release; and
`NeverStuck`, that calls, an admission that holds the condition and `close()` do not
wait in a circle, where the one exception is a callback that has not returned.

`StartupProofs` proves, for any hosts, lanes, paths, files and number of symbols,
`TypeOK`, `StartIsAllOrNothing` and that each starter implements `CoreContract`.
`Inv` says for each step of a start exactly what it has of Core, for the way up
and for each way down. It relates the start to the library only through the
handle: a start past `library` holds one until its last step, and no step of
`NativeLibrary` by another starter changes it.

The same module proves `LoadLeavesNothing` and `HandlesUsable` of the library. A
table and a mapping belong to whoever loads or to the process: `LockInv` says that
only the holder of `processLock` loads and what it has at each step of the load,
`TableInv` and `MappedInv` that nothing else exists, `PublishedInv` that the published
table is complete and its file mapped, and `WrapperInv` that an open wrapper has the
published handle. So a load that stops at any symbol has only its own to undo.

`AskClientProofs` proves, for any finite set of asks, any number of lanes and any
bounds, `TicketsBeforeRelease`, `IdentitiesUnique`, `OutcomeKept`,
`TicketSerialized` and `TypeOK`, from `AskAssumption`. `AskInv` says for each place of an ask
what it has: the borrow from `Begin` to `EndBorrow`, a live ticket only within
it, an identity no greater than the last one given, no outcome before the wait
returned; and that each counter is the number of asks that ended in its kind. An
ask ends only once, so `AcceptCounts` adds a new member to that set. None of this
needs the lanes. `LaneInv` is about them: a job is in one place of one queue as
long as its ask is between `Enqueue` and `Resume`, and only the first of a queue
is running. Since no job is there twice, no queue is longer than there are
asynchronous asks (`LaneBound`, by the pigeonhole principle), which `TypeOK` claims.
`BorrowedWhileAsked` says that the session's borrows are exactly the asks between
`Begin` and `EndBorrow`, and `CancellationStays` that an ask canceled before its wait
is, after every step, still on the way that ends canceled without one. With
`NeverStuck` (each ask can go on, or stands in a lane whose first job can) they are
the parts of `ReturnsBorrows`, `QueuedCancellation` and `AskReturns` that do not need
fairness. These three, `NoLostWakeup`, `ClosedLaneIsEmpty` and `TypeOK` (but the
codec's) are theorems that no run repeats.

`BoundaryProofs` proves the three safety properties of `transport` for any
callers, policies, strategies and start-ups that satisfy `TransportAssumption`,
which gives each value its type. `LockInv` has a caller inside Core hold the lock,
and the host open while it is held by one; `CallerInv` and `Answered` relate what
a caller was told to the policy it asked for. The conversions are proved on their
own: `SecurityKept` says that a policy Core accepts comes back from it field by
field as it was given.

The same module proves `EntersAsDeclared` and `NothingLost` of `Bridge` for every set
of libraries that lack functions of a lane only (`BridgeAssumption`: the others are
refused when they are opened, see `NativeLibrary`). Most of it is about the tables: that no function
has two rows (`LaneRowsApart`, `HostRowsApart`), that Swift or the bridge stamps every
record Core sizes (`InputsAreSized`, `OutputsAreSized`), and `declared`, four facts
about `Contract` that hold of each small table and so of all of them (`ContractsAdd`):
a way that uses no object frees none; either all ways of a function use an object or
none does, but for the release of bytes; only the two destroy functions free a lane; and no
function of a lane frees anything else. `BridgeInv` then follows `holding`, what Swift
holds or is about to be given: it is always within what Core has, and what it lacks
can only be a lane whose destroy function is missing. A refusal (`RefuseKeeps`) makes
Swift drop a pointer only in that case.

`EnvelopeCodecProofs` proves, for frames of any length, any width of a varint and
any size of the fixed fields, `TypeOK`, `UsesUpFrame` and `DecodesMeaning`, from `CodecAssumption`.
`TypeOK` says that each reader stays inside its message and an inner one inside
what the outer one has passed, and that whatever is copied is a range of the
frame; with `UsesUpFrame` and `left` a natural number, neither decoder can go on
for ever. The loop of a varint is a recursive function, and that it is defined for every
frame (`LoopDefined`) takes an induction. The library's induction theorem cannot
be used (see below), but an induction over a *set* of numbers can be had without
it: if a set within `0..n` has 0 and, with each member below `n`, its successor,
then it has `n`, for otherwise adding one would map it one to one into what is
left of it without 0 (`Induction`, by the pigeonhole principle). Read backwards
(`InductionBack`) it gives what the loop computes: `VarintsAreRead`, that
`readVarintRaw` accepts exactly the bytes the reference calls a varint and stops
behind them, overlong ones included, and `VarintsFit`, that the value stays below
2^`Width`, so that the check of the last byte loses no bit. Powers of two are given
there as weights that grow by seven bits, since a power is not one the provers can
unfold. Of a frame the proofs use only that its bytes are naturals; which bytes it may
have matters to `isUTF8` alone.

That the decoders are right (`DecodersAreRight`) is proved in four parts. The loop
adds up a number from its last digit and the reference from its first; both sums
split off the first digit (`NumberUnfolds`), so the value read is the number that is
meant (`VarintValue`). An iteration then reads a field exactly if one begins where
the reader is, ends within the message and has the type that its number asks for,
and what it reads is the field's content (`ReadsField`, and `ReadsBody` of what is
behind the tag). No two fields begin at the same byte (`FieldUnique`), so by induction over the cuts what has been laid out is
how every layout of the message begins (`Prefix`); there is no other way to read it
(`MessagesAgree`), and where nothing can be read no message goes on
(`MessageGoesOn`). The inductive invariant, `MeaningInv`, says that what has been
read is itself a message and the fields are what it means: for the nested envelope,
of the bytes it has passed, with the deadletter up to its tag. A step adds a field
at the end, which is the last of its name (`MeaningMore`), begins or ends an
envelope (`NestsRight`, `OriginalEnds`), throws where no message goes on (`Refuses`,
and `OriginalRefused` for the outer one), or finds the end (`EndsRight`).

The assumptions say that `None` (and `NoOne`) is no thread, context, key, path or
value, which the code has by construction (`nil`), that the sets a counter counts
are finite, and that limits are numbers.

Only model-checked: liveness, as fairness and ENABLED are beyond the prover
(`SealRetires`, `CloseReturns`, `LaneReleased`, `QueuedCancellation`, `AskReturns`,
`ReturnsBorrows`, `CallsReturn`, `StartReturns`). The theorems on lost
wakeups and on threads that wait for one another in a circle (`NoLostWakeup`,
`NeverStuck`) are the part of them that needs no fairness.

## Where the code and its documentation differ

TRANSPORT_CONFIGURATION.md:106 says that a failed close can be retried and that
"dropping the host requests eventual safe retirement". Run `session_drop` shows
the exception: if Core refuses the stop that the runner attempts, the session
retains itself (`failedStopOwner`, RuntimeSession.swift:167), but only `close()`
tries again, and it is reachable only through the host. A host dropped then
leaves the session and its native objects alive for the rest of the process.
Without a refused stop the sentence holds (`SealRetires`).

TRANSPORT_CONFIGURATION.md:4 says that Swift preserves "exact presence bits". Run
`network` shows the exception: `coakka_swift_runtime_apply_network` sets 0x04 for
an advertise host and 0x08 for a bind port (lines 767 and 768), which
runtime_transport_config.h:35-36 names the other way round. A node sets all five
bits and is not affected; a policy of another mode that gives one of the two
announces the other. What Core makes of it is its own validation.

Two smaller ones, seen while modelling and not run. coakka_runtime_bridge.h says
that opening resolves the complete bridge symbol set; the functions of the lanes
are looked up at each call, and where `destroy` itself is missing the lane is
dropped without being freed (`NothingLost` names the exception). The same header
says that a failed begin leaves its ticket NULL; on an invalid argument the output
is not written, which Swift, passing a nil, cannot see.

## What could come next

The fields of the lanes' configurations and grants, which would need the validation
of `RuntimeModels.swift`; a character of more than one byte in `isUTF8`, which now
is exact only for the frames that `CodecAssumption` allows.

## Not modelled

Message contents, routing and matching inside Core; the fields of snapshots,
statistics and diagnostics, which are copied one by one; the names of reasons;
strings and their validation (`RuntimeModels.swift`); how files are searched on
disk; memory exhaustion in Swift; `coakka_swift_runtime_create` and
`coakka_swift_ask_ticket_message_id`, which nothing in Swift calls; ARC itself,
beyond who keeps which owner: a callback that holds the last reference to its
lane, and so closes it from Core's worker, is forbidden by the API and not
represented.
