--------------------------- MODULE StreamLaneProofs ---------------------------
(***************************************************************************)
(* Proofs about StreamLane for any finite sets of threads and keys, any    *)
(* contexts, any capacity, and whether or not outcomes may be lost.        *)
(*                                                                         *)
(* A live context has one owner: an entry of the table, a thread that will *)
(* release it, or the admission that brings it.  Every step of the code is *)
(* a transfer between owners, and Core only ever knows contexts that an    *)
(* entry of the same key owns.                                             *)
(***************************************************************************)
EXTENDS StreamLane, FiniteSetTheorems, TLAPS

Types ==
  /\ lane \in {"live", "nil"} /\ closing \in BOOLEAN
  /\ cond \in Threads \cup {None} /\ asleep \subseteq Threads
  /\ entries \in [Keys -> Entries \cup {None}]
  /\ core \in {"started", "stopping", "stopped", "destroyed"}
  /\ records \in [Keys -> Records \cup {None}]
  /\ place \in [Threads -> {"idle", "reading", "admitting", "controlling", "calling", "called",
       "leaving", "releasing", "stopping", "joining", "draining", "following"}]
  /\ call \in [Threads -> Calls]
  /\ retired \in [Threads -> SUBSET Contexts]
  /\ live \subseteq Contexts

\* The condition is held across a native admission and by nothing else.
CondInv == \A t \in Threads : cond = t <=> place[t] \in {"calling", "called"}

\* What a thread was called with.
CallInv ==
  \A t \in Threads :
    /\ place[t] \in {"admitting", "controlling", "calling", "called"} => call[t].key \in Keys
    /\ place[t] \in {"admitting", "calling", "called"} => call[t].context \in Contexts
    /\ place[t] = "called" => call[t].outcome \in {"ok", "refused", "lost"}
    /\ call[t].outcome = "lost" => MayLose

CloseInv ==
  /\ lane = "nil" => closing
  /\ \A t \in Threads : place[t] \in {"stopping", "joining", "draining"} => closing

-----------------------------------------------------------------------------
(* Ownership of contexts. *)

inTable(c, k) == entries[k] # None /\ c \in {entries[k].root, entries[k].previous}
inRetired(c, t) == c \in retired[t]
inCall(c, t) == place[t] = "admitting" /\ call[t].context = c

OwnedOnce(c) ==
  /\ c \in live <=> \/ \E k \in Keys : inTable(c, k)
                    \/ \E t \in Threads : inRetired(c, t) \/ inCall(c, t)
  /\ \A k, j \in Keys : inTable(c, k) /\ inTable(c, j) => k = j
  /\ \A t, u \in Threads : inRetired(c, t) /\ inRetired(c, u) => t = u
  /\ \A t, u \in Threads : inCall(c, t) /\ inCall(c, u) => t = u
  /\ \A k \in Keys, t \in Threads : inTable(c, k) => ~inRetired(c, t) /\ ~inCall(c, t)
  /\ \A t, u \in Threads : inRetired(c, t) => ~inCall(c, u)

\* An entry that is resolved owns one context, another may own two.
EntryInv(k) ==
  entries[k] # None =>
    /\ entries[k].root # entries[k].previous
    /\ entries[k].resolved => entries[k].previous = None

Ownership == (\A c \in Contexts : OwnedOnce(c)) /\ (\A k \in Keys : EntryInv(k))

-----------------------------------------------------------------------------
(* The table and Core's records. *)

Covered(k) ==
  records[k] # None =>
    /\ entries[k] # None
    /\ \/ records[k].context = entries[k].root
       \/ ~entries[k].resolved /\ records[k].context = entries[k].previous

\* Of an admission under way: Core has not taken the candidate, or has.
notTaken(t) == place[t] = "calling" \/ (place[t] = "called" /\ call[t].outcome = "refused")
taken(t) == place[t] = "called" /\ call[t].outcome = "ok"

\* During an admission the entry is the candidate's; Core has the record of the
\* previous owner until it takes the candidate.
AdmissionInv(t) ==
  LET k == call[t].key IN
  /\ place[t] \in {"calling", "called"} =>
       entries[k] # None /\ ~entries[k].resolved /\ entries[k].root = call[t].context
  /\ notTaken(t) /\ records[k] # None => records[k].context = entries[k].previous
  /\ taken(t) => records[k] # None /\ records[k].context = entries[k].root

Cover == (\A k \in Keys : Covered(k)) /\ (\A t \in Threads : AdmissionInv(t))

retained == {k \in Keys : records[k] # None}

Bounds == Cardinality(retained) <= Capacity /\ Cardinality(owned(entries)) <= limit

\* Without lost outcomes: only the entry under admission is unresolved, and what
\* Core has let go is pruned before the condition is free again.
PreciseInv ==
  /\ \A k \in Keys : entries[k] # None /\ ~entries[k].resolved =>
       cond # None /\ call[cond].key = k
  /\ \A k \in Keys : entries[k] # None /\ records[k] = None =>
       cond # None /\ (call[cond].key = k \/ taken(cond))
  /\ \A t \in Threads : notTaken(t) /\ entries[call[t].key].previous # None =>
       records[call[t].key] # None

StreamInv ==
  /\ Types
  /\ activeCalls = Cardinality(counted)
  /\ CondInv /\ CallInv /\ CloseInv
  /\ Ownership
  /\ Cover
  /\ Bounds
  /\ ~MayLose => PreciseInv

-----------------------------------------------------------------------------
(* Counting. *)

\* A set of threads gains or loses one.
LEMMA CountMoves ==
  ASSUME NEW S \in SUBSET Threads, NEW t \in Threads
  PROVE  /\ Cardinality(S) \in Nat
         /\ t \notin S => Cardinality(S \cup {t}) = Cardinality(S) + 1
         /\ t \in S => Cardinality(S \ {t}) = Cardinality(S) - 1
         /\ Cardinality(S) = 0 <=> S = {}
  <1>1. IsFiniteSet(S) /\ Cardinality(S) \in Nat
    BY LaneAssumption, FS_Subset, FS_CardinalityType
  <1>2. t \notin S => Cardinality(S \cup {t}) = Cardinality(S) + 1
    BY <1>1, FS_AddElement
  <1>3. t \in S => Cardinality(S \ {t}) = Cardinality(S) - 1
    BY <1>1, FS_RemoveElement
  <1>4. Cardinality(S) = 0 <=> S = {}
    BY <1>1, FS_EmptySet
  <1>5. QED
    BY <1>1, <1>2, <1>3, <1>4

counts(p) == p \in {"reading", "admitting", "controlling", "calling", "called", "leaving"}

\* activeCalls follows a thread into withLane and out of it.
LEMMA CountKeeps ==
  ASSUME Types, activeCalls = Cardinality(counted),
         NEW t \in Threads, NEW p, goto(t, p),
         activeCalls' = activeCalls + (IF counts(p) THEN 1 ELSE 0) - (IF counts(place[t]) THEN 1 ELSE 0)
  PROVE  activeCalls' = Cardinality(counted')
  <1>1. counted \in SUBSET Threads /\ (t \in counted <=> counts(place[t]))
    BY DEF counted, counts
  <1>2. counted' = IF counts(p) THEN counted \cup {t} ELSE counted \ {t}
    BY DEF counted, counts, goto, Types
  <1>3. Cardinality(counted) \in Nat
    BY <1>1, CountMoves
  <1>4. CASE counts(p) <=> counts(place[t])
    <2>1. counted' = counted
      BY <1>1, <1>2, <1>4
    <2>2. activeCalls' = activeCalls
      BY <1>3, <1>4
    <2>3. QED
      BY <2>1, <2>2
  <1>5. CASE counts(p) /\ ~counts(place[t])
    <2>1. Cardinality(counted \cup {t}) = Cardinality(counted) + 1
      BY <1>1, <1>5, CountMoves
    <2>2. QED
      BY <1>2, <1>3, <1>5, <2>1
  <1>6. CASE ~counts(p) /\ counts(place[t])
    <2>1. Cardinality(counted \ {t}) = Cardinality(counted) - 1
      BY <1>1, <1>6, CountMoves
    <2>2. QED
      BY <1>2, <1>3, <1>6, <2>1
  <1>7. QED
    BY <1>4, <1>5, <1>6

-----------------------------------------------------------------------------
(* What leaves each part alone. *)

\* A context whose owners do not change keeps its one owner.
LEMMA Untouched ==
  ASSUME NEW c, OwnedOnce(c), (c \in live)' <=> c \in live,
         \A k \in Keys : inTable(c, k)' <=> inTable(c, k),
         \A t \in Threads : (inRetired(c, t)' <=> inRetired(c, t)) /\ (inCall(c, t)' <=> inCall(c, t))
  PROVE  OwnedOnce(c)'
  BY DEF OwnedOnce

LEMMA OwnershipSame ==
  ASSUME Ownership, UNCHANGED <<entries, retired, live>>,
         \A t \in Threads, c \in Contexts : inCall(c, t)' <=> inCall(c, t)
  PROVE  Ownership'
  <1>1. ASSUME NEW c \in Contexts PROVE OwnedOnce(c)'
    <2>1. OwnedOnce(c)
      BY DEF Ownership
    <2>2. /\ \A k \in Keys : inTable(c, k)' <=> inTable(c, k)
          /\ \A t \in Threads : inRetired(c, t)' <=> inRetired(c, t)
      BY DEF inTable, inRetired
    <2>3. QED
      BY <2>1, <2>2, Untouched
  <1>2. ASSUME NEW k \in Keys PROVE EntryInv(k)'
    BY DEF Ownership, EntryInv
  <1>3. QED
    BY <1>1, <1>2 DEF Ownership

\* No admission begins or moves, and Core's records keep their contexts.
sameRecords ==
  /\ UNCHANGED <<entries, cond>>
  /\ \A k \in Keys : records'[k] = None <=> records[k] = None
  /\ \A k \in Keys : records[k] # None => records'[k].context = records[k].context
  /\ \A t \in Threads :
       place'[t] \in {"calling", "called"} \/ place[t] \in {"calling", "called"} =>
         place'[t] = place[t] /\ call'[t] = call[t]

LEMMA TableSame ==
  ASSUME Types, CondInv, CallInv, sameRecords
  PROVE  /\ Cover => Cover'
         /\ Bounds => Bounds'
         /\ PreciseInv => PreciseInv'
  <1> USE DEF sameRecords
  <1>1. Cover => Cover'
    BY DEF Cover, Covered, AdmissionInv, taken, notTaken, CallInv
  <1>2. Bounds => Bounds'
    <2>1. retained' = retained /\ owned(entries)' = owned(entries)
      BY DEF retained, owned
    <2>2. QED
      BY <2>1 DEF Bounds, limit
  <1>3. PreciseInv => PreciseInv'
    BY DEF PreciseInv, taken, notTaken, CallInv, CondInv, Types
  <1>4. QED
    BY <1>1, <1>2, <1>3

-----------------------------------------------------------------------------
(* The steps. *)

LEMMA InitInv == Init => StreamInv
  <1> SUFFICES ASSUME Init PROVE StreamInv
    OBVIOUS
  <1> USE LaneAssumption DEF Init
  <1>1. Types /\ CondInv /\ CallInv /\ CloseInv
    BY DEF Types, CondInv, CallInv, CloseInv, noCall, Calls
  <1>2. counted = {} /\ retained = {} /\ owned(entries) = {}
    BY DEF counted, retained, owned
  <1>3. activeCalls = Cardinality(counted) /\ Bounds
    BY <1>2, FS_EmptySet DEF Bounds, limit
  <1>4. Ownership
    BY DEF Ownership, OwnedOnce, EntryInv, inTable, inRetired, inCall
  <1>5. Cover
    BY DEF Cover, Covered, AdmissionInv, notTaken, taken
  <1>6. PreciseInv
    BY DEF PreciseInv, notTaken
  <1>7. QED
    BY <1>1, <1>3, <1>4, <1>5, <1>6 DEF StreamInv

\* Steps of a thread that neither admit nor own.
LEMMA CallKeeps ==
  ASSUME StreamInv, NEW t \in Threads,
         \/ EnterRead(t) \/ \E k \in Keys : EnterControl(t, k)
         \/ ReadReturns(t) \/ Cancel(t) \/ Leave(t)
  PROVE  StreamInv'
  <1> USE LaneAssumption DEF StreamInv, closeState
  <1>1. Types'
    <2>1. CASE EnterRead(t) \/ ReadReturns(t) \/ Leave(t)
      <3>1. CASE EnterRead(t)
        BY <3>1 DEF Types, EnterRead, enter, goto
      <3>2. CASE ReadReturns(t)
        BY <3>2 DEF Types, ReadReturns, goto
      <3>3. CASE Leave(t)
        BY <3>3 DEF Types, Leave, goto
      <3>4. QED
        BY <2>1, <3>1, <3>2, <3>3
    <2>2. CASE \E k \in Keys : EnterControl(t, k)
      BY <2>2 DEF Types, EnterControl, enter, goto, Calls
    <2>3. CASE Cancel(t)
      <3>1. records' \in [Keys -> Records \cup {None}]
        BY <2>3 DEF Types, Cancel, Records
      <3>2. QED
        BY <2>3, <3>1 DEF Types, Cancel, goto
    <2>4. QED
      BY <2>1, <2>2, <2>3
  <1>2. activeCalls' = Cardinality(counted')
    <2>1. ASSUME NEW p, goto(t, p),
                 activeCalls' = activeCalls + (IF counts(p) THEN 1 ELSE 0) - (IF counts(place[t]) THEN 1 ELSE 0)
          PROVE  activeCalls' = Cardinality(counted')
      BY <2>1, CountKeeps
    <2>2. activeCalls \in Nat
      BY CountMoves DEF counted
    <2>3. CASE EnterRead(t) \/ \E k \in Keys : EnterControl(t, k)
      BY <2>1, <2>2, <2>3 DEF EnterRead, EnterControl, enter, counts
    <2>4. CASE ReadReturns(t) \/ Cancel(t) \/ Leave(t)
      BY <2>1, <2>2, <2>4 DEF ReadReturns, Cancel, Leave, counts
    <2>5. QED
      BY <2>3, <2>4
  <1>3. CondInv' /\ CallInv' /\ CloseInv'
    BY DEF CondInv, CallInv, CloseInv, Types, Calls, EnterRead, EnterControl, enter, ReadReturns, Cancel, Leave, goto
  <1>4. Ownership'
    <2>1. UNCHANGED <<entries, retired, live>>
      BY DEF EnterRead, EnterControl, ReadReturns, Cancel, Leave
    <2>2. \A u \in Threads, c \in Contexts : inCall(c, u)' <=> inCall(c, u)
      BY DEF inCall, Types, EnterRead, EnterControl, enter, ReadReturns, Cancel, Leave, goto
    <2>3. QED
      BY <2>1, <2>2, OwnershipSame
  <1>5. sameRecords
    <2>1. /\ UNCHANGED <<entries, cond>>
          /\ \A u \in Threads :
               place'[u] \in {"calling", "called"} \/ place[u] \in {"calling", "called"} =>
                 place'[u] = place[u] /\ call'[u] = call[u]
      BY DEF Types, EnterRead, EnterControl, enter, ReadReturns, Cancel, Leave, goto
    <2>2. CASE Cancel(t)
      BY <2>1, <2>2 DEF sameRecords, Cancel, Types, Records, CallInv
    <2>3. CASE ~Cancel(t)
      BY <2>1, <2>3 DEF sameRecords, EnterRead, EnterControl, ReadReturns, Leave
    <2>4. QED
      BY <2>2, <2>3
  <1>6. QED
    BY <1>1, <1>2, <1>3, <1>4, <1>5, TableSame

\* close, but for its last section.
LEMMA CloseKeeps ==
  ASSUME StreamInv, NEW t \in Threads, CallClose(t) \/ StopBegins(t) \/ StopReturns(t) \/ Follow(t)
  PROVE  StreamInv'
  <1> USE LaneAssumption DEF StreamInv, CallClose, StopBegins, StopReturns, Follow, sleep
  <1>1. Types'
    <2>1. records' \in [Keys -> Records \cup {None}]
      BY DEF Types, Records
    <2>2. QED
      BY <2>1 DEF Types, goto
  <1>2. activeCalls' = Cardinality(counted')
    <2>1. counted' = counted
      BY DEF counted, Types, goto
    <2>2. QED
      BY <2>1
  <1>3. CondInv' /\ CallInv' /\ CloseInv'
    BY DEF CondInv, CallInv, CloseInv, Types, goto
  <1>4. Ownership'
    <2>1. UNCHANGED <<entries, retired, live>>
      OBVIOUS
    <2>2. \A u \in Threads, c \in Contexts : inCall(c, u)' <=> inCall(c, u)
      BY DEF inCall, Types, goto
    <2>3. QED
      BY <2>1, <2>2, OwnershipSame
  <1>5. sameRecords
    BY DEF sameRecords, Types, Records, goto
  <1>6. QED
    BY <1>1, <1>2, <1>3, <1>4, <1>5, TableSame

\* Core's workers.
LEMMA WorkersKeep ==
  ASSUME StreamInv, NEW k \in Keys, CallbackStarts(k) \/ CallbackReturns(k) \/ RecordEnds(k)
  PROVE  StreamInv'
  <1> USE LaneAssumption DEF StreamInv, CallbackStarts, CallbackReturns, RecordEnds, workersOnly
  <1>1. Types'
    <2>1. records' \in [Keys -> Records \cup {None}]
      BY DEF Types, Records
    <2>2. QED
      BY <2>1 DEF Types
  <1>2. activeCalls' = Cardinality(counted') /\ CondInv' /\ CallInv' /\ CloseInv'
    BY DEF counted, CondInv, CallInv, CloseInv
  <1>3. Ownership'
    BY OwnershipSame DEF inCall
  <1>4. sameRecords
    BY DEF sameRecords, Types, Records
  <1>5. QED
    BY <1>1, <1>2, <1>3, <1>4, TableSame

\* A holder is allocated: a context nobody owns.
LEMMA EnterAdmitKeeps ==
  ASSUME StreamInv, NEW t \in Threads, NEW k \in Keys, NEW c \in Contexts, EnterAdmit(t, k, c)
  PROVE  StreamInv'
  <1> USE LaneAssumption DEF StreamInv, EnterAdmit, enter
  <1>1. Types'
    BY DEF Types, Calls, goto
  <1>2. activeCalls' = Cardinality(counted')
    <2>1. activeCalls \in Nat
      BY CountMoves DEF counted
    <2>2. QED
      BY <2>1, CountKeeps DEF counts
  <1>3. CondInv' /\ CallInv' /\ CloseInv'
    BY DEF CondInv, CallInv, CloseInv, Types, goto
  <1>4. Ownership'
    <2>1. /\ \A x, j : inTable(x, j)' <=> inTable(x, j)
          /\ \A x, u : inRetired(x, u)' <=> inRetired(x, u)
          /\ \A x \in Contexts, u \in Threads : inCall(x, u)' <=> inCall(x, u) \/ (x = c /\ u = t)
      BY DEF inTable, inRetired, inCall, Types, goto
    <2>2. ASSUME NEW x \in Contexts PROVE OwnedOnce(x)'
      <3>1. OwnedOnce(x)
        BY DEF Ownership
      <3>2. CASE x = c
        BY <2>1, <3>1, <3>2 DEF OwnedOnce
      <3>3. CASE x # c
        BY <2>1, <3>1, <3>3, Untouched
      <3>4. QED
        BY <3>2, <3>3
    <2>3. \A j \in Keys : EntryInv(j)'
      BY DEF EntryInv, Ownership
    <2>4. QED
      BY <2>2, <2>3 DEF Ownership
  <1>5. sameRecords
    BY DEF sameRecords, Types, goto
  <1>6. QED
    BY <1>1, <1>2, <1>3, <1>4, <1>5, TableSame

\* What a thread has retired is freed, and nothing else.
LEMMA ReleaseKeeps ==
  ASSUME StreamInv, NEW t \in Threads, Release(t)
  PROVE  StreamInv'
  <1> USE LaneAssumption DEF StreamInv, Release
  <1>1. Types'
    BY DEF Types, Calls, noCall, goto
  <1>2. activeCalls' = Cardinality(counted')
    <2>1. counted' = counted
      BY DEF counted, Types, goto
    <2>2. QED
      BY <2>1
  <1>3. CondInv' /\ CallInv' /\ CloseInv'
    BY DEF CondInv, CallInv, CloseInv, Types, noCall, goto
  <1>4. Ownership'
    <2>1. /\ \A x, j : inTable(x, j)' <=> inTable(x, j)
          /\ \A x \in Contexts, u \in Threads : inRetired(x, u)' <=> inRetired(x, u) /\ u # t
          /\ \A x \in Contexts, u \in Threads : inCall(x, u)' <=> inCall(x, u)
          /\ \A x : x \in live' <=> x \in live /\ ~inRetired(x, t)
      BY DEF inTable, inRetired, inCall, Types, goto
    <2>2. ASSUME NEW x \in Contexts PROVE OwnedOnce(x)'
      <3>1. OwnedOnce(x)
        BY DEF Ownership
      <3>2. QED
        BY <2>1, <3>1 DEF OwnedOnce
    <2>3. \A j \in Keys : EntryInv(j)'
      BY DEF EntryInv, Ownership
    <2>4. QED
      BY <2>2, <2>3 DEF Ownership
  <1>5. sameRecords
    BY DEF sameRecords, Types, goto
  <1>6. QED
    BY <1>1, <1>2, <1>3, <1>4, <1>5, TableSame

-----------------------------------------------------------------------------
(* Admission: before the native call. *)

\* The table has its limit of entries after pruning only if nothing was pruned.
LEMMA FullTable ==
  ASSUME StreamInv, Cardinality(owned(prune(entries))) = limit
  PROVE  absent(entries) = {} /\ prune(entries) = entries
  <1>1. owned(prune(entries)) = owned(entries) \ absent(entries)
    BY DEF owned, prune, absent
  <1>2. absent(entries) \subseteq owned(entries)
    BY DEF absent
  <1>3. IsFiniteSet(owned(entries)) /\ Cardinality(owned(entries)) \in Nat
    BY LaneAssumption, FS_Subset, FS_CardinalityType DEF owned
  <1>4. owned(prune(entries)) \subseteq owned(entries)
    BY <1>1
  <1>5. Cardinality(owned(prune(entries))) = Cardinality(owned(entries))
    BY <1>3, <1>4, FS_Subset, LaneAssumption DEF StreamInv, Bounds, limit
  <1>6. owned(prune(entries)) = owned(entries)
    BY <1>3, <1>4, <1>5, FS_Subset
  <1>7. absent(entries) = {}
    BY <1>1, <1>2, <1>6
  <1>8. prune(entries) = entries
    BY <1>7 DEF prune, StreamInv, Types
  <1>9. QED
    BY <1>7, <1>8

\* A refused candidate goes from the call to the thread that will release it.
LEMMA RefusalKeeps ==
  ASSUME StreamInv, NEW t \in Threads, place[t] = "admitting",
         NEW o \in {"unresolved", "exhausted"}, outcome(t, o),
         retire(t, {call[t].context}), goto(t, "leaving"),
         UNCHANGED <<cond, entries, activeCalls, closeState>>
  PROVE  StreamInv'
  <1> USE LaneAssumption DEF StreamInv, closeState
  <1>0. call[t].context \in Contexts /\ call' = [call EXCEPT ![t].outcome = o]
        /\ \A u \in Threads : call'[u].key = call[u].key /\ call'[u].context = call[u].context
    BY DEF CallInv, outcome, Types, Calls
  <1>1. Types'
    <2>1. call' \in [Threads -> Calls]
      BY <1>0 DEF Types, Calls
    <2>2. retired' \in [Threads -> SUBSET Contexts]
      BY <1>0 DEF Types, retire
    <2>3. QED
      BY <2>1, <2>2 DEF Types, goto
  <1>2. activeCalls' = Cardinality(counted')
    <2>1. counted' = counted
      BY DEF counted, Types, goto
    <2>2. QED
      BY <2>1
  <1>3. CondInv' /\ CallInv' /\ CloseInv'
    BY <1>0 DEF CondInv, CallInv, CloseInv, Types, Calls, goto
  <1>4. Ownership'
    <2>1. /\ \A x, j : inTable(x, j)' <=> inTable(x, j)
          /\ \A x \in Contexts, u \in Threads :
               inRetired(x, u)' <=> inRetired(x, u) \/ (u = t /\ x = call[t].context)
          /\ \A x \in Contexts, u \in Threads : inCall(x, u)' <=> inCall(x, u) /\ u # t
      BY <1>0 DEF inTable, inRetired, inCall, Types, goto, retire
    <2>2. inCall(call[t].context, t) /\ \A x : inCall(x, t) => x = call[t].context
      BY DEF inCall
    <2>3. ASSUME NEW x \in Contexts PROVE OwnedOnce(x)'
      <3>1. OwnedOnce(x)
        BY DEF Ownership
      <3>2. CASE x = call[t].context
        BY <2>1, <2>2, <3>1, <3>2 DEF OwnedOnce
      <3>3. CASE x # call[t].context
        BY <2>1, <2>2, <3>1, <3>3, Untouched
      <3>4. QED
        BY <3>2, <3>3
    <2>4. \A j \in Keys : EntryInv(j)'
      BY DEF EntryInv, Ownership
    <2>5. QED
      BY <2>3, <2>4 DEF Ownership
  <1>5. sameRecords
    BY <1>0 DEF sameRecords, Types, goto
  <1>6. QED
    BY <1>1, <1>2, <1>3, <1>4, <1>5, TableSame

\* A candidate is entered: the root it replaces becomes its previous owner, and
\* the entries that are pruned go to the thread.
LEMMA CandidateKeeps ==
  ASSUME StreamInv, NEW t \in Threads, place[t] = "admitting", cond = None,
         NEW k, k = call[t].key,
         entries[k] # None => entries[k].resolved,
         NEW gone \in SUBSET absent(entries), k \notin gone,
         Cardinality((owned(entries) \ gone) \cup {k}) <= limit,
         entries' = [j \in Keys |->
           IF j = k THEN [root |-> call[t].context, resolved |-> FALSE,
                          previous |-> IF entries[k] = None THEN None ELSE entries[k].root]
           ELSE IF j \in gone THEN None ELSE entries[j]],
         retire(t, {entries[j].root : j \in gone}), goto(t, "calling"), cond' = t,
         UNCHANGED <<call, activeCalls, closeState>>
  PROVE  StreamInv'
  <1> DEFINE c == call[t].context
  <1> USE LaneAssumption DEF StreamInv, closeState
  <1>0. c \in Contexts /\ k \in Keys /\ c # None
    BY DEF CallInv
  <1>1. Types'
    <2>1. entries' \in [Keys -> Entries \cup {None}]
      <3>1. entries[k] # None => entries[k].root \in Contexts
        BY <1>0 DEF Types, Entries
      <3>2. QED
        BY <1>0, <3>1 DEF Types, Entries
    <2>2. \A j \in gone : entries[j].root \in Contexts
      BY DEF absent, owned, Types, Entries
    <2>3. retired' \in [Threads -> SUBSET Contexts]
      BY <2>2 DEF Types, retire
    <2>4. QED
      BY <2>1, <2>3 DEF Types, goto
  <1>2. activeCalls' = Cardinality(counted')
    <2>1. counted' = counted
      BY DEF counted, Types, goto
    <2>2. QED
      BY <2>1
  <1>3. CondInv' /\ CallInv' /\ CloseInv'
    BY DEF CondInv, CallInv, CloseInv, Types, goto
  <1>4. /\ entries'[k] # None /\ entries'[k].root = c /\ ~entries'[k].resolved
        /\ entries'[k].previous = IF entries[k] = None THEN None ELSE entries[k].root
        /\ \A j \in Keys \ {k} : entries'[j] = IF j \in gone THEN None ELSE entries[j]
    <2> DEFINE previous == IF entries[k] = None THEN None ELSE entries[k].root
    <2>1. entries'[k] = [root |-> c, resolved |-> FALSE, previous |-> previous]
      BY <1>0
    <2>2. previous \in Contexts \cup {None}
      BY <1>0 DEF Types, Entries
    <2>3. entries'[k] \in Entries
      BY <1>0, <2>1, <2>2 DEF Entries
    <2>4. QED
      BY <1>0, <2>1, <2>3
  <1>5. \A x \in Contexts, j \in gone : inTable(x, j) <=> x = entries[j].root
    BY DEF Ownership, EntryInv, absent, owned, inTable
  <1>6. /\ \A x \in Contexts, j \in Keys : inTable(x, j)' <=> (j = k /\ x = c) \/ (j \notin gone /\ inTable(x, j))
        /\ \A x \in Contexts, u \in Threads :
             inRetired(x, u)' <=> inRetired(x, u) \/ (u = t /\ \E j \in gone : inTable(x, j))
        /\ \A x \in Contexts, u \in Threads : inCall(x, u)' <=> inCall(x, u) /\ u # t
    <2>1. ASSUME NEW x \in Contexts, NEW j \in Keys
          PROVE  inTable(x, j)' <=> (j = k /\ x = c) \/ (j \notin gone /\ inTable(x, j))
      <3>1. CASE j = k
        <4>1. entries[k] # None => entries[k].previous = None
          BY <1>0 DEF Ownership, EntryInv
        <4>2. x # None
          OBVIOUS
        <4>3. inTable(x, k) <=> entries[k] # None /\ x = entries[k].root
          BY <4>1, <4>2 DEF inTable
        <4>4. inTable(x, k)' <=> x = c \/ (entries[k] # None /\ x = entries[k].root)
          BY <1>4, <4>2, Zenon DEF inTable
        <4>5. QED
          BY <3>1, <4>3, <4>4
      <3>2. CASE j # k
        BY <1>4, <3>2 DEF inTable
      <3>3. QED
        BY <3>1, <3>2
    <2>2. \A x \in Contexts, u \in Threads :
             inRetired(x, u)' <=> inRetired(x, u) \/ (u = t /\ \E j \in gone : inTable(x, j))
      BY <1>5 DEF inRetired, retire, Types
    <2>3. \A x \in Contexts, u \in Threads : inCall(x, u)' <=> inCall(x, u) /\ u # t
      BY DEF inCall, Types, goto
    <2>4. QED
      BY <2>1, <2>2, <2>3
  <1>7. Ownership'
    <2>1. inCall(c, t) /\ \A x : inCall(x, t) => x = c
      BY DEF inCall
    <2>2. ASSUME NEW x \in Contexts PROVE OwnedOnce(x)'
      <3>1. OwnedOnce(x) /\ gone \subseteq Keys
        BY DEF Ownership, absent, owned
      <3>2. CASE x = c
        BY <1>0, <1>6, <2>1, <3>1, <3>2 DEF OwnedOnce
      <3>3. CASE \E j \in gone : inTable(x, j)
        BY <1>6, <2>1, <3>1, <3>3 DEF OwnedOnce
      <3>4. CASE x # c /\ ~\E j \in gone : inTable(x, j)
        BY <1>6, <2>1, <3>1, <3>4, Untouched
      <3>5. QED
        BY <3>2, <3>3, <3>4
    <2>3. ASSUME NEW j \in Keys PROVE EntryInv(j)'
      <3>1. CASE j = k
        <4>1. entries[k] # None => entries[k].root # c
          <5>1. entries[k] # None => inTable(entries[k].root, k) /\ entries[k].root \in Contexts
            BY <1>0 DEF inTable, Types, Entries
          <5>2. OwnedOnce(c) /\ inCall(c, t)
            BY <1>0, <2>1 DEF Ownership
          <5>3. QED
            BY <1>0, <5>1, <5>2 DEF OwnedOnce
        <4>2. QED
          BY <1>0, <1>4, <3>1, <4>1, Zenon DEF EntryInv
      <3>2. CASE j # k
        BY <1>4, <3>2 DEF EntryInv, Ownership
      <3>3. QED
        BY <3>1, <3>2
    <2>4. QED
      BY <2>2, <2>3 DEF Ownership
  <1>8. Cover'
    <2>1. ASSUME NEW j \in Keys PROVE Covered(j)'
      <3>1. Covered(j)
        BY DEF Cover
      <3>2. QED
        BY <1>0, <1>4, <3>1 DEF Covered, absent
    <2>2. ASSUME NEW u \in Threads PROVE AdmissionInv(u)'
      <3>1. u # t => place'[u] \notin {"calling", "called"}
        BY DEF CondInv, Types, goto
      <3>2. place'[t] = "calling" /\ (records[k] # None => records[k].context = entries'[k].previous)
        BY <1>0, <1>4 DEF Cover, Covered, Types, goto
      <3>3. QED
        BY <1>4, <3>1, <3>2, Zenon DEF AdmissionInv, notTaken, taken
    <2>3. QED
      BY <2>1, <2>2 DEF Cover
  <1>9. Bounds'
    <2>1. retained' = retained /\ owned(entries)' = (owned(entries) \ gone) \cup {k}
      BY <1>0, <1>4 DEF retained, owned
    <2>2. QED
      BY <2>1 DEF Bounds, limit
  <1>10. ~MayLose => PreciseInv'
    <2> SUFFICES ASSUME ~MayLose PROVE PreciseInv'
      OBVIOUS
    <2>1. /\ \A u \in Threads \ {t} : place'[u] = place[u] /\ place[u] \notin {"calling", "called"}
          /\ place'[t] = "calling" /\ cond' = t /\ call' = call /\ records' = records
      BY DEF CondInv, Types, goto
    <2>2. \A j \in Keys : entries[j] # None => entries[j].resolved /\ records[j] # None
      BY DEF PreciseInv
    <2>3. \A j \in Keys : entries'[j] # None /\ ~entries'[j].resolved => j = k
      BY <1>4, <2>2
    <2>4. \A j \in Keys : entries'[j] # None /\ records'[j] = None => j = k
      BY <1>4, <2>1, <2>2
    <2>5. entries'[k].previous # None => records'[k] # None
      BY <1>0, <1>4, <2>1, <2>2
    <2>6. \A u \in Threads : notTaken(u)' => u = t
      BY <2>1 DEF notTaken
    <2>7. cond' # None /\ call'[cond'].key = k
      BY <2>1
    <2>8. QED
      BY <2>3, <2>4, <2>5, <2>6, <2>7 DEF PreciseInv
  <1>11. QED
    BY <1>1, <1>2, <1>3, <1>7, <1>8, <1>9, <1>10

\* A set of keys gains or loses some.
LEMMA KeyCount ==
  ASSUME NEW S \in SUBSET Keys, NEW k \in Keys
  PROVE  /\ IsFiniteSet(S) /\ Cardinality(S) \in Nat
         /\ Cardinality(S \cup {k}) = IF k \in S THEN Cardinality(S) ELSE Cardinality(S) + 1
         /\ \A D \in SUBSET S : Cardinality(S \ D) <= Cardinality(S) /\ (D # {} => Cardinality(S \ D) < Cardinality(S))
  <1>1. IsFiniteSet(S) /\ Cardinality(S) \in Nat
    BY LaneAssumption, FS_Subset, FS_CardinalityType
  <1>2. Cardinality(S \cup {k}) = IF k \in S THEN Cardinality(S) ELSE Cardinality(S) + 1
    BY <1>1, FS_AddElement
  <1>3. ASSUME NEW D \in SUBSET S
        PROVE  Cardinality(S \ D) <= Cardinality(S) /\ (D # {} => Cardinality(S \ D) < Cardinality(S))
    <2>1. S \ D \subseteq S /\ (D # {} => S \ D # S)
      OBVIOUS
    <2>2. Cardinality(S \ D) \in Nat
      BY <1>1, <2>1, FS_Subset, FS_CardinalityType
    <2>3. QED
      BY <1>1, <2>1, <2>2, FS_Subset
  <1>4. QED
    BY <1>1, <1>2, <1>3

LEMMA PublishKeeps ==
  ASSUME StreamInv, NEW t \in Threads, Publish(t)
  PROVE  StreamInv'
  <1> DEFINE k == call[t].key
             full == entries[k] = None /\ Cardinality(owned(entries)) = limit
             es == IF full THEN prune(entries) ELSE entries
             gone == IF full THEN absent(entries) ELSE {}
  <1>0. /\ k \in Keys /\ place[t] = "admitting" /\ cond = None
        /\ UNCHANGED <<activeCalls, closeState>>
    BY DEF Publish, StreamInv, CallInv
  <1>a. limit \in Nat /\ ~(limit < limit)
    BY LaneAssumption DEF limit
  <1>1. CASE entries[k] # None /\ ~entries[k].resolved
    <2>1. /\ outcome(t, "unresolved") /\ retire(t, {call[t].context}) /\ goto(t, "leaving")
          /\ UNCHANGED <<cond, entries>>
      BY <1>1 DEF Publish
    <2>2. QED
      BY <1>0, <2>1, RefusalKeeps
  <1>2. CASE full /\ Cardinality(owned(es)) = limit
    <2>1. prune(entries) = entries
      BY <1>2, FullTable
    <2>2. /\ outcome(t, "exhausted") /\ retire(t, {call[t].context}) /\ goto(t, "leaving")
          /\ UNCHANGED <<cond, entries>>
      BY <1>a, <1>2, <2>1 DEF Publish
    <2>3. QED
      BY <1>0, <2>2, RefusalKeeps
  <1>3. CASE (entries[k] # None => entries[k].resolved) /\ (full => Cardinality(owned(es)) < limit)
    <2>1. /\ ~(full /\ Cardinality(owned(es)) = limit)
          /\ ~(entries[k] # None /\ ~entries[k].resolved)
      BY <1>a, <1>3
    <2>2. /\ cond' = t
          /\ entries' = [es EXCEPT ![k] =
               [root |-> call[t].context, resolved |-> FALSE,
                previous |-> IF es[k] = None THEN None ELSE es[k].root]]
          /\ retire(t, IF full THEN pruned(entries) ELSE {}) /\ goto(t, "calling")
          /\ UNCHANGED call
      BY <1>3, <2>1 DEF Publish
    <2>3. gone \in SUBSET absent(entries) /\ k \notin gone /\ absent(entries) \subseteq owned(entries)
      BY DEF absent, owned
    <2>4. /\ es[k] = entries[k]
          /\ \A j \in Keys : es[j] = IF j \in gone THEN None ELSE entries[j]
          /\ es = [j \in Keys |-> es[j]]
      BY <1>0, <2>3 DEF prune, StreamInv, Types
    <2>5. entries' = [j \in Keys |->
            IF j = k THEN [root |-> call[t].context, resolved |-> FALSE,
                           previous |-> IF entries[k] = None THEN None ELSE entries[k].root]
            ELSE IF j \in gone THEN None ELSE entries[j]]
      <3> HIDE DEF es, gone
      <3>1. QED
        BY <1>0, <2>2, <2>4
    <2>6. retire(t, {entries[j].root : j \in gone})
      BY <2>2 DEF pruned
    <2>7. Cardinality((owned(entries) \ gone) \cup {k}) <= limit
      <3>1. owned(es) = owned(entries) \ gone
        <4> HIDE DEF es, gone
        <4>1. QED
          BY <2>4 DEF owned
      <3>2. owned(es) \in SUBSET Keys /\ (k \in owned(es) <=> entries[k] # None)
        <4> HIDE DEF es
        <4>1. QED
          BY <1>0, <2>4 DEF owned
      <3>3. Cardinality(owned(es)) \in Nat
        <4> HIDE DEF es
        <4>1. QED
          BY <1>0, <3>2, KeyCount
      <3>4. Cardinality(owned(es)) <= limit
        BY <1>3, <1>a, <3>3 DEF StreamInv, Bounds
      <3>5. entries[k] = None => Cardinality(owned(es)) < limit
        BY <1>3, <1>a, <3>3, <3>4
      <3>6. QED
        <4> HIDE DEF es, gone
        <4>1. Cardinality(owned(es) \cup {k}) = IF k \in owned(es) THEN Cardinality(owned(es)) ELSE Cardinality(owned(es)) + 1
          BY <1>0, <3>2, KeyCount
        <4>2. QED
          BY <1>a, <3>1, <3>2, <3>3, <3>4, <3>5, <4>1
    <2>8. QED
      <3> HIDE DEF gone
      <3>1. QED
        BY <1>0, <1>3, <2>2, <2>3, <2>5, <2>6, <2>7, CandidateKeeps
  <1>4. QED
    BY <1>1, <1>2, <1>3 DEF Publish

-----------------------------------------------------------------------------
(* Admission: the native call. *)

LEMMA NativeAdmitKeeps ==
  ASSUME StreamInv, NEW t \in Threads, NativeAdmit(t)
  PROVE  StreamInv'
  <1> DEFINE k == call[t].key
             accepted == \E dropped \in SUBSET Keys : coreAccepts(t, dropped)
  <1> USE LaneAssumption DEF StreamInv
  <1>0. /\ k \in Keys /\ call[t].context \in Contexts
        /\ place[t] = "calling" /\ goto(t, "called") /\ cond = t
        /\ UNCHANGED <<lane, closing, activeCalls, cond, asleep, entries, core, retired, live>>
    BY DEF NativeAdmit, CallInv, CondInv
  <1>1. PICK o \in {"ok", "refused", "lost"} :
          /\ call' = [call EXCEPT ![t].outcome = o]
          /\ o = "ok" => accepted
          /\ o = "refused" => UNCHANGED records
          /\ o = "lost" => MayLose /\ (accepted \/ UNCHANGED records)
    BY DEF NativeAdmit, outcome
  <1>2. /\ call' \in [Threads -> Calls]
        /\ \A u \in Threads : call'[u].key = call[u].key /\ call'[u].context = call[u].context
        /\ call'[t].outcome = o
        /\ \A u \in Threads \ {t} : call'[u] = call[u]
    BY <1>1 DEF Types, Calls
  <1>3. /\ place'[t] = "called"
        /\ \A u \in Threads \ {t} : place'[u] = place[u] /\ place[u] \notin {"calling", "called"}
    BY <1>0 DEF Types, CondInv, goto
  <1>4. ASSUME accepted
        PROVE  /\ records' \in [Keys -> Records \cup {None}]
               /\ records'[k] # None /\ records'[k].context = call[t].context
               /\ \A j \in Keys \ {k} : records'[j] = None \/ records'[j] = records[j]
               /\ Cardinality(retained') <= Capacity
    <2>1. PICK dropped \in SUBSET Keys : coreAccepts(t, dropped)
      BY <1>4
    <2> DEFINE new == [context |-> call[t].context, state |-> "waiting"]
    <2>2. new \in Records
      BY <1>0 DEF Records
    <2>3. records' = [j \in Keys |-> IF j = k THEN new ELSE IF j \in dropped THEN None ELSE records[j]]
      BY <2>1 DEF coreAccepts
    <2>4. records' \in [Keys -> Records \cup {None}]
      BY <2>2, <2>3 DEF Types
    <2>5. records'[k] # None /\ records'[k].context = call[t].context
      BY <1>0, <2>2, <2>3
    <2>6. dropped \subseteq retained \ {k} /\ retained \in SUBSET Keys
      BY <2>1 DEF coreAccepts, retained
    <2>7. retained' = (retained \ dropped) \cup {k}
      BY <1>0, <2>2, <2>3, <2>6 DEF retained
    <2>8. /\ k \in retained => dropped = {}
          /\ k \notin retained => (dropped # {} <=> Cardinality(retained) = Capacity)
      BY <1>0, <2>1 DEF coreAccepts, retained
    <2>9. Cardinality(retained') <= Capacity
      <3>1. /\ Cardinality(retained) \in Nat /\ Cardinality(retained) <= Capacity
            /\ Cardinality(retained \ dropped) \in Nat
            /\ dropped # {} => Cardinality(retained \ dropped) < Cardinality(retained)
        <4>1. dropped \in SUBSET retained /\ retained \ dropped \in SUBSET Keys
          BY <2>6
        <4>2. QED
          BY <1>0, <2>6, <4>1, KeyCount DEF Bounds
      <3>2. CASE k \in retained
        <4>1. retained' = retained
          BY <2>7, <2>8, <3>2
        <4>2. QED
          BY <3>1, <4>1
      <3>3. CASE k \notin retained
        <4>1. Cardinality((retained \ dropped) \cup {k}) = Cardinality(retained \ dropped) + 1
          BY <1>0, <2>6, <3>3, KeyCount
        <4>2. dropped = {} => retained \ dropped = retained /\ Cardinality(retained) # Capacity
          BY <2>8, <3>3
        <4>3. Cardinality(retained \ dropped) < Capacity
          BY <3>1, <4>2
        <4>4. QED
          BY <2>7, <3>1, <4>1, <4>3
      <3>4. QED
        BY <3>2, <3>3
    <2>10. QED
      BY <2>3, <2>4, <2>5, <2>9
  <1>5. Types'
    BY <1>0, <1>1, <1>2, <1>4 DEF Types, goto
  <1>6. activeCalls' = Cardinality(counted')
    <2>1. counted' = counted
      BY <1>0, <1>3 DEF counted
    <2>2. QED
      BY <1>0, <2>1
  <1>7. CondInv' /\ CallInv' /\ CloseInv'
    BY <1>0, <1>1, <1>2, <1>3 DEF CondInv, CallInv, CloseInv
  <1>8. Ownership'
    <2>1. \A u \in Threads, x \in Contexts : inCall(x, u)' <=> inCall(x, u)
      BY <1>0, <1>2, <1>3 DEF inCall
    <2>2. QED
      BY <1>0, <2>1, OwnershipSame
  <1>9. entries[k] # None /\ ~entries[k].resolved /\ entries[k].root = call[t].context
    BY <1>0 DEF Cover, AdmissionInv
  <1>10. Cover'
    <2>1. ASSUME NEW j \in Keys PROVE Covered(j)'
      <3>1. Covered(j)
        BY DEF Cover
      <3>2. QED
        BY <1>0, <1>1, <1>4, <1>9, <3>1 DEF Covered
    <2>2. ASSUME NEW u \in Threads PROVE AdmissionInv(u)'
      <3>1. CASE u = t
        <4>1. AdmissionInv(t)
          BY DEF Cover
        <4>2. QED
          BY <1>0, <1>1, <1>2, <1>3, <1>4, <1>9, <3>1, <4>1 DEF AdmissionInv, notTaken, taken
      <3>2. CASE u # t
        BY <1>3, <3>2 DEF AdmissionInv, notTaken, taken
      <3>3. QED
        BY <3>1, <3>2
    <2>3. QED
      BY <2>1, <2>2 DEF Cover
  <1>11. Bounds'
    <2>1. UNCHANGED records => retained' = retained
      BY DEF retained
    <2>2. Cardinality(retained') <= Capacity
      BY <1>1, <1>4, <2>1 DEF Bounds
    <2>3. owned(entries)' = owned(entries)
      BY <1>0 DEF owned
    <2>4. QED
      BY <2>2, <2>3 DEF Bounds, limit
  <1>12. ~MayLose => PreciseInv'
    <2> SUFFICES ASSUME ~MayLose PROVE PreciseInv'
      OBVIOUS
    <2>1. \A j \in Keys : entries'[j] # None /\ ~entries'[j].resolved => cond' # None /\ call'[cond'].key = j
      BY <1>0, <1>2 DEF PreciseInv
    <2>2. ASSUME NEW j \in Keys, entries'[j] # None, records'[j] = None
          PROVE  cond' # None /\ (call'[cond'].key = j \/ taken(cond)')
      <3>1. CASE records[j] = None
        BY <1>0, <1>2, <2>2, <3>1 DEF PreciseInv, taken
      <3>2. CASE records[j] # None
        BY <1>0, <1>1, <1>2, <1>3, <2>2, <3>2 DEF taken
      <3>3. QED
        BY <3>1, <3>2
    <2>3. ASSUME NEW u \in Threads, notTaken(u)', entries'[call'[u].key].previous # None
          PROVE  records'[call'[u].key] # None
      BY <1>0, <1>1, <1>2, <1>3, <2>3 DEF PreciseInv, notTaken
    <2>4. QED
      BY <2>1, <2>2, <2>3 DEF PreciseInv
  <1>13. QED
    BY <1>5, <1>6, <1>7, <1>8, <1>10, <1>11, <1>12

-----------------------------------------------------------------------------
(* What leaves the table goes to the thread that removes it. *)

LEMMA Transfer ==
  ASSUME Ownership, NEW t \in Threads, UNCHANGED live,
         \A x \in Contexts, j \in Keys : inTable(x, j)' => inTable(x, j),
         \A x \in Contexts, u \in Threads :
           inRetired(x, u)' <=> inRetired(x, u) \/ (u = t /\ \E j \in Keys : inTable(x, j) /\ ~inTable(x, j)'),
         \A x \in Contexts, u \in Threads : inCall(x, u)' <=> inCall(x, u)
  PROVE  \A x \in Contexts : OwnedOnce(x)'
  <1> SUFFICES ASSUME NEW x \in Contexts PROVE OwnedOnce(x)'
    OBVIOUS
  <1>1. OwnedOnce(x)
    BY DEF Ownership
  <1>2. CASE \E j \in Keys : inTable(x, j) /\ ~inTable(x, j)'
    <2>1. PICK j \in Keys : inTable(x, j) /\ ~inTable(x, j)'
      BY <1>2
    <2>2. /\ \A i \in Keys : ~inTable(x, i)'
          /\ \A u \in Threads : ~inRetired(x, u) /\ ~inCall(x, u)
          /\ x \in live
      BY <1>1, <2>1 DEF OwnedOnce
    <2>3. \A u \in Threads : (inRetired(x, u)' <=> u = t) /\ ~inCall(x, u)'
      BY <1>2, <2>2
    <2>4. QED
      BY <2>2, <2>3 DEF OwnedOnce
  <1>3. CASE ~\E j \in Keys : inTable(x, j) /\ ~inTable(x, j)'
    BY <1>1, <1>3, Untouched
  <1>4. QED
    BY <1>2, <1>3

LEMMA EntryType ==
  ASSUME NEW r \in Contexts, NEW b \in BOOLEAN, NEW p \in Contexts \cup {None}
  PROVE  LET e == [root |-> r, resolved |-> b, previous |-> p] IN e \in Entries /\ e # None
  BY LaneAssumption DEF Entries

\* The outcome is received, or not: the entry of the admission is settled.
LEMMA ResolveKeeps ==
  ASSUME StreamInv, NEW t \in Threads, Resolve(t)
  PROVE  StreamInv'
  <1> DEFINE k == call[t].key
             e == entries[k]
             es == [entries EXCEPT ![k] = [root |-> e.root, resolved |-> TRUE, previous |-> None]]
             gone == absent(entries)
  <1> USE LaneAssumption DEF StreamInv
  <1>0. /\ k \in Keys /\ place[t] = "called" /\ cond = t /\ cond' = None /\ goto(t, "leaving")
        /\ e # None /\ ~e.resolved /\ e.root = call[t].context /\ e.root \in Contexts
        /\ e.root # e.previous /\ e.previous \in Contexts \cup {None}
        /\ UNCHANGED <<activeCalls, call, lane, closing, asleep, core, records, live>>
    <2>1. /\ k \in Keys /\ place[t] = "called" /\ cond = t /\ cond' = None /\ goto(t, "leaving")
          /\ UNCHANGED <<activeCalls, call, lane, closing, asleep, core, records, live>>
      BY DEF Resolve, CallInv, CondInv, closeState
    <2>2. e # None /\ ~e.resolved /\ e.root = call[t].context
      BY <2>1 DEF Cover, AdmissionInv
    <2>3. e \in Entries
      BY <2>1, <2>2 DEF Types
    <2>4. e.root # e.previous
      BY <2>1, <2>2 DEF Ownership, EntryInv
    <2>5. QED
      BY <2>1, <2>2, <2>3, <2>4 DEF Entries
  <1>1. \A u \in Threads : place'[u] = (IF u = t THEN "leaving" ELSE place[u]) /\ place'[u] \notin {"calling", "called"}
    BY <1>0 DEF Types, CondInv, goto
  \* The entry of the key after the step, in each of the three outcomes.
  <1> DEFINE Settled ==
        /\ entries' \in [Keys -> Entries \cup {None}]
        /\ retired' \in [Threads -> SUBSET Contexts]
        /\ \A x \in Contexts, j \in Keys : inTable(x, j)' => inTable(x, j)
        /\ \A x \in Contexts, u \in Threads :
             inRetired(x, u)' <=> inRetired(x, u) \/ (u = t /\ \E j \in Keys : inTable(x, j) /\ ~inTable(x, j)')
        /\ \A j \in Keys : EntryInv(j)' /\ Covered(j)'
        /\ owned(entries)' \subseteq owned(entries)
        /\ ~MayLose => \A j \in Keys : entries'[j] # None => entries'[j].resolved /\ records[j] # None
  <1>2. ASSUME call[t].outcome = "ok" PROVE Settled
    <2>1. entries' = prune(es) /\ retire(t, {e.previous} \cup pruned(es))
      BY <1>2 DEF Resolve
    <2>2. records[k] # None /\ records[k].context = e.root
      BY <1>0, <1>2 DEF Cover, AdmissionInv, taken
    <2> DEFINE new == [root |-> e.root, resolved |-> TRUE, previous |-> None]
    <2>3. new \in Entries /\ new # None
      BY <1>0, EntryType
    <2>4. \A j \in Keys : es[j] = IF j = k THEN new ELSE entries[j]
      BY <1>0 DEF Types
    <2>5. absent(es) = gone /\ k \notin gone /\ gone \subseteq Keys
      <3> HIDE DEF es
      <3>1. QED
        BY <1>0, <2>2, <2>3, <2>4 DEF absent, owned
    <2>6. entries' = [j \in Keys |-> IF j \in gone THEN None ELSE IF j = k THEN new ELSE entries[j]]
      <3> HIDE DEF es, gone, new
      <3>1. QED
        BY <2>1, <2>4, <2>5 DEF prune
    <2>7. pruned(es) = {entries[j].root : j \in gone}
      <3>1. \A j \in gone : es[j] = entries[j]
        <4> HIDE DEF es, gone, new
        <4>1. QED
          BY <2>4, <2>5
      <3>2. QED
        <4> HIDE DEF es, gone
        <4>1. QED
          BY <2>5, <3>1 DEF pruned
    <2>8. /\ entries'[k] # None /\ entries'[k].root = e.root /\ entries'[k].resolved /\ entries'[k].previous = None
          /\ \A j \in gone : entries'[j] = None
          /\ \A j \in Keys \ {k} : j \notin gone => entries'[j] = entries[j]
      <3> HIDE DEF gone
      <3>1. QED
        BY <1>0, <2>3, <2>5, <2>6
    <2>9. \A j \in gone : /\ entries[j] # None /\ entries[j].resolved /\ records[j] = None
                          /\ entries[j].root \in Contexts
                          /\ \A x \in Contexts : inTable(x, j) <=> x = entries[j].root
      BY <2>5 DEF absent, owned, inTable, Types, Entries, Ownership, EntryInv
    <2>10. entries' \in [Keys -> Entries \cup {None}]
      <3> HIDE DEF gone, new
      <3>1. QED
        BY <2>3, <2>6 DEF Types
    <2>11. retired' \in [Threads -> SUBSET Contexts]
      <3>1. pruned(es) \subseteq Contexts
        BY <2>7, <2>9
      <3> HIDE DEF gone, es, e
      <3>2. QED
        BY <1>0, <2>1, <3>1 DEF retire, Types
    <2>12. \A x \in Contexts, j \in Keys :
             inTable(x, j)' <=> (j = k /\ x = e.root) \/ (j # k /\ j \notin gone /\ inTable(x, j))
      <3> HIDE DEF gone
      <3>1. QED
        BY <1>0, <2>8 DEF inTable
    <2>13. ASSUME NEW x \in Contexts, NEW u \in Threads
           PROVE  inRetired(x, u)' <=> inRetired(x, u) \/ (u = t /\ \E j \in Keys : inTable(x, j) /\ ~inTable(x, j)')
      <3> HIDE DEF gone
      <3>1. inRetired(x, u)' <=> inRetired(x, u) \/ (u = t /\ (x = e.previous \/ \E j \in gone : x = entries[j].root))
        BY <2>1, <2>7 DEF inRetired, retire, Types
      <3>2. x = e.previous <=> inTable(x, k) /\ ~inTable(x, k)'
        BY <1>0, <2>12 DEF inTable
      <3>3. (\E j \in gone : x = entries[j].root) <=> \E j \in Keys \ {k} : inTable(x, j) /\ ~inTable(x, j)'
        BY <2>5, <2>9, <2>12
      <3>4. QED
        BY <1>0, <3>1, <3>2, <3>3
    <2>14. \A j \in Keys : EntryInv(j)' /\ Covered(j)'
      <3> HIDE DEF gone
      <3>1. \A j \in Keys : EntryInv(j) /\ Covered(j)
        BY DEF Ownership, Cover
      <3>2. QED
        BY <1>0, <2>2, <2>8, <2>9, <3>1 DEF EntryInv, Covered
    <2>15. owned(entries)' \subseteq owned(entries)
      <3> HIDE DEF gone
      <3>1. QED
        BY <1>0, <2>8 DEF owned
    <2>16. ~MayLose => \A j \in Keys : entries'[j] # None => entries'[j].resolved /\ records[j] # None
      <3> SUFFICES ASSUME ~MayLose, NEW j \in Keys, entries'[j] # None
                   PROVE  entries'[j].resolved /\ records[j] # None
        OBVIOUS
      <3>1. CASE j = k
        BY <2>2, <2>8, <3>1
      <3>2. CASE j # k
        <4>1. j \notin gone /\ entries[j] # None /\ entries'[j] = entries[j]
          <5> HIDE DEF gone
          <5>1. QED
            BY <2>8, <3>2
        <4>2. entries[j].resolved
          BY <1>0, <3>2, <4>1 DEF PreciseInv
        <4>3. QED
          BY <4>1, <4>2 DEF absent, owned
      <3>3. QED
        BY <3>1, <3>2
    <2>17. \A x \in Contexts, j \in Keys : inTable(x, j)' => inTable(x, j)
      <3> HIDE DEF gone
      <3>1. QED
        BY <1>0, <2>12 DEF inTable
    <2>18. QED
      BY <2>10, <2>11, <2>13, <2>14, <2>15, <2>16, <2>17
  <1>3. ASSUME call[t].outcome = "refused" PROVE Settled
    <2> DEFINE new == IF e.previous = None THEN None ELSE [root |-> e.previous, resolved |-> TRUE, previous |-> None]
    <2>1. entries' = [entries EXCEPT ![k] = new] /\ retire(t, {e.root})
      BY <1>3 DEF Resolve
    <2>2. records[k] # None => records[k].context = e.previous /\ e.previous # None
      BY <1>0, <1>3 DEF Cover, AdmissionInv, notTaken, Types, Records
    <2>3. new \in Entries \cup {None} /\ (e.previous # None => new # None)
      BY <1>0, EntryType
    <2>4. /\ entries'[k] = new
          /\ \A j \in Keys \ {k} : entries'[j] = entries[j]
      BY <1>0, <2>1 DEF Types
    <2>5. /\ entries'[k] = None <=> e.previous = None
          /\ entries'[k] # None => entries'[k].root = e.previous /\ entries'[k].resolved /\ entries'[k].previous = None
      BY <2>3, <2>4
    <2>6. entries' \in [Keys -> Entries \cup {None}]
      <3> HIDE DEF new
      <3>1. QED
        BY <2>1, <2>3 DEF Types
    <2>7. retired' \in [Threads -> SUBSET Contexts]
      BY <1>0, <2>1 DEF retire, Types
    <2>8. \A x \in Contexts, j \in Keys :
             inTable(x, j)' <=> (j = k /\ x = e.previous) \/ (j # k /\ inTable(x, j))
      <3> HIDE DEF new
      <3>1. QED
        BY <2>4, <2>5 DEF inTable
    <2>9. ASSUME NEW x \in Contexts, NEW u \in Threads
          PROVE  inRetired(x, u)' <=> inRetired(x, u) \/ (u = t /\ \E j \in Keys : inTable(x, j) /\ ~inTable(x, j)')
      <3>1. inRetired(x, u)' <=> inRetired(x, u) \/ (u = t /\ x = e.root)
        BY <1>0, <2>1 DEF inRetired, retire, Types
      <3>2. x = e.root <=> inTable(x, k) /\ ~inTable(x, k)'
        BY <1>0, <2>8 DEF inTable
      <3>3. QED
        BY <1>0, <2>8, <3>1, <3>2
    <2>10. \A j \in Keys : EntryInv(j)' /\ Covered(j)'
      <3> HIDE DEF new
      <3>1. \A j \in Keys : EntryInv(j) /\ Covered(j)
        BY DEF Ownership, Cover
      <3>2. QED
        BY <1>0, <2>2, <2>4, <2>5, <3>1 DEF EntryInv, Covered
    <2>11. owned(entries)' \subseteq owned(entries)
      <3> HIDE DEF new
      <3>1. QED
        BY <1>0, <2>4 DEF owned
    <2>12. ~MayLose => \A j \in Keys : entries'[j] # None => entries'[j].resolved /\ records[j] # None
      <3> HIDE DEF new
      <3>1. QED
        BY <1>0, <1>3, <2>2, <2>4, <2>5 DEF PreciseInv, notTaken, taken
    <2>13. \A x \in Contexts, j \in Keys : inTable(x, j)' => inTable(x, j)
      BY <1>0, <2>8 DEF inTable
    <2>14. QED
      BY <2>6, <2>7, <2>9, <2>10, <2>11, <2>12, <2>13
  <1>4. ASSUME call[t].outcome = "lost" PROVE Settled
    <2>1. UNCHANGED <<entries, retired>> /\ MayLose
      BY <1>4 DEF Resolve, CallInv
    <2>2. \A x \in Contexts, j \in Keys : inTable(x, j)' <=> inTable(x, j)
      BY <2>1 DEF inTable
    <2>3. \A x \in Contexts, u \in Threads : inRetired(x, u)' <=> inRetired(x, u)
      BY <2>1 DEF inRetired
    <2>4. \A j \in Keys : EntryInv(j)' /\ Covered(j)'
      BY <1>0, <2>1 DEF EntryInv, Covered, Ownership, Cover
    <2>5. QED
      BY <2>1, <2>2, <2>3, <2>4 DEF Types, owned
  <1>5. Settled
    <2>1. call[t].outcome \in {"ok", "refused", "lost"}
      BY <1>0 DEF CallInv
    <2> HIDE DEF Settled
    <2>2. QED
      BY <1>2, <1>3, <1>4, <2>1
  <1>6. Types'
    BY <1>0, <1>5 DEF Types, goto
  <1>7. activeCalls' = Cardinality(counted')
    <2>1. counted' = counted
      BY <1>0, <1>1 DEF counted
    <2>2. QED
      BY <1>0, <2>1
  <1>8. CondInv' /\ CallInv' /\ CloseInv'
    BY <1>0, <1>1 DEF CondInv, CallInv, CloseInv
  <1>9. Ownership'
    <2>1. \A x \in Contexts, u \in Threads : inCall(x, u)' <=> inCall(x, u)
      BY <1>0, <1>1 DEF inCall
    <2>2. \A x \in Contexts : OwnedOnce(x)'
      BY <1>0, <1>5, <2>1, Transfer
    <2>3. QED
      BY <1>5, <2>2 DEF Ownership
  <1>10. Cover'
    BY <1>1, <1>5 DEF Cover, AdmissionInv, notTaken, taken
  <1>11. Bounds'
    <2>1. retained' = retained
      BY <1>0 DEF retained
    <2>2. Cardinality(owned(entries)') <= Cardinality(owned(entries)) /\ Cardinality(owned(entries)') \in Nat /\ Cardinality(owned(entries)) \in Nat
      <3>1. owned(entries) \in SUBSET Keys
        BY DEF owned
      <3>2. IsFiniteSet(owned(entries)) /\ owned(entries)' \subseteq owned(entries)
        BY <1>0, <1>5, <3>1, KeyCount
      <3>3. QED
        BY <3>2, FS_Subset, FS_CardinalityType
    <2>3. QED
      BY <2>1, <2>2 DEF Bounds, limit
  <1>12. ~MayLose => PreciseInv'
    BY <1>0, <1>1, <1>5 DEF PreciseInv, notTaken
  <1>13. QED
    BY <1>6, <1>7, <1>8, <1>9, <1>10, <1>11, <1>12

\* Core's record and the owners of the key go together.
LEMMA ForgetKeeps ==
  ASSUME StreamInv, NEW t \in Threads, Forget(t)
  PROVE  StreamInv'
  <1> DEFINE k == call[t].key
  <1> USE LaneAssumption DEF StreamInv
  <1>0. /\ k \in Keys /\ place[t] = "controlling" /\ cond = None /\ goto(t, "leaving")
        /\ UNCHANGED <<lane, closing, activeCalls, cond, asleep, core, call, live>>
    BY DEF Forget, CallInv
  <1>1. \A u \in Threads : place'[u] = (IF u = t THEN "leaving" ELSE place[u]) /\ place'[u] \notin {"calling", "called"}
    BY <1>0 DEF Types, CondInv, goto
  <1>2. activeCalls' = Cardinality(counted')
    <2>1. counted' = counted
      BY <1>0, <1>1 DEF counted
    <2>2. QED
      BY <1>0, <2>1
  <1>3. CondInv' /\ CallInv' /\ CloseInv'
    BY <1>0, <1>1 DEF CondInv, CallInv, CloseInv
  <1>4. \A x \in Contexts, u \in Threads : inCall(x, u)' <=> inCall(x, u)
    BY <1>0, <1>1 DEF inCall
  <1>5. CASE UNCHANGED <<records, entries, retired>>
    <2>1. sameRecords
      BY <1>0, <1>1, <1>5 DEF sameRecords, CondInv
    <2>2. Ownership'
      BY <1>0, <1>4, <1>5, OwnershipSame
    <2>3. Types'
      BY <1>0, <1>5 DEF Types, goto
    <2>4. QED
      BY <1>2, <1>3, <2>1, <2>2, <2>3, TableSame
  <1>6. CASE /\ records[k] # None /\ records[k].state = "terminal"
             /\ records' = [records EXCEPT ![k] = None]
             /\ entries' = [entries EXCEPT ![k] = None]
             /\ retire(t, IF entries[k] = None THEN {} ELSE {entries[k].root, entries[k].previous})
    <2>1. /\ entries'[k] = None /\ \A j \in Keys \ {k} : entries'[j] = entries[j]
          /\ records'[k] = None /\ \A j \in Keys \ {k} : records'[j] = records[j]
      BY <1>0, <1>6 DEF Types
    <2>2. entries[k] # None /\ entries[k].root \in Contexts /\ entries[k].previous \in Contexts \cup {None}
      BY <1>0, <1>6 DEF Cover, Covered, Types, Entries
    <2>3. Types'
      <3>1. retired' \in [Threads -> SUBSET Contexts]
        BY <1>0, <1>6, <2>2 DEF retire, Types
      <3>2. QED
        BY <1>0, <1>6, <3>1 DEF Types, goto
    <2>4. \A x \in Contexts, j \in Keys : inTable(x, j)' <=> j # k /\ inTable(x, j)
      BY <2>1 DEF inTable
    <2>5. \A x \in Contexts, u \in Threads : inRetired(x, u)' <=> inRetired(x, u) \/ (u = t /\ inTable(x, k))
      BY <1>0, <1>6, <2>2 DEF inRetired, inTable, retire, Types
    <2>6. Ownership'
      <3>1. \A x \in Contexts : OwnedOnce(x)'
        BY <1>0, <1>4, <2>4, <2>5, Transfer
      <3>2. \A j \in Keys : EntryInv(j)'
        BY <2>1 DEF EntryInv, Ownership
      <3>3. QED
        BY <3>1, <3>2 DEF Ownership
    <2>7. Cover'
      BY <1>1, <2>1 DEF Cover, Covered, AdmissionInv, notTaken, taken
    <2>8. Bounds'
      <3>1. retained' = retained \ {k} /\ owned(entries)' = owned(entries) \ {k}
        BY <1>0, <2>1 DEF retained, owned
      <3>2. retained \in SUBSET Keys /\ owned(entries) \in SUBSET Keys /\ k \in retained /\ k \in owned(entries)
        BY <1>0, <1>6, <2>2 DEF retained, owned
      <3>3. /\ Cardinality(retained \ {k}) <= Cardinality(retained)
            /\ Cardinality(owned(entries) \ {k}) <= Cardinality(owned(entries))
            /\ Cardinality(retained) \in Nat /\ Cardinality(owned(entries)) \in Nat
            /\ Cardinality(retained \ {k}) \in Nat /\ Cardinality(owned(entries) \ {k}) \in Nat
        <4>1. ASSUME NEW S \in SUBSET Keys, k \in S
              PROVE  /\ Cardinality(S \ {k}) <= Cardinality(S)
                     /\ Cardinality(S) \in Nat /\ Cardinality(S \ {k}) \in Nat
          <5>1. S \ {k} \in SUBSET Keys /\ {k} \in SUBSET S
            BY <4>1
          <5>2. Cardinality(S) \in Nat /\ Cardinality(S \ {k}) \in Nat
            BY <1>0, <5>1, KeyCount
          <5>3. QED
            BY <1>0, <5>1, <5>2, KeyCount
        <4>2. QED
          BY <3>2, <4>1
      <3>4. QED
        BY <3>1, <3>3 DEF Bounds, limit
    <2>9. ~MayLose => PreciseInv'
      BY <1>0, <1>1, <2>1 DEF PreciseInv, notTaken
    <2>10. QED
      BY <1>2, <1>3, <2>3, <2>6, <2>7, <2>8, <2>9
  <1>7. QED
    BY <1>5, <1>6 DEF Forget

\* The last section of close: every owner is detached.
LEMMA DrainKeeps ==
  ASSUME StreamInv, NEW t \in Threads, Drain(t)
  PROVE  StreamInv'
  <1> USE LaneAssumption DEF StreamInv
  <1>0. /\ place[t] = "draining" /\ closing /\ cond = None
        /\ UNCHANGED <<closing, activeCalls, cond, call, live>>
    BY DEF Drain, CloseInv
  <1>1. CASE sleep(t) /\ UNCHANGED <<lane, core, records, entries, place, retired>>
    <2>1. Types' /\ CondInv' /\ CallInv' /\ CloseInv' /\ counted' = counted
      BY <1>0, <1>1 DEF Types, CondInv, CallInv, CloseInv, counted, sleep
    <2>2. Ownership'
      BY <1>0, <1>1, OwnershipSame DEF inCall
    <2>3. sameRecords
      BY <1>0, <1>1 DEF sameRecords
    <2>4. QED
      BY <1>0, <2>1, <2>2, <2>3, TableSame
  <1>2. CASE /\ activeCalls = 0
             /\ core' = "destroyed"
             /\ records' = [k \in Keys |-> None]
             /\ entries' = [k \in Keys |-> None]
             /\ retire(t, rootsOf(entries))
             /\ lane' = "nil"
             /\ asleep' = {}
             /\ goto(t, "releasing")
    <2>1. \A u \in Threads : place'[u] = (IF u = t THEN "releasing" ELSE place[u]) /\ place'[u] \notin {"calling", "called"}
      BY <1>0, <1>2 DEF Types, CondInv, goto
    <2>2. \A x \in Contexts : x \in rootsOf(entries) <=> \E j \in Keys : inTable(x, j)
      BY DEF rootsOf, owned, inTable
    <2>3. rootsOf(entries) \subseteq Contexts \cup {None}
      BY DEF rootsOf, owned, Types, Entries
    <2>4. Types'
      <3>1. retired' \in [Threads -> SUBSET Contexts]
        BY <1>2, <2>3 DEF retire, Types
      <3>2. QED
        BY <1>0, <1>2, <3>1 DEF Types, goto
    <2>5. activeCalls' = Cardinality(counted')
      <3>1. counted' = counted
        BY <1>0, <2>1 DEF counted
      <3>2. QED
        BY <1>0, <3>1
    <2>6. CondInv' /\ CallInv' /\ CloseInv'
      BY <1>0, <1>2, <2>1 DEF CondInv, CallInv, CloseInv
    <2>7. \A j \in Keys : entries'[j] = None /\ records'[j] = None
      BY <1>2
    <2>8. Ownership'
      <3>1. \A x \in Contexts, u \in Threads : inRetired(x, u)' <=> inRetired(x, u) \/ (u = t /\ \E j \in Keys : inTable(x, j))
        BY <1>2, <2>2 DEF inRetired, retire, Types
      <3>2. \A x, j : j \in Keys => ~inTable(x, j)'
        BY <2>7 DEF inTable
      <3>3. \A x \in Contexts, u \in Threads : inCall(x, u)' <=> inCall(x, u)
        BY <1>0, <2>1 DEF inCall
      <3>4. \A x \in Contexts : OwnedOnce(x)'
        BY <1>0, <3>1, <3>2, <3>3, Transfer
      <3>5. QED
        BY <2>7, <3>4 DEF Ownership, EntryInv
    <2>9. Cover'
      BY <2>1, <2>7 DEF Cover, Covered, AdmissionInv, notTaken, taken
    <2>10. Bounds'
      <3>1. retained' = {} /\ owned(entries)' = {}
        BY <2>7 DEF retained, owned
      <3>2. QED
        BY <3>1, FS_EmptySet DEF Bounds, limit
    <2>11. ~MayLose => PreciseInv'
      BY <2>1, <2>7 DEF PreciseInv, notTaken
    <2>12. QED
      BY <2>4, <2>5, <2>6, <2>8, <2>9, <2>10, <2>11
  <1>3. QED
    BY <1>1, <1>2 DEF Drain

-----------------------------------------------------------------------------
(* The invariant. *)

LEMMA StutterKeeps == ASSUME StreamInv, UNCHANGED vars PROVE StreamInv'
  <1> USE DEF StreamInv, vars
  <1>1. Types' /\ activeCalls' = Cardinality(counted') /\ CondInv' /\ CallInv' /\ CloseInv'
    BY DEF Types, counted, CondInv, CallInv, CloseInv
  <1>2. Ownership'
    BY OwnershipSame DEF inCall
  <1>3. sameRecords
    BY DEF sameRecords
  <1>4. QED
    BY <1>1, <1>2, <1>3, TableSame

LEMMA StepKeeps == ASSUME StreamInv, [Next]_vars PROVE StreamInv'
  <1>1. ASSUME NEW t \in Threads, Start(t) PROVE StreamInv'
    <2>1. CASE EnterRead(t) \/ \E k \in Keys : EnterControl(t, k)
      BY <2>1, CallKeeps
    <2>2. CASE \E k \in Keys, c \in Contexts : EnterAdmit(t, k, c)
      BY <2>2, EnterAdmitKeeps
    <2>3. CASE CallClose(t)
      BY <2>3, CloseKeeps
    <2>4. QED
      BY <1>1, <2>1, <2>2, <2>3 DEF Start
  <1>2. ASSUME NEW t \in Threads, Continue(t) PROVE StreamInv'
    <2>1. CASE ReadReturns(t) \/ Cancel(t) \/ Leave(t)
      BY <2>1, CallKeeps
    <2>2. CASE Publish(t)
      BY <2>2, PublishKeeps
    <2>3. CASE NativeAdmit(t)
      BY <2>3, NativeAdmitKeeps
    <2>4. CASE Resolve(t)
      BY <2>4, ResolveKeeps
    <2>5. CASE Forget(t)
      BY <2>5, ForgetKeeps
    <2>6. CASE Release(t)
      BY <2>6, ReleaseKeeps
    <2>7. CASE StopBegins(t) \/ StopReturns(t) \/ Follow(t)
      BY <2>7, CloseKeeps
    <2>8. CASE Drain(t)
      BY <2>8, DrainKeeps
    <2>9. QED
      BY <1>2, <2>1, <2>2, <2>3, <2>4, <2>5, <2>6, <2>7, <2>8 DEF Continue
  <1>3. ASSUME NEW k \in Keys, CallbackStarts(k) \/ CallbackReturns(k) \/ RecordEnds(k)
        PROVE  StreamInv'
    BY <1>3, WorkersKeep
  <1>4. QED
    BY <1>1, <1>2, <1>3, StutterKeeps DEF Next

\* Each context has one owner, and Core knows only contexts the table owns, in
\* every reachable state.
THEOREM StreamInvHolds == Spec => []StreamInv
  BY InitInv, StepKeeps, PTL DEF Spec

\* Every variable keeps its type, and activeCalls is the number of calls inside
\* withLane.
THEOREM StreamTypeHolds == Spec => []TypeOK
  <1>1. StreamInv => TypeOK
    BY DEF StreamInv, Types, TypeOK
  <1>2. QED
    BY <1>1, StreamInvHolds, PTL

\* Whatever Core registered is owned under its key.
THEOREM RecordsOwned == Spec => []OwnersCoverCore
  <1>1. StreamInv => OwnersCoverCore
    BY DEF StreamInv, Cover, Covered, OwnersCoverCore
  <1>2. QED
    BY <1>1, StreamInvHolds, PTL

\* The context Core would pass to a callback is never freed, whatever outcomes
\* are lost and whenever the callback runs.
THEOREM CallbacksAlive == Spec => []ContextsAlive
  <1>1. StreamInv => ContextsAlive
    <2> SUFFICES ASSUME StreamInv, NEW k \in Keys, records[k] # None
                 PROVE  records[k].context \in live
      BY DEF ContextsAlive
    <2>1. inTable(records[k].context, k)
      BY DEF StreamInv, Cover, Covered, inTable
    <2>2. records[k].context \in Contexts
      BY DEF StreamInv, Types, Records
    <2>3. QED
      BY <2>1, <2>2 DEF StreamInv, Ownership, OwnedOnce
  <1>2. QED
    BY <1>1, StreamInvHolds, PTL

\* Every callback holder has an owner that will release it.
THEOREM HoldersOwned == Spec => []NothingLeaks
  <1>1. StreamInv => NothingLeaks
    <2> SUFFICES ASSUME StreamInv, NEW c \in live
                 PROVE  \/ c \in rootsOf(entries)
                        \/ \E t \in Threads : c \in retired[t]
                        \/ \E t \in Threads : place[t] = "admitting" /\ call[t].context = c
      BY DEF NothingLeaks
    <2>1. c \in Contexts
      BY DEF StreamInv, Types
    <2>2. OwnedOnce(c)
      BY <2>1 DEF StreamInv, Ownership
    <2>3. QED
      BY <2>2 DEF OwnedOnce, inTable, inRetired, inCall, rootsOf, owned
  <1>2. QED
    BY <1>1, StreamInvHolds, PTL

\* While every outcome is received, the table owns nothing for a record Core let
\* go: what is replaced, evicted or forgotten is retired by the same section.
THEOREM OwnersFollowCore == ASSUME ~MayLose PROVE Spec => []OwnersOnlyForCore
  <1>1. StreamInv => OwnersOnlyForCore
    BY DEF StreamInv, PreciseInv, OwnersOnlyForCore
  <1>2. QED
    BY <1>1, StreamInvHolds, PTL

\* Core's capacity and one candidate are enough: the table never grows past them,
\* and an admission finds no room only when an outcome is unresolved, for
\* otherwise each owner has a record and Core has no more than its capacity.
THEOREM StorageIsEnough == Spec => StorageSuffices
  <1> DEFINE B == Cardinality(owned(entries)) <= Capacity + 1
             A == \A t \in Threads :
                    call'[t].outcome = "exhausted" /\ call[t].outcome # "exhausted"
                      => \E k \in Keys : entries[k] # None /\ ~entries[k].resolved
  <1>1. StreamInv => B
    BY DEF StreamInv, Bounds, limit
  <1>2. StreamInv /\ [Next]_vars => [A]_vars
    <2> SUFFICES ASSUME StreamInv, Next, NEW t \in Threads,
                        call'[t].outcome = "exhausted", call[t].outcome # "exhausted",
                        ~\E k \in Keys : entries[k] # None /\ ~entries[k].resolved
                 PROVE  FALSE
      OBVIOUS
    <2>0. call \in [Threads -> Calls]
      BY DEF StreamInv, Types
    <2>1. PICK u \in Threads : Start(u) \/ Continue(u)
      BY DEF Next, CallbackStarts, CallbackReturns, RecordEnds, workersOnly
    <2>2. ~Start(u)
      BY <2>0 DEF Start, EnterRead, EnterAdmit, EnterControl, CallClose
    <2>3. u = t /\ Publish(t)
      <3>1. ~(ReadReturns(u) \/ Resolve(u) \/ Forget(u) \/ Cancel(u) \/ Leave(u)
              \/ StopBegins(u) \/ StopReturns(u) \/ Drain(u) \/ Follow(u))
        BY DEF ReadReturns, Resolve, Forget, Cancel, Leave, StopBegins, StopReturns, Drain, Follow
      <3>2. ~NativeAdmit(u) /\ ~Release(u)
        <4>1. \A o : outcome(u, o) /\ o # "exhausted" => FALSE
          BY <2>0 DEF outcome, Calls
        <4>2. ~NativeAdmit(u)
          BY <4>1 DEF NativeAdmit
        <4>3. ~Release(u)
          BY <2>0 DEF Release, noCall
        <4>4. QED
          BY <4>2, <4>3
      <3>3. Publish(u) => u = t
        BY <2>0 DEF Publish, outcome
      <3>4. QED
        BY <2>1, <2>2, <3>1, <3>2, <3>3 DEF Continue
    <2>4. Cardinality(owned(prune(entries))) = limit
      <3>1. \A o : outcome(t, o) => o = "exhausted"
        BY <2>0 DEF outcome, Calls
      <3>2. "unresolved" # "exhausted" /\ call' # call
        OBVIOUS
      <3>3. QED
        BY <2>3, <3>1, <3>2 DEF Publish
    <2>5. absent(entries) = {} /\ prune(entries) = entries
      BY <2>4, FullTable
    <2>6. owned(entries) \subseteq retained /\ retained \in SUBSET Keys
      BY <2>5 DEF owned, retained, absent
    <2>7. t \in Threads /\ call[t].key \in Keys
      BY <2>3 DEF Publish, StreamInv, CallInv
    <2>8. IsFiniteSet(retained) /\ Cardinality(retained) \in Nat
      BY <2>6, <2>7, KeyCount
    <2>9. Cardinality(owned(entries)) <= Cardinality(retained)
      BY <2>6, <2>8, FS_Subset
    <2>10. Cardinality(owned(entries)) = Capacity + 1 /\ Cardinality(retained) <= Capacity
      BY <2>4, <2>5 DEF StreamInv, Bounds, limit
    <2>11. QED
      BY <2>8, <2>9, <2>10, LaneAssumption
  <1>3. QED
    BY <1>1, <1>2, StreamInvHolds, PTL DEF Spec, StorageSuffices

-----------------------------------------------------------------------------
(* The end of the lane. *)

\* One thread closes while the lane lives, and what it destroys stays destroyed.
ClosingInv ==
  /\ \A t, u \in Threads : isCloser(t) /\ isCloser(u) => t = u
  /\ closing /\ lane = "live" <=> \E t \in Threads : isCloser(t)
  /\ \A t \in Threads : place[t] = "following" => closing
  /\ lane = "nil" => counted = {} /\ \A k \in Keys : entries[k] = None /\ records[k] = None
  /\ NoLostWakeup

\* The steps that neither begin nor end a close(), nor put a thread to sleep.
LEMMA PassingKeeps ==
  ASSUME StreamInv, ClosingInv, NEW t \in Threads, NEW p, goto(t, p),
         ~isCloser(t), place[t] # "following", p \notin {"stopping", "joining", "draining", "following"},
         UNCHANGED <<lane, closing>>,
         lane = "nil" => ~counts(p) /\ UNCHANGED <<entries, records>>,
         activeCalls' \in Nat,
         \/ asleep' = {}
         \/ asleep' = asleep /\ (activeCalls' >= activeCalls \/ activeCalls' > 0)
  PROVE  ClosingInv'
  <1>1. place' = [place EXCEPT ![t] = p] /\ DOMAIN place = Threads /\ asleep \subseteq Threads
    BY DEF goto, StreamInv, Types
  <1>2. \A u \in Threads : /\ isCloser(u)' <=> isCloser(u)
                           /\ (place[u] = "following")' <=> place[u] = "following"
    BY <1>1 DEF isCloser
  <1>3. lane = "nil" => counted' = {}
    BY <1>1 DEF ClosingInv, counted, counts
  <1>4. NoLostWakeup'
    <2>1. activeCalls \in Nat
      BY CountMoves DEF StreamInv, counted
    <2>2. ASSUME NEW u \in asleep' PROVE place'[u] = place[u] /\ u \in asleep
      BY <1>1, <2>2 DEF ClosingInv, NoLostWakeup, isCloser
    <2>3. QED
      BY <2>1, <2>2 DEF ClosingInv, NoLostWakeup
  <1>5. QED
    BY <1>2, <1>3, <1>4 DEF ClosingInv

\* The calls: what enters, leaves, admits, forgets and releases.
LEMMA CallsPass ==
  ASSUME StreamInv, ClosingInv, NEW t \in Threads, Start(t) \/ Continue(t),
         ~CallClose(t), place[t] \notin {"stopping", "joining", "draining", "following"}
  PROVE  ClosingInv'
  <1>1. activeCalls \in Nat /\ activeCalls' \in Nat
    <2>1. StreamInv'
      BY StepKeeps DEF Next
    <2>2. counted \in SUBSET Threads /\ counted' \in SUBSET Threads
      BY DEF counted
    <2>3. QED
      BY <2>1, <2>2, CountMoves DEF StreamInv
  <1>2. lane = "nil" => ~counts(place[t]) /\ closing
    BY DEF ClosingInv, counted, counts, StreamInv, CloseInv
  <1>3. ~isCloser(t) /\ place[t] # "following"
    BY DEF isCloser
  <1>4. CASE EnterRead(t) \/ (\E k \in Keys, c \in Contexts : EnterAdmit(t, k, c)) \/ \E k \in Keys : EnterControl(t, k)
    <2>1. \E p \in {"reading", "admitting", "controlling"} : goto(t, p)
      BY <1>4 DEF EnterRead, EnterAdmit, EnterControl, enter
    <2>2. /\ ~closing /\ activeCalls' = activeCalls + 1
          /\ UNCHANGED <<lane, closing, asleep, entries, records>>
      BY <1>4 DEF EnterRead, EnterAdmit, EnterControl, enter
    <2>3. QED
      BY <1>1, <1>2, <1>3, <2>1, <2>2, PassingKeeps
  <1>5. CASE ReadReturns(t) \/ Publish(t) \/ NativeAdmit(t) \/ Resolve(t) \/ Forget(t) \/ Cancel(t)
    <2>1. counts(place[t])
      BY <1>5 DEF counts, ReadReturns, Publish, NativeAdmit, Resolve, Forget, Cancel
    <2>2. \E p \in {"leaving", "calling", "called"} : goto(t, p)
      BY <1>5 DEF ReadReturns, Publish, NativeAdmit, Resolve, Forget, Cancel
    <2>3. UNCHANGED <<lane, closing, asleep, activeCalls>>
      BY <1>5 DEF ReadReturns, Publish, NativeAdmit, Resolve, Forget, Cancel, closeState
    <2>4. QED
      BY <1>1, <1>2, <1>3, <2>1, <2>2, <2>3, PassingKeeps
  <1>6. CASE Leave(t)
    <2>1. /\ UNCHANGED <<lane, closing>> /\ goto(t, "releasing") /\ counts(place[t])
          /\ asleep' = {} \/ (asleep' = asleep /\ activeCalls' # 0)
      BY <1>6 DEF Leave, counts
    <2>2. QED
      BY <1>1, <1>2, <1>3, <2>1, PassingKeeps
  <1>7. CASE Release(t)
    <2>1. UNCHANGED <<lane, closing, asleep, activeCalls, entries, records>> /\ goto(t, "idle")
      BY <1>7 DEF Release
    <2>2. QED
      BY <1>1, <1>3, <2>1, PassingKeeps DEF counts
  <1>8. QED
    BY <1>4, <1>5, <1>6, <1>7 DEF Start, Continue, StopBegins, StopReturns, Drain, Follow

\* close(): its first caller, the others, and its end.
LEMMA ClosersKeep ==
  ASSUME StreamInv, ClosingInv, NEW t \in Threads,
         CallClose(t) \/ StopBegins(t) \/ StopReturns(t) \/ Drain(t) \/ Follow(t)
  PROVE  ClosingInv'
  <1>1. DOMAIN place = Threads /\ asleep \subseteq Threads /\ activeCalls \in Nat
    <2>1. counted \in SUBSET Threads
      BY DEF counted
    <2>2. QED
      BY <2>1, CountMoves DEF StreamInv, Types
  <1>2. CASE CallClose(t)
    <2>1. /\ lane = "live" /\ lane' = "live" /\ closing' /\ UNCHANGED <<asleep, activeCalls>>
          /\ goto(t, IF closing THEN "following" ELSE "stopping") /\ place[t] \in {"idle", "releasing"}
      BY <1>2 DEF CallClose
    <2>2. t \notin asleep
      BY <2>1 DEF ClosingInv, NoLostWakeup
    <2>3. NoLostWakeup'
      BY <1>1, <2>1, <2>2 DEF ClosingInv, NoLostWakeup, goto
    <2>4. QED
      BY <1>1, <2>1, <2>3 DEF ClosingInv, isCloser, goto
  <1>3. CASE StopBegins(t) \/ StopReturns(t)
    <2>1. /\ UNCHANGED <<lane, closing, asleep, activeCalls>> /\ isCloser(t) /\ place[t] # "draining"
          /\ \E p \in {"joining", "draining"} : goto(t, p)
      BY <1>3 DEF StopBegins, StopReturns, isCloser
    <2>2. lane = "live"
      BY <2>1 DEF ClosingInv
    <2>3. t \notin asleep
      BY <2>1 DEF ClosingInv, NoLostWakeup, isCloser
    <2>4. NoLostWakeup'
      BY <1>1, <2>1, <2>3 DEF ClosingInv, NoLostWakeup, goto
    <2>5. QED
      BY <1>1, <2>1, <2>2, <2>4 DEF ClosingInv, isCloser, goto, StreamInv
  <1>4. CASE Follow(t)
    <2>1. /\ UNCHANGED <<lane, closing, activeCalls, entries, records>> /\ place[t] = "following"
          /\ \/ lane = "live" /\ asleep' = asleep \cup {t} /\ place' = place
             \/ lane = "nil" /\ goto(t, "releasing") /\ asleep' = asleep
      BY <1>4 DEF Follow, sleep, closeState
    <2>2. NoLostWakeup'
      BY <1>1, <2>1 DEF ClosingInv, NoLostWakeup, goto
    <2>3. counted' = counted
      BY <1>1, <2>1 DEF counted, goto
    <2>4. QED
      BY <1>1, <2>1, <2>2, <2>3 DEF ClosingInv, isCloser, goto
  <1>5. CASE Drain(t)
    <2>1. isCloser(t) /\ UNCHANGED <<closing, activeCalls>>
      BY <1>5 DEF Drain, isCloser
    <2>2. lane = "live" /\ closing /\ \A u \in Threads : isCloser(u) => u = t
      BY <2>1 DEF ClosingInv
    <2>3. CASE activeCalls # 0 /\ sleep(t) /\ UNCHANGED <<lane, core, records, entries, place, retired>>
      <3>1. place[t] = "draining" /\ activeCalls > 0
        BY <1>1, <1>5, <2>3 DEF Drain
      <3>2. NoLostWakeup'
        BY <1>1, <2>1, <2>2, <2>3, <3>1 DEF ClosingInv, NoLostWakeup, sleep
      <3>3. QED
        BY <2>1, <2>2, <2>3, <3>2 DEF ClosingInv, isCloser
    <2>4. CASE activeCalls = 0 /\ lane' = "nil" /\ goto(t, "releasing") /\ asleep' = {}
               /\ records' = [k \in Keys |-> None] /\ entries' = [k \in Keys |-> None]
      <3>1. counted = {}
        BY <2>4, CountMoves DEF counted, StreamInv
      <3>2. counted' = {}
        BY <1>1, <2>4, <3>1 DEF counted, goto
      <3>3. \A u \in Threads : ~isCloser(u)'
        BY <1>1, <2>2, <2>4 DEF isCloser, goto
      <3>4. NoLostWakeup'
        BY <2>4 DEF NoLostWakeup
      <3>5. QED
        BY <1>1, <2>1, <2>2, <2>4, <3>2, <3>3, <3>4 DEF ClosingInv, goto
    <2>5. QED
      BY <1>5, <2>3, <2>4 DEF Drain
  <1>6. QED
    BY <1>2, <1>3, <1>4, <1>5

LEMMA ClosingHolds == Spec => []ClosingInv
  <1>1. Init => ClosingInv
    BY DEF Init, ClosingInv, isCloser, counted, NoLostWakeup
  <1>2. StreamInv /\ ClosingInv /\ [Next]_vars => ClosingInv'
    <2> SUFFICES ASSUME StreamInv, ClosingInv, [Next]_vars PROVE ClosingInv'
      OBVIOUS
    <2>1. CASE UNCHANGED vars
      BY <2>1 DEF vars, ClosingInv, isCloser, counted, NoLostWakeup
    <2>2. ASSUME NEW t \in Threads, Start(t) \/ Continue(t) PROVE ClosingInv'
      <3>1. CASE CallClose(t) \/ StopBegins(t) \/ StopReturns(t) \/ Drain(t) \/ Follow(t)
        BY <3>1, ClosersKeep
      <3>2. CASE ~(CallClose(t) \/ StopBegins(t) \/ StopReturns(t) \/ Drain(t) \/ Follow(t))
        <4>1. place[t] \notin {"stopping", "joining", "draining", "following"}
          BY <2>2, <3>2 DEF Start, Continue, EnterRead, EnterAdmit, EnterControl, enter, ReadReturns, Publish,
                            NativeAdmit, Resolve, Forget, Cancel, Leave, Release
        <4>2. QED
          BY <2>2, <3>2, <4>1, CallsPass
      <3>3. QED
        BY <3>1, <3>2
    <2>3. ASSUME NEW k \in Keys, CallbackStarts(k) \/ CallbackReturns(k) \/ RecordEnds(k) PROVE ClosingInv'
      <3>1. UNCHANGED workersOnly /\ records[k] # None
        BY <2>3 DEF CallbackStarts, CallbackReturns, RecordEnds
      <3>2. QED
        BY <3>1 DEF workersOnly, ClosingInv, isCloser, counted, NoLostWakeup
    <2>4. QED
      BY <2>1, <2>2, <2>3 DEF Next
  <1>3. QED
    BY <1>1, <1>2, StreamInvHolds, PTL DEF Spec

\* Whoever sleeps in condition.wait() has something to wait for: the broadcasts of
\* the last call to leave and of close() reach everyone they concern.
THEOREM WakeupsReach == Spec => []NoLostWakeup
  <1>1. ClosingInv => NoLostWakeup
    BY DEF ClosingInv
  <1>2. QED
    BY <1>1, ClosingHolds, PTL

\* After close() neither the table nor Core has anything left, and each holder that
\* still lives is in the array of a thread that will release it.
THEOREM ClosedLaneOwnsNothing == Spec => []ClosedLaneIsEmpty
  <1>1. StreamInv /\ ClosingInv => ClosedLaneIsEmpty
    <2> SUFFICES ASSUME StreamInv, ClosingInv, lane = "nil", NEW c \in live
                 PROVE  \E t \in Threads : c \in retired[t]
      BY DEF ClosingInv, ClosedLaneIsEmpty
    <2>1. OwnedOnce(c)
      BY DEF StreamInv, Types, Ownership
    <2>2. ~\E k \in Keys : inTable(c, k)
      BY DEF ClosingInv, inTable
    <2>3. ~\E t \in Threads : inCall(c, t)
      BY DEF ClosingInv, counted, inCall
    <2>4. QED
      BY <2>1, <2>2, <2>3 DEF OwnedOnce, inRetired
  <1>2. QED
    BY <1>1, StreamInvHolds, ClosingHolds, PTL

\* No circle of waiting: a follower waits for the closer, the closer for the calls
\* and the callbacks, a call for the condition, and its holder for Core alone.
THEOREM LaneNeverStuck == Spec => []NeverStuck
  <1>1. StreamInv /\ ClosingInv => NeverStuck
    <2> SUFFICES ASSUME StreamInv, ClosingInv, NEW t \in Threads, place[t] # "idle",
                        ~\E k \in Keys : records[k] # None /\ records[k].state = "running"
                 PROVE  \E u \in Threads : canContinue(u)
      BY DEF NeverStuck
    <2>1. CASE cond # None
      <3>1. cond \in Threads /\ place[cond] \in {"calling", "called"}
        BY <2>1 DEF StreamInv, Types, CondInv
      <3>2. QED
        BY <3>1 DEF canContinue
    <2>2. ASSUME cond = None, NEW u \in Threads, place[u] # "idle", u \notin asleep PROVE canContinue(u)
      <3>1. place[u] \in {"reading", "admitting", "controlling", "calling", "called",
                          "leaving", "releasing", "stopping", "joining", "draining", "following"}
        BY <2>2 DEF StreamInv, Types
      <3>2. QED
        BY <2>2, <3>1 DEF canContinue
    <2>3. CASE cond = None /\ t \in asleep
      <3>1. closing /\ lane = "live"
        BY <2>3 DEF ClosingInv, NoLostWakeup, isCloser
      <3>2. PICK u \in Threads : isCloser(u)
        BY <3>1 DEF ClosingInv
      <3>3. CASE u \notin asleep
        BY <2>2, <2>3, <3>2, <3>3 DEF isCloser
      <3>4. CASE u \in asleep
        <4>1. activeCalls > 0
          BY <3>2, <3>4 DEF ClosingInv, NoLostWakeup, isCloser
        <4>2. PICK v \in Threads : counts(place[v])
          <5>1. counted # {}
            BY <4>1, FS_EmptySet DEF StreamInv
          <5>2. QED
            BY <5>1 DEF counted, counts
        <4>3. v \notin asleep /\ place[v] # "idle"
          BY <4>2 DEF ClosingInv, NoLostWakeup, counts
        <4>4. QED
          BY <2>2, <2>3, <4>3
      <3>5. QED
        BY <3>3, <3>4
    <2>4. QED
      BY <2>1, <2>2, <2>3
  <1>2. QED
    BY <1>1, StreamInvHolds, ClosingHolds, PTL

\* The lane's steps are NativeOwner's: calls borrow while it is open and return,
\* close() seals, and the destruction releases what nobody borrows.
THEOREM LaneIsSafeOwner == Spec => OwnsLane
  <1>1. Init => Owner!Init
    BY DEF Init, Owner!Init, counted
  <1>2. StreamInv /\ [Next]_vars => [Owner!Next]_(Owner!vars)
    <2> SUFFICES ASSUME StreamInv, [Next]_vars PROVE [Owner!Next]_(Owner!vars)
      OBVIOUS
    <2>0. place \in [Threads -> {"idle", "reading", "admitting", "controlling", "calling", "called",
            "leaving", "releasing", "stopping", "joining", "draining", "following"}]
      BY DEF StreamInv, Types
    <2>1. CASE UNCHANGED vars
      BY <2>1 DEF vars, Owner!vars, counted
    <2>2. ASSUME NEW t \in Threads, NEW p, counts(p), enter(t, p), UNCHANGED <<lane, closing>>
          PROVE  Owner!Borrow(t)
      BY <2>0, <2>2 DEF enter, goto, counted, counts, Owner!Borrow, StreamInv, CloseInv
    <2>3. ASSUME NEW t \in Threads, Start(t) PROVE [Owner!Next]_(Owner!vars)
      <3>1. CASE CallClose(t)
        <4>1. counted' = counted
          BY <2>0, <3>1 DEF CallClose, goto, counted
        <4>2. Owner!Seal \/ UNCHANGED Owner!vars
          BY <3>1, <4>1 DEF CallClose, Owner!Seal, Owner!vars
        <4>3. QED
          BY <4>2 DEF Owner!Next
      <3>2. CASE EnterRead(t) \/ (\E k \in Keys, c \in Contexts : EnterAdmit(t, k, c)) \/ \E k \in Keys : EnterControl(t, k)
        <4>1. Owner!Borrow(t)
          BY <2>2, <3>2 DEF EnterRead, EnterAdmit, EnterControl, counts
        <4>2. QED
          BY <4>1 DEF Owner!Next
      <3>3. QED
        BY <2>3, <3>1, <3>2 DEF Start
    <2>4. ASSUME NEW t \in Threads, Continue(t) PROVE [Owner!Next]_(Owner!vars)
      <3>1. CASE Leave(t)
        <4>1. Owner!Return(t)
          BY <2>0, <3>1 DEF Leave, goto, counted, Owner!Return
        <4>2. QED
          BY <4>1 DEF Owner!Next
      <3>2. CASE Drain(t)
        <4>1. CASE UNCHANGED <<lane, core, records, entries, place, retired>>
          BY <3>2, <4>1 DEF Drain, counted, Owner!vars
        <4>2. CASE activeCalls = 0 /\ lane' = "nil" /\ goto(t, "releasing")
          <5>1. counted = {}
            BY <4>2, CountMoves DEF counted, StreamInv
          <5>2. counted' = {}
            BY <4>2, <2>0, <5>1 DEF goto, counted
          <5>3. closing /\ closing' = closing /\ lane \in {"live", "nil"}
            BY <3>2 DEF Drain, StreamInv, CloseInv, Types
          <5>4. Owner!Release \/ UNCHANGED Owner!vars
            BY <4>2, <5>1, <5>2, <5>3 DEF Owner!Release, Owner!vars
          <5>5. QED
            BY <5>4 DEF Owner!Next
        <4>3. QED
          BY <3>2, <4>1, <4>2 DEF Drain
      <3>3. CASE ~Leave(t) /\ ~Drain(t)
        <4>1. UNCHANGED <<lane, closing>>
          BY <2>4, <3>3 DEF Continue, closeState, ReadReturns, Publish, NativeAdmit, Resolve,
                            Forget, Cancel, Release, StopBegins, StopReturns, Follow
        <4>2. (\E p : goto(t, p) /\ (counts(p) <=> counts(place[t]))) \/ UNCHANGED place
          <5>1. CASE ReadReturns(t) \/ Publish(t) \/ NativeAdmit(t)
            BY <5>1 DEF counts, ReadReturns, Publish, NativeAdmit
          <5>2. CASE Resolve(t) \/ Forget(t) \/ Cancel(t) \/ Release(t)
            BY <5>2 DEF counts, Resolve, Forget, Cancel, Release
          <5>3. CASE StopBegins(t) \/ StopReturns(t) \/ Follow(t)
            BY <5>3 DEF counts, StopBegins, StopReturns, Follow
          <5>4. QED
            BY <2>4, <3>3, <5>1, <5>2, <5>3 DEF Continue
        <4>3. counted' = counted
          BY <2>0, <4>2 DEF counted, counts, goto
        <4>4. QED
          BY <4>1, <4>3 DEF Owner!vars
      <3>4. QED
        BY <3>1, <3>2, <3>3
    <2>5. ASSUME NEW k \in Keys, CallbackStarts(k) \/ CallbackReturns(k) \/ RecordEnds(k)
          PROVE  [Owner!Next]_(Owner!vars)
      BY <2>5 DEF CallbackStarts, CallbackReturns, RecordEnds, workersOnly, counted, Owner!vars
    <2>6. QED
      BY <2>1, <2>3, <2>4, <2>5 DEF Next
  <1>3. QED
    BY <1>1, <1>2, StreamInvHolds, PTL DEF Spec, OwnsLane, Owner!Safe
=============================================================================
