------------------------ MODULE EnvelopeCodecProofs ------------------------
(***************************************************************************)
(* Theorems about EnvelopeCodec, for every set of frames and every width:  *)
(* the decoder reads nothing outside of the message it is in, what it      *)
(* copies lies within the frame, it comes to an end, and what it returns   *)
(* is what the frame means.  What a read gives is shown by induction over  *)
(* the bytes that are left, and so is that a message is cut into fields in *)
(* one way only.                                                           *)
(***************************************************************************)
EXTENDS EnvelopeCodec, FiniteSetTheorems, TLAPS

-----------------------------------------------------------------------------
(* Reading.                                                                *)

\* Induction over a set: what holds of 0 and of every successor up to n holds of
\* n, since no finite set is mapped one to one into itself less an element.
LEMMA Induction ==
  ASSUME NEW n \in Nat, NEW S \in SUBSET (0..n), 0 \in S, \A k \in S : k < n => k + 1 \in S
  PROVE  n \in S
  <1> SUFFICES ASSUME n \notin S PROVE FALSE
    OBVIOUS
  <1> DEFINE f == [k \in S |-> k + 1]
  <1>1. IsFiniteSet(S)
    <2>1. IsFiniteSet(0..n)
      BY FS_Interval
    <2>2. QED
      BY <2>1, FS_Subset
  <1>2. IsFiniteSet(S \ {0}) /\ Cardinality(S \ {0}) = Cardinality(S) - 1 /\ Cardinality(S) \in Nat
    BY <1>1, FS_RemoveElement, FS_CardinalityType
  <1>3. f \in [S -> S \ {0}]
    OBVIOUS
  <1>4. \E x, y \in S : x # y /\ f[x] = f[y]
    <2> HIDE DEF f
    <2>1. Cardinality(S \ {0}) < Cardinality(S)
      BY <1>2
    <2>2. QED
      BY <1>1, <1>2, <1>3, <2>1, FS_PigeonHole
  <1>5. QED
    BY <1>4

\* The same from the end of a message back to an offset.
LEMMA InductionBack ==
  ASSUME NEW lo \in Nat, NEW hi \in Nat, lo <= hi, NEW S, hi \in S,
         \A i \in lo .. hi : i # hi /\ i + 1 \in S => i \in S
  PROVE  lo \in S
  <1> DEFINE T == {n \in 0 .. hi - lo : hi - n \in S}
  <1>1. 0 \in T
    OBVIOUS
  <1>2. ASSUME NEW n \in T, n < hi - lo PROVE n + 1 \in T
    <2>1. n \in 0 .. hi - lo /\ hi - n \in S
      OBVIOUS
    <2>2. hi - (n + 1) \in lo .. hi /\ hi - (n + 1) # hi /\ (hi - (n + 1)) + 1 = hi - n
      BY <1>2, <2>1
    <2>3. QED
      BY <1>2, <2>1, <2>2
  <1>3. hi - lo \in Nat /\ T \in SUBSET (0 .. hi - lo) /\ hi - (hi - lo) = lo
    OBVIOUS
  <1>4. hi - lo \in T
    <2> HIDE DEF T
    <2>1. QED
      BY <1>1, <1>2, <1>3, Induction
  <1>5. QED
    BY <1>3, <1>4

\* Induction up from an offset.
LEMMA InductionUp ==
  ASSUME NEW lo \in Nat, NEW hi \in Nat, lo <= hi, NEW S, lo \in S,
         \A i \in lo .. hi : i # hi /\ i \in S => i + 1 \in S
  PROVE  \A i \in lo .. hi : i \in S
  <1> SUFFICES ASSUME NEW i \in lo .. hi PROVE i \in S
    OBVIOUS
  <1> DEFINE T == {n \in 0 .. i - lo : lo + n \in S}
  <1>1. 0 \in T
    OBVIOUS
  <1>2. ASSUME NEW n \in T, n < i - lo PROVE n + 1 \in T
    <2>1. n \in 0 .. i - lo /\ lo + n \in S
      OBVIOUS
    <2>2. lo + n \in lo .. hi /\ lo + n # hi /\ (lo + n) + 1 = lo + (n + 1) /\ n + 1 \in 0 .. i - lo
      BY <1>2, <2>1
    <2>3. QED
      BY <2>1, <2>2
  <1>3. i - lo \in Nat /\ T \in SUBSET (0 .. i - lo) /\ lo + (i - lo) = i
    OBVIOUS
  <1>4. i - lo \in T
    <2> HIDE DEF T
    <2>1. QED
      BY <1>1, <1>2, <1>3, Induction
  <1>5. QED
    BY <1>3, <1>4

\* What a read between two offsets gives: it throws, or reads at least a byte.
Results(V, offset, count) == {thrown} \cup [ok : {TRUE}, value : V, offset : offset + 1 .. count]

LEMMA ReadGives ==
  ASSUME NEW V, NEW offset \in Nat, NEW count \in Nat, NEW r \in Results(V, offset, count), r.ok
  PROVE  r.value \in V /\ r.offset \in Nat /\ r.offset \in offset + 1 .. count
  <1>1. r # thrown
    BY DEF thrown
  <1>2. r \in [ok : {TRUE}, value : V, offset : offset + 1 .. count]
    BY <1>1 DEF Results
  <1>3. r.value \in V /\ r.offset \in offset + 1 .. count
    BY <1>2
  <1>4. QED
    BY <1>3

LEMMA SevenBits == \A b \in Nat : b % 128 \in 0 .. 127
  OBVIOUS

LEMMA SevenBitsMore == \A b, r \in Nat : (b % 128) + 128 * r \in Nat
  OBVIOUS

LEMMA LoopResult ==
  ASSUME frame \in Seq(Nat), NEW first \in Nat, NEW count \in Nat, count <= Len(frame),
         NEW i \in first..count, NEW rest, i = count \/ rest \in Results(Nat, i + 1, count)
  PROVE  varintLoop(i, first, count, rest) \in Results(Nat, i, count)
  <1>1. CASE i = count
    BY <1>1 DEF varintLoop, Results
  <1>2. CASE i # count
    <2>1. i \in Nat /\ i + 1 \in 1..Len(frame) /\ frame[i + 1] \in Nat /\ i + 1 <= count
      BY <1>2
    <2>2. CASE rest = thrown
      BY <2>1, <2>2 DEF varintLoop, Results, value, thrown
    <2>3. CASE rest # thrown
      <3>1. rest.value \in Nat /\ rest.offset \in i + 1 + 1 .. count
        BY <1>2, <2>3 DEF Results
      <3>2. rest.offset \in i + 1 .. count
        BY <2>1, <3>1
      <3>3. (frame[i + 1] % 128) + 128 * rest.value \in Nat
        BY <2>1, <3>1, SevenBitsMore
      <3>4. QED
        BY <2>1, <3>2, <3>3 DEF varintLoop, Results, value
    <2>4. QED
      BY <2>2, <2>3
  <1>3. QED
    BY <1>1, <1>2

\* The loop is well defined: each iteration asks for the next one, up to the end.
LEMMA LoopDefined ==
  ASSUME NEW first \in Nat, NEW count \in Nat, first <= count
  PROVE  varints(first, count) = [i \in first..count |-> varintLoop(i, first, count, varints(first, count)[i + 1])]
  <1> DEFINE isLoop(f, n) == f = [i \in count - n .. count |-> varintLoop(i, first, count, f[i + 1])]
  <1> DEFINE S == {n \in 0 .. count - first : \E f : isLoop(f, n)}
  <1>1. 0 \in S
    <2>1. isLoop([i \in count .. count |-> thrown], 0)
      BY DEF varintLoop
    <2>2. \E f : isLoop(f, 0)
      BY <2>1
    <2>3. 0 \in 0 .. count - first
      OBVIOUS
    <2> HIDE DEF isLoop
    <2>4. QED
      BY <2>2, <2>3
  <1>2. ASSUME NEW n \in S, n < count - first
        PROVE  n + 1 \in S
    <2> DEFINE m == count - (n + 1)
    <2>1. PICK f : isLoop(f, n)
      OBVIOUS
    <2> DEFINE g == [i \in m .. count |-> IF i = m THEN varintLoop(m, first, count, f[m + 1]) ELSE f[i]]
    <2>2. n \in Nat /\ m \in Nat /\ m < count /\ count - n = m + 1
      <3> HIDE DEF isLoop
      <3>1. n \in 0 .. count - first
        OBVIOUS
      <3> HIDE DEF S
      <3>2. QED
        BY <1>2, <3>1
    <2>3. \A i \in m .. count : i # m => i \in m + 1 .. count
      BY <2>2
    <2>4. \A i \in m .. count : g[i] = varintLoop(i, first, count, g[i + 1])
      <3> SUFFICES ASSUME NEW i \in m .. count PROVE g[i] = varintLoop(i, first, count, g[i + 1])
        OBVIOUS
      <3>1. CASE i = count
        <4>1. \A rest : varintLoop(i, first, count, rest) = thrown
          BY <3>1 DEF varintLoop
        <4>2. g[i] = f[i] /\ f[i] = varintLoop(i, first, count, f[i + 1])
          BY <2>1, <2>2, <2>3, <3>1
        <4>3. QED
          BY <4>1, <4>2
      <3>2. CASE i # count
        <4>1. i + 1 \in m .. count /\ i + 1 # m /\ g[i + 1] = f[i + 1]
          BY <2>2, <3>2
        <4>2. g[i] = varintLoop(i, first, count, f[i + 1])
          BY <2>1, <2>2, <2>3
        <4>3. QED
          BY <4>1, <4>2
      <3>3. QED
        BY <3>1, <3>2
    <2>5. isLoop(g, n + 1)
      <3>1. g = [i \in m .. count |-> varintLoop(i, first, count, g[i + 1])]
        BY <2>4
      <3>2. QED
        BY <3>1
    <2>6. n + 1 \in 0 .. count - first
      BY <1>2
    <2> HIDE DEF isLoop, g
    <2>7. QED
      BY <2>5, <2>6
  <1>3. count - first \in S
    <2>1. count - first \in Nat /\ S \in SUBSET (0 .. count - first)
      OBVIOUS
    <2> HIDE DEF S
    <2>2. QED
      BY <1>1, <1>2, <2>1, Induction
  <1>4. PICK f : isLoop(f, count - first)
    BY <1>3
  <1>5. f = [i \in first .. count |-> varintLoop(i, first, count, f[i + 1])]
    <2>1. count - (count - first) = first
      OBVIOUS
    <2>2. QED
      BY <1>4, <2>1
  <1> HIDE DEF isLoop, S
  <1>6. QED
    BY <1>5, Zenon DEF varints

\* A varint is read within its message, and is a natural number.
LEMMA VarintResult ==
  ASSUME frame \in Seq(Nat), NEW offset \in Nat, NEW count \in Nat, offset <= count, count <= Len(frame)
  PROVE  readVarintRaw(offset, count) \in Results(Nat, offset, count)
  <1> DEFINE loop == varints(offset, count)
  <1>1. \A i \in offset .. count : loop[i] = varintLoop(i, offset, count, loop[i + 1])
    BY LoopDefined
  <1> DEFINE S == {i \in offset .. count : loop[i] \in Results(Nat, i, count)}
  <1> HIDE DEF loop
  <1>2. count \in S
    <2>1. loop[count] \in Results(Nat, count, count)
      BY <1>1, LoopResult
    <2>2. QED
      BY <2>1
  <1>3. ASSUME NEW i \in offset .. count, i # count, i + 1 \in S
        PROVE  i \in S
    <2>1. loop[i + 1] \in Results(Nat, i + 1, count)
      BY <1>3
    <2>2. loop[i] \in Results(Nat, i, count)
      BY <1>1, <2>1, LoopResult
    <2>3. QED
      BY <2>2
  <1>4. offset \in S
    <2> HIDE DEF S
    <2>1. QED
      BY <1>2, <1>3, InductionBack
  <1>5. loop[offset] \in Results(Nat, offset, count)
    BY <1>4
  <1>6. QED
    BY <1>5 DEF loop, readVarintRaw

-----------------------------------------------------------------------------
(* What is a varint.                                                       *)

\* The bytes i+1..q are the end of a varint that begins behind first.
endsVarint(first, i, q) ==
  /\ q - first <= VarintBytes
  /\ \A j \in i + 1 .. q - 1 : frame[j] >= 128
  /\ frame[q] < (IF q - first = VarintBytes THEN 2 ELSE 128)

\* What the loop gives at byte i is right: it is where the varint ends, if it does.
ReadsEnd(first, count, i, r) ==
  /\ r.ok => r.offset \in i + 1 .. count /\ endsVarint(first, i, r.offset)
  /\ \A q \in i + 1 .. count : endsVarint(first, i, q) => r.ok /\ r.offset = q

\* The last byte is the one that has a single bit left.
LEMMA LastByte ==
  /\ VarintBytes \in Nat /\ VarintBytes > 0 /\ Width = 7 * (VarintBytes - 1) + 1
  /\ Width \div 7 = VarintBytes - 1
  BY CodecAssumption DEF VarintBytes

LEMMA LoopReadsEnd ==
  ASSUME frame \in Seq(Nat), NEW first \in Nat, NEW count \in Nat, count <= Len(frame),
         NEW i \in first..count, i - first < VarintBytes, NEW rest,
         i = count \/ i + 1 - first = VarintBytes \/ ReadsEnd(first, count, i + 1, rest)
  PROVE  ReadsEnd(first, count, i, varintLoop(i, first, count, rest))
  <1> DEFINE r == varintLoop(i, first, count, rest)  byte == frame[i + 1]
  <1>1. CASE i = count
    BY <1>1 DEF varintLoop, thrown, ReadsEnd
  <1>2. CASE i # count
    <2>1. i \in Nat /\ i + 1 \in 1..Len(frame) /\ byte \in Nat /\ i + 1 <= count
      BY <1>2
    <2>2. CASE i + 1 - first = VarintBytes
      <3>1. 7 * (i - first) = Width - 1
        BY <2>2, LastByte
      <3>2. \A q \in i + 1 .. count : endsVarint(first, i, q) => q = i + 1 /\ byte < 2
        <4> SUFFICES ASSUME NEW q \in i + 1 .. count, endsVarint(first, i, q) PROVE q = i + 1 /\ byte < 2
          OBVIOUS
        <4>1. q - first <= VarintBytes /\ frame[q] < (IF q - first = VarintBytes THEN 2 ELSE 128)
          BY DEF endsVarint
        <4>2. q = i + 1
          BY <2>1, <2>2, <4>1
        <4>3. QED
          BY <2>2, <4>1, <4>2
      <3>3. CASE byte > 1
        BY <2>1, <3>1, <3>2, <3>3 DEF varintLoop, thrown, ReadsEnd
      <3>4. CASE byte <= 1
        <4>1. r = value(byte, i + 1)
          BY <1>2, <2>1, <3>4 DEF varintLoop
        <4>2. endsVarint(first, i, i + 1)
          BY <2>1, <2>2, <3>4 DEF endsVarint
        <4>3. QED
          BY <2>1, <3>2, <4>1, <4>2 DEF value, ReadsEnd
      <3>5. QED
        BY <2>1, <3>3, <3>4
    <2>3. CASE i + 1 - first # VarintBytes
      <3>1. 7 * (i - first) # Width - 1 /\ 7 * (i - first) + 7 < Width /\ i + 1 - first < VarintBytes
        BY <2>1, <2>3, LastByte
      <3>2. CASE byte < 128
        <4>1. r = value(byte, i + 1)
          BY <1>2, <3>1, <3>2 DEF varintLoop
        <4>2. endsVarint(first, i, i + 1)
          <5>1. i + 1 - first <= VarintBytes /\ \A j \in i + 1 .. i + 1 - 1 : FALSE
            BY <2>1, <3>1, LastByte
          <5>2. QED
            BY <2>3, <3>2, <5>1 DEF endsVarint
        <4>3. \A q \in i + 1 .. count : endsVarint(first, i, q) => q = i + 1
          <5> SUFFICES ASSUME NEW q \in i + 1 .. count, endsVarint(first, i, q), q # i + 1 PROVE FALSE
            OBVIOUS
          <5>1. i + 1 \in i + 1 .. q - 1
            BY <2>1
          <5>2. QED
            BY <2>1, <3>2, <5>1 DEF endsVarint
        <4>4. QED
          BY <2>1, <4>1, <4>2, <4>3 DEF value, ReadsEnd
      <3>3. CASE byte >= 128
        <4>1. /\ rest.ok => r = value((byte % 128) + 128 * rest.value, rest.offset)
              /\ ~rest.ok => r = thrown
          <5>1. ~(byte < 128) /\ ~(7 * (i - first) + 7 >= Width)
            BY <2>1, <3>1, <3>3, CodecAssumption
          <5>2. QED
            BY <1>2, <3>1, <5>1 DEF varintLoop
        <4>2. ReadsEnd(first, count, i + 1, rest)
          BY <1>2, <2>3
        <4>3. \A q \in i + 1 .. count : endsVarint(first, i, q) => q # i + 1
          BY <2>1, <2>3, <3>1, <3>3, LastByte DEF endsVarint
        <4>4. \A q \in i + 2 .. count : endsVarint(first, i, q) <=> endsVarint(first, i + 1, q)
          <5> SUFFICES ASSUME NEW q \in i + 2 .. count
                       PROVE  (\A j \in i + 1 .. q - 1 : frame[j] >= 128)
                              <=> (\A j \in i + 1 + 1 .. q - 1 : frame[j] >= 128)
            BY DEF endsVarint
          <5>1. \A j \in i + 1 .. q - 1 : j = i + 1 \/ j \in i + 1 + 1 .. q - 1
            BY <2>1
          <5>2. \A j \in i + 1 + 1 .. q - 1 : j \in i + 1 .. q - 1
            BY <2>1
          <5>3. QED
            BY <3>3, <5>1, <5>2
        <4>5. /\ rest.ok => rest.offset \in i + 2 .. count /\ endsVarint(first, i + 1, rest.offset)
              /\ \A q \in i + 2 .. count : endsVarint(first, i + 1, q) => rest.ok /\ rest.offset = q
          <5>1. i + 1 + 1 = i + 2
            BY <2>1
          <5>2. QED
            BY <4>2, <5>1 DEF ReadsEnd
        <4>6. (r.ok <=> rest.ok) /\ (rest.ok => r.offset = rest.offset)
          <5> HIDE DEF r, byte
          <5>1. CASE rest.ok
            BY <4>1, <5>1 DEF value
          <5>2. CASE ~rest.ok
            BY <4>1, <5>2 DEF thrown
          <5>3. QED
            BY <5>1, <5>2
        <4>7. \A q \in i + 1 .. count : q = i + 1 \/ q \in i + 2 .. count
          BY <2>1
        <4>8. \A q \in i + 2 .. count : q \in i + 1 .. count
          BY <2>1
        <4> HIDE DEF r
        <4>9. QED
          BY <4>3, <4>4, <4>5, <4>6, <4>7, <4>8 DEF ReadsEnd, r
      <3>4. QED
        BY <2>1, <3>2, <3>3
    <2>4. QED
      BY <2>2, <2>3
  <1>3. QED
    BY <1>1, <1>2

\* Of every frame, readVarintRaw accepts what is a varint, overlong ones included,
\* and nothing else: a byte that continues it at each place but the last, no more
\* bytes than the width has room for, and in the last of these no bit that would be
\* shifted out.  It goes on where the varint ends.
THEOREM VarintsAreRead ==
  ASSUME frame \in Seq(Nat), NEW offset \in Nat, NEW count \in Nat, offset <= count, count <= Len(frame)
  PROVE  \A q \in offset + 1 .. count :
           isVarint(offset, q) <=> readVarintRaw(offset, count).ok /\ readVarintRaw(offset, count).offset = q
  <1> DEFINE loop == varints(offset, count)
             right(i) == i - offset < VarintBytes => ReadsEnd(offset, count, i, loop[i])
  <1>1. \A i \in offset .. count : loop[i] = varintLoop(i, offset, count, loop[i + 1])
    BY LoopDefined
  <1> DEFINE S == {i \in offset .. count : right(i)}
  <1> HIDE DEF loop
  <1>2. ASSUME NEW i \in offset .. count, i = count \/ right(i + 1)
        PROVE  right(i)
    <2> SUFFICES ASSUME i - offset < VarintBytes PROVE ReadsEnd(offset, count, i, loop[i])
      OBVIOUS
    <2>1. i = count \/ i + 1 - offset = VarintBytes \/ ReadsEnd(offset, count, i + 1, loop[i + 1])
      BY <1>2, LastByte
    <2>2. QED
      BY <1>1, <2>1, LoopReadsEnd
  <1> HIDE DEF right
  <1>3. count \in S
    BY <1>2
  <1>4. ASSUME NEW i \in offset .. count, i # count, i + 1 \in S
        PROVE  i \in S
    BY <1>2, <1>4
  <1>5. right(offset)
    <2>1. offset \in S
      <3> HIDE DEF S
      <3>1. QED
        BY <1>3, <1>4, InductionBack
    <2>2. QED
      BY <2>1
  <1>6. ReadsEnd(offset, count, offset, readVarintRaw(offset, count))
    BY <1>5, LastByte DEF right, loop, readVarintRaw
  <1>7. \A q \in offset + 1 .. count : isVarint(offset, q) <=> endsVarint(offset, offset, q)
    BY LastByte DEF isVarint, endsVarint
  <1>8. QED
    BY <1>6, <1>7 DEF ReadsEnd

\* One turn of the loop that does not throw: it ends the varint or goes on, and no
\* bit of the last byte is shifted out.
turn(i, first, rest, r) ==
  /\ frame[i + 1] < 128 => r = value(frame[i + 1], i + 1)
  /\ ~(frame[i + 1] < 128) => rest.ok /\ r = value((frame[i + 1] % 128) + 128 * rest.value, rest.offset)
  /\ 7 * (i - first) = Width - 1 => ~(frame[i + 1] > 1)

LEMMA LoopTurn ==
  ASSUME NEW i, NEW first, NEW count, NEW rest, NEW r,
         r = varintLoop(i, first, count, rest), i # count, r.ok
  PROVE  turn(i, first, rest, r)
  <1> PICK shift, byte : shift = 7 * (i - first) /\ byte = frame[i + 1]
    OBVIOUS
  <1>1. r = IF shift = Width - 1 /\ byte > 1 THEN thrown
            ELSE IF byte < 128 THEN value(byte, i + 1)
            ELSE IF shift + 7 >= Width \/ ~rest.ok THEN thrown
            ELSE value((byte % 128) + 128 * rest.value, rest.offset)
    BY DEF varintLoop
  <1>2. r # thrown
    BY DEF thrown
  <1>3. QED
    BY <1>1, <1>2 DEF turn

LEMMA DigitFits == \A u \in Nat \ {0}, b \in Nat : b < 128 => b \in 0 .. 128 * u - 1
  OBVIOUS

LEMMA DigitsFit == \A u \in Nat : \A low \in 0 .. 127, high \in 0 .. u - 1 : low + 128 * high \in 0 .. 128 * u - 1
  OBVIOUS

\* No varint that is read overflows.  weights[k] stands for 2^(7k+1): the last of
\* them is 2^Width, which every value stays below (the check of the last byte).
THEOREM VarintsFit ==
  ASSUME frame \in Seq(Nat), NEW offset \in Nat, NEW count \in Nat, offset <= count, count <= Len(frame),
         NEW weights \in [0 .. Width \div 7 -> Nat \ {0}], weights[0] = 2,
         \A k \in 0 .. Width \div 7 : k > 0 => weights[k] = 128 * weights[k - 1],
         readVarintRaw(offset, count).ok
  PROVE  readVarintRaw(offset, count).value \in 0 .. weights[Width \div 7] - 1
  <1> DEFINE loop == varints(offset, count)
             room(i) == VarintBytes - 1 - (i - offset)
             fits(i) == room(i) >= 0 /\ loop[i].ok => loop[i].value \in 0 .. weights[room(i)] - 1
             S == {i \in offset .. count : fits(i)}
  <1>1. \A i \in offset .. count : loop[i] = varintLoop(i, offset, count, loop[i + 1])
    BY LoopDefined
  <1> HIDE DEF loop
  <1>2. fits(count)
    BY <1>1 DEF varintLoop, thrown
  <1>3. ASSUME NEW i \in offset .. count - 1, fits(i + 1)
        PROVE  fits(i)
    <2> SUFFICES ASSUME room(i) >= 0, loop[i].ok PROVE loop[i].value \in 0 .. weights[room(i)] - 1
      OBVIOUS
    <2> DEFINE byte == frame[i + 1]
    <2>1. i \in Nat /\ i + 1 \in 1..Len(frame) /\ byte \in Nat
      OBVIOUS
    <2>2. loop[i] = varintLoop(i, offset, count, loop[i + 1]) /\ i # count
      BY <1>1
    <2>0. /\ byte < 128 => loop[i] = value(byte, i + 1)
          /\ ~(byte < 128) =>
               loop[i + 1].ok /\ loop[i] = value((byte % 128) + 128 * loop[i + 1].value, loop[i + 1].offset)
          /\ 7 * (i - offset) = Width - 1 => ~(byte > 1)
      <3> HIDE DEF room, fits, S, byte
      <3>1. turn(i, offset, loop[i + 1], loop[i])
        BY <2>2, LoopTurn
      <3>2. QED
        BY <3>1 DEF turn, byte
    <2> HIDE DEF room, byte
    <2>3. CASE room(i) = 0
      <3>1. 7 * (i - offset) = Width - 1
        BY <2>1, <2>3, LastByte DEF room
      <3>2. ~(byte > 1)
        BY <2>0, <3>1
      <3>3. byte \in 0 .. 1 /\ byte < 128
        BY <2>1, <3>2
      <3>4. loop[i] = value(byte, i + 1)
        BY <2>0, <3>3
      <3>5. loop[i].value = byte
        BY <3>4 DEF value
      <3>6. QED
        BY <2>3, <3>3, <3>5
    <2>4. CASE room(i) # 0
      <3>1. /\ room(i) \in 0 .. Width \div 7 /\ room(i) - 1 \in 0 .. Width \div 7
            /\ room(i + 1) = room(i) - 1 /\ room(i + 1) >= 0
        BY <2>1, <2>4, LastByte DEF room
      <3>2. PICK u \in Nat \ {0} : u = weights[room(i) - 1] /\ weights[room(i)] = 128 * u
        BY <2>4, <3>1
      <3>3. CASE byte < 128
        <4>1. loop[i] = value(byte, i + 1)
          BY <2>0, <3>3
        <4>2. loop[i].value = byte
          BY <4>1 DEF value
        <4>3. byte \in 0 .. 128 * u - 1
          BY <2>1, <3>3, DigitFits
        <4>4. QED
          BY <3>2, <4>2, <4>3
      <3>4. CASE ~(byte < 128)
        <4>1. loop[i + 1].ok
          BY <2>0, <3>4
        <4>2. loop[i] = value((byte % 128) + 128 * loop[i + 1].value, loop[i + 1].offset)
          BY <2>0, <3>4
        <4>3. loop[i].value = (byte % 128) + 128 * loop[i + 1].value
          BY <4>2 DEF value
        <4>4. loop[i + 1].value \in 0 .. u - 1
          BY <1>3, <3>1, <3>2, <4>1
        <4>5. byte % 128 \in 0 .. 127
          BY <2>1, SevenBits
        <4>6. (byte % 128) + 128 * loop[i + 1].value \in 0 .. 128 * u - 1
          <5>1. PICK low \in 0 .. 127, high \in 0 .. u - 1 : low = byte % 128 /\ high = loop[i + 1].value
            BY <4>4, <4>5
          <5>2. low + 128 * high \in 0 .. 128 * u - 1
            BY DigitsFit
          <5>3. QED
            BY <5>1, <5>2
        <4>7. QED
          BY <3>2, <4>3, <4>6
      <3>5. QED
        BY <3>3, <3>4
    <2>5. QED
      BY <2>3, <2>4
  <1> HIDE DEF fits
  <1>4. count \in S
    BY <1>2
  <1>5. ASSUME NEW i \in offset .. count, i # count, i + 1 \in S
        PROVE  i \in S
    <2>1. i \in offset .. count - 1
      BY <1>5
    <2>2. QED
      BY <1>3, <1>5, <2>1
  <1>6. offset \in S
    <2> HIDE DEF S
    <2>1. QED
      BY <1>4, <1>5, InductionBack
  <1>7. VarintBytes - 1 - (offset - offset) = Width \div 7 /\ Width \div 7 >= 0
    BY LastByte
  <1>8. QED
    BY <1>6, <1>7 DEF fits, loop, readVarintRaw

-----------------------------------------------------------------------------
(* What a varint means.                                                    *)

\* The sum of the digits is well defined, as each asks for the one before it.
LEMMA SumsDefined ==
  ASSUME NEW p \in Nat, NEW q \in Nat, p <= q
  PROVE  sums(p, q) = [i \in p .. q |-> digits(i, p, sums(p, q)[i - 1])]
  <1> DEFINE isSum(f, n) == f = [i \in p .. p + n |-> digits(i, p, f[i - 1])]
             S == {n \in 0 .. q - p : \E f : isSum(f, n)}
  <1>1. 0 \in S
    <2>1. isSum([i \in p .. p |-> [sum |-> 0, weight |-> 1]], 0)
      <3>1. \A before : digits(p, p, before) = [sum |-> 0, weight |-> 1]
        BY DEF digits
      <3>2. \A i \in p .. p + 0 : i = p
        OBVIOUS
      <3>3. p .. p + 0 = p .. p
        OBVIOUS
      <3>4. QED
        BY <3>1, <3>2, <3>3
    <2>2. 0 \in 0 .. q - p
      OBVIOUS
    <2> HIDE DEF isSum
    <2>3. QED
      BY <2>1, <2>2
  <1>2. ASSUME NEW n \in S, n < q - p
        PROVE  n + 1 \in S
    <2>1. PICK f : isSum(f, n)
      OBVIOUS
    <2> DEFINE m == p + n + 1
               g == [i \in p .. m |-> IF i = m THEN digits(m, p, f[m - 1]) ELSE f[i]]
    <2>2. n \in Nat /\ n + 1 \in 0 .. q - p
      <3>1. n \in 0 .. q - p
        OBVIOUS
      <3> HIDE DEF S
      <3>2. QED
        BY <1>2, <3>1
    <2>3. \A i \in p .. m : g[i] = digits(i, p, g[i - 1])
      <3> SUFFICES ASSUME NEW i \in p .. m PROVE g[i] = digits(i, p, g[i - 1])
        OBVIOUS
      <3>1. CASE i = p
        <4>1. \A before : digits(i, p, before) = [sum |-> 0, weight |-> 1]
          BY <3>1 DEF digits
        <4>2. i \in p .. p + n /\ i # m
          BY <2>2, <3>1
        <4>3. g[i] = f[i] /\ f[i] = digits(i, p, f[i - 1])
          BY <2>1, <4>2
        <4>4. QED
          BY <4>1, <4>3
      <3>2. CASE i # p
        <4>1. i - 1 \in p .. m /\ i - 1 # m /\ g[i - 1] = f[i - 1]
          BY <2>2, <3>2
        <4>2. i # m => i \in p .. p + n
          BY <2>2
        <4>3. g[i] = digits(i, p, f[i - 1])
          BY <2>1, <4>2
        <4>4. QED
          BY <4>1, <4>3
      <3>3. QED
        BY <3>1, <3>2
    <2>4. isSum(g, n + 1)
      <3>1. g = [i \in p .. m |-> digits(i, p, g[i - 1])]
        BY <2>3
      <3>2. p + (n + 1) = m
        BY <2>2
      <3>3. QED
        BY <3>1, <3>2
    <2> HIDE DEF isSum, g
    <2>5. QED
      BY <2>2, <2>4
  <1>3. q - p \in S
    <2>1. q - p \in Nat /\ S \in SUBSET (0 .. q - p)
      OBVIOUS
    <2> HIDE DEF S
    <2>2. QED
      BY <1>1, <1>2, <2>1, Induction
  <1>4. p + (q - p) = q
    OBVIOUS
  <1>5. QED
    BY <1>3, <1>4 DEF sums

\* Each sum asks for the one before it.
LEMMA SumsUnfold ==
  ASSUME NEW p \in Nat, NEW q \in Nat, p <= q
  PROVE  /\ sums(p, q)[p] = [sum |-> 0, weight |-> 1]
         /\ \A i \in p .. q : i # q =>
              sums(p, q)[i + 1] = [sum    |-> sums(p, q)[i].sum + sums(p, q)[i].weight * (frame[i + 1] % 128),
                                   weight |-> 128 * sums(p, q)[i].weight]
  <1> DEFINE s == sums(p, q)
  <1>1. \A i \in p .. q : s[i] = digits(i, p, s[i - 1])
    BY SumsDefined
  <1> HIDE DEF s
  <1>2. s[p] = [sum |-> 0, weight |-> 1]
    <2>1. \A before : digits(p, p, before) = [sum |-> 0, weight |-> 1]
      BY DEF digits
    <2>2. p \in p .. q
      OBVIOUS
    <2>3. QED
      BY <1>1, <2>1, <2>2
  <1>3. ASSUME NEW i \in p .. q, i # q
        PROVE  s[i + 1] = [sum |-> s[i].sum + s[i].weight * (frame[i + 1] % 128), weight |-> 128 * s[i].weight]
    <2>1. i + 1 \in p .. q /\ i + 1 # p /\ (i + 1) - 1 = i
      BY <1>3
    <2>2. s[i + 1] = digits(i + 1, p, s[i])
      BY <1>1, <2>1
    <2>3. QED
      BY <2>1, <2>2 DEF digits
  <1>4. QED
    BY <1>2, <1>3 DEF s

LEMMA SumsAreNumbers ==
  ASSUME frame \in Seq(Nat), NEW p \in Nat, NEW q \in Nat, p <= q, q <= Len(frame)
  PROVE  \A i \in p .. q : sums(p, q)[i].sum \in Nat /\ sums(p, q)[i].weight \in Nat
  <1> DEFINE s == sums(p, q)
             S == {i \in p .. q : s[i].sum \in Nat /\ s[i].weight \in Nat}
  <1>1. /\ s[p] = [sum |-> 0, weight |-> 1]
        /\ \A i \in p .. q : i # q =>
             s[i + 1] = [sum |-> s[i].sum + s[i].weight * (frame[i + 1] % 128), weight |-> 128 * s[i].weight]
    BY SumsUnfold
  <1> HIDE DEF s
  <1>2. p \in S
    BY <1>1
  <1>3. ASSUME NEW i \in p .. q, i # q, i \in S
        PROVE  i + 1 \in S
    <2>1. i + 1 \in p .. q /\ frame[i + 1] \in Nat
      BY <1>3
    <2>2. PICK u \in Nat, w \in Nat, d \in Nat :
            u = s[i].sum /\ w = s[i].weight /\ d = frame[i + 1] % 128
      <3>1. s[i].sum \in Nat /\ s[i].weight \in Nat
        BY <1>3
      <3>2. frame[i + 1] % 128 \in Nat
        BY <2>1, SevenBits
      <3>3. QED
        BY <3>1, <3>2
    <2>3. s[i + 1] = [sum |-> u + w * d, weight |-> 128 * w]
      BY <1>1, <1>3, <2>2
    <2>4. u + w * d \in Nat /\ 128 * w \in Nat
      OBVIOUS
    <2>5. QED
      BY <2>1, <2>3, <2>4
  <1>4. \A i \in p .. q : i \in S
    <2> HIDE DEF S
    <2>1. QED
      BY <1>2, <1>3, InductionUp
  <1>5. QED
    BY <1>4 DEF s

\* A number is its first digit and 128 times what the others give.
LEMMA NumberUnfolds ==
  ASSUME frame \in Seq(Nat), NEW p \in Nat, NEW q \in Nat, q <= Len(frame)
  PROVE  /\ p <= q => number(p, q) \in Nat
         /\ p = q => number(p, q) = 0
         /\ p < q => number(p, q) = (frame[p + 1] % 128) + 128 * number(p + 1, q)
  <1>1. p <= q => number(p, q) \in Nat
    BY SumsAreNumbers DEF number
  <1>2. p = q => number(p, q) = 0
    BY SumsUnfold DEF number
  <1>3. ASSUME p < q PROVE number(p, q) = (frame[p + 1] % 128) + 128 * number(p + 1, q)
    <2> DEFINE s == sums(p, q)  t == sums(p + 1, q)  d == frame[p + 1] % 128
               S == {i \in p + 1 .. q : s[i].sum = d + 128 * t[i].sum /\ s[i].weight = 128 * t[i].weight}
    <2>0. p + 1 \in Nat /\ p + 1 <= q /\ p <= q /\ p \in p .. q /\ p # q /\ p + 1 \in p + 1 .. q
      BY <1>3
    <2>1. /\ s[p] = [sum |-> 0, weight |-> 1]
          /\ \A i \in p .. q : i # q =>
               s[i + 1] = [sum |-> s[i].sum + s[i].weight * (frame[i + 1] % 128), weight |-> 128 * s[i].weight]
      BY <2>0, SumsUnfold
    <2>2. /\ t[p + 1] = [sum |-> 0, weight |-> 1]
          /\ \A i \in p + 1 .. q : i # q =>
               t[i + 1] = [sum |-> t[i].sum + t[i].weight * (frame[i + 1] % 128), weight |-> 128 * t[i].weight]
      BY <2>0, SumsUnfold
    <2>3. \A i \in p + 1 .. q : t[i].sum \in Nat /\ t[i].weight \in Nat
      BY <2>0, SumsAreNumbers
    <2>4. d \in Nat
      BY <1>3, SevenBits
    <2> HIDE DEF s, t
    <2>5. p + 1 \in S
      <3>1. s[p + 1] = [sum |-> 0 + 1 * d, weight |-> 128 * 1]
        <4>1. s[p + 1] = [sum |-> s[p].sum + s[p].weight * d, weight |-> 128 * s[p].weight]
          BY <2>0, <2>1
        <4> HIDE DEF d
        <4>2. s[p].sum = 0 /\ s[p].weight = 1
          BY <2>1
        <4>3. QED
          BY <4>1, <4>2
      <3> HIDE DEF d
      <3>2. QED
        BY <2>0, <2>2, <2>4, <3>1
    <2>6. ASSUME NEW i \in p + 1 .. q, i # q, i \in S
          PROVE  i + 1 \in S
      <3>1. i \in p .. q /\ i + 1 \in p + 1 .. q /\ frame[i + 1] \in Nat
        <4>1. i \in Nat /\ i # q /\ p < i /\ i < q
          BY <2>6
        <4>2. i + 1 \in 1 .. Len(frame)
          BY <4>1
        <4>3. QED
          BY <4>1, <4>2
      <3>2. PICK e \in Nat, u \in Nat, w \in Nat :
              e = frame[i + 1] % 128 /\ u = t[i].sum /\ w = t[i].weight
        <4>1. frame[i + 1] % 128 \in Nat
          BY <3>1, SevenBits
        <4>2. t[i].sum \in Nat /\ t[i].weight \in Nat
          BY <2>3, <3>1
        <4>3. QED
          BY <4>1, <4>2
      <3> HIDE DEF d
      <3>3. s[i + 1] = [sum |-> (d + 128 * u) + (128 * w) * e, weight |-> 128 * (128 * w)]
        <4>1. s[i + 1] = [sum |-> s[i].sum + s[i].weight * e, weight |-> 128 * s[i].weight]
          BY <2>1, <2>6, <3>1, <3>2
        <4>2. s[i].sum = d + 128 * u /\ s[i].weight = 128 * w
          BY <2>6, <3>2
        <4>3. QED
          BY <4>1, <4>2
      <3>4. t[i + 1] = [sum |-> u + w * e, weight |-> 128 * w]
        BY <2>2, <2>6, <3>2
      <3>5. (128 * w) * e = 128 * (w * e) /\ w * e \in Nat
        OBVIOUS
      <3>6. (d + 128 * u) + (128 * w) * e = d + 128 * (u + w * e)
        BY <2>4, <3>5
      <3>7. /\ s[i + 1].sum = d + 128 * t[i + 1].sum
            /\ s[i + 1].weight = 128 * t[i + 1].weight
        BY <3>3, <3>4, <3>6
      <3>8. QED
        BY <3>1, <3>7
    <2>7. \A i \in p + 1 .. q : i \in S
      <3> HIDE DEF S
      <3>1. QED
        BY <2>0, <2>5, <2>6, InductionUp
    <2>8. q \in p + 1 .. q
      BY <1>3
    <2>9. QED
      BY <2>7, <2>8 DEF number, s, t
  <1>4. QED
    BY <1>1, <1>2, <1>3

LEMMA SmallByte == \A b \in Nat : b < 128 => b % 128 = b
  OBVIOUS

\* What is read is the number that its digits give.
LEMMA VarintValue ==
  ASSUME frame \in Seq(Nat), NEW offset \in Nat, NEW count \in Nat, offset <= count, count <= Len(frame),
         readVarintRaw(offset, count).ok
  PROVE  readVarintRaw(offset, count).value = number(offset, readVarintRaw(offset, count).offset)
  <1> DEFINE loop == varints(offset, count)
             S == {i \in offset .. count :
                     loop[i] \in Results(Nat, i, count)
                     /\ (loop[i].ok => loop[i].value = number(i, loop[i].offset))}
  <1>1. \A i \in offset .. count : loop[i] = varintLoop(i, offset, count, loop[i + 1])
    BY LoopDefined
  <1> HIDE DEF loop
  <1>2. count \in S
    <2>1. loop[count] \in Results(Nat, count, count)
      BY <1>1, LoopResult
    <2>2. ~loop[count].ok
      BY <1>1 DEF varintLoop, thrown
    <2>3. QED
      BY <2>1, <2>2
  <1>3. ASSUME NEW i \in offset .. count, i # count, i + 1 \in S
        PROVE  i \in S
    <2> DEFINE byte == frame[i + 1]
    <2>1. i \in Nat /\ i + 1 \in Nat /\ i + 1 \in 1..Len(frame) /\ byte \in Nat /\ i + 1 <= count
      BY <1>3
    <2>2. loop[i] = varintLoop(i, offset, count, loop[i + 1]) /\ loop[i] \in Results(Nat, i, count)
      <3>1. loop[i + 1] \in Results(Nat, i + 1, count)
        BY <1>3
      <3>2. QED
        BY <1>1, <3>1, LoopResult
    <2>3. ASSUME loop[i].ok PROVE loop[i].value = number(i, loop[i].offset)
      <3>0. turn(i, offset, loop[i + 1], loop[i])
        BY <1>3, <2>2, <2>3, LoopTurn
      <3>1. CASE byte < 128
        <4>1. loop[i] = value(byte, i + 1)
          BY <3>0, <3>1 DEF turn
        <4>2. number(i, i + 1) = (byte % 128) + 128 * 0
          BY <2>1, NumberUnfolds
        <4>3. byte % 128 = byte
          BY <2>1, <3>1, SmallByte
        <4>4. QED
          BY <2>1, <4>1, <4>2, <4>3 DEF value
      <3>2. CASE ~(byte < 128)
        <4>1. loop[i + 1].ok /\ loop[i] = value((byte % 128) + 128 * loop[i + 1].value, loop[i + 1].offset)
          BY <3>0, <3>2 DEF turn
        <4>2. loop[i + 1].value = number(i + 1, loop[i + 1].offset) /\ loop[i + 1] \in Results(Nat, i + 1, count)
          BY <1>3, <4>1
        <4>3. loop[i + 1].offset \in Nat /\ loop[i + 1].offset \in i + 1 + 1 .. count
          BY <2>1, <4>1, <4>2, ReadGives
        <4>4. number(i, loop[i + 1].offset) = (byte % 128) + 128 * number(i + 1, loop[i + 1].offset)
          <5>1. PICK q \in Nat : q = loop[i + 1].offset /\ q \in i + 1 + 1 .. count
            BY <4>3
          <5>2. i \in Nat /\ i < q /\ q <= Len(frame)
            <6>1. i \in Nat /\ i < q /\ q <= count
              BY <2>1, <5>1
            <6>2. Len(frame) \in Nat /\ count <= Len(frame)
              OBVIOUS
            <6>3. QED
              BY <5>1, <6>1, <6>2
          <5>3. number(i, q) = (frame[i + 1] % 128) + 128 * number(i + 1, q)
            BY <5>2, NumberUnfolds
          <5>4. QED
            BY <5>1, <5>3
        <4>5. QED
          BY <4>1, <4>2, <4>4 DEF value
      <3>3. QED
        BY <3>1, <3>2
    <2>4. QED
      BY <2>2, <2>3
  <1>4. offset \in S
    <2> HIDE DEF S
    <2>1. QED
      BY <1>2, <1>3, InductionBack
  <1>5. QED
    BY <1>4 DEF loop, readVarintRaw

-----------------------------------------------------------------------------
(* Fields.                                                                 *)

rangesIn(lo, hi) == {r \in (lo .. hi) \X (lo .. hi) : r[1] <= r[2]}

\* Bytes are a range behind their length, within the message, and end the field.
LEMMA BytesResult ==
  ASSUME frame \in Seq(Nat), NEW offset \in Nat, NEW count \in Nat, offset <= count, count <= Len(frame),
         NEW type, NEW b, b = readBytes(type, offset, count) \/ b = readString(type, offset, count), b.ok
  PROVE  /\ b \in Results(rangesIn(offset + 1, count), offset, count)
         /\ b.value[2] = b.offset
  <1> DEFINE length == readVarintRaw(offset, count)
  <1>1. b = readBytes(type, offset, count)
    BY DEF readString, thrown
  <1>2. length.ok /\ length.value <= count - length.offset
        /\ b = value(<<length.offset, length.offset + length.value>>, length.offset + length.value)
    BY <1>1 DEF readBytes, thrown
  <1>3. length \in Results(Nat, offset, count)
    BY VarintResult
  <1> HIDE DEF length
  <1> DEFINE lo == length.offset  hi == length.offset + length.value
  <1>4. lo \in offset + 1 .. count /\ hi \in offset + 1 .. count /\ lo <= hi
    <2>1. length.value \in Nat /\ length.offset \in Nat /\ length.offset \in offset + 1 .. count
      BY <1>2, <1>3, ReadGives
    <2>2. QED
      BY <1>2, <2>1
  <1>5. b = [ok |-> TRUE, value |-> <<lo, hi>>, offset |-> hi]
    BY <1>2 DEF value
  <1> HIDE DEF lo, hi
  <1>6. <<lo, hi>> \in rangesIn(offset + 1, count)
    BY <1>4 DEF rangesIn
  <1>7. QED
    BY <1>4, <1>5, <1>6 DEF Results

\* A field that is skipped ends within the message.
LEMMA SkipResult ==
  ASSUME frame \in Seq(Nat), NEW offset \in Nat, NEW count \in Nat, offset <= count, count <= Len(frame),
         NEW type, skip(type, offset, count).ok
  PROVE  skip(type, offset, count).offset \in offset .. count
  <1> DEFINE s == skip(type, offset, count)
  <1>1. CASE type = 0
    <2>1. s = readVarintRaw(offset, count)
      BY <1>1 DEF skip
    <2>2. s \in Results(Nat, offset, count) /\ s.ok
      BY <2>1, VarintResult
    <2> HIDE DEF s
    <2>3. s.offset \in offset + 1 .. count
      BY <2>2, ReadGives
    <2>4. s.offset \in offset .. count
      BY <2>3
    <2>5. QED
      BY <2>4 DEF s
  <1>2. CASE type = 2
    <2>1. s = readBytes(type, offset, count)
      BY <1>2 DEF skip
    <2>2. s \in Results(rangesIn(offset + 1, count), offset, count) /\ s.ok
      BY <2>1, BytesResult
    <2> HIDE DEF s
    <2>3. s.offset \in offset + 1 .. count
      BY <2>2, ReadGives
    <2>4. s.offset \in offset .. count
      BY <2>3
    <2>5. QED
      BY <2>4 DEF s
  <1>3. CASE type \notin {0, 2}
    BY <1>3, CodecAssumption DEF skip, thrown, value
  <1>4. QED
    BY <1>1, <1>2, <1>3

\* What the read of a field gives.
fieldValues(name, lo, hi) ==
  IF name \in Strings \cup {"payload", "original"} THEN rangesIn(lo, hi) ELSE Nat

LEMMA ReadResult ==
  ASSUME frame \in Seq(Nat), NEW n, NEW type, NEW offset \in Nat, offset <= reader.count,
         reader.count \in Nat, reader.count <= Len(frame), read(n, type, offset).ok
  PROVE  /\ read(n, type, offset).offset \in offset .. reader.count
         /\ n \in DOMAIN known =>
              /\ read(n, type, offset).value \in fieldValues(known[n], offset + 1, reader.count)
              /\ known[n] = "original" =>
                   read(n, type, offset).value[2] = read(n, type, offset).offset
  <1> DEFINE count == reader.count  r == read(n, type, offset)
  <1> HIDE DEF count
  <1>0. count \in Nat /\ offset <= count /\ count <= Len(frame) /\ r.ok
    BY DEF count
  <1>1. CASE n \notin DOMAIN known
    <2>1. r = skip(type, offset, count)
      BY <1>1 DEF read, count
    <2>2. QED
      BY <1>0, <1>1, <2>1, SkipResult DEF count
  <1>2. CASE n \in DOMAIN known /\ known[n] \in Strings \cup {"payload", "original"}
    <2>1. r = readBytes(type, offset, count) \/ r = readString(type, offset, count)
      BY <1>2 DEF read, count
    <2> HIDE DEF r
    <2>2. r \in Results(rangesIn(offset + 1, count), offset, count) /\ r.value[2] = r.offset
      BY <1>0, <2>1, BytesResult
    <2>3. r.value \in rangesIn(offset + 1, count) /\ r.offset \in offset + 1 .. count
      BY <1>0, <2>2, ReadGives
    <2>4. r.offset \in offset .. count
      BY <1>0, <2>3
    <2>5. QED
      BY <1>2, <2>2, <2>3, <2>4 DEF fieldValues, r, count
  <1>3. CASE n \in DOMAIN known /\ known[n] \notin Strings \cup {"payload", "original"}
    <2>1. r = readVarint(type, offset, count)
      BY <1>3 DEF read, count
    <2>2. r = readVarintRaw(offset, count)
      BY <1>0, <2>1 DEF readVarint, thrown
    <2> HIDE DEF r
    <2>3. r \in Results(Nat, offset, count)
      BY <1>0, <2>2, VarintResult
    <2>4. r.value \in Nat /\ r.offset \in offset + 1 .. count
      BY <1>0, <2>3, ReadGives
    <2>5. r.offset \in offset .. count
      BY <1>0, <2>4
    <2>6. QED
      BY <1>3, <2>4, <2>5 DEF fieldValues, r, count
  <1>4. QED
    BY <1>1, <1>2, <1>3

-----------------------------------------------------------------------------
(* The loops.                                                              *)

CodecInv == frame \in Seq(Nat) /\ TypeOK

LEMMA DefaultsType ==
  /\ DOMAIN Defaults = {"messageID", "correlationID", "source", "target", "detail", "payload",
                        "kind", "oneWay", "reason"}
  /\ \A f \in Strings \cup {"payload"} : Defaults[f] = empty
  /\ Defaults.kind = 0 /\ Defaults.reason = 0 /\ Defaults.oneWay = FALSE
  BY DEF Defaults, Strings

LEMMA KnownFields ==
  /\ \A n \in DOMAIN known : known[n] \in (DOMAIN Defaults) \cup {"original"}
  /\ \A n \in DOMAIN known : known[n] = "original" => ~inEnvelope
  <1>1. \A n \in DOMAIN envelopeField : envelopeField[n] \in DOMAIN Defaults
    BY DefaultsType DEF envelopeField
  <1>2. \A n \in DOMAIN deadletterField : deadletterField[n] \in {"original", "reason", "detail"}
    BY DEF deadletterField
  <1>3. QED
    BY <1>1, <1>2, DefaultsType DEF known

LEMMA SeqOfSubset ==
  ASSUME NEW T, NEW S \in SUBSET T, NEW s \in Seq(S)
  PROVE  s \in Seq(T)
  OBVIOUS

LEMMA ElementOfSeq ==
  ASSUME NEW S, NEW s \in Seq(S), NEW i \in DOMAIN s
  PROVE  s[i] \in S
  OBVIOUS

\* A reader that goes on to o keeps its end.
LEMMA MovedReader ==
  ASSUME NEW r \in [offset : Nat, count : Nat], NEW o
  PROVE  [r EXCEPT !.offset = o] = [offset |-> o, count |-> r.count]
  OBVIOUS

\* A sequence that is appended to.
LEMMA AppendGives ==
  ASSUME NEW S, NEW t \in Seq(S), NEW b \in S, NEW s, s = Append(t, b)
  PROVE  /\ s \in Seq(S) /\ Len(s) = Len(t) + 1
         /\ \A i \in 1..Len(t) : s[i] = t[i]
         /\ s[Len(t) + 1] = b
  OBVIOUS

LEMMA InitInv == Init => CodecInv
  <1> SUFFICES ASSUME Init PROVE CodecInv
    OBVIOUS
  <1>1. frame \in Seq(Nat)
    <2> DEFINE bytes == 0..255 \ 194..244
    <2>1. frame \in Seq(bytes)
      BY CodecAssumption DEF Init
    <2>2. bytes \in SUBSET Nat
      OBVIOUS
    <2> HIDE DEF bytes
    <2>3. QED
      BY <2>1, <2>2, SeqOfSubset
  <1>2. /\ Len(readers) = 1 /\ reader = [offset |-> 0, count |-> Len(frame)] /\ readers[1] = reader
        /\ readers \in Seq([offset : Nat, count : Nat])
    BY <1>1 DEF Init, reader
  <1>3. <<0, 0>> \in ranges
    BY <1>1 DEF ranges
  <1>4. \A f \in Strings \cup {"payload"} : fields[f] \in ranges
    BY <1>3, DefaultsType DEF Init, empty
  <1>5. /\ \A i \in DOMAIN readers : readers[i].offset <= readers[i].count
        /\ ~nested /\ readers[1].count = Len(frame)
    BY <1>1, <1>2 DEF Init, nested
  <1>6. /\ DOMAIN fields = DOMAIN Defaults
        /\ fields.kind \in Nat /\ fields.reason \in Nat /\ fields.oneWay \in BOOLEAN
        /\ outcome \in {"reading", "decoded", "thrown"}
    <2>1. fields = Defaults /\ outcome = "reading"
      BY DEF Init
    <2>2. fields.kind \in Nat /\ fields.reason \in Nat
      BY <2>1, DefaultsType
    <2>3. fields.oneWay \in BOOLEAN
      BY <2>1, DefaultsType, Zenon
    <2>4. QED
      BY <2>1, <2>2, <2>3
  <1>7. QED
    BY <1>1, <1>2, <1>4, <1>5, <1>6 DEF CodecInv, TypeOK

\* What the state says of the reader in use.
LEMMA ReaderFacts ==
  ASSUME CodecInv
  PROVE  /\ readers \in Seq([offset : Nat, count : Nat]) /\ Len(readers) \in DOMAIN readers
         /\ reader \in [offset : Nat, count : Nat]
         /\ reader.offset <= reader.count /\ reader.count <= Len(frame)
         /\ Len(frame) \in Nat /\ (Len(readers) = 1 \/ nested)
         /\ readers[1] \in [offset : Nat, count : Nat] /\ readers[1].offset <= readers[1].count
         /\ ~nested => Len(readers) = 1 /\ reader = readers[1]
  <1>1. /\ readers \in Seq([offset : Nat, count : Nat]) /\ Len(readers) \in 1..2
        /\ \A i \in DOMAIN readers : readers[i].offset <= readers[i].count
        /\ nested => reader.count <= readers[1].offset
        /\ readers[1].count = Len(frame) /\ frame \in Seq(Nat)
    BY DEF CodecInv, TypeOK
  <1>2. 1 \in DOMAIN readers /\ Len(readers) \in DOMAIN readers /\ Len(frame) \in Nat
    BY <1>1
  <1>3. \A i \in DOMAIN readers : readers[i] \in [offset : Nat, count : Nat]
    BY <1>1, ElementOfSeq
  <1>4. Len(readers) = 1 \/ nested
    BY <1>1 DEF nested
  <1>5. reader.count <= Len(frame)
    <2>1. CASE Len(readers) = 1
      BY <1>1, <2>1 DEF reader
    <2>2. CASE nested
      <3>1. /\ readers[1] \in [offset : Nat, count : Nat] /\ readers[1].offset <= readers[1].count
            /\ reader \in [offset : Nat, count : Nat] /\ reader.count <= readers[1].offset
        BY <1>1, <1>2, <1>3, <2>2 DEF reader
      <3>2. QED
        BY <1>1, <3>1
    <2>3. QED
      BY <1>4, <2>1, <2>2
  <1>6. QED
    BY <1>1, <1>2, <1>3, <1>4, <1>5 DEF reader, nested

\* The tag of a field, and what the field gives.
fieldRead(tag, body) ==
  /\ tag = readVarintRaw(reader.offset, reader.count) /\ tag.ok
  /\ body = read(tag.value \div 8, tag.value % 8, tag.offset) /\ body.ok

LEMMA FieldResult ==
  ASSUME CodecInv, reader.offset < reader.count, NEW tag, NEW body, fieldRead(tag, body)
  PROVE  LET n == tag.value \div 8 IN
         /\ body.offset \in reader.offset + 1 .. reader.count
         /\ n \in DOMAIN known =>
              /\ body.value \in fieldValues(known[n], reader.offset + 2, reader.count)
              /\ known[n] = "original" => body.value[2] = body.offset
  <1> DEFINE offset == reader.offset  count == reader.count  n == tag.value \div 8
  <1>1. /\ offset \in Nat /\ count \in Nat /\ offset < count /\ count <= Len(frame)
        /\ frame \in Seq(Nat)
    BY ReaderFacts DEF CodecInv
  <1>2. tag \in Results(Nat, offset, count) /\ tag.ok
    BY <1>1, VarintResult DEF fieldRead
  <1>3. tag.offset \in Nat /\ tag.offset \in offset + 1 .. count
    BY <1>1, <1>2, ReadGives
  <1>4. /\ body.offset \in tag.offset .. count
        /\ n \in DOMAIN known =>
             /\ body.value \in fieldValues(known[n], tag.offset + 1, count)
             /\ known[n] = "original" => body.value[2] = body.offset
    BY <1>1, <1>3, ReadResult DEF fieldRead
  <1>5. \A name : fieldValues(name, tag.offset + 1, count) \subseteq fieldValues(name, offset + 2, count)
    <2> HIDE DEF offset, count
    <2>1. rangesIn(tag.offset + 1, count) \subseteq rangesIn(offset + 2, count)
      <3>1. tag.offset + 1 .. count \subseteq offset + 2 .. count
        BY <1>1, <1>3
      <3>2. QED
        BY <3>1 DEF rangesIn
    <2>2. QED
      BY <2>1 DEF fieldValues
  <1>6. body.offset \in offset + 1 .. count
    <2> HIDE DEF offset, count
    <2>1. QED
      BY <1>1, <1>3, <1>4
  <1>7. QED
    BY <1>4, <1>5, <1>6

\* A step that moves the reader on within its message, as the iteration does.
LEMMA Advances ==
  ASSUME CodecInv, NEW o \in reader.offset + 1 .. reader.count, readers' = advanced(o), UNCHANGED frame,
         outcome' = "reading"
  PROVE  /\ readers' \in Seq([offset : Nat, count : Nat])
         /\ Len(readers') = Len(readers) /\ DOMAIN readers' = DOMAIN readers
         /\ \A i \in DOMAIN readers : i # Len(readers) => readers'[i] = readers[i]
         /\ reader' = [offset |-> o, count |-> reader.count]
         /\ \A i \in DOMAIN readers' : readers'[i].offset <= readers'[i].count
         /\ nested' <=> nested
         /\ nested' => reader'.count <= readers'[1].offset
         /\ readers'[1].count = Len(frame)
  <1>1. /\ readers \in Seq([offset : Nat, count : Nat]) /\ Len(readers) \in 1..2
        /\ \A i \in DOMAIN readers : readers[i].offset <= readers[i].count
        /\ nested => reader.count <= readers[1].offset
        /\ readers[1].count = Len(frame)
    BY DEF CodecInv, TypeOK
  <1>2. /\ Len(readers) \in DOMAIN readers /\ reader \in [offset : Nat, count : Nat]
        /\ reader = readers[Len(readers)]
    BY ReaderFacts DEF reader
  <1>3. o \in Nat /\ o <= reader.count
    BY <1>2
  <1> DEFINE new == [offset |-> o, count |-> reader.count]
  <1>4. readers' = [readers EXCEPT ![Len(readers)] = new]
    <2>1. [reader EXCEPT !.offset = o] = new
      BY <1>2
    <2>2. readers' = [readers EXCEPT ![Len(readers)] = [reader EXCEPT !.offset = o]]
      BY DEF advanced, reader
    <2>3. QED
      BY <2>1, <2>2
  <1>5. new \in [offset : Nat, count : Nat] /\ new.offset <= new.count
    BY <1>2, <1>3
  <1>6. /\ readers' \in Seq([offset : Nat, count : Nat])
        /\ Len(readers') = Len(readers) /\ DOMAIN readers' = DOMAIN readers
    <2> HIDE DEF new
    <2> DEFINE R == [offset : Nat, count : Nat]
    <2>1. readers \in Seq(R) /\ new \in R
      BY <1>1, <1>5
    <2> HIDE DEF R
    <2>2. readers' \in Seq(R) /\ Len(readers') = Len(readers) /\ DOMAIN readers' = DOMAIN readers
      BY <1>2, <1>4, <2>1
    <2>3. QED
      BY <2>2 DEF R
  <1>7. \A i \in DOMAIN readers : readers'[i] = IF i = Len(readers) THEN new ELSE readers[i]
    BY <1>4
  <1>8. reader' = new /\ (nested' <=> nested)
    BY <1>2, <1>6, <1>7 DEF reader, nested
  <1>9. /\ \A i \in DOMAIN readers' : readers'[i].offset <= readers'[i].count
        /\ new.count = reader.count
    BY <1>1, <1>5, <1>6, <1>7
  <1>10. 1 \in DOMAIN readers /\ readers'[1].count = readers[1].count
    BY <1>1, <1>2, <1>7
  <1>11. nested => readers'[1] = readers[1]
    BY <1>7, <1>10 DEF nested
  <1>12. QED
    BY <1>1, <1>6, <1>7, <1>8, <1>9, <1>10, <1>11

\* The fields keep their types.
FieldsInv ==
  /\ DOMAIN fields = DOMAIN Defaults
  /\ \A f \in Strings \cup {"payload"} : fields[f] \in ranges
  /\ fields.kind \in Nat /\ fields.reason \in Nat /\ fields.oneWay \in BOOLEAN

LEMMA TakeKeeps ==
  ASSUME CodecInv, NEW name \in DOMAIN Defaults, NEW v, UNCHANGED frame,
         Take(name, IF name = "oneWay" THEN v # 0 ELSE v),
         v \in fieldValues(name, reader.offset + 2, reader.count)
  PROVE  FieldsInv'
  <1>1. FieldsInv /\ Len(frame) \in Nat
    BY DEF CodecInv, TypeOK, FieldsInv
  <1>2. reader \in [offset : Nat, count : Nat] /\ reader.count <= Len(frame)
    BY ReaderFacts
  <1> DEFINE w == IF name = "oneWay" THEN v # 0 ELSE v
  <1>3. \A f \in DOMAIN Defaults : fields'[f] = IF f = name THEN w ELSE fields[f]
    BY <1>1 DEF Take, FieldsInv
  <1>4. name \in Strings \cup {"payload"} => v \in ranges
    <2>1. rangesIn(reader.offset + 2, reader.count) \subseteq ranges
      BY <1>1, <1>2 DEF rangesIn, ranges
    <2>2. QED
      BY <2>1 DEF fieldValues
  <1>5. name \in {"kind", "reason"} => v \in Nat
    BY DEF fieldValues, Strings
  <1>6. DOMAIN fields' = DOMAIN Defaults
    BY <1>1 DEF Take, FieldsInv
  <1>7. \A f \in Strings \cup {"payload"} : fields'[f] \in ranges'
    BY <1>1, <1>3, <1>4, DefaultsType DEF FieldsInv, ranges, Strings
  <1>8. fields'.kind \in Nat /\ fields'.reason \in Nat
    BY <1>1, <1>3, <1>5, DefaultsType DEF FieldsInv
  <1>9. fields'.oneWay \in BOOLEAN
    <2>1. fields'["oneWay"] = IF name = "oneWay" THEN (v # 0) ELSE fields["oneWay"]
      BY <1>3, DefaultsType
    <2>2. fields["oneWay"] \in BOOLEAN
      BY <1>1 DEF FieldsInv
    <2>3. QED
      BY <2>1, <2>2
  <1>10. QED
    BY <1>6, <1>7, <1>8, <1>9 DEF FieldsInv

\* A message that is nested is read by a reader of its own, behind which the outer
\* one goes on.
opens(o, lo) == readers' = Append(advanced(o), [offset |-> lo, count |-> o])

LEMMA Nests ==
  ASSUME CodecInv, ~nested, NEW o \in reader.offset + 1 .. reader.count, UNCHANGED frame, outcome' = "reading",
         NEW lo \in reader.offset + 2 .. o,
         opens(o, lo), fields' = original
  PROVE  /\ CodecInv' /\ left' < left
         /\ nested' /\ readers'[1].offset = o /\ reader' = [offset |-> lo, count |-> o]
  <1>1. /\ readers = <<reader>> /\ reader \in [offset : Nat, count : Nat]
        /\ readers[1] = reader /\ reader.offset <= reader.count /\ reader.count = Len(frame)
        /\ frame \in Seq(Nat)
    BY ReaderFacts DEF CodecInv, TypeOK
  <1> PICK outer, inner : outer = [offset |-> o, count |-> reader.count] /\ inner = [offset |-> lo, count |-> o]
    OBVIOUS
  <1>2. advanced(o) = <<outer>>
    <2>1. [reader EXCEPT !.offset = o] = outer
      <3>1. [reader EXCEPT !.offset = o] = [offset |-> o, count |-> reader.count]
        BY <1>1, MovedReader
      <3>2. QED
        BY <3>1, Zenon
    <2>2. advanced(o) = [readers EXCEPT ![Len(readers)] = [reader EXCEPT !.offset = o]]
      BY DEF advanced, reader
    <2>3. advanced(o) = [readers EXCEPT ![1] = outer]
      BY <1>1, <2>1, <2>2
    <2>4. QED
      BY <1>1, <2>3
  <1>3. readers' = Append(advanced(o), inner)
    BY DEF opens
  <1>4. /\ o \in Nat /\ lo \in Nat /\ lo <= o /\ o <= reader.count /\ reader.offset + 2 <= lo
        /\ outer \in [offset : Nat, count : Nat] /\ inner \in [offset : Nat, count : Nat]
    BY <1>1
  <1>5. /\ readers' \in Seq([offset : Nat, count : Nat]) /\ Len(readers') = 2 /\ nested'
        /\ readers'[1] = outer /\ reader' = inner
        /\ \A i \in DOMAIN readers' : (i = 1 /\ readers'[i] = outer) \/ (i = 2 /\ readers'[i] = inner)
    <2>1. /\ readers' \in Seq([offset : Nat, count : Nat]) /\ Len(readers') = 2
          /\ readers'[1] = outer /\ readers'[2] = inner /\ DOMAIN readers' = {1, 2}
      <3> DEFINE R == [offset : Nat, count : Nat]
      <3>1. outer \in R /\ inner \in R
        BY <1>4
      <3> HIDE DEF R
      <3>0. PICK t : t = <<outer>>
        OBVIOUS
      <3>2. t \in Seq(R)
        BY <3>0, <3>1
      <3>3. /\ readers' \in Seq(R) /\ Len(readers') = Len(t) + 1
            /\ \A i \in 1..Len(t) : readers'[i] = t[i]
            /\ readers'[Len(t) + 1] = inner
        <4>1. readers' = Append(t, inner)
          BY <1>2, <1>3, <3>0
        <4>2. QED
          BY <3>1, <3>2, <4>1, AppendGives
      <3>4. Len(t) = 1 /\ t[1] = outer
        BY <3>0
      <3>5. readers' \in Seq(R) /\ Len(readers') = 2 /\ readers'[1] = outer /\ readers'[2] = inner
        BY <3>3, <3>4
      <3>6. DOMAIN readers' = {1, 2}
        BY <3>5
      <3>7. QED
        BY <3>5, <3>6 DEF R
    <2>2. QED
      BY <2>1 DEF nested, reader
  <1>6. FieldsInv'
    <2>1. /\ DOMAIN fields = DOMAIN Defaults /\ fields.detail \in ranges
          /\ fields.kind \in Nat /\ fields.reason \in Nat /\ fields.oneWay \in BOOLEAN
      BY DEF CodecInv, TypeOK, Strings
    <2>2. \A f \in DOMAIN Defaults : fields'[f] = IF f \in {"reason", "detail"} THEN fields[f] ELSE Defaults[f]
      BY <2>1 DEF original
    <2>3. DOMAIN fields' = DOMAIN Defaults
      BY <2>1 DEF original
    <2>4. empty \in ranges'
      BY <1>1 DEF empty, ranges
    <2>5. \A f \in Strings \cup {"payload"} : fields'[f] \in ranges'
      BY <2>1, <2>2, <2>4, DefaultsType DEF Strings, ranges
    <2>6. fields'.kind \in Nat /\ fields'.reason \in Nat
      BY <2>1, <2>2, DefaultsType
    <2>7. fields'.oneWay = FALSE
      BY <2>2, DefaultsType
    <2>8. QED
      BY <2>3, <2>5, <2>6, <2>7 DEF FieldsInv
  <1>7. CodecInv'
    <2>1. \A i \in DOMAIN readers' : readers'[i].offset <= readers'[i].count
      BY <1>4, <1>5
    <2>2. reader'.count <= readers'[1].offset /\ readers'[1].count = Len(frame')
      BY <1>1, <1>5
    <2>3. frame' \in Seq(Nat) /\ Len(readers') \in 1..2
      BY <1>1, <1>5
    <2>4. QED
      BY <1>5, <1>6, <2>1, <2>2, <2>3 DEF CodecInv, TypeOK, FieldsInv
  <1>8. left' < left
    <2>1. left = reader.count - reader.offset
      BY <1>1 DEF left
    <2>2. left' = (reader.count - o) + (1 + o - lo)
      BY <1>5 DEF left
    <2>3. QED
      BY <1>1, <1>4, <2>1, <2>2
  <1>9. QED
    BY <1>5, <1>7, <1>8

\* The other iterations, which stay in their message.
LEMMA ReadsOn ==
  ASSUME CodecInv, NEW o \in reader.offset + 1 .. reader.count, readers' = advanced(o), UNCHANGED frame,
         outcome' = "reading", FieldsInv'
  PROVE  CodecInv' /\ left' < left
  <1>1. CodecInv'
    <2>1. Len(readers') \in 1..2 /\ frame' \in Seq(Nat)
      BY Advances DEF CodecInv, TypeOK
    <2>2. QED
      BY <2>1, Advances DEF CodecInv, TypeOK, FieldsInv
  <1>2. left' < left
    <2>1. o \in Nat /\ reader \in [offset : Nat, count : Nat] /\ readers[1] \in [offset : Nat, count : Nat]
      BY ReaderFacts
    <2>2. CASE nested
      <3>1. readers'[1] = readers[1] /\ nested'
        BY <2>2, Advances, ReaderFacts DEF nested
      <3>2. left = (readers[1].count - readers[1].offset) + (1 + reader.count - reader.offset)
        BY <2>2 DEF left
      <3>3. left' = (readers[1].count - readers[1].offset) + (1 + reader.count - o)
        BY <3>1, Advances DEF left
      <3>4. QED
        BY <2>1, <3>2, <3>3
    <2>3. CASE ~nested
      <3>1. readers'[1] = reader' /\ ~nested' /\ readers[1] = reader
        BY <2>3, Advances, ReaderFacts DEF reader
      <3>2. left = reader.count - reader.offset
        BY <2>1, <2>3, <3>1 DEF left
      <3>3. left' = reader.count - o
        <4>1. reader' = [offset |-> o, count |-> reader.count]
          BY Advances
        <4>2. left' = (reader'.count - reader'.offset) + 0
          BY <3>1 DEF left
        <4>3. QED
          BY <2>1, <4>1, <4>2
      <3>4. QED
        BY <2>1, <3>2, <3>3
    <2>4. QED
      BY <2>2, <2>3
  <1>3. QED
    BY <1>1, <1>2

LEMMA FieldStep ==
  ASSUME CodecInv, Field, UNCHANGED frame, outcome = "reading"
  PROVE  CodecInv' /\ (outcome' = "reading" => left' < left)
  <1> DEFINE tag == readVarintRaw(reader.offset, reader.count)
             n == tag.value \div 8
             body == read(n, tag.value % 8, tag.offset)
  <1> HIDE DEF tag, n, body
  <1>1. CASE throw
    BY <1>1 DEF throw, CodecInv, TypeOK, nested, reader, ranges
  <1>2. CASE ~throw
    <2>1. /\ reader.offset < reader.count /\ fieldRead(tag, body)
          /\ UNCHANGED outcome
          /\ IF n \notin DOMAIN known THEN readers' = advanced(body.offset) /\ UNCHANGED fields
             ELSE IF known[n] = "original"
             THEN /\ readers' = Append(advanced(body.offset), [offset |-> body.value[1], count |-> body.value[2]])
                  /\ fields' = original
             ELSE /\ readers' = advanced(body.offset)
                  /\ Take(known[n], IF known[n] = "oneWay" THEN body.value # 0 ELSE body.value)
      BY <1>2, Zenon DEF Field, fieldRead, tag, n, body
    <2>2. /\ body.offset \in reader.offset + 1 .. reader.count
          /\ n \in DOMAIN known =>
               /\ body.value \in fieldValues(known[n], reader.offset + 2, reader.count)
               /\ known[n] = "original" => body.value[2] = body.offset
      BY <2>1, FieldResult DEF n
    <2>3. FieldsInv
      BY DEF CodecInv, TypeOK, FieldsInv
    <2>4. CASE outcome = "reading"
      <3>1. CASE n \notin DOMAIN known
        <4>1. FieldsInv'
          BY <2>1, <2>3, <3>1 DEF FieldsInv, ranges
        <4>2. QED
          BY <2>1, <2>2, <2>4, <3>1, <4>1, ReadsOn
      <3>2. CASE n \in DOMAIN known /\ known[n] = "original"
        <4>1. ~nested
          BY <3>2, KnownFields DEF inEnvelope
        <4>2. /\ body.value \in rangesIn(reader.offset + 2, reader.count)
              /\ body.value[2] = body.offset
          BY <2>2, <3>2 DEF fieldValues
        <4>3. body.value[1] \in reader.offset + 2 .. body.offset
          BY <4>2, ReaderFacts DEF rangesIn
        <4>4. QED
          BY <2>1, <2>2, <2>4, <3>2, <4>1, <4>2, <4>3, Nests DEF opens
      <3>3. CASE n \in DOMAIN known /\ known[n] # "original"
        <4>1. known[n] \in DOMAIN Defaults
          BY <3>3, KnownFields
        <4>2. FieldsInv'
          BY <2>1, <2>2, <3>3, <4>1, TakeKeeps
        <4>3. QED
          BY <2>1, <2>2, <2>4, <3>3, <4>2, ReadsOn
      <3>4. QED
        BY <3>1, <3>2, <3>3
    <2>5. QED
      BY <2>4
  <1>3. QED
    BY <1>1, <1>2

LEMMA EndStep ==
  ASSUME CodecInv, EndOfMessage, UNCHANGED frame, outcome = "reading"
  PROVE  CodecInv' /\ (outcome' = "reading" => left' < left)
  <1>1. CASE ~nested
    BY <1>1 DEF EndOfMessage, throw, CodecInv, TypeOK, nested, reader, ranges
  <1>2. CASE nested
    <2>1. readers' = <<readers[1]>> /\ UNCHANGED <<fields, outcome>> /\ reader.offset = reader.count
      BY <1>2 DEF EndOfMessage
    <2>2. /\ readers[1] \in [offset : Nat, count : Nat] /\ readers[1].offset <= readers[1].count
          /\ reader \in [offset : Nat, count : Nat]
      BY ReaderFacts
    <2>3. /\ readers' \in Seq([offset : Nat, count : Nat]) /\ Len(readers') = 1
          /\ readers'[1] = readers[1] /\ ~nested' /\ DOMAIN readers' = {1}
      BY <2>1, <2>2 DEF nested
    <2>4. CodecInv'
      BY <2>1, <2>2, <2>3 DEF CodecInv, TypeOK, ranges
    <2>5. left = (readers[1].count - readers[1].offset) + 1 + reader.count - reader.offset
      BY <1>2, <2>2 DEF left
    <2>6. left' = (readers[1].count - readers[1].offset) + 0
      BY <2>3 DEF left
    <2>7. /\ readers[1].count \in Nat /\ readers[1].offset \in Nat
          /\ reader.count \in Nat /\ reader.offset = reader.count
      BY <2>1, <2>2
    <2>8. QED
      BY <2>4, <2>5, <2>6, <2>7
  <1>3. QED
    BY <1>1, <1>2

LEMMA StepInv == CodecInv /\ [Next]_vars => CodecInv'
  <1> SUFFICES ASSUME CodecInv, [Next]_vars PROVE CodecInv'
    OBVIOUS
  <1>1. CASE Next
    BY <1>1, FieldStep, EndStep DEF Next
  <1>2. CASE UNCHANGED vars
    BY <1>2 DEF vars, CodecInv, TypeOK, nested, reader, ranges
  <1>3. QED
    BY <1>1, <1>2

-----------------------------------------------------------------------------
(* A field is what an iteration reads.                                     *)

\* A varint that is read is one, and there is no other behind the same byte.
LEMMA Varints ==
  ASSUME frame \in Seq(Nat), NEW p \in Nat, NEW count \in Nat, p <= count, count <= Len(frame),
         NEW r, r = readVarintRaw(p, count)
  PROVE  /\ r.ok => /\ r.offset \in Nat /\ r.offset \in p + 1 .. count /\ r.value \in Nat
                    /\ isVarint(p, r.offset) /\ end(p) = r.offset /\ number(p, r.offset) = r.value
         /\ \A q \in p + 1 .. count : isVarint(p, q) => r.ok /\ r.offset = q
  <1>1. \A q \in p + 1 .. count : isVarint(p, q) <=> r.ok /\ r.offset = q
    BY VarintsAreRead
  <1>2. ASSUME r.ok
        PROVE  /\ r.offset \in Nat /\ r.offset \in p + 1 .. count /\ r.value \in Nat
               /\ isVarint(p, r.offset) /\ end(p) = r.offset /\ number(p, r.offset) = r.value
    <2>1. r \in Results(Nat, p, count)
      BY VarintResult
    <2>2. r.offset \in Nat /\ r.offset \in p + 1 .. count /\ r.value \in Nat
      BY <1>2, <2>1, ReadGives
    <2>3. isVarint(p, r.offset)
      BY <1>1, <1>2, <2>2
    <2>4. number(p, r.offset) = r.value
      BY <1>2, VarintValue
    <2>5. end(p) = r.offset
      <3>1. Len(frame) \in Nat /\ p <= Len(frame) /\ r.offset \in p + 1 .. Len(frame)
        BY <2>2
      <3>2. \A q \in p + 1 .. Len(frame) : isVarint(p, q) => q = r.offset
        <4>1. PICK all \in Nat : all = Len(frame)
          BY <3>1
        <4>2. r.offset = readVarintRaw(p, all).offset
          BY <2>3, <3>1, <4>1, VarintsAreRead
        <4>3. \A q \in p + 1 .. all : isVarint(p, q) => readVarintRaw(p, all).offset = q
          BY <3>1, <4>1, VarintsAreRead
        <4>4. QED
          BY <4>1, <4>2, <4>3
      <3>3. QED
        BY <2>3, <3>1, <3>2 DEF end
    <2>6. QED
      BY <2>2, <2>3, <2>4, <2>5
  <1>3. QED
    BY <1>1, <1>2

\* What follows a tag of this type, from byte m.
isBody(type, m, q) ==
  \/ type = 0 /\ isVarint(m, q)
  \/ type = 1 /\ q = m + Fixed1
  \/ type = 5 /\ q = m + Fixed5
  \/ type = 2 /\ \E n \in m + 1 .. q : isVarint(m, n) /\ q = n + number(m, n)

LEMMA BytesAreBody ==
  ASSUME frame \in Seq(Nat), NEW m \in Nat, NEW count \in Nat, m <= count, count <= Len(frame),
         NEW b, b = readBytes(2, m, count)
  PROVE  /\ \A q \in m .. count : isBody(2, m, q) <=> b.ok /\ b.offset = q
         /\ b.ok => b.value = <<end(m), b.offset>>
  <1>0. PICK r : r = readVarintRaw(m, count)
    OBVIOUS
  <1>1. /\ r.ok => /\ r.offset \in Nat /\ r.offset \in m + 1 .. count /\ r.value \in Nat
                   /\ isVarint(m, r.offset) /\ end(m) = r.offset /\ number(m, r.offset) = r.value
        /\ \A q \in m + 1 .. count : isVarint(m, q) => r.ok /\ r.offset = q
    BY <1>0, Varints
  <1>2. /\ r.ok /\ r.value <= count - r.offset =>
             b = value(<<r.offset, r.offset + r.value>>, r.offset + r.value)
        /\ ~(r.ok /\ r.value <= count - r.offset) => b = thrown
    BY <1>0 DEF readBytes
  <1>3. CASE r.ok /\ r.value <= count - r.offset
    <2>1. b.ok /\ b.value = <<r.offset, r.offset + r.value>> /\ b.offset = r.offset + r.value
      BY <1>2, <1>3 DEF value
    <2>2. \A q \in m .. count : isBody(2, m, q) <=> q = r.offset + r.value
      <3> SUFFICES ASSUME NEW q \in m .. count
                   PROVE  (\E n \in m + 1 .. q : isVarint(m, n) /\ q = n + number(m, n)) <=> q = r.offset + r.value
        BY DEF isBody
      <3>1. \A n \in m + 1 .. q : n \in m + 1 .. count
        OBVIOUS
      <3>2. q = r.offset + r.value => r.offset \in m + 1 .. q
        <4>1. r.offset \in Nat /\ r.offset \in m + 1 .. count /\ r.value \in Nat
          BY <1>1, <1>3
        <4>2. QED
          BY <4>1
      <3>3. QED
        BY <1>1, <1>3, <3>1, <3>2
    <2>3. QED
      BY <1>1, <1>3, <2>1, <2>2
  <1>4. CASE ~(r.ok /\ r.value <= count - r.offset)
    <2>1. ~b.ok
      BY <1>2, <1>4 DEF thrown
    <2>2. ASSUME NEW q \in m .. count, isBody(2, m, q) PROVE FALSE
      <3>1. PICK n \in m + 1 .. q : isVarint(m, n) /\ q = n + number(m, n)
        BY <2>2 DEF isBody
      <3>2. n \in m + 1 .. count
        OBVIOUS
      <3>3. r.ok /\ r.offset = n /\ r.value = number(m, n) /\ r.value \in Nat
        BY <1>1, <3>1, <3>2
      <3>4. QED
        BY <1>4, <3>1, <3>3
    <2>3. QED
      BY <2>1, <2>2
  <1>5. QED
    BY <1>3, <1>4

LEMMA SkipsBody ==
  ASSUME frame \in Seq(Nat), NEW m \in Nat, NEW count \in Nat, m <= count, count <= Len(frame),
         NEW type, NEW s, s = skip(type, m, count)
  PROVE  \A q \in m .. count : isBody(type, m, q) <=> s.ok /\ s.offset = q
  <1>1. CASE type = 0
    <2>1. s = readVarintRaw(m, count)
      BY <1>1 DEF skip
    <2>2. \A q \in m .. count : isBody(0, m, q) => q # m
      BY DEF isBody, isVarint
    <2>3. \A q \in m .. count : isBody(0, m, q) <=> isVarint(m, q)
      BY DEF isBody
    <2>4. \A q \in m .. count : q # m => q \in m + 1 .. count
      OBVIOUS
    <2>5. QED
      BY <1>1, <2>1, <2>2, <2>3, <2>4, Varints
  <1>2. CASE type = 2
    <2>1. s = readBytes(2, m, count)
      BY <1>2 DEF skip
    <2>2. QED
      BY <1>2, <2>1, BytesAreBody
  <1>3. CASE type \in {1, 5}
    <2> DEFINE size == IF type = 1 THEN Fixed1 ELSE Fixed5
    <2>1. /\ size <= count - m => s = value(0, m + size)
          /\ ~(size <= count - m) => s = thrown
      BY <1>3 DEF skip
    <2>2. \A q \in m .. count : isBody(type, m, q) <=> q = m + size
      BY <1>3 DEF isBody
    <2>3. size \in Nat
      BY CodecAssumption
    <2> HIDE DEF size
    <2>4. CASE size <= count - m
      <3>1. s.ok /\ s.offset = m + size
        BY <2>1, <2>4 DEF value
      <3>2. QED
        BY <2>2, <3>1
    <2>5. CASE ~(size <= count - m)
      <3>1. ~s.ok
        BY <2>1, <2>5 DEF thrown
      <3>2. QED
        BY <2>2, <2>3, <2>5, <3>1
    <2>6. QED
      BY <2>4, <2>5
  <1>4. CASE type \notin {0, 1, 2, 5}
    <2>1. s = thrown
      BY <1>4 DEF skip
    <2>2. ~s.ok
      BY <2>1 DEF thrown
    <2>3. QED
      BY <1>4, <2>2 DEF isBody
  <1>5. QED
    BY <1>1, <1>2, <1>3, <1>4

\* The field <<p, q>>, if its tag is read: the number and the type that are in the
\* tag, and what follows.
parts(p, count, tag, q) ==
  /\ ~tag.ok => ~isField(<<p, q>>)
  /\ tag.ok => /\ tag.offset \in Nat /\ tag.offset <= count /\ tag.offset > p
               /\ fieldNumber(<<p, q>>) = tag.value \div 8 /\ fieldType(<<p, q>>) = tag.value % 8
               /\ tag.value \div 8 \in Nat /\ end(p) = tag.offset
               /\ isField(<<p, q>>) <=>
                    tag.value \div 8 > 0 /\ q >= tag.offset /\ isBody(tag.value % 8, tag.offset, q)

LEMMA FieldParts ==
  ASSUME frame \in Seq(Nat), NEW p \in Nat, NEW count \in Nat, p < count, count <= Len(frame),
         NEW tag, tag = readVarintRaw(p, count), NEW q \in p + 1 .. count
  PROVE  parts(p, count, tag, q)
  <1>0. PICK f : f = <<p, q>>
    OBVIOUS
  <1>1. f[1] = p /\ f[2] = q
    BY <1>0
  <1>2. /\ tag.ok => /\ tag.offset \in Nat /\ tag.offset \in p + 1 .. count /\ tag.value \in Nat
                     /\ isVarint(p, tag.offset) /\ end(p) = tag.offset /\ number(p, tag.offset) = tag.value
        /\ \A m \in p + 1 .. count : isVarint(p, m) => tag.ok /\ tag.offset = m
    BY Varints
  <1>3. \A m \in p + 1 .. q : m \in p + 1 .. count
    OBVIOUS
  <1>4. isField(f) => tag.ok
    BY <1>1, <1>2, <1>3 DEF isField
  <1>5. ASSUME tag.ok
        PROVE  /\ tag.offset \in Nat /\ tag.offset <= count /\ tag.offset > p
               /\ fieldNumber(f) = tag.value \div 8 /\ fieldType(f) = tag.value % 8
               /\ tag.value \div 8 \in Nat /\ end(p) = tag.offset
               /\ isField(f) <=>
                    tag.value \div 8 > 0 /\ q >= tag.offset /\ isBody(tag.value % 8, tag.offset, q)
    <2>1. fieldNumber(f) = tag.value \div 8 /\ fieldType(f) = tag.value % 8 /\ tag.value \div 8 \in Nat
      BY <1>1, <1>2, <1>5 DEF fieldNumber, fieldType
    <2>2. PICK n, t : n = fieldNumber(f) /\ t = fieldType(f)
      OBVIOUS
    <2>3. isField(f) <=> \E m \in p + 1 .. q : isVarint(p, m) /\ n > 0 /\ isBody(t, m, q)
      BY <1>1, <2>2 DEF isField, isBody
    <2>4. isField(f) <=> n > 0 /\ q >= tag.offset /\ isBody(t, tag.offset, q)
      <3>1. tag.offset \in p + 1 .. q <=> q >= tag.offset
        BY <1>2, <1>5
      <3>2. QED
        BY <1>2, <1>3, <1>5, <2>3, <3>1
    <2>5. QED
      BY <1>2, <1>5, <2>1, <2>2, <2>4
  <1>6. QED
    BY <1>0, <1>4, <1>5, Zenon DEF parts

\* What a field holds, given the type in its tag.
LEMMA ContentParts ==
  ASSUME NEW p, NEW q
  PROVE  /\ fieldType(<<p, q>>) = 0 => content(<<p, q>>) = number(end(p), q)
         /\ fieldType(<<p, q>>) = 2 => content(<<p, q>>) = <<end(end(p)), q>>
  BY DEF content

LEMMA KnownNames ==
  ASSUME NEW n \in DOMAIN known
  PROVE  known[n] \in Strings \cup {"payload", "original"} \cup {"kind", "oneWay", "reason"}
  BY KnownFields, DefaultsType DEF Strings

\* An iteration: the tag, its number, and the read it chooses.
iteration(tag, n, body) ==
  /\ tag = readVarintRaw(reader.offset, reader.count)
  /\ n = tag.value \div 8
  /\ body = read(n, tag.value % 8, tag.offset)

\* Every field that begins behind p has this tag, which ends at m.
tagged(p, count, m, n, t) ==
  /\ frame \in Seq(Nat) /\ p \in Nat /\ count \in Nat /\ count <= Len(frame) /\ count = reader.count
  /\ m \in p + 1 .. count /\ end(p) = m
  /\ \A q \in p + 1 .. count : fieldNumber(<<p, q>>) = n /\ fieldType(<<p, q>>) = t

\* Behind the tag, an iteration reads what follows a tag of this type, if that is the
\* type which the name asks for, and what the field holds.
LEMMA ReadsBody ==
  ASSUME NEW p, NEW count, NEW m, NEW n, NEW t, tagged(p, count, m, n, t),
         NEW body, body = read(n, t, m), body.ok => body.offset \in m .. count
  PROVE  /\ \A q \in m .. count : isBody(t, m, q) /\ wellTyped(<<p, q>>, known) <=> body.ok /\ body.offset = q
         /\ body.ok /\ n \in DOMAIN known => body.value = content(<<p, body.offset>>)
  <1>0. count = reader.count /\ end(p) = m
    BY DEF tagged
  <1>1. frame \in Seq(Nat) /\ m \in Nat /\ count \in Nat /\ m <= count /\ count <= Len(frame)
    BY DEF tagged
  <1>2. \A q \in m .. count : fieldNumber(<<p, q>>) = n /\ fieldType(<<p, q>>) = t
    <2>1. \A q \in m .. count : q \in p + 1 .. count
      BY DEF tagged
    <2>2. QED
      BY <2>1 DEF tagged
  <1>3. CASE n \notin DOMAIN known
    <2>1. body = skip(t, m, count)
      BY <1>0, <1>3 DEF read
    <2>2. \A q \in m .. count : wellTyped(<<p, q>>, known)
      BY <1>2, <1>3 DEF wellTyped
    <2>3. \A q \in m .. count : isBody(t, m, q) <=> body.ok /\ body.offset = q
      BY <1>1, <2>1, SkipsBody
    <2>4. QED
      BY <1>3, <2>2, <2>3
  <1>4. CASE n \in DOMAIN known /\ known[n] \in Strings \cup {"payload", "original"}
    <2> PICK b : b = readBytes(2, m, count)
      OBVIOUS
    <2>1. /\ \A q \in m .. count : isBody(2, m, q) <=> b.ok /\ b.offset = q
          /\ b.ok => b.value = <<end(m), b.offset>>
      BY <1>1, BytesAreBody
    <2>2. \A q \in m .. count :
            wellTyped(<<p, q>>, known) <=> t = 2 /\ (known[n] \in Strings => isUTF8(content(<<p, q>>)))
      <3>1. known[n] \notin {"kind", "oneWay", "reason"}
        BY <1>4 DEF Strings
      <3>2. QED
        BY <1>2, <1>4, <3>1 DEF wellTyped
    <2>3. CASE t # 2
      <3>1. body = IF known[n] \in Strings THEN readString(t, m, count) ELSE readBytes(t, m, count)
        BY <1>0, <1>4 DEF read
      <3>2. readBytes(t, m, count) = thrown
        BY <2>3 DEF readBytes
      <3>3. readString(t, m, count) = thrown
        BY <3>2 DEF readString, thrown
      <3>4. ~body.ok
        BY <3>1, <3>2, <3>3 DEF thrown
      <3>5. QED
        BY <2>2, <2>3, <3>4
    <2>4. CASE t = 2
      <3>1. \A q \in m .. count : content(<<p, q>>) = <<end(m), q>>
        BY <1>0, <1>2, <2>4, ContentParts
      <3>2. CASE known[n] \in Strings
        <4>1. body = readString(2, m, count)
          BY <1>0, <1>4, <2>4, <3>2 DEF read
        <4>2. b.ok /\ isUTF8(b.value) => body = b
          BY <4>1 DEF readString
        <4>3. ~(b.ok /\ isUTF8(b.value)) => ~body.ok
          BY <4>1 DEF readString, thrown
        <4>4. \A q \in m .. count : isBody(2, m, q) /\ isUTF8(<<end(m), q>>) <=> body.ok /\ body.offset = q
          BY <2>1, <4>2, <4>3
        <4>5. \A q \in m .. count : wellTyped(<<p, q>>, known) <=> isUTF8(<<end(m), q>>)
          BY <2>2, <2>4, <3>1, <3>2
        <4>6. body.ok => body.value = content(<<p, body.offset>>)
          BY <2>1, <3>1, <4>2, <4>3
        <4>7. QED
          BY <2>4, <4>4, <4>5, <4>6
      <3>3. CASE known[n] \notin Strings
        <4>1. body = b
          BY <1>0, <1>4, <2>4, <3>3 DEF read
        <4>2. \A q \in m .. count : wellTyped(<<p, q>>, known)
          BY <2>2, <2>4, <3>3
        <4>3. body.ok => body.value = content(<<p, body.offset>>)
          BY <2>1, <3>1, <4>1
        <4>4. QED
          BY <2>1, <2>4, <4>1, <4>2, <4>3
      <3>4. QED
        BY <3>2, <3>3
    <2>5. QED
      BY <2>3, <2>4
  <1>5. CASE n \in DOMAIN known /\ known[n] \notin Strings \cup {"payload", "original"}
    <2>1. known[n] \in {"kind", "oneWay", "reason"}
      BY <1>5, KnownNames
    <2>2. \A q \in m .. count : wellTyped(<<p, q>>, known) <=> t = 0
      BY <1>2, <1>5, <2>1 DEF wellTyped
    <2>3. body = readVarint(t, m, count)
      BY <1>0, <1>5 DEF read
    <2>4. CASE t # 0
      <3>1. ~body.ok
        BY <2>3, <2>4 DEF readVarint, thrown
      <3>2. QED
        BY <2>2, <2>4, <3>1
    <2>5. CASE t = 0
      <3>1. body = readVarintRaw(m, count)
        BY <2>3, <2>5 DEF readVarint
      <3>2. body = skip(0, m, count)
        BY <3>1 DEF skip
      <3>3. \A q \in m .. count : isBody(0, m, q) <=> body.ok /\ body.offset = q
        BY <1>1, <3>2, SkipsBody
      <3>4. body.ok => body.value = number(m, body.offset)
        BY <1>1, <3>1, Varints
      <3>5. \A q \in m .. count : content(<<p, q>>) = number(m, q)
        BY <1>0, <1>2, <2>5, ContentParts
      <3>6. body.ok => body.value = content(<<p, body.offset>>)
        BY <3>4, <3>5
      <3>7. QED
        BY <2>2, <2>5, <3>3, <3>6
    <2>6. QED
      BY <2>4, <2>5
  <1>6. QED
    BY <1>3, <1>4, <1>5

\* It reads the field behind the reader, if there is one that ends within the
\* message and has the type that is asked for; and it reads what the field holds.
LEMMA ReadsField ==
  ASSUME CodecInv, reader.offset < reader.count, NEW tag, NEW n, NEW body, iteration(tag, n, body)
  PROVE  /\ \A q \in reader.offset + 1 .. reader.count :
              isField(<<reader.offset, q>>) /\ wellTyped(<<reader.offset, q>>, known)
              <=> tag.ok /\ n # 0 /\ body.ok /\ body.offset = q
         /\ tag.ok /\ n # 0 /\ body.ok =>
              /\ body.offset \in reader.offset + 1 .. reader.count
              /\ fieldNumber(<<reader.offset, body.offset>>) = n
              /\ n \in DOMAIN known => body.value = content(<<reader.offset, body.offset>>)
  <1> PICK p, count : p = reader.offset /\ count = reader.count
    OBVIOUS
  <1>1. /\ frame \in Seq(Nat) /\ p \in Nat /\ count \in Nat /\ p < count /\ count <= Len(frame)
        /\ p + 1 \in p + 1 .. count
    <2>1. frame \in Seq(Nat)
      BY DEF CodecInv
    <2>2. p \in Nat /\ count \in Nat /\ count <= Len(frame)
      BY ReaderFacts
    <2>3. QED
      BY <2>1, <2>2
  <1>2. tag = readVarintRaw(p, count)
    BY DEF iteration
  <1>0. \A q \in p + 1 .. count : parts(p, count, tag, q)
    BY <1>1, <1>2, FieldParts
  <1>3. CASE ~tag.ok
    <2>1. \A q \in p + 1 .. count : ~isField(<<p, q>>)
      BY <1>0, <1>3 DEF parts
    <2>2. QED
      BY <1>3, <2>1
  <1>4. CASE tag.ok
    <2> PICK m, t : m = tag.offset /\ t = tag.value % 8
      OBVIOUS
    <2>1. n = tag.value \div 8 /\ body = read(n, t, m)
      BY DEF iteration
    <2>2. m \in Nat /\ m <= count /\ m > p /\ n \in Nat /\ end(p) = m
      <3>1. parts(p, count, tag, p + 1)
        BY <1>0, <1>1
      <3>2. QED
        BY <1>4, <2>1, <3>1 DEF parts
    <2>3. \A q \in p + 1 .. count : fieldNumber(<<p, q>>) = n /\ fieldType(<<p, q>>) = t
      BY <1>0, <1>4, <2>1 DEF parts
    <2>4. \A q \in p + 1 .. count : isField(<<p, q>>) <=> n > 0 /\ q >= m /\ isBody(t, m, q)
      BY <1>0, <1>4, <2>1 DEF parts
    <2>5. m \in p + 1 .. count
      BY <1>1, <2>2
    <2>6. body.ok => body.offset \in m .. count
      BY <1>1, <2>1, <2>2, ReadResult
    <2>7. /\ \A q \in m .. count : isBody(t, m, q) /\ wellTyped(<<p, q>>, known) <=> body.ok /\ body.offset = q
          /\ body.ok /\ n \in DOMAIN known => body.value = content(<<p, body.offset>>)
      <3>1. tagged(p, count, m, n, t)
        BY <1>1, <2>2, <2>3, <2>5 DEF tagged
      <3>2. QED
        BY <2>1, <2>6, <3>1, ReadsBody
    <2>8. ASSUME NEW q \in p + 1 .. count
          PROVE  isField(<<p, q>>) /\ wellTyped(<<p, q>>, known) <=> n # 0 /\ body.ok /\ body.offset = q
      <3>1. q >= m <=> q \in m .. count
        BY <1>1, <2>2
      <3>2. n > 0 <=> n # 0
        BY <2>2
      <3>3. isField(<<p, q>>) <=> n # 0 /\ q \in m .. count /\ isBody(t, m, q)
        BY <2>4, <3>1, <3>2
      <3>4. CASE q \in m .. count
        <4>1. isBody(t, m, q) /\ wellTyped(<<p, q>>, known) <=> body.ok /\ body.offset = q
          BY <2>7, <3>4
        <4>2. QED
          BY <3>3, <3>4, <4>1
      <3>5. CASE q \notin m .. count
        <4>1. ~(body.ok /\ body.offset = q)
          BY <2>6, <3>5
        <4>2. QED
          BY <3>3, <3>5, <4>1
      <3>6. QED
        BY <3>4, <3>5
    <2>9. body.ok => body.offset \in p + 1 .. count
      BY <1>1, <2>2, <2>6
    <2>10. body.ok => fieldNumber(<<p, body.offset>>) = n
      BY <2>3, <2>9
    <2>11. QED
      BY <1>4, <2>7, <2>8, <2>9, <2>10
  <1>5. QED
    BY <1>3, <1>4

\* No two fields begin at the same byte.
LEMMA FieldUnique ==
  ASSUME frame \in Seq(Nat), NEW p \in Nat, NEW q \in p + 1 .. Len(frame), NEW q2 \in p + 1 .. Len(frame),
         isField(<<p, q>>), isField(<<p, q2>>)
  PROVE  q = q2
  <1> PICK tag, count : tag = readVarintRaw(p, count) /\ count = Len(frame)
    OBVIOUS
  <1>1. count \in Nat /\ p < count /\ count <= Len(frame)
    OBVIOUS
  <1> DEFINE m == tag.offset  type == tag.value % 8
  <1>0. parts(p, count, tag, q) /\ parts(p, count, tag, q2)
    BY <1>1, FieldParts
  <1>2. tag.ok
    BY <1>0 DEF parts
  <1>3. m \in Nat /\ m <= count
    BY <1>0, <1>2 DEF parts
  <1>4. q >= m /\ isBody(type, m, q)
    BY <1>0, <1>2 DEF parts
  <1>5. q2 >= m /\ isBody(type, m, q2)
    BY <1>0, <1>2 DEF parts
  <1> HIDE DEF m, type
  <1>6. q \in m .. count /\ q2 \in m .. count
    BY <1>3, <1>4, <1>5
  <1>7. PICK body : body = skip(type, m, count)
    OBVIOUS
  <1>8. \A e \in m .. count : isBody(type, m, e) => body.offset = e
    BY <1>1, <1>3, <1>7, SkipsBody
  <1>9. QED
    BY <1>4, <1>5, <1>6, <1>8

-----------------------------------------------------------------------------
(* Layouts.                                                                *)

\* Of a set of cuts, each but the last has a next one, and each but the first one
\* before it.
LEMMA Neighbours ==
  ASSUME NEW s \in Nat, NEW o \in Nat, NEW C \in SUBSET (s .. o), s \in C, o \in C, NEW a \in C
  PROVE  /\ a # o => \E b \in C : a < b /\ \A c \in C : c <= a \/ c >= b
         /\ a # s => \E b \in C : b < a /\ \A c \in C : c <= b \/ c >= a
  <1>0. s <= a /\ a <= o /\ a \in Nat
    OBVIOUS
  <1>1. ASSUME a # o, \A b \in C : ~(a < b /\ \A c \in C : c <= a \/ c >= b)
        PROVE  FALSE
    <2> DEFINE T == {i \in a .. o : \A c \in C : c <= a \/ c > i}
    <2>1. a \in T
      BY <1>0
    <2>2. ASSUME NEW i \in a .. o, i # o, i \in T
          PROVE  i + 1 \in T
      <3>1. i + 1 \in a .. o /\ i + 1 > a
        BY <1>0, <2>2
      <3>2. \A c \in C : c <= a \/ c >= i + 1
        BY <1>0, <2>2
      <3>3. i + 1 \notin C
        BY <1>1, <3>1, <3>2
      <3>4. \A c \in C : c <= a \/ c > i + 1
        BY <1>0, <3>2, <3>3
      <3>5. QED
        BY <3>1, <3>4
    <2>3. o \in T
      <3> HIDE DEF T
      <3>1. o \in a .. o
        BY <1>0
      <3>2. QED
        BY <1>0, <2>1, <2>2, <3>1, InductionUp
    <2>4. QED
      BY <1>0, <1>1, <2>3
  <1>2. ASSUME a # s, \A b \in C : ~(b < a /\ \A c \in C : c <= b \/ c >= a)
        PROVE  FALSE
    <2> DEFINE T == {i \in s .. a : \A c \in C : c < i \/ c >= a}
    <2>1. a \in T
      BY <1>0
    <2>2. ASSUME NEW i \in s .. a, i # a, i + 1 \in T
          PROVE  i \in T
      <3>1. i < a
        BY <1>0, <2>2
      <3>2. \A c \in C : c <= i \/ c >= a
        BY <1>0, <2>2
      <3>3. i \notin C
        BY <1>2, <3>1, <3>2
      <3>4. \A c \in C : c < i \/ c >= a
        BY <1>0, <3>2, <3>3
      <3>5. QED
        BY <3>4
    <2>3. s \in T
      <3> HIDE DEF T
      <3>1. QED
        BY <1>0, <2>1, <2>2, InductionBack
    <2>4. QED
      BY <1>0, <1>2, <2>3
  <1>3. QED
    BY <1>1, <1>2

\* The fields lie between s and o, one behind the other without a gap.
tiles(fs, s, o) ==
  /\ \A f \in fs : /\ f = <<f[1], f[2]>> /\ f[1] \in Nat /\ f[2] \in Nat
                   /\ s <= f[1] /\ f[1] < f[2] /\ f[2] <= o
  /\ \A f \in fs : /\ f[1] = s \/ \E g \in fs : g[2] = f[1]
                   /\ f[2] = o \/ \E g \in fs : g[1] = f[2]
  /\ s < o => (\E f \in fs : f[1] = s) /\ \E f \in fs : f[2] = o

LEMMA LayoutTiles ==
  ASSUME NEW s \in Nat, NEW o \in Nat, s <= o, NEW fs \in Layouts(<<s, o>>)
  PROVE  tiles(fs, s, o)
  <1>1. PICK cuts \in SUBSET (s .. o) : fs = partition(cuts \cup {s, o})
    BY DEF Layouts
  <1> DEFINE C == cuts \cup {s, o}
  <1>2. C \in SUBSET (s .. o) /\ s \in C /\ o \in C /\ fs = partition(C)
    BY <1>1
  <1> HIDE DEF C
  <1>3. \A f : f \in fs <=> /\ f \in C \X C /\ f[1] < f[2]
                            /\ \A c \in C : c <= f[1] \/ c >= f[2]
    BY <1>2 DEF partition
  <1>4. \A f \in fs : /\ f = <<f[1], f[2]>> /\ f[1] \in C /\ f[2] \in C /\ f[1] < f[2]
    BY <1>3
  <1>5. \A c \in C : c \in Nat /\ s <= c /\ c <= o
    BY <1>2
  <1>6. \A a, b \in C : a < b /\ (\A c \in C : c <= a \/ c >= b) => <<a, b>> \in fs
    BY <1>3
  <1>7. \A a \in C : a # o => \E f \in fs : f[1] = a
    <2> TAKE a \in C
    <2> HAVE a # o
    <2>1. PICK b \in C : a < b /\ \A c \in C : c <= a \/ c >= b
      BY <1>2, Neighbours
    <2>2. <<a, b>> \in fs
      BY <1>6, <2>1
    <2>3. QED
      BY <2>2
  <1>8. \A a \in C : a # s => \E f \in fs : f[2] = a
    <2> TAKE a \in C
    <2> HAVE a # s
    <2>1. PICK b \in C : b < a /\ \A c \in C : c <= b \/ c >= a
      BY <1>2, Neighbours
    <2>2. <<b, a>> \in fs
      BY <1>6, <2>1
    <2>3. QED
      BY <2>2
  <1>9. QED
    BY <1>2, <1>4, <1>5, <1>7, <1>8 DEF tiles

\* A part without bytes is laid out without fields.
LEMMA NoFields ==
  ASSUME NEW s \in Nat
  PROVE  {} \in Layouts(<<s, s>>)
  <1>1. partition({} \cup {s, s}) = {}
    BY DEF partition
  <1>2. {} \in SUBSET (s .. s)
    OBVIOUS
  <1>3. QED
    BY <1>1, <1>2 DEF Layouts

\* A layout and a field behind it.
LEMMA OneMoreField ==
  ASSUME NEW s \in Nat, NEW o \in Nat, s <= o, NEW q \in Nat, o < q, NEW fs \in Layouts(<<s, o>>)
  PROVE  fs \cup {<<o, q>>} \in Layouts(<<s, q>>)
  <1>1. PICK cuts \in SUBSET (s .. o) : fs = partition(cuts \cup {s, o})
    BY DEF Layouts
  <1> DEFINE C == cuts \cup {s, o}  D == C \cup {q}
  <1>2. C \in SUBSET (s .. o) /\ s \in C /\ o \in C /\ fs = partition(C)
    BY <1>1
  <1>3. D \in SUBSET (s .. q) /\ D \cup {s, q} = D
    BY <1>2
  <1> HIDE DEF C
  <1>4. \A c \in C : c \in Nat /\ c <= o
    BY <1>2
  <1>5. ASSUME NEW f
        PROVE  f \in partition(D) <=> f \in partition(C) \/ f = <<o, q>>
    <2>1. ASSUME f \in partition(D), f # <<o, q>> PROVE f \in partition(C)
      <3>1. /\ f \in D \X D /\ f[1] < f[2]
            /\ \A c \in D : c <= f[1] \/ c >= f[2]
        BY <2>1 DEF partition
      <3>2. f = <<f[1], f[2]>> /\ f[1] \in D /\ f[2] \in D
        BY <3>1
      <3>3. f[2] # q
        <4> SUFFICES ASSUME f[2] = q PROVE FALSE
          OBVIOUS
        <4>1. f[1] \in C
          BY <1>4, <3>1, <3>2
        <4>2. f[1] = o
          <5>1. o \in D /\ ~(o >= q)
            BY <1>2
          <5>2. o <= f[1]
            BY <3>1, <5>1
          <5>3. QED
            BY <1>4, <4>1, <5>2
        <4>3. QED
          BY <2>1, <3>2, <4>2
      <3>4. f[1] # q
        BY <1>4, <3>1, <3>2
      <3>5. f \in C \X C
        BY <3>2, <3>3, <3>4
      <3>6. QED
        BY <3>1, <3>5 DEF partition
    <2>2. ASSUME f \in partition(C) PROVE f \in partition(D)
      <3>1. /\ f \in C \X C /\ f[1] < f[2]
            /\ \A c \in C : c <= f[1] \/ c >= f[2]
        BY <2>2 DEF partition
      <3>2. f[2] \in C
        BY <3>1
      <3>3. q >= f[2]
        BY <1>4, <3>2
      <3>4. f \in D \X D
        BY <3>1
      <3>5. QED
        BY <3>1, <3>3, <3>4 DEF partition
    <2>3. <<o, q>> \in partition(D)
      BY <1>2, <1>4 DEF partition
    <2>4. QED
      BY <2>1, <2>2, <2>3
  <1>6. partition(D) = fs \cup {<<o, q>>}
    BY <1>2, <1>5
  <1> HIDE DEF D
  <1>7. QED
    BY <1>3, <1>6 DEF Layouts

\* What is laid out up to o is how every layout of the whole part begins: the
\* fields leave no choice where to cut.
LEMMA Prefix ==
  ASSUME frame \in Seq(Nat), NEW s \in Nat, NEW o \in Nat, NEW e \in Nat, s <= o, o <= e, e <= Len(frame),
         NEW fs \in Layouts(<<s, o>>), isLayout(fs), NEW gs \in Layouts(<<s, e>>), isLayout(gs)
  PROVE  fs \subseteq gs
  <1>1. tiles(fs, s, o) /\ tiles(gs, s, e)
    BY LayoutTiles
  <1>2. /\ \A f \in fs : /\ f = <<f[1], f[2]>> /\ f[1] \in Nat /\ f[2] \in Nat
                         /\ s <= f[1] /\ f[1] < f[2] /\ f[2] <= o
        /\ \A g \in gs : /\ g = <<g[1], g[2]>> /\ g[1] \in Nat /\ g[2] \in Nat
                         /\ s <= g[1] /\ g[1] < g[2] /\ g[2] <= e
    BY <1>1 DEF tiles
  <1> DEFINE S == {k \in s .. o : \A f \in fs : f[2] <= k => f \in gs}
  <1>3. s \in S
    BY <1>2
  <1>4. ASSUME NEW k \in s .. o, k # o, k \in S
        PROVE  k + 1 \in S
    <2>1. ASSUME NEW f \in fs, f[2] = k + 1
          PROVE  f \in gs
      <3>1. f = <<f[1], f[2]>> /\ f[1] \in Nat /\ f[2] \in Nat /\ s <= f[1] /\ f[1] <= k /\ k < e
        BY <1>2, <1>4, <2>1
      <3>2. \E g \in gs : g[1] = f[1]
        <4>1. CASE f[1] = s
          <5>1. s < e
            BY <3>1
          <5>2. QED
            BY <1>1, <4>1, <5>1 DEF tiles
        <4>2. CASE f[1] # s
          <5>1. PICK h \in fs : h[2] = f[1]
            BY <1>1, <4>2 DEF tiles
          <5>2. h \in gs
            BY <1>4, <3>1, <5>1
          <5>3. h[2] # e
            BY <3>1, <5>1
          <5>4. QED
            BY <1>1, <5>1, <5>2, <5>3 DEF tiles
        <4>3. QED
          BY <4>1, <4>2
      <3>3. PICK g \in gs : g[1] = f[1]
        BY <3>2
      <3>4. g = <<f[1], g[2]>> /\ g[2] \in f[1] + 1 .. Len(frame) /\ f[2] \in f[1] + 1 .. Len(frame)
        BY <1>2, <3>1, <3>3
      <3>5. isField(<<f[1], f[2]>>) /\ isField(<<f[1], g[2]>>)
        BY <3>1, <3>3, <3>4 DEF isLayout
      <3>6. f[2] = g[2]
        BY <3>1, <3>4, <3>5, FieldUnique
      <3>7. QED
        BY <3>1, <3>3, <3>4, <3>6
    <2>2. \A f \in fs : f[2] <= k + 1 => f[2] <= k \/ f[2] = k + 1
      BY <1>2
    <2>3. k + 1 \in s .. o
      BY <1>4
    <2>4. QED
      BY <1>4, <2>1, <2>2, <2>3
  <1>5. o \in S
    <2> HIDE DEF S
    <2>1. o \in s .. o
      OBVIOUS
    <2>2. QED
      BY <1>3, <1>4, <2>1, InductionUp
  <1>6. QED
    BY <1>2, <1>5

\* What has been read is part of every reading of the message, and all of it at
\* the end.
LEMMA MessagesAgree ==
  ASSUME frame \in Seq(Nat), NEW s \in Nat, NEW o \in Nat, NEW e \in Nat, s <= o, o <= e, e <= Len(frame),
         NEW schema, NEW fs \in Messages(<<s, o>>, schema), NEW gs \in Messages(<<s, e>>, schema)
  PROVE  fs \subseteq gs /\ (o = e => fs = gs)
  <1>1. /\ fs \in Layouts(<<s, o>>) /\ isLayout(fs)
        /\ gs \in Layouts(<<s, e>>) /\ isLayout(gs)
    BY DEF Messages
  <1>2. fs \subseteq gs
    BY <1>1, Prefix
  <1>3. o = e => gs \subseteq fs
    BY <1>1, Prefix
  <1>4. QED
    BY <1>2, <1>3

\* Before the end, there is a field behind it.
LEMMA MessageGoesOn ==
  ASSUME frame \in Seq(Nat), NEW s \in Nat, NEW o \in Nat, NEW e \in Nat, s <= o, o < e, e <= Len(frame),
         NEW schema, NEW fs \in Messages(<<s, o>>, schema), NEW gs \in Messages(<<s, e>>, schema)
  PROVE  \E q \in o + 1 .. e : isField(<<o, q>>) /\ wellTyped(<<o, q>>, schema)
  <1>1. /\ fs \in Layouts(<<s, o>>)
        /\ gs \in Layouts(<<s, e>>) /\ isLayout(gs) /\ \A g \in gs : wellTyped(g, schema)
    BY DEF Messages
  <1>2. fs \subseteq gs
    BY MessagesAgree
  <1>3. tiles(fs, s, o) /\ tiles(gs, s, e)
    BY <1>1, LayoutTiles
  <1>4. \E g \in gs : g[1] = o
    <2>1. CASE s = o
      BY <1>3, <2>1 DEF tiles
    <2>2. CASE s # o
      <3>1. PICK f \in fs : f[2] = o
        BY <1>3, <2>2 DEF tiles
      <3>2. f \in gs /\ f[2] # e
        BY <1>2, <3>1
      <3>3. QED
        BY <1>3, <3>1, <3>2 DEF tiles
    <2>3. QED
      BY <2>1, <2>2
  <1>5. PICK g \in gs : g[1] = o
    BY <1>4
  <1>6. g = <<o, g[2]>> /\ g[2] \in o + 1 .. e
    BY <1>3, <1>5 DEF tiles
  <1>7. isField(g) /\ wellTyped(g, schema)
    BY <1>1 DEF isLayout
  <1>8. QED
    BY <1>6, <1>7

LEMMA NothingRead ==
  ASSUME NEW s \in Nat, NEW schema
  PROVE  {} \in Messages(<<s, s>>, schema)
  BY NoFields DEF Messages, isLayout

LEMMA MessageMore ==
  ASSUME NEW s \in Nat, NEW o \in Nat, s <= o, NEW q \in Nat, o < q, NEW schema,
         NEW fs \in Messages(<<s, o>>, schema), isField(<<o, q>>), wellTyped(<<o, q>>, schema)
  PROVE  fs \cup {<<o, q>>} \in Messages(<<s, q>>, schema)
  <1>1. /\ fs \in Layouts(<<s, o>>) /\ isLayout(fs)
        /\ \A f \in fs : wellTyped(f, schema)
    BY DEF Messages
  <1>2. fs \cup {<<o, q>>} \in Layouts(<<s, q>>)
    BY <1>1, OneMoreField
  <1>3. QED
    BY <1>1, <1>2 DEF Messages, isLayout

LEMMA NoMeaning == ASSUME NEW schema, NEW name PROVE meaning({}, schema, name) = Defaults[name]
  BY DEF meaning, occurrences

\* A field that begins behind all of the others.
isBehind(fs, f) == f[1] \in Nat /\ \A g \in fs : g[1] \in Nat /\ g[1] < f[1]

LEMMA FieldsBefore ==
  ASSUME NEW s \in Nat, NEW o \in Nat, s <= o, NEW schema, NEW fs \in Messages(<<s, o>>, schema),
         NEW f, f[1] = o
  PROVE  isBehind(fs, f)
  <1>1. tiles(fs, s, o)
    BY LayoutTiles DEF Messages
  <1>2. QED
    BY <1>1 DEF tiles, isBehind

\* A field that is read as one of its names.
valueOf(name, v) == IF name = "oneWay" THEN v # 0 ELSE v

\* What a field with number n and value v adds.
adds(fs, f, n, v, schema) ==
  \A name : meaning(fs \cup {f}, schema, name) =
              IF n \in DOMAIN schema /\ schema[n] = name THEN valueOf(name, v) ELSE meaning(fs, schema, name)

\* The field behind the others is the last of its name, and changes no other.
LEMMA MeaningMore ==
  ASSUME NEW fs, NEW f, isBehind(fs, f), NEW schema
  PROVE  adds(fs, f, fieldNumber(f), content(f), schema)
  <1> SUFFICES ASSUME NEW name
               PROVE  meaning(fs \cup {f}, schema, name) =
                        IF fieldNumber(f) \in DOMAIN schema /\ schema[fieldNumber(f)] = name
                        THEN valueOf(name, content(f)) ELSE meaning(fs, schema, name)
    BY DEF adds
  <1> PICK gs, n : gs = fs \cup {f} /\ n = fieldNumber(f)
    OBVIOUS
  <1>1. f[1] \in Nat /\ \A g \in fs : g[1] \in Nat /\ g[1] < f[1]
    BY DEF isBehind
  <1>2. CASE n \in DOMAIN schema /\ schema[n] = name
    <2>1. f \in occurrences(gs, schema, name) /\ occurrences(gs, schema, name) \subseteq gs
      BY <1>2 DEF occurrences
    <2>2. last(occurrences(gs, schema, name)) = f
      <3>1. \A g \in occurrences(gs, schema, name) : g = f \/ (g[1] \in Nat /\ g[1] < f[1])
        BY <1>1, <2>1
      <3>2. \A g \in occurrences(gs, schema, name) : g[1] <= f[1] /\ (f[1] <= g[1] => g = f)
        BY <1>1, <3>1
      <3>3. QED
        BY <2>1, <3>2 DEF last
    <2>3. QED
      BY <1>2, <2>1, <2>2 DEF meaning, valueOf
  <1>3. CASE ~(n \in DOMAIN schema /\ schema[n] = name)
    <2>1. occurrences(gs, schema, name) = occurrences(fs, schema, name)
      BY <1>3 DEF occurrences
    <2>2. QED
      BY <1>3, <2>1 DEF meaning
  <1>4. QED
    BY <1>2, <1>3

-----------------------------------------------------------------------------
(* The decoder reads the one way there is to read a message.               *)

\* What the fields of a message say of some names.
meant(names, v, fs, schema) == \A name \in names : v[name] = meaning(fs, schema, name)

allEnvelopes(fs) == \A f \in originals(fs) : isEnvelope(content(f))

\* The envelope's fields are those of the last original, if there is one.
lastMeant(v, fs) ==
  \A f \in originals(fs) : (\A g \in originals(fs) : g[1] <= f[1]) =>
    \A name \in EnvelopeNames : v[name] = envelope(content(f))[name]

\* What has been read up to o is a message, and v are its fields; in a nested
\* message, what has been read of it is one, and so is what came before it.
readingEnvelope(o, v) ==
  v.reason = 0 /\ \E fs \in Messages(<<0, o>>, envelopeField) : meant(EnvelopeNames, v, fs, envelopeField)
readingDeadletter(o, v) ==
  \E fs \in Messages(<<0, o>>, deadletterField) :
    meant({"reason", "detail"}, v, fs, deadletterField) /\ allEnvelopes(fs) /\ lastMeant(v, fs)
nestedField(f, start, e) ==
  /\ isField(f) /\ wellTyped(f, deadletterField) /\ fieldNumber(f) = 1
  /\ content(f) = <<start, e>>
readingOriginal(o, r, v) ==
  \E p \in 0 .. o - 1, start \in 0 .. r.offset :
    /\ nestedField(<<p, o>>, start, r.count)
    /\ \E fs \in Messages(<<0, p>>, deadletterField) :
         meant({"reason", "detail"}, v, fs, deadletterField) /\ allEnvelopes(fs)
    /\ \E gs \in Messages(<<start, r.offset>>, envelopeField) : meant(EnvelopeNames, v, gs, envelopeField)

whole == <<0, Len(frame)>>

\* What the decoder returns, and when it throws.
returned(k, v) ==
  IF k = "envelope"
  THEN \E fs \in Messages(whole, envelopeField) : meant(EnvelopeNames, v, fs, envelopeField)
  ELSE \E fs \in Messages(whole, deadletterField) :
         /\ isDeadletter(fs) /\ lastMeant(v, fs)
         /\ meant({"reason", "detail"}, v, fs, deadletterField)
refused(k) ==
  IF k = "envelope" THEN Messages(whole, envelopeField) = {}
  ELSE \A fs \in Messages(whole, deadletterField) : ~isDeadletter(fs)

Reading ==
  IF kind = "envelope" THEN ~nested /\ readingEnvelope(reader.offset, fields)
  ELSE IF nested THEN readingOriginal(readers[1].offset, reader, fields)
  ELSE readingDeadletter(reader.offset, fields)

MeaningInv ==
  /\ CodecInv /\ kind \in {"envelope", "deadletter"}
  /\ outcome = "reading" => Reading
  /\ outcome = "decoded" => returned(kind, fields)
  /\ outcome = "thrown" => refused(kind)

LEMMA CompleteEnvelope ==
  ASSUME frame \in Seq(Nat), NEW s \in Nat, NEW e \in Nat, s <= e, e <= Len(frame),
         NEW fs \in Messages(<<s, e>>, envelopeField)
  PROVE  /\ isEnvelope(<<s, e>>)
         /\ \A name \in EnvelopeNames : envelope(<<s, e>>)[name] = meaning(fs, envelopeField, name)
  <1>1. \A gs \in Messages(<<s, e>>, envelopeField) : gs = fs
    BY MessagesAgree
  <1>2. fieldsOf(<<s, e>>) = fs
    BY <1>1 DEF fieldsOf
  <1>3. QED
    BY <1>2 DEF isEnvelope, envelope

\* Since there is no other way to read the frame, these are the right results.
LEMMA MeaningDecoded == MeaningInv => DecodesMeaning
  <1> SUFFICES ASSUME MeaningInv, outcome # "reading" PROVE DecodesMeaning
    BY DEF DecodesMeaning
  <1>0. frame \in Seq(Nat) /\ Len(frame) \in Nat /\ outcome \in {"decoded", "thrown"}
    BY DEF MeaningInv, CodecInv, TypeOK
  <1>1. CASE kind = "envelope"
    <2>1. CASE outcome = "decoded"
      <3>1. PICK fs \in Messages(whole, envelopeField) : meant(EnvelopeNames, fields, fs, envelopeField)
        BY <1>1, <2>1 DEF MeaningInv, returned
      <3>2. isEnvelope(whole) /\ \A name \in EnvelopeNames : envelope(whole)[name] = meaning(fs, envelopeField, name)
        BY <1>0, <3>1, CompleteEnvelope DEF whole
      <3>3. \A name \in EnvelopeNames : fields[name] = envelope(whole)[name]
        BY <3>1, <3>2 DEF meant
      <3>4. QED
        BY <1>1, <2>1, <3>2, <3>3 DEF DecodesMeaning, whole
    <2>2. CASE outcome = "thrown"
      <3>1. ~isEnvelope(whole)
        BY <1>1, <2>2 DEF MeaningInv, refused, isEnvelope
      <3>2. QED
        BY <1>1, <2>2, <3>1 DEF DecodesMeaning, whole
    <2>3. QED
      BY <1>0, <2>1, <2>2
  <1>2. CASE kind # "envelope"
    <2> DEFINE deadletters == {fs \in Messages(whole, deadletterField) : isDeadletter(fs)}
    <2>1. CASE outcome = "decoded"
      <3>1. PICK fs \in Messages(whole, deadletterField) :
              /\ isDeadletter(fs) /\ lastMeant(fields, fs)
              /\ meant({"reason", "detail"}, fields, fs, deadletterField)
        BY <1>2, <2>1 DEF MeaningInv, returned
      <3>2. \A gs \in Messages(whole, deadletterField) : gs = fs
        BY <1>0, MessagesAgree DEF whole
      <3>3. deadletters # {} /\ (CHOOSE gs \in deadletters : TRUE) = fs
        BY <3>1, <3>2
      <3>4. /\ \A name \in {"reason", "detail"} : fields[name] = meaning(fs, deadletterField, name)
            /\ \A f \in originals(fs) : (\A g \in originals(fs) : g[1] <= f[1]) =>
                 \A name \in EnvelopeNames : fields[name] = envelope(content(f))[name]
        BY <3>1 DEF meant, lastMeant
      <3>5. QED
        BY <1>2, <2>1, <3>3, <3>4 DEF DecodesMeaning, whole
    <2>2. CASE outcome = "thrown"
      <3>1. deadletters = {}
        BY <1>2, <2>2 DEF MeaningInv, refused
      <3>2. QED
        BY <1>2, <2>2, <3>1 DEF DecodesMeaning, whole
    <2>3. QED
      BY <1>0, <2>1, <2>2
  <1>3. QED
    BY <1>1, <1>2

\* An iteration that does not throw, with the field it reads and its value.
reads(f, n, v) ==
  \E tag, body :
    /\ iteration(tag, n, body) /\ tag.ok /\ n # 0 /\ body.ok
    /\ f = <<reader.offset, body.offset>> /\ v = body.value

LEMMA FieldRead ==
  ASSUME CodecInv, reader.offset < reader.count, NEW f, NEW n, NEW v, reads(f, n, v)
  PROVE  /\ f = <<reader.offset, f[2]>> /\ f[1] = reader.offset
         /\ f[2] \in reader.offset + 1 .. reader.count
         /\ isField(f) /\ wellTyped(f, known) /\ fieldNumber(f) = n
         /\ n \in DOMAIN known => content(f) = v
  <1>1. PICK tag, body :
          /\ iteration(tag, n, body) /\ tag.ok /\ n # 0 /\ body.ok
          /\ f = <<reader.offset, body.offset>> /\ v = body.value
    BY DEF reads
  <1>2. f[1] = reader.offset /\ f[2] = body.offset
    BY <1>1
  <1>3. /\ body.offset \in reader.offset + 1 .. reader.count
        /\ fieldNumber(f) = n
        /\ n \in DOMAIN known => body.value = content(f)
    BY <1>1, ReadsField
  <1>4. isField(f) /\ wellTyped(f, known)
    <2>1. \A q \in reader.offset + 1 .. reader.count :
            body.offset = q => isField(<<reader.offset, q>>) /\ wellTyped(<<reader.offset, q>>, known)
      BY <1>1, ReadsField
    <2>2. QED
      BY <1>1, <1>3, <2>1
  <1>5. QED
    BY <1>1, <1>2, <1>3, <1>4

\* What an iteration reads, it adds to the message.
LEMMA FieldMeans ==
  ASSUME CodecInv, reader.offset < reader.count, NEW f, NEW n, NEW v, reads(f, n, v),
         NEW s \in Nat, s <= reader.offset, NEW fs \in Messages(<<s, reader.offset>>, known)
  PROVE  /\ fs \cup {f} \in Messages(<<s, f[2]>>, known)
         /\ adds(fs, f, n, v, known)
  <1>1. reader.offset \in Nat /\ reader.count \in Nat
    BY ReaderFacts
  <1>2. /\ f = <<reader.offset, f[2]>> /\ f[1] = reader.offset
        /\ f[2] \in reader.offset + 1 .. reader.count
        /\ isField(f) /\ wellTyped(f, known) /\ fieldNumber(f) = n
        /\ n \in DOMAIN known => content(f) = v
    BY FieldRead
  <1>3. fs \cup {f} \in Messages(<<s, f[2]>>, known)
    <2>1. f[2] \in Nat /\ reader.offset < f[2]
      BY <1>1, <1>2
    <2>2. isField(<<reader.offset, f[2]>>) /\ wellTyped(<<reader.offset, f[2]>>, known)
      BY <1>2
    <2>3. fs \cup {<<reader.offset, f[2]>>} \in Messages(<<s, f[2]>>, known)
      BY <1>1, <2>1, <2>2, MessageMore
    <2>4. QED
      BY <1>2, <2>3
  <1>4. adds(fs, f, n, content(f), known)
    <2>1. isBehind(fs, f)
      BY <1>1, <1>2, FieldsBefore
    <2>2. QED
      BY <1>2, <2>1, MeaningMore
  <1>5. adds(fs, f, n, v, known)
    BY <1>2, <1>4 DEF adds
  <1>6. QED
    BY <1>3, <1>5

\* If it reads nothing, there is nothing to read: no message begins like this.
LEMMA NoField ==
  ASSUME CodecInv, reader.offset < reader.count, NEW s \in Nat, s <= reader.offset,
         NEW fs \in Messages(<<s, reader.offset>>, known),
         NEW tag, NEW n, NEW body, iteration(tag, n, body), ~(tag.ok /\ n # 0 /\ body.ok)
  PROVE  Messages(<<s, reader.count>>, known) = {}
  <1>1. frame \in Seq(Nat) /\ reader.offset \in Nat /\ reader.count \in Nat /\ reader.count <= Len(frame)
    BY ReaderFacts DEF CodecInv
  <1>2. \A q \in reader.offset + 1 .. reader.count :
          ~(isField(<<reader.offset, q>>) /\ wellTyped(<<reader.offset, q>>, known))
    BY ReadsField
  <1>3. ASSUME NEW gs \in Messages(<<s, reader.count>>, known) PROVE FALSE
    <2>1. \E q \in reader.offset + 1 .. reader.count :
            isField(<<reader.offset, q>>) /\ wellTyped(<<reader.offset, q>>, known)
      BY <1>1, MessageGoesOn
    <2>2. QED
      BY <1>2, <2>1
  <1>4. QED
    BY <1>3

\* Every reading of a deadletter extends what has been read of it.
LEMMA WholeExtends ==
  ASSUME frame \in Seq(Nat), NEW o \in Nat, o <= Len(frame),
         NEW fs \in Messages(<<0, o>>, deadletterField), NEW ds \in Messages(whole, deadletterField)
  PROVE  fs \subseteq ds
  <1>1. Len(frame) \in Nat /\ ds \in Messages(<<0, Len(frame)>>, deadletterField)
    BY DEF whole
  <1>2. QED
    BY <1>1, MessagesAgree

\* A nested message that is none: the deadletter is refused.
LEMMA OriginalRefused ==
  ASSUME frame \in Seq(Nat), NEW o \in Nat, o <= Len(frame), NEW p \in 0 .. o - 1, NEW start, NEW e,
         nestedField(<<p, o>>, start, e), Messages(<<start, e>>, envelopeField) = {},
         NEW fs \in Messages(<<0, p>>, deadletterField)
  PROVE  refused("deadletter")
  <1> PICK f : f = <<p, o>>
    OBVIOUS
  <1>1. isField(f) /\ wellTyped(f, deadletterField) /\ fieldNumber(f) = 1 /\ content(f) = <<start, e>>
    BY DEF nestedField
  <1>2. fs \cup {f} \in Messages(<<0, o>>, deadletterField)
    BY <1>1, MessageMore
  <1>3. ~isEnvelope(content(f))
    BY <1>1 DEF isEnvelope
  <1>4. ASSUME NEW ds \in Messages(whole, deadletterField), isDeadletter(ds) PROVE FALSE
    <2>1. fs \cup {f} \subseteq ds
      BY <1>2, WholeExtends
    <2>2. f \in originals(ds)
      BY <1>1, <2>1 DEF originals
    <2>3. QED
      BY <1>3, <1>4, <2>2 DEF isDeadletter
  <1>5. QED
    BY <1>4 DEF refused

\* A nested message at its end: the deadletter goes on, with its fields.
LEMMA OriginalEnds ==
  ASSUME frame \in Seq(Nat), NEW o \in Nat, o <= Len(frame), NEW r \in [offset : Nat, count : Nat],
         r.offset = r.count, r.count <= o, NEW v, readingOriginal(o, r, v)
  PROVE  readingDeadletter(o, v)
  <1>1. PICK p \in 0 .. o - 1, start \in 0 .. r.offset :
          /\ nestedField(<<p, o>>, start, r.count)
          /\ \E fs \in Messages(<<0, p>>, deadletterField) :
               meant({"reason", "detail"}, v, fs, deadletterField) /\ allEnvelopes(fs)
          /\ \E gs \in Messages(<<start, r.offset>>, envelopeField) : meant(EnvelopeNames, v, gs, envelopeField)
    BY DEF readingOriginal
  <1>2. PICK fs \in Messages(<<0, p>>, deadletterField) :
          meant({"reason", "detail"}, v, fs, deadletterField) /\ allEnvelopes(fs)
    BY <1>1
  <1>3. PICK gs \in Messages(<<start, r.count>>, envelopeField) : meant(EnvelopeNames, v, gs, envelopeField)
    BY <1>1
  <1> PICK f : f = <<p, o>>
    OBVIOUS
  <1>4. /\ isField(f) /\ wellTyped(f, deadletterField) /\ fieldNumber(f) = 1 /\ content(f) = <<start, r.count>>
    BY <1>1 DEF nestedField
  <1>5. /\ isEnvelope(content(f))
        /\ \A name \in EnvelopeNames : v[name] = envelope(content(f))[name]
    <2>1. start \in Nat /\ start <= r.count /\ r.count <= Len(frame) /\ r.count \in Nat
      OBVIOUS
    <2>2. /\ isEnvelope(<<start, r.count>>)
          /\ \A name \in EnvelopeNames : envelope(<<start, r.count>>)[name] = meaning(gs, envelopeField, name)
      BY <2>1, CompleteEnvelope
    <2>3. QED
      BY <1>3, <1>4, <2>2 DEF meant
  <1>6. fs \cup {f} \in Messages(<<0, o>>, deadletterField)
    BY <1>4, MessageMore
  <1>7. meant({"reason", "detail"}, v, fs \cup {f}, deadletterField)
    <2>1. ASSUME NEW name \in {"reason", "detail"}
          PROVE  meaning(fs \cup {f}, deadletterField, name) = meaning(fs, deadletterField, name)
      <3>1. deadletterField[fieldNumber(f)] # name
        BY <1>4 DEF deadletterField
      <3>2. isBehind(fs, f)
        BY FieldsBefore
      <3>3. adds(fs, f, fieldNumber(f), content(f), deadletterField)
        BY <3>2, MeaningMore
      <3>4. QED
        BY <3>1, <3>3 DEF adds
    <2>2. QED
      BY <1>2, <2>1 DEF meant
  <1>8. originals(fs \cup {f}) = originals(fs) \cup {f}
    BY <1>4 DEF originals
  <1>9. allEnvelopes(fs \cup {f})
    BY <1>2, <1>5, <1>8 DEF allEnvelopes
  <1>10. lastMeant(v, fs \cup {f})
    <2>1. \A g \in fs : g[1] \in Nat /\ g[1] < p
      BY FieldsBefore DEF isBehind
    <2>2. \A g \in originals(fs \cup {f}) : f[1] <= g[1] => g = f
      BY <1>8, <2>1 DEF originals
    <2>3. QED
      BY <1>5, <1>8, <2>2 DEF lastMeant
  <1>11. QED
    BY <1>6, <1>7, <1>9, <1>10 DEF readingDeadletter

\* It throws where there is nothing to read: the decoder is right to refuse.
LEMMA Refuses ==
  ASSUME CodecInv, kind \in {"envelope", "deadletter"}, Reading, reader.offset < reader.count,
         NEW tag, NEW n, NEW body, iteration(tag, n, body), ~(tag.ok /\ n # 0 /\ body.ok)
  PROVE  refused(kind)
  <1>1. /\ frame \in Seq(Nat) /\ reader.offset \in Nat /\ reader.count \in Nat /\ reader.offset <= reader.count
        /\ reader.count <= Len(frame) /\ readers[1].offset \in Nat /\ readers[1].offset <= Len(frame)
        /\ ~nested => reader.count = Len(frame)
    BY ReaderFacts DEF CodecInv, TypeOK
  <1>2. CASE kind = "envelope"
    <2>1. PICK fs \in Messages(<<0, reader.offset>>, envelopeField) : TRUE
      BY <1>2 DEF Reading, readingEnvelope
    <2>2. ~nested /\ known = envelopeField
      BY <1>2 DEF Reading, known, inEnvelope
    <2>3. Messages(<<0, reader.count>>, envelopeField) = {}
      BY <1>1, <2>1, <2>2, NoField
    <2>4. QED
      BY <1>1, <1>2, <2>2, <2>3 DEF refused, whole
  <1>3. CASE kind = "deadletter" /\ ~nested
    <2>1. PICK fs \in Messages(<<0, reader.offset>>, deadletterField) : TRUE
      BY <1>3 DEF Reading, readingDeadletter
    <2>2. known = deadletterField
      BY <1>3 DEF known, inEnvelope
    <2>3. Messages(<<0, reader.count>>, deadletterField) = {}
      BY <1>1, <2>1, <2>2, NoField
    <2>4. QED
      BY <1>1, <1>3, <2>3 DEF refused, whole
  <1>4. CASE kind = "deadletter" /\ nested
    <2>1. known = envelopeField
      BY <1>4 DEF known, inEnvelope
    <2>2. PICK p \in 0 .. readers[1].offset - 1, start \in 0 .. reader.offset :
            /\ nestedField(<<p, readers[1].offset>>, start, reader.count)
            /\ Messages(<<0, p>>, deadletterField) # {}
            /\ Messages(<<start, reader.offset>>, envelopeField) # {}
      BY <1>4 DEF Reading, readingOriginal
    <2>3. start \in Nat /\ start <= reader.offset
      BY <1>1
    <2>4. PICK gs \in Messages(<<start, reader.offset>>, envelopeField) : TRUE
      BY <2>2
    <2>5. Messages(<<start, reader.count>>, envelopeField) = {}
      BY <1>1, <2>1, <2>3, <2>4, NoField
    <2>6. QED
      BY <1>1, <1>4, <2>2, <2>5, OriginalRefused
  <1>5. QED
    BY <1>2, <1>3, <1>4

\* What the iteration makes of the fields, if it nests no message.
takes(n, v) ==
  IF n \notin DOMAIN known THEN UNCHANGED fields
  ELSE known[n] # "original" /\ Take(known[n], IF known[n] = "oneWay" THEN v # 0 ELSE v)

\* The fields that the message has not stay what they are.
keeps(names) == \A name \in names : (\A m \in DOMAIN known : known[m] # name) => fields'[name] = fields[name]

LEMMA FieldsTaken ==
  ASSUME CodecInv, NEW n, NEW v, takes(n, v)
  PROVE  /\ \A name \in DOMAIN Defaults :
              fields'[name] = IF n \in DOMAIN known /\ known[n] = name THEN valueOf(name, v) ELSE fields[name]
         /\ keeps(DOMAIN Defaults)
  <1>1. DOMAIN fields = DOMAIN Defaults
    BY DEF CodecInv, TypeOK
  <1>2. \A name \in DOMAIN Defaults :
          fields'[name] = IF n \in DOMAIN known /\ known[n] = name THEN valueOf(name, v) ELSE fields[name]
    BY <1>1 DEF takes, Take, valueOf
  <1>3. QED
    BY <1>2 DEF keeps

LEMMA FieldsMeant ==
  ASSUME CodecInv, reader.offset < reader.count, NEW s \in Nat, s <= reader.offset,
         NEW fs \in Messages(<<s, reader.offset>>, known), NEW f, NEW n, NEW v, reads(f, n, v), takes(n, v),
         NEW names \in SUBSET DOMAIN Defaults, meant(names, fields, fs, known)
  PROVE  meant(names, fields', fs \cup {f}, known)
  <1>1. \A name \in names :
          fields'[name] = IF n \in DOMAIN known /\ known[n] = name THEN valueOf(name, v) ELSE fields[name]
    BY FieldsTaken
  <1>2. adds(fs, f, n, v, known)
    BY FieldMeans
  <1>3. QED
    BY <1>1, <1>2 DEF meant, adds

\* An iteration that stays in its message reads on.
LEMMA ReadsOnRight ==
  ASSUME CodecInv, kind \in {"envelope", "deadletter"}, Reading, reader.offset < reader.count,
         UNCHANGED <<frame, kind>>, outcome' = "reading",
         NEW f, NEW n, NEW v, reads(f, n, v), takes(n, v), readers' = advanced(f[2])
  PROVE  IF kind = "envelope" THEN ~nested' /\ readingEnvelope(reader'.offset, fields')
         ELSE IF nested' THEN readingOriginal(readers'[1].offset, reader', fields')
         ELSE readingDeadletter(reader'.offset, fields')
  <1>1. /\ frame \in Seq(Nat) /\ reader.offset \in Nat /\ reader.count \in Nat
        /\ readers[1].offset \in Nat /\ DOMAIN fields = DOMAIN Defaults
    BY ReaderFacts DEF CodecInv, TypeOK
  <1>2. f[2] \in reader.offset + 1 .. reader.count /\ fieldNumber(f) = n
    BY FieldRead
  <1>3. /\ nested' <=> nested
        /\ reader' = [offset |-> f[2], count |-> reader.count]
        /\ nested => readers'[1] = readers[1]
    <2>1. 1 \in DOMAIN readers
      BY ReaderFacts
    <2>2. QED
      BY <1>2, <2>1, Advances DEF nested
  <1>4. EnvelopeNames \in SUBSET DOMAIN Defaults /\ {"reason", "detail"} \in SUBSET DOMAIN Defaults
    BY DefaultsType DEF EnvelopeNames
  <1>5. \A m \in DOMAIN envelopeField : envelopeField[m] \notin {"reason", "detail"}
    BY DEF envelopeField
  <1>6. \A m \in DOMAIN deadletterField : deadletterField[m] \notin EnvelopeNames
    BY DefaultsType DEF deadletterField, EnvelopeNames
  <1>7. CASE kind = "envelope"
    <2>1. ~nested /\ known = envelopeField /\ fields.reason = 0
      BY <1>7 DEF Reading, known, inEnvelope, readingEnvelope
    <2>2. PICK fs \in Messages(<<0, reader.offset>>, envelopeField) : meant(EnvelopeNames, fields, fs, envelopeField)
      BY <1>7 DEF Reading, readingEnvelope
    <2>3. fs \cup {f} \in Messages(<<0, f[2]>>, envelopeField)
      BY <1>1, <2>1, <2>2, FieldMeans
    <2>4. meant(EnvelopeNames, fields', fs \cup {f}, envelopeField)
      BY <1>1, <1>4, <2>1, <2>2, FieldsMeant
    <2>5. fields'.reason = 0
      <3>1. keeps(DOMAIN Defaults)
        BY FieldsTaken
      <3>2. fields'["reason"] = fields["reason"]
        BY <1>4, <1>5, <2>1, <3>1 DEF keeps
      <3>3. QED
        BY <2>1, <3>2
    <2>6. QED
      BY <1>3, <1>7, <2>1, <2>3, <2>4, <2>5 DEF readingEnvelope
  <1>8. CASE kind = "deadletter" /\ ~nested
    <2>1. known = deadletterField
      BY <1>8 DEF known, inEnvelope
    <2>2. PICK fs \in Messages(<<0, reader.offset>>, deadletterField) :
            meant({"reason", "detail"}, fields, fs, deadletterField) /\ allEnvelopes(fs) /\ lastMeant(fields, fs)
      BY <1>8 DEF Reading, readingDeadletter
    <2>3. fs \cup {f} \in Messages(<<0, f[2]>>, deadletterField)
      BY <1>1, <2>1, <2>2, FieldMeans
    <2>4. meant({"reason", "detail"}, fields', fs \cup {f}, deadletterField)
      BY <1>1, <1>4, <2>1, <2>2, FieldsMeant
    <2>5. originals(fs \cup {f}) = originals(fs)
      <3>1. n # 1
        BY <2>1 DEF takes, deadletterField
      <3>2. QED
        BY <1>2, <3>1 DEF originals
    <2>6. \A name \in EnvelopeNames : fields'[name] = fields[name]
      <3>1. keeps(DOMAIN Defaults)
        BY FieldsTaken
      <3>2. QED
        BY <1>4, <1>6, <2>1, <3>1 DEF keeps
    <2>7. allEnvelopes(fs \cup {f}) /\ lastMeant(fields', fs \cup {f})
      BY <2>2, <2>5, <2>6 DEF allEnvelopes, lastMeant
    <2>8. QED
      BY <1>3, <1>8, <2>3, <2>4, <2>7 DEF readingDeadletter
  <1>9. CASE kind = "deadletter" /\ nested
    <2>1. known = envelopeField
      BY <1>9 DEF known, inEnvelope
    <2>2. PICK p \in 0 .. readers[1].offset - 1, start \in 0 .. reader.offset :
            /\ nestedField(<<p, readers[1].offset>>, start, reader.count)
            /\ \E ds \in Messages(<<0, p>>, deadletterField) :
                 meant({"reason", "detail"}, fields, ds, deadletterField) /\ allEnvelopes(ds)
            /\ \E gs \in Messages(<<start, reader.offset>>, envelopeField) :
                 meant(EnvelopeNames, fields, gs, envelopeField)
      BY <1>9 DEF Reading, readingOriginal
    <2>3. start \in Nat /\ start <= reader.offset /\ start \in 0 .. f[2]
      BY <1>1, <1>2
    <2>4. PICK gs \in Messages(<<start, reader.offset>>, envelopeField) :
            meant(EnvelopeNames, fields, gs, envelopeField)
      BY <2>2
    <2>5. gs \cup {f} \in Messages(<<start, f[2]>>, envelopeField)
      BY <1>1, <2>1, <2>3, <2>4, FieldMeans
    <2>6. meant(EnvelopeNames, fields', gs \cup {f}, envelopeField)
      BY <1>1, <1>4, <2>1, <2>3, <2>4, FieldsMeant
    <2>7. \A name \in {"reason", "detail"} : fields'[name] = fields[name]
      <3>1. keeps(DOMAIN Defaults)
        BY FieldsTaken
      <3>2. QED
        BY <1>4, <1>5, <2>1, <3>1 DEF keeps
    <2>8. \E ds \in Messages(<<0, p>>, deadletterField) :
            meant({"reason", "detail"}, fields', ds, deadletterField) /\ allEnvelopes(ds)
      BY <2>2, <2>7 DEF meant
    <2>9. readingOriginal(readers[1].offset, reader', fields')
      BY <1>3, <2>2, <2>3, <2>5, <2>6, <2>8 DEF readingOriginal
    <2>10. QED
      BY <1>3, <1>9, <2>9
  <1>10. QED
    BY <1>7, <1>8, <1>9

\* A nested message begins with nothing read of it.
LEMMA NestsRight ==
  ASSUME CodecInv, kind = "deadletter", ~nested, Reading, reader.offset < reader.count,
         UNCHANGED <<frame, kind>>, outcome' = "reading",
         NEW f, NEW n, NEW v, reads(f, n, v), n \in DOMAIN known, known[n] = "original",
         readers' = Append(advanced(f[2]), [offset |-> v[1], count |-> v[2]]), fields' = original
  PROVE  nested' /\ readingOriginal(readers'[1].offset, reader', fields')
  <1>1. /\ reader.offset \in Nat /\ reader.count \in Nat /\ DOMAIN fields = DOMAIN Defaults
        /\ known = deadletterField /\ DOMAIN Defaults = DOMAIN fields
    BY ReaderFacts DEF CodecInv, TypeOK, known, inEnvelope
  <1>2. /\ f = <<reader.offset, f[2]>> /\ f[2] \in reader.offset + 1 .. reader.count
        /\ isField(f) /\ wellTyped(f, deadletterField) /\ fieldNumber(f) = n /\ content(f) = v
    BY <1>1, FieldRead
  <1>3. v \in rangesIn(reader.offset + 2, reader.count) /\ v[2] = f[2]
    <2>1. PICK tag, body :
            /\ iteration(tag, n, body) /\ tag.ok /\ body.ok
            /\ f = <<reader.offset, body.offset>> /\ v = body.value
      BY DEF reads
    <2>2. fieldRead(tag, body) /\ n = tag.value \div 8
      BY <2>1, Zenon DEF fieldRead, iteration
    <2>3. body.value \in fieldValues(known[n], reader.offset + 2, reader.count) /\ body.value[2] = body.offset
      BY <2>2, FieldResult
    <2>4. QED
      BY <2>1, <2>3 DEF fieldValues
  <1> PICK start, o : start = v[1] /\ o = f[2]
    OBVIOUS
  <1>4. /\ v = <<start, o>> /\ start \in reader.offset + 2 .. o /\ o \in reader.offset + 1 .. reader.count
        /\ o \in Nat /\ start \in Nat
    BY <1>1, <1>2, <1>3 DEF rangesIn
  <1>5. nested' /\ readers'[1].offset = o /\ reader' = [offset |-> start, count |-> o]
    <2>1. opens(o, start)
      BY <1>4 DEF opens
    <2>2. QED
      BY <1>4, <2>1, Nests
  <1>6. nestedField(<<reader.offset, o>>, start, o)
    <2>1. n = 1
      BY <1>1 DEF deadletterField
    <2>2. QED
      BY <1>2, <1>4, <2>1 DEF nestedField
  <1>7. \E fs \in Messages(<<0, reader.offset>>, deadletterField) :
          meant({"reason", "detail"}, fields', fs, deadletterField) /\ allEnvelopes(fs)
    <2>1. PICK fs \in Messages(<<0, reader.offset>>, deadletterField) :
            meant({"reason", "detail"}, fields, fs, deadletterField) /\ allEnvelopes(fs)
      BY DEF Reading, readingDeadletter
    <2>2. fields'["reason"] = fields["reason"] /\ fields'["detail"] = fields["detail"]
      BY <1>1, DefaultsType DEF original
    <2>3. QED
      BY <2>1, <2>2 DEF meant
  <1>8. {} \in Messages(<<start, start>>, envelopeField) /\ meant(EnvelopeNames, fields', {}, envelopeField)
    <2>1. {} \in Messages(<<start, start>>, envelopeField)
      BY <1>4, NothingRead
    <2>2. \A name \in EnvelopeNames : fields'[name] = Defaults[name]
      BY <1>1, DefaultsType DEF original, EnvelopeNames
    <2>3. QED
      BY <2>1, <2>2, NoMeaning DEF meant
  <1>9. reader.offset \in 0 .. o - 1 /\ start \in 0 .. start
    BY <1>1, <1>4
  <1>10. readingOriginal(o, [offset |-> start, count |-> o], fields')
    BY <1>6, <1>7, <1>8, <1>9 DEF readingOriginal
  <1>11. QED
    BY <1>5, <1>10

\* The end of the frame.
LEMMA EndsRight ==
  ASSUME CodecInv, kind \in {"envelope", "deadletter"}, Reading, ~nested, reader.offset = reader.count
  PROVE  /\ fields.reason > MaxReason => refused(kind)
         /\ fields.reason <= MaxReason => returned(kind, fields)
  <1>1. /\ frame \in Seq(Nat) /\ Len(frame) \in Nat /\ reader.offset = Len(frame)
        /\ fields.reason \in Nat /\ MaxReason \in Nat
    BY ReaderFacts, CodecAssumption DEF CodecInv, TypeOK
  <1>2. CASE kind = "envelope"
    <2>1. readingEnvelope(Len(frame), fields)
      BY <1>1, <1>2 DEF Reading
    <2>2. fields.reason = 0 /\ returned(kind, fields)
      BY <1>2, <2>1 DEF readingEnvelope, returned, whole
    <2>3. QED
      BY <1>1, <2>2
  <1>3. CASE kind = "deadletter"
    <2>1. PICK fs \in Messages(whole, deadletterField) :
            meant({"reason", "detail"}, fields, fs, deadletterField) /\ allEnvelopes(fs) /\ lastMeant(fields, fs)
      BY <1>1, <1>3 DEF Reading, readingDeadletter, whole
    <2>2. isDeadletter(fs) <=> fields.reason <= MaxReason
      BY <2>1 DEF isDeadletter, meant, allEnvelopes
    <2>3. \A gs \in Messages(whole, deadletterField) : gs = fs
      BY <1>1, <2>1, MessagesAgree DEF whole
    <2>4. fields.reason > MaxReason => refused(kind)
      BY <1>1, <1>3, <2>2, <2>3 DEF refused
    <2>5. fields.reason <= MaxReason => returned(kind, fields)
      BY <1>3, <2>1, <2>2 DEF returned
    <2>6. QED
      BY <2>4, <2>5
  <1>4. QED
    BY <1>2, <1>3

\* The end of a nested message.
LEMMA OuterReadsOn ==
  ASSUME CodecInv, kind \in {"envelope", "deadletter"}, Reading, nested, reader.offset = reader.count,
         readers' = <<readers[1]>>, UNCHANGED <<frame, kind, fields>>
  PROVE  kind = "deadletter" /\ ~nested' /\ readingDeadletter(reader'.offset, fields')
  <1>1. /\ frame \in Seq(Nat) /\ reader \in [offset : Nat, count : Nat]
        /\ readers[1].offset \in Nat /\ readers[1].offset <= Len(frame) /\ reader.count <= readers[1].offset
    BY ReaderFacts DEF CodecInv, TypeOK
  <1>2. kind = "deadletter" /\ readingOriginal(readers[1].offset, reader, fields)
    BY DEF Reading
  <1>3. readingDeadletter(readers[1].offset, fields)
    BY <1>1, <1>2, OriginalEnds
  <1>4. ~nested' /\ reader' = readers[1]
    BY DEF nested, reader
  <1>5. QED
    BY <1>2, <1>3, <1>4

\* What a frame means does not change, as the frame does not.
LEMMA FrameKept ==
  ASSUME UNCHANGED frame
  PROVE  /\ \A part, schema : Messages(part, schema)' = Messages(part, schema)
         /\ \A fs, schema, name : meaning(fs, schema, name)' = meaning(fs, schema, name)
         /\ \A part : (isEnvelope(part)' <=> isEnvelope(part)) /\ envelope(part)' = envelope(part)
         /\ \A f, start, e : nestedField(f, start, e)' <=> nestedField(f, start, e)
         /\ \A fs : (isDeadletter(fs)' <=> isDeadletter(fs)) /\ originals(fs)' = originals(fs)
         /\ \A f : content(f)' = content(f)
  <1>1. \A p, q : (isVarint(p, q)' <=> isVarint(p, q)) /\ number(p, q)' = number(p, q)
    BY DEF isVarint, number, sums, digits
  <1>2. \A p : end(p)' = end(p)
    BY DEF end, isVarint
  <1>3. \A f : content(f)' = content(f) /\ fieldNumber(f)' = fieldNumber(f) /\ fieldType(f)' = fieldType(f)
    BY <1>1, <1>2 DEF content, fieldNumber, fieldType
  <1>4. \A f : isField(f)' <=> isField(f)
    BY <1>1, <1>2, <1>3 DEF isField
  <1>5. \A f, schema : wellTyped(f, schema)' <=> wellTyped(f, schema)
    BY <1>3 DEF wellTyped, isUTF8
  <1>6. \A part, schema : Messages(part, schema)' = Messages(part, schema)
    BY <1>4, <1>5 DEF Messages, isLayout, Layouts, partition
  <1>7. \A fs, schema, name : meaning(fs, schema, name)' = meaning(fs, schema, name)
    BY <1>3 DEF meaning, occurrences
  <1>8. \A part : (isEnvelope(part)' <=> isEnvelope(part)) /\ envelope(part)' = envelope(part)
    <2>1. \A part : isEnvelope(part)' <=> isEnvelope(part)
      BY <1>6 DEF isEnvelope
    <2>2. \A part : envelope(part)' = envelope(part)
      <3>1. \A part : fieldsOf(part)' = fieldsOf(part)
        BY <1>6 DEF fieldsOf
      <3>2. QED
        BY <1>7, <3>1 DEF envelope
    <2>3. QED
      BY <2>1, <2>2
  <1>9. \A f, start, e : nestedField(f, start, e)' <=> nestedField(f, start, e)
    BY <1>3, <1>4, <1>5 DEF nestedField
  <1>10. \A fs : originals(fs)' = originals(fs)
    BY <1>3 DEF originals
  <1>11. \A fs : isDeadletter(fs)' <=> isDeadletter(fs)
    BY <1>3, <1>7, <1>8, <1>10 DEF isDeadletter
  <1>12. QED
    BY <1>3, <1>6, <1>7, <1>8, <1>9, <1>10, <1>11

LEMMA ReadingKept ==
  ASSUME UNCHANGED frame
  PROVE  /\ \A o, v : readingEnvelope(o, v)' <=> readingEnvelope(o, v)
         /\ \A o, v : readingDeadletter(o, v)' <=> readingDeadletter(o, v)
         /\ \A o, r, v : readingOriginal(o, r, v)' <=> readingOriginal(o, r, v)
         /\ \A k, v : returned(k, v)' <=> returned(k, v)
         /\ \A k : refused(k)' <=> refused(k)
  <1>1. \A names, v, fs, schema : meant(names, v, fs, schema)' <=> meant(names, v, fs, schema)
    BY FrameKept DEF meant
  <1>2. \A fs : allEnvelopes(fs)' <=> allEnvelopes(fs)
    BY FrameKept DEF allEnvelopes
  <1>3. \A v, fs : lastMeant(v, fs)' <=> lastMeant(v, fs)
    BY FrameKept DEF lastMeant
  <1>4. \A o, v : readingEnvelope(o, v)' <=> readingEnvelope(o, v)
    BY <1>1, FrameKept DEF readingEnvelope
  <1>5. \A o, v : readingDeadletter(o, v)' <=> readingDeadletter(o, v)
    BY <1>1, <1>2, <1>3, FrameKept DEF readingDeadletter
  <1>6. \A o, r, v : readingOriginal(o, r, v)' <=> readingOriginal(o, r, v)
    BY <1>1, <1>2, FrameKept DEF readingOriginal
  <1>7. \A k, v : returned(k, v)' <=> returned(k, v)
    BY <1>1, <1>3, FrameKept DEF returned, whole
  <1>8. \A k : refused(k)' <=> refused(k)
    BY FrameKept DEF refused, whole
  <1>9. QED
    BY <1>4, <1>5, <1>6, <1>7, <1>8

LEMMA MeaningInit == Init => MeaningInv
  <1> SUFFICES ASSUME Init PROVE MeaningInv
    OBVIOUS
  <1>1. CodecInv /\ kind \in {"envelope", "deadletter"} /\ outcome = "reading" /\ fields = Defaults
    BY InitInv DEF Init
  <1>2. ~nested /\ reader.offset = 0
    BY DEF Init, nested, reader
  <1>3. \A schema : {} \in Messages(<<0, 0>>, schema)
    BY NothingRead
  <1>4. \A names, schema : meant(names, fields, {}, schema)
    BY <1>1, NoMeaning DEF meant
  <1>5. allEnvelopes({}) /\ lastMeant(fields, {})
    BY DEF allEnvelopes, lastMeant, originals
  <1>6. readingEnvelope(0, fields) /\ readingDeadletter(0, fields)
    BY <1>1, <1>3, <1>4, <1>5, DefaultsType DEF readingEnvelope, readingDeadletter
  <1>7. QED
    BY <1>1, <1>2, <1>6 DEF MeaningInv, Reading

LEMMA MeaningStep == MeaningInv /\ [Next]_vars => MeaningInv'
  <1> SUFFICES ASSUME MeaningInv, [Next]_vars PROVE MeaningInv'
    OBVIOUS
  <1>1. CodecInv' /\ CodecInv /\ kind \in {"envelope", "deadletter"} /\ UNCHANGED <<frame, kind>>
    BY StepInv DEF MeaningInv, Next, vars
  <1>2. CASE UNCHANGED vars
    <2>1. reader' = reader /\ (nested' <=> nested) /\ UNCHANGED <<readers, fields, outcome>>
      BY <1>2 DEF vars, reader, nested
    <2>2. outcome = "reading" => Reading'
      BY <1>1, <2>1, ReadingKept DEF MeaningInv, Reading
    <2>3. QED
      BY <1>1, <2>1, <2>2, ReadingKept DEF MeaningInv
  <1>3. CASE Next
    <2>1. outcome = "reading" /\ Reading
      BY <1>3 DEF Next, MeaningInv
    <2>2. SUFFICES /\ outcome' = "reading" =>
                        IF kind = "envelope" THEN ~nested' /\ readingEnvelope(reader'.offset, fields')
                        ELSE IF nested' THEN readingOriginal(readers'[1].offset, reader', fields')
                        ELSE readingDeadletter(reader'.offset, fields')
                   /\ outcome' = "decoded" => returned(kind, fields')
                   /\ outcome' = "thrown" => refused(kind)
      BY <1>1, <2>2, ReadingKept DEF MeaningInv, Reading
    <2>3. CASE Field
      <3> DEFINE tag == readVarintRaw(reader.offset, reader.count)
                 n == tag.value \div 8
                 body == read(n, tag.value % 8, tag.offset)
      <3>1. reader.offset < reader.count /\ iteration(tag, n, body)
        BY <2>3, Zenon DEF Field, iteration
      <3>2. CASE ~(tag.ok /\ n # 0 /\ body.ok)
        <4>1. outcome' = "thrown"
          BY <2>3, <3>2, Zenon DEF Field, throw
        <4> HIDE DEF tag, n, body
        <4>2. refused(kind)
          BY <1>1, <2>1, <3>1, <3>2, Refuses
        <4>3. QED
          BY <4>1, <4>2
      <3>3. CASE tag.ok /\ n # 0 /\ body.ok
        <4>1. /\ UNCHANGED outcome
              /\ IF n \notin DOMAIN known THEN readers' = advanced(body.offset) /\ UNCHANGED fields
                 ELSE IF known[n] = "original"
                 THEN /\ readers' = Append(advanced(body.offset), [offset |-> body.value[1], count |-> body.value[2]])
                      /\ fields' = original
                 ELSE /\ readers' = advanced(body.offset)
                      /\ Take(known[n], IF known[n] = "oneWay" THEN body.value # 0 ELSE body.value)
          BY <2>3, <3>3, Zenon DEF Field
        <4> HIDE DEF tag, n, body
        <4>2. PICK f, v : f = <<reader.offset, body.offset>> /\ v = body.value
          OBVIOUS
        <4>3. reads(f, n, v) /\ body.offset = f[2]
          BY <3>1, <3>3, <4>2 DEF reads
        <4>4. CASE n \in DOMAIN known /\ known[n] = "original"
          <5>1. kind = "deadletter" /\ ~nested
            BY <1>1, <4>4, KnownFields DEF inEnvelope
          <5>2. nested' /\ readingOriginal(readers'[1].offset, reader', fields')
            BY <1>1, <2>1, <3>1, <4>1, <4>2, <4>3, <4>4, <5>1, NestsRight
          <5>3. QED
            BY <2>1, <4>1, <5>1, <5>2
        <4>5. CASE ~(n \in DOMAIN known /\ known[n] = "original")
          <5>1. takes(n, v) /\ readers' = advanced(f[2])
            BY <4>1, <4>2, <4>3, <4>5 DEF takes
          <5>2. QED
            BY <1>1, <2>1, <3>1, <4>1, <4>3, <5>1, ReadsOnRight
        <4>6. QED
          BY <4>4, <4>5
      <3>4. QED
        BY <3>2, <3>3
    <2>4. CASE EndOfMessage
      <3>1. CASE nested
        <4>1. /\ reader.offset = reader.count /\ readers' = <<readers[1]>> /\ UNCHANGED <<fields, outcome>>
          BY <2>4, <3>1 DEF EndOfMessage
        <4>2. kind = "deadletter" /\ ~nested' /\ readingDeadletter(reader'.offset, fields')
          BY <1>1, <2>1, <3>1, <4>1, OuterReadsOn
        <4>3. QED
          BY <2>1, <4>1, <4>2
      <3>2. CASE ~nested
        <4>1. /\ reader.offset = reader.count /\ UNCHANGED fields
              /\ \/ fields.reason > MaxReason /\ outcome' = "thrown"
                 \/ fields.reason <= MaxReason /\ outcome' = "decoded"
          BY <2>4, <3>2 DEF EndOfMessage, throw
        <4>2. QED
          BY <1>1, <2>1, <3>2, <4>1, EndsRight
      <3>3. QED
        BY <3>1, <3>2
    <2>5. QED
      BY <1>3, <2>3, <2>4 DEF Next
  <1>4. QED
    BY <1>2, <1>3

-----------------------------------------------------------------------------
(* The theorems.                                                           *)

\* Of every frame, well formed or not, the field reader reads only the message it
\* is in, and what it copies is a range of the frame.
THEOREM ReadsStayInside == Spec => []TypeOK
  <1>1. CodecInv => TypeOK
    BY DEF CodecInv
  <1>2. QED
    BY <1>1, InitInv, StepInv, PTL DEF Spec

\* What is left to read is a natural number that each iteration of decodeEnvelope
\* and decodeDeadletter makes smaller: they loop no more often than a frame has bytes.
THEOREM DecodersEnd == Spec => [](left \in Nat) /\ UsesUpFrame
  <1>1. CodecInv => left \in Nat
    BY ReaderFacts DEF left
  <1>2. CodecInv /\ [Next]_vars => [outcome' = "reading" => left' < left]_vars
    BY FieldStep, EndStep DEF Next, vars
  <1>3. QED
    BY <1>1, <1>2, InitInv, StepInv, PTL DEF Spec, UsesUpFrame

\* Of every frame, decodeEnvelope and decodeDeadletter accept exactly those that are
\* a message of theirs, and throw at the others; and each field that they return is
\* what the last field of its name holds, or its default.  The order in which they
\* read, the tag they skip, the nested reader they begin anew leave no trace.
THEOREM DecodersAreRight == Spec => []DecodesMeaning
  BY MeaningInit, MeaningStep, MeaningDecoded, PTL DEF Spec
=============================================================================
