-------------------------- MODULE MCEnvelopeCodec --------------------------
(* Tags as they are encoded: 8 * number + type.  10, 26 and 74 are the      *)
(* fields 1, 3 and 9 as bytes, 16, 48 and 56 are 2, 6 and 7 as              *)
(* varints, 41, 45 and 44 are 5 as a fixed field and of no known type.      *)
EXTENDS EnvelopeCodec

upTo(n, bytes) == UNION {[1..k -> bytes] : k \in 0..n}

MCFrames ==
  \* every kind of field, tag and end
  upTo(4, {0, 1, 2, 10, 16, 26, 41, 44, 45, 48, 56, 74, 128, 255})
  \* two fields, overlong varints, a field of a nested message
  \cup upTo(5, {0, 1, 3, 10, 16, 26, 74, 128})
  \* repeated nested messages
  \cup upTo(6, {0, 1, 2, 10, 56, 128})
=============================================================================
