-------------------------- MODULE MCRuntimeSession --------------------------
(* Instances of RuntimeSession for TLC. *)
EXTENDS RuntimeSession

\* Two threads that ask and a handler that asks.
CONSTANTS a1, a2, h

\* Two threads that close and a handler that closes.
CONSTANTS c1, c2, q

MCAsks == {a1, a2, h}
MCHandlerAsks == {h}
MCClosers == {c1, c2, q}
MCHandlerClosers == {q}
=============================================================================
