---------------------------- MODULE NativeOwner ----------------------------
(***************************************************************************)
(* What a session promises about the native objects it owns, with nothing  *)
(* of how the runner, the borrowers and the callers of close() achieve it. *)
(* Native ownership is open, then sealed, then released, and it is never   *)
(* released while a borrower still uses it.                                *)
(***************************************************************************)
CONSTANT Borrowers      \* everything that can borrow the native objects

VARIABLES
  phase,                \* "open", "sealed" or "released"
  borrowed              \* the borrowers that hold a borrow

vars == <<phase, borrowed>>

Init ==
  /\ phase = "open"
  /\ borrowed = {}

\* Borrows are granted only while ownership is open.
Borrow(b) ==
  /\ phase = "open"
  /\ b \notin borrowed
  /\ borrowed' = borrowed \cup {b}
  /\ UNCHANGED phase

\* A borrow ends; the last one may release what has been sealed.
Return(b) ==
  /\ b \in borrowed
  /\ borrowed' = borrowed \ {b}
  /\ \/ UNCHANGED phase
     \/ phase = "sealed" /\ borrowed' = {} /\ phase' = "released"

\* Ownership is closed to new borrows, and released at once if nobody borrows.
Seal ==
  /\ phase = "open"
  /\ \/ phase' = "sealed"
     \/ borrowed = {} /\ phase' = "released"
  /\ UNCHANGED borrowed

Release ==
  /\ phase = "sealed"
  /\ borrowed = {}
  /\ phase' = "released"
  /\ UNCHANGED borrowed

Next ==
  \/ \E b \in Borrowers : Borrow(b) \/ Return(b)
  \/ Seal
  \/ Release

Safe == Init /\ [][Next]_vars

\* Once sealed, borrows come back and the release happens.
Fair ==
  /\ \A b \in Borrowers : WF_vars(phase = "sealed" /\ Return(b))
  /\ WF_vars(Release)

Spec == Safe /\ Fair
=============================================================================
