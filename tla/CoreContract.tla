---------------------------- MODULE CoreContract ----------------------------
(***************************************************************************)
(* What Core's headers ask of whoever holds one instance of it, a runtime  *)
(* or a lane: in which order its calls may succeed.  Of an instance only   *)
(* these facts are kept: the objects made for it, what was applied to it,  *)
(* and how far its lifecycle has come.  Startup is shown to keep it.       *)
(***************************************************************************)

VARIABLES
  has,              \* the facts of the instance
  library           \* whether its owner holds the library

vars == <<has, library>>

Init ==
  /\ has = {}
  /\ library = FALSE

becomes(facts) == has' = facts /\ UNCHANGED library
adds(facts) == becomes(has \cup facts)

OpenLibrary == ~library /\ library' = TRUE /\ UNCHANGED has

\* Everything made through a library goes first.
CloseLibrary == library /\ has = {} /\ library' = FALSE /\ UNCHANGED has

-----------------------------------------------------------------------------
(* A runtime *)

created == "runtime" \in has /\ {"started", "stopped"} \cap has = {}

CreateNative == library /\ has = {} /\ adds({"runtime"})

\* Only before the first snapshot.
ApplyNetwork == created /\ "snapshot" \notin has /\ adds({"policy"})

ApplySecurity == "runtime" \in has /\ "stopped" \notin has /\ adds({"security"})

ApplySnapshot == "runtime" \in has /\ "stopped" \notin has /\ adds({"snapshot"})

\* Once, and before the start.
GetHandles == created /\ "exported" \notin has /\ adds({"handles", "exported"})

Start == created /\ {"exported", "snapshot"} \subseteq has /\ adds({"started"})

CreateClient == {"runtime", "handles"} \subseteq has /\ "client" \notin has /\ adds({"client"})

\* The sole reader of a started runtime.
CreateReader == {"runtime", "started", "handles"} \subseteq has /\ "reader" \notin has /\ adds({"reader"})

DestroyReader == "reader" \in has /\ becomes(has \ {"reader"})

DestroyClient == "client" \in has /\ becomes(has \ {"client"})

\* Never under a reader.
Stop ==
  /\ {"runtime", "started"} \subseteq has
  /\ "reader" \notin has
  /\ becomes((has \ {"started"}) \cup {"stopped"})

\* Not while a reader or a client uses them.
CloseHandles ==
  /\ "handles" \in has
  /\ {"reader", "client"} \cap has = {}
  /\ becomes(has \ {"handles"})

\* Stops the runtime if it must.  The handles stay the host's.
Destroy ==
  /\ "runtime" \in has
  /\ {"reader", "client"} \cap has = {}
  /\ becomes(has \cap {"handles"})

-----------------------------------------------------------------------------
(* A lane *)

CreateLane == library /\ has = {} /\ adds({"lane"})

StartLane == has = {"lane"} /\ adds({"started"})

StopLane == has = {"lane", "started"} /\ becomes({"lane"})

\* Of a stopped lane.
DestroyLane == has = {"lane"} /\ becomes({})

-----------------------------------------------------------------------------
Next ==
  \/ OpenLibrary \/ CloseLibrary
  \/ CreateNative \/ ApplyNetwork \/ ApplySecurity \/ ApplySnapshot \/ GetHandles \/ Start
  \/ CreateClient \/ CreateReader \/ DestroyReader \/ DestroyClient \/ Stop \/ CloseHandles \/ Destroy
  \/ CreateLane \/ StartLane \/ StopLane \/ DestroyLane

Spec == Init /\ [][Next]_vars
=============================================================================
