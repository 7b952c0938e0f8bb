------------------------------- MODULE Bridge -------------------------------
(***************************************************************************)
(* The C bridge between Swift and Core, coakka_runtime_bridge.c: which     *)
(* pointers each function tests, which records it stamps with their size,  *)
(* how it hands Core's output back, and when it finds Core's function.     *)
(*                                                                         *)
(* Three sides meet in one call: what Swift passes, what the bridge does   *)
(* with it and what Core's headers ask for.  A function of Core that the   *)
(* host needs is resolved when the library is opened (NativeLibrary), one  *)
(* of a lane is looked up by name at every call.                           *)
(*                                                                         *)
(* runtime_create and ask_ticket_message_id are left out: Swift calls      *)
(* neither.                                                                *)
(***************************************************************************)
EXTENDS FiniteSets

CONSTANT
  Libraries         \* what each library Swift may find does not export

VARIABLES
  role,             \* whose calls these are: "host", "file" or "stream"
  missing,          \* functions of the lane that the library does not export
  held,             \* the kinds of object Swift holds a pointer to
  live,             \* the kinds Core has an object of
  call              \* the call that is inside the bridge or Core

bridgeVars == <<role, missing, held, live, call>>

each(functions, row) == [f \in functions |-> row]

\* The first table that has a row for it decides.
s ++ t == [f \in DOMAIN s \cup DOMAIN t |-> IF f \in DOMAIN s THEN s[f] ELSE t[f]]

-----------------------------------------------------------------------------
(* What the bridge does.  A row names the pointers tested beside the       *)
(* library, the records stamped, and how the output goes: "none",          *)
(* "through" to Core, "cleared" first, through the bridge's "own" copy.    *)

Row(tests, stamps, output) == [tests |-> tests, stamps |-> stamps, output |-> output, lookup |-> FALSE]
Lane(tests, stamps, output) == [tests |-> tests, stamps |-> stamps, output |-> output, lookup |-> TRUE]

ClientRows ==
  each({"create_native"}, Row({"output"}, {}, "cleared"))
  ++ each({"get_startup_config", "get_delivery_config", "request_reader_create", "request_reader_read",
           "copy_envelope_payload", "copy_request_dispatch"}, Row({}, {}, "through"))
  ++ each({"owned_frame_data", "owned_frame_size", "owned_frame_release", "request_reader_destroy",
           "ask_ticket_cancel"}, Row({}, {}, "none"))

FeatureRows ==
  each({"lane_owner_grants_available", "file_lane_available", "stream_available"},
       Row({"output"}, {"output"}, "own"))

FileRows ==
  each({"file_lane_create", "file_lane_create_owned", "file_lane_get_bound_port", "file_sha256_path"},
       Lane({}, {}, "through"))
  ++ each({"file_lane_destroy", "file_lane_start", "file_lane_stop", "file_lane_cancel",
           "file_lane_forget"}, Lane({}, {}, "none"))
  ++ each({"file_lane_prepare_receive", "file_lane_submit_send"}, Lane({"input"}, {"input"}, "none"))
  ++ each({"file_lane_prepare_receive_grant"}, Lane({"input", "output"}, {"input", "output"}, "through"))
  ++ each({"file_lane_get_transfer", "file_lane_wait_transfer", "file_lane_get_stats"},
          Lane({}, {"output"}, "through"))

StreamRows ==
  each({"stream_create", "stream_create_owned", "stream_bound_port"}, Lane({}, {}, "through"))
  ++ each({"stream_destroy", "stream_start", "stream_stop"}, Lane({}, {}, "none"))
  ++ each({"stream_prepare_publish", "stream_subscribe"}, Lane({}, {"input"}, "none"))
  ++ each({"stream_prepare_publish_grant"}, Lane({"output"}, {"input", "output"}, "through"))

StreamReadRows ==
  each({"stream_get_session", "stream_wait_session", "stream_get_pressure", "stream_wait_pressure",
        "stream_stats"}, Lane({}, {"output"}, "through"))
  ++ each({"stream_cancel", "stream_forget"}, Lane({}, {}, "none"))

LifecycleRows ==
  each({"get_abi_version"}, Row({}, {}, "none"))
  ++ each({"get_info"}, Row({"output"}, {"output"}, "own"))
  ++ each({"runtime_destroy"}, Row({"owner"}, {}, "none"))
  ++ each({"apply_network"}, Row({"owner"}, {"input"}, "none"))

\* Mutant of ViewRows: health is cleared and not stamped.
ViewRowsUnstamped ==
  each({"host_handles_close", "start", "stop", "submit_envelope"}, Row({"owner"}, {}, "none"))
  ++ each({"apply_snapshot"}, Row({}, {}, "none"))
  ++ each({"get_config"}, Row({"owner", "output"}, {"output"}, "own"))
  ++ each({"get_health"}, Row({"owner", "output"}, {}, "through"))
  ++ each({"get_host_handles", "get_stats"}, Row({"owner", "output"}, {"output"}, "through"))
  ++ each({"get_capabilities"}, Row({"output"}, {"output"}, "through"))

ViewRows ==
  each({"host_handles_close", "start", "stop", "submit_envelope"}, Row({"owner"}, {}, "none"))
  ++ each({"apply_snapshot"}, Row({}, {}, "none"))
  ++ each({"get_config"}, Row({"owner", "output"}, {"output"}, "own"))
  ++ each({"get_host_handles", "get_health", "get_stats"}, Row({"owner", "output"}, {"output"}, "through"))
  ++ each({"get_capabilities"}, Row({"output"}, {"output"}, "through"))

TransportRows ==
  each({"apply_tcp_connection_options", "apply_tcp_security_options"},
       Row({"owner", "input", "output"}, {}, "through"))
  ++ each({"get_tcp_connection_config", "get_tcp_security_info"},
          Row({"owner", "output"}, {"output"}, "through"))
  ++ each({"transport_apply_reason_name", "deadletter_reason_name"}, Row({}, {}, "none"))

AskRows ==
  each({"ask_client_create"}, Row({"owner", "input"}, {}, "none"))
  ++ each({"ask_client_destroy", "ask_ticket_destroy"}, Row({"owner"}, {}, "none"))
  ++ each({"ask_client_begin"}, Row({"owner", "output"}, {}, "own"))
  ++ each({"ask_ticket_await"}, Row({"owner", "output"}, {}, "through"))

BytesRows ==
  each({"build_raw_request", "build_raw_reply"}, Row({"input", "output"}, {}, "through"))
  ++ each({"client_bytes_release"}, Row({"owner"}, {}, "none"))

StreamLaneRows == StreamRows ++ StreamReadRows
LaneRows == FileRows ++ StreamLaneRows
HostRows == ClientRows ++ LifecycleRows ++ ViewRows ++ TransportRows ++ AskRows ++ BytesRows
Rows == FeatureRows ++ LaneRows ++ HostRows

\* Resolved once, when the library is opened.
Slots == DOMAIN HostRows

Functions == DOMAIN Rows

-----------------------------------------------------------------------------
(* The records that Swift stamps with their size before the call. *)

StartupStamps == each({"create_native"}, {"input"}) ++ each({"get_startup_config", "get_delivery_config"}, {"output"})
TransportStamps == each({"apply_tcp_connection_options", "apply_tcp_security_options"}, {"input", "output"})
FileStamps == each({"file_lane_create", "file_lane_create_owned"}, {"input"})
StreamStamps == each({"stream_create", "stream_create_owned"}, {"input"})
BuildStamps == each({"build_raw_request", "build_raw_reply"}, {"input"})

SwiftStamps ==
  StartupStamps ++ TransportStamps ++ FileStamps ++ StreamStamps ++ BuildStamps ++ each(Functions, {})

-----------------------------------------------------------------------------
(* What Core's headers ask for: the records whose struct_size it reads, as *)
(* sets of functions.  A builder's record (client.h) and the result of an  *)
(* apply may carry zero, and are not listed.                               *)

StatsAndHandles == {"get_stats", "get_host_handles"}
Health == {"get_health"}
InfoAndConfig == {"get_info", "get_config"} \cup DOMAIN FeatureRows
Capabilities == {"get_capabilities"}
StartupOptions == {"create_native"}
StartupViews == {"get_startup_config", "get_delivery_config"}
NetworkOptions == {"apply_network"}
ConnectionOptions == {"apply_tcp_connection_options"}
ConnectionConfig == {"get_tcp_connection_config"}
SecurityOptions == {"apply_tcp_security_options"}
SecurityInfo == {"get_tcp_security_info"}
OwnerConfig == {"file_lane_create_owned", "stream_create_owned"}
FileConfig == {"file_lane_create", "file_lane_create_owned"}
FileSpecs == {"file_lane_prepare_receive", "file_lane_prepare_receive_grant", "file_lane_submit_send"}
FileViews ==
  {"file_lane_prepare_receive_grant", "file_lane_get_transfer", "file_lane_wait_transfer", "file_lane_get_stats"}
StreamConfig == {"stream_create", "stream_create_owned"}
StreamSpecs == {"stream_prepare_publish", "stream_prepare_publish_grant", "stream_subscribe"}
StreamViews ==
  {"stream_prepare_publish_grant", "stream_get_session", "stream_wait_session",
   "stream_get_pressure", "stream_wait_pressure", "stream_stats"}

SizedInputs ==
  StartupOptions \cup NetworkOptions \cup ConnectionOptions \cup SecurityOptions
  \cup OwnerConfig \cup FileConfig \cup FileSpecs \cup StreamConfig \cup StreamSpecs

SizedOutputs ==
  StatsAndHandles \cup Health \cup InfoAndConfig \cup Capabilities \cup StartupViews
  \cup ConnectionConfig \cup SecurityInfo \cup FileViews \cup StreamViews

sized(f) == {r \in {"input", "output"} :
              f \in IF r = "input" THEN SizedInputs ELSE SizedOutputs}

-----------------------------------------------------------------------------
(* The objects a function uses, makes and frees: one way for each that     *)
(* Core's headers describe, with one object of a kind.                     *)

way(uses, makes, frees) == [uses |-> uses, makes |-> makes, frees |-> frees]

using(kinds) == {way(kinds, {}, {})}
making(kinds, new) == {way(kinds, new, {})}
freeing(kind) == {way({kind}, {}, {kind})}

\* Destroying a reader also retires its outstanding frame.
ReaderContract ==
  each({"request_reader_create"}, making({"runtime", "handles"}, {"reader"}))
  ++ each({"request_reader_read"}, making({"reader"}, {"frame"}))
  ++ each({"owned_frame_data", "owned_frame_size"}, using({"frame"}))
  ++ each({"owned_frame_release"}, freeing("frame"))
  ++ each({"request_reader_destroy"}, freeing("reader"))

LibraryContract ==
  each({"get_abi_version", "get_info", "get_capabilities"} \cup DOMAIN FeatureRows, using({}))

CreateContract ==
  each({"create_native"}, making({}, {"runtime"}))
  ++ each({"get_startup_config", "get_delivery_config"}, using({"runtime"}))

TransportContract ==
  each({"get_config", "apply_network", "apply_tcp_connection_options", "get_tcp_connection_config",
        "apply_tcp_security_options", "get_tcp_security_info"}, using({"runtime"}))
  ++ each({"transport_apply_reason_name", "deadletter_reason_name"}, using({}))

LifecycleContract ==
  each({"runtime_destroy"}, freeing("runtime"))
  ++ each({"get_host_handles"}, making({"runtime"}, {"handles"}))
  ++ each({"start", "stop", "get_stats", "get_health", "submit_envelope", "apply_snapshot"}, using({"runtime"}))
  ++ each({"host_handles_close"}, freeing("handles"))

\* What await returns is independent of the ticket.
AskContract ==
  each({"ask_client_create"}, making({"runtime", "handles"}, {"client"}))
  ++ each({"ask_client_begin"}, making({"client"}, {"ticket"}))
  ++ each({"ask_ticket_await"}, making({"ticket"}, {"wire"}))
  ++ each({"ask_ticket_cancel"}, using({"ticket"}))
  ++ each({"ask_ticket_destroy"}, freeing("ticket"))
  ++ each({"ask_client_destroy"}, freeing("client"))

\* An empty payload is no object.  Swift releases what it was given, also when
\* that is nothing: the one way without an object.
BytesContract ==
  each({"build_raw_request"}, making({}, {"wire"}))
  ++ each({"build_raw_reply"}, making({"frame"}, {"wire"}))
  ++ each({"copy_envelope_payload"}, making({"wire"}, {"payload"}) \cup using({"wire"}))
  ++ each({"copy_request_dispatch"}, making({"frame"}, {"target", "payload"}) \cup making({"frame"}, {"target"}))
  ++ each({"client_bytes_release"}, freeing("wire") \cup freeing("target") \cup freeing("payload") \cup using({}))

FileContract ==
  each({"file_lane_create", "file_lane_create_owned"}, making({}, {"lane"}))
  ++ each({"file_lane_destroy"}, freeing("lane"))
  ++ each({"file_lane_start", "file_lane_stop", "file_lane_get_bound_port"}, using({"lane"}))

TransferContract ==
  each({"file_sha256_path"}, using({})) ++ each(DOMAIN FileRows, using({"lane"}))

StreamContract ==
  each({"stream_create", "stream_create_owned"}, making({}, {"lane"}))
  ++ each({"stream_destroy"}, freeing("lane"))
  ++ each({"stream_start", "stream_stop", "stream_bound_port"}, using({"lane"}))

SessionContract == each(DOMAIN StreamLaneRows, using({"lane"}))

Contract ==
  (ReaderContract ++ LibraryContract ++ CreateContract)
  ++ ((TransportContract ++ LifecycleContract ++ AskContract)
      ++ ((BytesContract ++ FileContract ++ TransferContract) ++ (StreamContract ++ SessionContract)))

\* What an object may outlive none of.
Needs ==
  each({"reader", "client"}, {"runtime", "handles"})
  ++ each({"frame"}, {"reader"}) ++ each({"ticket"}, {"client"})
  ++ each({"runtime", "handles", "wire", "payload", "target", "lane"}, {})

-----------------------------------------------------------------------------
\* A library without a function of the host is refused when it is opened.
ASSUME BridgeAssumption == Libraries \subseteq SUBSET DOMAIN LaneRows

Callable ==
  CASE role = "host" -> DOMAIN HostRows
    [] role = "file" -> DOMAIN FileRows \cup {"file_lane_available", "lane_owner_grants_available"}
    [] role = "stream" -> DOMAIN StreamLaneRows \cup {"stream_available", "lane_owner_grants_available"}

Idle == [at |-> "swift"]

BridgeInit ==
  /\ role \in {"host", "file", "stream"}
  /\ missing \in {absent \cap Callable : absent \in Libraries}
  /\ held = {}
  /\ live = {}
  /\ call = Idle

\* Swift passes objects it holds, keeps each pointer it gets, and frees nothing
\* that another object needs (Startup, RuntimeSession, AskClient).
May(f, how) ==
  /\ call = Idle
  /\ how \in Contract[f]
  /\ how.uses \subseteq held
  /\ how.makes \cap held = {}
  /\ \A k \in held : Needs[k] \cap how.frees = {}

owns(f) == \E how \in Contract[f] : how.uses # {}

\* The bridge's tests: Core has the function, and is given no nil object.
passes(f, how) ==
  /\ Rows[f].lookup => f \notin missing
  /\ owns(f) /\ "owner" \in Rows[f].tests => how.uses # {}

\* ERR_SYMBOL or INVALID_ARG, or nothing where there is no status.  Swift drops
\* its pointer all the same.
Refuse(f) ==
  \E how \in Contract[f] :
    /\ May(f, how)
    /\ ~passes(f, how)
    /\ held' = held \ how.frees
    /\ UNCHANGED <<role, missing, live, call>>

EnterCore(f) ==
  \E how \in Contract[f] :
    /\ May(f, how)
    /\ passes(f, how)
    /\ call' = [at |-> "core", f |-> f, how |-> how, sized |-> SwiftStamps[f] \cup Rows[f].stamps,
                slot |-> {}, copy |-> {}]
    /\ UNCHANGED <<role, missing, held, live>>

\* Core refuses, with its outputs empty, or does what the header says.
CoreReturns ==
  /\ call.at = "core"
  /\ \E ok \in IF call.how.makes = {} THEN {TRUE} ELSE BOOLEAN :
       LET new == IF ok THEN call.how.makes ELSE {}
           own == Rows[call.f].output = "own"
       IN  /\ live' = (live \ call.how.frees) \cup new
           /\ call' = [call EXCEPT !.at = "bridge",
                                   !.slot = IF own THEN {} ELSE new,
                                   !.copy = IF own THEN new ELSE {}]
  /\ UNCHANGED <<role, missing, held>>

\* Mutant of Return: the caller's output is cleared after the call of Core.
ReturnCleared ==
  /\ call.at = "bridge"
  /\ held' = (held \ call.how.frees)
             \cup (CASE Rows[call.f].output = "own" -> call.copy
                    [] Rows[call.f].output = "cleared" -> {}
                    [] OTHER -> call.slot)
  /\ call' = Idle
  /\ UNCHANGED <<role, missing, live>>

\* The bridge hands its own copy over, the rest is in the caller's slot already.
Return ==
  /\ call.at = "bridge"
  /\ held' = (held \ call.how.frees) \cup (IF Rows[call.f].output = "own" THEN call.copy ELSE call.slot)
  /\ call' = Idle
  /\ UNCHANGED <<role, missing, live>>

BridgeNext == (\E f \in Callable : EnterCore(f) \/ Refuse(f)) \/ CoreReturns \/ Return

BridgeSpec == BridgeInit /\ [][BridgeNext]_bridgeVars

-----------------------------------------------------------------------------
(* Properties *)

\* Core is entered only as its headers ask: it exports the function, every record
\* it sizes carries its size, from Swift's side or the bridge's, and what it is
\* given to use is alive, and not nil.
EntersAsDeclared ==
  call.at = "core" =>
    /\ call.f \notin missing
    /\ sized(call.f) \subseteq call.sized
    /\ call.how.uses \subseteq live
    /\ owns(call.f) => call.how.uses # {}

Destroys(k) == {f \in Callable : way({k}, {}, {k}) \in Contract[f]}

\* Between calls Swift holds exactly what Core has: no call, accepted or refused,
\* leaves an object that nobody can free or a pointer to one that is gone.  The
\* one exception is a library that does not export the lane's destroy function,
\* which is looked up when it is called.
NothingLost ==
  call = Idle =>
    /\ held \subseteq live
    /\ \A k \in live \ held : Destroys(k) \subseteq missing
=============================================================================
