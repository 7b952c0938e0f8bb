---------------------------- MODULE BoundaryProofs -----------------------------
(***************************************************************************)
(* Theorems about what crosses the boundary between Swift and Core.        *)
(*                                                                         *)
(* Transport, for any threads and any policies with values of the right    *)
(* types: what Core was told of a start is what was given, the lock keeps  *)
(* the host open while a policy is applied, and an answer that says        *)
(* applied is about the policy that was asked for.                         *)
(*                                                                         *)
(* Bridge, for any set of functions a library may lack: Core is entered    *)
(* only as its headers ask, and no call loses an object.  The two modules  *)
(* share no variable: each theorem is about the specification it names.    *)
(***************************************************************************)
EXTENDS Transport, Bridge, TLAPS

-----------------------------------------------------------------------------
(* Transport. *)

\* Where the threads are, and what they ask for.
CallerInv ==
  /\ caller \in [Callers -> {"idle", "waiting", "calling"}]
  /\ asked \in [Callers -> SecuritySpecs \cup ConnectionSpecs \cup {None}]
  /\ answer = [c \in Callers |-> answer[c]]

\* Core was created with the options of the start.
StartInv ==
  /\ start \in StartSpecs
  /\ accepted # None => accepted = startupOptions(start)

\* A thread in Core holds the lock of an open host, so no two are.
LockInv == \A c \in Callers : caller[c] = "calling" => phase = "open" /\ locked = c

\* An answer that says applied carries the policy as it crosses the ABI.
Answered(c) ==
  answer[c] # None /\ answer[c].ok =>
    asked[c] \in SecuritySpecs /\ answer[c].active = securityOptions(asked[c]).values

TransportInv ==
  /\ CallerInv
  /\ StartInv
  /\ LockInv
  /\ \A c \in Callers : Answered(c)

-----------------------------------------------------------------------------
(* Transport: the translations. *)

\* Of a security policy, every option keeps its value, whatever bits are set.
LEMMA SecurityKept ==
  ASSUME NEW s \in SecuritySpecs
  PROVE  /\ securityOptions(s).values \in [SecurityFields -> Nat]
         /\ DOMAIN s = Credentials \cup {"mode"}
         /\ \A f \in DOMAIN s : securityOptions(s).values[f] = s[f]
  <1>1. s \in [Credentials \cup {"mode"} -> Nat]
    BY TransportAssumption
  <1>2. \E source \in Nat : securityOptions(s).values = withSource(s, source)
    BY DEF securityOptions, File
  <1>3. "source" \notin Credentials \cup {"mode"} /\ SecurityFields = Credentials \cup {"mode", "source"}
    BY DEF Credentials, CredentialFiles, SecurityFields
  <1>4. QED
    BY <1>1, <1>2, <1>3 DEF withSource

\* Of a connection strategy, the mask has what is not nil and the values follow it.
LEMMA ConnectionKept ==
  ASSUME NEW s \in ConnectionSpecs, NEW f \in Tunings \cup {"mode"}
  PROVE  LET told == connectionOptions(s)
         IN  /\ f \in told.fields <=> s[f] # None
             /\ told.values[f] = IF f \in told.fields THEN s[f] ELSE 0
  <1>1. s \in [Tunings \cup {"mode"} -> Nat \cup {None}] /\ s["mode"] # None
    BY TransportAssumption
  <1>2. QED
    BY <1>1 DEF connectionOptions, Tunings

LEMMA StartKept ==
  ASSUME NEW s \in StartSpecs
  PROVE  LET told == startupOptions(s) IN
         /\ \A g \in Groups : g \in DOMAIN told <=> s[g] # None
         /\ \A g \in DOMAIN told \ {"connection"} : told[g] = s[g]
         /\ "connection" \in DOMAIN told =>
              s.connection \in ConnectionSpecs /\ told.connection = connectionOptions(s.connection)
  <1>1. s.connection \in ConnectionSpecs \cup {None} /\ "connection" \in Groups
    BY TransportAssumption DEF Groups
  <1>2. QED
    BY <1>1 DEF startupOptions

-----------------------------------------------------------------------------
LEMMA InitInv == Init => TransportInv
  BY TransportAssumption DEF Init, TransportInv, CallerInv, StartInv, LockInv, Answered

\* The host's own steps: the lock is free when it is sealed, and nobody is in Core
\* before it is open.
LEMMA HostKeeps ==
  ASSUME TransportInv, Create \/ Announce \/ Secure \/ Seal \/ Retire
  PROVE  TransportInv'
  <1> USE DEF TransportInv, nobodyCalls, startOnly
  <1>1. UNCHANGED <<locked, caller, asked, answer, start>>
    BY DEF Create, Announce, Secure, Seal, Retire
  <1>2. StartInv'
    BY <1>1 DEF StartInv, Create, Announce, Secure, Seal, Retire
  <1>3. LockInv'
    BY <1>1, TransportAssumption DEF LockInv, Create, Announce, Secure, Seal, Retire
  <1>4. CallerInv' /\ \A c \in Callers : Answered(c)'
    BY <1>1 DEF CallerInv, Answered
  <1>5. QED
    BY <1>2, <1>3, <1>4

LEMMA CallKeeps ==
  ASSUME TransportInv, NEW c \in Callers, Call(c)
  PROVE  TransportInv'
  <1> USE DEF TransportInv, startOnly
  <1>1. PICK s \in SecuritySpecs \cup ConnectionSpecs :
          /\ asked' = [asked EXCEPT ![c] = s]
          /\ caller' = [caller EXCEPT ![c] = "waiting"]
          /\ answer' = [answer EXCEPT ![c] = None]
          /\ UNCHANGED <<start, accepted, announced, phase, active, locked>>
    BY DEF Call, goto, reply
  <1>2. answer = [d \in Callers |-> answer[d]]
    BY DEF CallerInv
  <1>3. answer' = [d \in Callers |-> answer'[d]] /\ answer'[c] = None
        /\ \A d \in Callers \ {c} : answer'[d] = answer[d]
    BY <1>1, <1>2
  <1>4. CallerInv' /\ StartInv' /\ LockInv'
    BY <1>1, <1>3 DEF CallerInv, StartInv, LockInv
  <1>5. \A d \in Callers : Answered(d)'
    BY <1>1, <1>3 DEF CallerInv, Answered
  <1>6. QED
    BY <1>4, <1>5

LEMMA EnterKeeps ==
  ASSUME TransportInv, NEW c \in Callers, Enter(c)
  PROVE  TransportInv'
  <1> USE DEF TransportInv, startOnly
  <1>1. /\ locked = None
        /\ \/ phase = "open" /\ locked' = c /\ caller' = [caller EXCEPT ![c] = "calling"]
           \/ locked' = locked /\ caller' = [caller EXCEPT ![c] = "idle"]
        /\ UNCHANGED <<start, accepted, announced, phase, active, asked, answer>>
    BY DEF Enter, goto
  <1>2. \A d \in Callers : caller[d] # "calling"
    BY <1>1, TransportAssumption DEF LockInv
  <1>3. CallerInv' /\ StartInv' /\ LockInv'
    BY <1>1, <1>2 DEF CallerInv, StartInv, LockInv
  <1>4. \A d \in Callers : Answered(d)'
    BY <1>1 DEF Answered
  <1>5. QED
    BY <1>3, <1>4

\* An answer changes only to a record that agrees with the status, and Core says
\* applied only of a security policy, which is then active.
LEMMA ApplyAnswers ==
  ASSUME TransportInv, NEW c \in Callers, Apply(c)
  PROVE  \/ answer' = answer
         \/ \E r : /\ answer' = [answer EXCEPT ![c] = r]
                   /\ r.ok => asked[c] \in SecuritySpecs /\ r.active = securityOptions(asked[c]).values
  <1>1. CASE applyConnection(c)
    <2>1. PICK status \in BOOLEAN, record \in {[ok |-> FALSE, active |-> active], blank} :
            connectionCall(status, record) /\ project(c, status, record)
      BY <1>1 DEF applyConnection
    <2>2. status = FALSE /\ (answer' = answer \/ (record.ok = FALSE /\ answer' = [answer EXCEPT ![c] = record]))
      BY <2>1 DEF connectionCall, project, reply
    <2>3. QED
      BY <2>2
  <1>2. CASE applySecurity(c)
    <2> DEFINE options == securityOptions(asked[c])
    <2>1. PICK status \in BOOLEAN, record \in [ok : BOOLEAN, active : {active, options.values}] \cup {blank} :
            securityCall(options, status, record) /\ project(c, status, record)
      BY <1>2 DEF applySecurity
    <2>2. asked[c] \in SecuritySpecs
      BY <1>2 DEF applySecurity
    <2> HIDE DEF options
    <2>3. CASE status = TRUE
      <3>1. record = [ok |-> TRUE, active |-> options.values]
        BY <2>1, <2>3 DEF securityCall
      <3>2. answer' = [answer EXCEPT ![c] = record] /\ record.active = options.values
        BY <2>1, <2>3, <3>1 DEF project, reply
      <3>3. QED
        BY <2>2, <3>2 DEF options
    <2>4. CASE status = FALSE
      <3>1. answer' = answer \/ (record.ok = FALSE /\ answer' = [answer EXCEPT ![c] = record])
        BY <2>1, <2>4 DEF project, reply
      <3>2. QED
        BY <3>1
    <2>5. QED
      BY <2>3, <2>4
  <1>3. QED
    BY <1>1, <1>2 DEF Apply

LEMMA ApplyKeeps ==
  ASSUME TransportInv, NEW c \in Callers, Apply(c)
  PROVE  TransportInv'
  <1> USE DEF TransportInv, startOnly
  <1>1. /\ caller[c] = "calling"
        /\ locked' = IF locked = c THEN None ELSE locked
        /\ caller' = [caller EXCEPT ![c] = "idle"]
        /\ UNCHANGED <<start, accepted, announced, phase, asked>>
    BY DEF Apply, leave, goto
  <1>2. answer = [d \in Callers |-> answer[d]]
    BY DEF CallerInv
  <1>3. CASE answer' = answer
    BY <1>1, <1>2, <1>3 DEF CallerInv, StartInv, LockInv, Answered
  <1>4. CASE \E r : /\ answer' = [answer EXCEPT ![c] = r]
                    /\ r.ok => asked[c] \in SecuritySpecs /\ r.active = securityOptions(asked[c]).values
    <2>1. PICK r : /\ answer' = [answer EXCEPT ![c] = r]
                   /\ r.ok => asked[c] \in SecuritySpecs /\ r.active = securityOptions(asked[c]).values
      BY <1>4
    <2>2. answer' = [d \in Callers |-> answer'[d]] /\ answer'[c] = r /\ \A d \in Callers \ {c} : answer'[d] = answer[d]
      BY <1>2, <2>1
    <2>3. CallerInv' /\ StartInv' /\ LockInv'
      BY <1>1, <2>2 DEF CallerInv, StartInv, LockInv
    <2>4. \A d \in Callers : Answered(d)'
      BY <1>1, <2>1, <2>2 DEF Answered
    <2>5. QED
      BY <2>3, <2>4
  <1>5. QED
    BY <1>3, <1>4, ApplyAnswers

LEMMA StepKeeps == ASSUME TransportInv, [Next]_vars PROVE TransportInv'
  <1>1. CASE UNCHANGED vars
    BY <1>1 DEF vars, TransportInv, CallerInv, StartInv, LockInv, Answered
  <1>2. CASE Next
    BY <1>2, HostKeeps, CallKeeps, EnterKeeps, ApplyKeeps DEF Next
  <1>3. QED
    BY <1>1, <1>2

-----------------------------------------------------------------------------
\* What a thread is told is about its own policy and the host it found open, in
\* every reachable state.
THEOREM TransportInvHolds == Spec => []TransportInv
  BY InitInv, StepKeeps, PTL DEF Spec

\* withTransportLock keeps the seal, the retirement and other calls out of a call
\* of Core, however many threads apply policies.
THEOREM AppliedUnderLock == Spec => []SealedOut
  <1>1. TransportInv => SealedOut
    BY DEF TransportInv, LockInv, SealedOut
  <1>2. QED
    BY <1>1, TransportInvHolds, PTL

\* A call that returns applied was about security, and what is then active agrees
\* with the policy in every field, whatever the policy gives.
THEOREM AppliedIsWhatWasAsked == Spec => []AppliedMeansAsked
  <1>1. TransportInv => AppliedMeansAsked
    <2> SUFFICES ASSUME TransportInv, NEW c \in Callers, answer[c] # None /\ answer[c].ok
                 PROVE  /\ asked[c] \in SecuritySpecs
                        /\ answer[c].active # None
                        /\ \A f \in DOMAIN asked[c] : answer[c].active[f] = asked[c][f]
      BY DEF AppliedMeansAsked
    <2>1. asked[c] \in SecuritySpecs /\ answer[c].active = securityOptions(asked[c]).values
      BY DEF TransportInv, Answered
    <2>2. QED
      BY <2>1, SecurityKept, TransportAssumption
  <1>2. QED
    BY <1>1, TransportInvHolds, PTL

\* createNative tells Core of each group and tuning value that is given, zero or
\* not, and of no other, for every spec a host may be started with.
THEOREM CoreIsToldWhatIsGiven == Spec => []GivenIsExplicit
  <1>1. TransportInv => GivenIsExplicit
    <2> SUFFICES ASSUME TransportInv, accepted # None
                 PROVE  /\ \A g \in Groups : g \in DOMAIN accepted <=> start[g] # None
                        /\ \A g \in DOMAIN accepted \ {"connection"} : accepted[g] = start[g]
                        /\ "connection" \in DOMAIN accepted =>
                             LET given == start.connection
                                 told  == accepted.connection
                             IN  \A f \in Tunings \cup {"mode"} :
                                   /\ f \in told.fields <=> given[f] # None
                                   /\ told.values[f] = (IF f \in told.fields THEN given[f] ELSE 0)
      BY DEF GivenIsExplicit
    <2>1. start \in StartSpecs /\ accepted = startupOptions(start)
      BY DEF TransportInv, StartInv
    <2>2. QED
      BY <2>1, StartKept, ConnectionKept
  <1>2. QED
    BY <1>1, TransportInvHolds, PTL


-----------------------------------------------------------------------------
(* Bridge: the tables. *)

\* Every row of a table stays in it when others are laid over it or under it.
LEMMA Tables ==
  /\ \A s, t, f : f \in DOMAIN s \/ f \in DOMAIN t => f \in DOMAIN (s ++ t)
  /\ \A functions, row, f : f \in functions => f \in DOMAIN each(functions, row)
  BY DEF ++, each

LEMMA FeatureDomain ==
  DOMAIN FeatureRows = {"lane_owner_grants_available", "file_lane_available", "stream_available"}
  BY DEF FeatureRows, each, ++

LEMMA FileDomain ==
  DOMAIN FileRows =
    {"file_lane_create", "file_lane_create_owned", "file_lane_get_bound_port", "file_sha256_path",
     "file_lane_destroy", "file_lane_start", "file_lane_stop", "file_lane_cancel", "file_lane_forget",
     "file_lane_prepare_receive", "file_lane_submit_send", "file_lane_prepare_receive_grant",
     "file_lane_get_transfer", "file_lane_wait_transfer", "file_lane_get_stats"}
  BY DEF FileRows, each, ++

LEMMA StreamDomain ==
  /\ DOMAIN StreamRows =
       {"stream_create", "stream_create_owned", "stream_bound_port", "stream_destroy", "stream_start",
        "stream_stop", "stream_prepare_publish", "stream_subscribe", "stream_prepare_publish_grant"}
  /\ DOMAIN StreamReadRows =
       {"stream_get_session", "stream_wait_session", "stream_get_pressure", "stream_wait_pressure",
        "stream_stats", "stream_cancel", "stream_forget"}
  <1>1. DOMAIN StreamRows =
          {"stream_create", "stream_create_owned", "stream_bound_port", "stream_destroy", "stream_start",
           "stream_stop", "stream_prepare_publish", "stream_subscribe", "stream_prepare_publish_grant"}
    BY DEF StreamRows, each, ++
  <1>2. DOMAIN StreamReadRows =
          {"stream_get_session", "stream_wait_session", "stream_get_pressure", "stream_wait_pressure",
           "stream_stats", "stream_cancel", "stream_forget"}
    BY DEF StreamReadRows, each, ++
  <1>3. QED
    BY <1>1, <1>2

LEMMA ClientDomain ==
  DOMAIN ClientRows =
    {"create_native", "get_startup_config", "get_delivery_config", "request_reader_create",
     "request_reader_read", "copy_envelope_payload", "copy_request_dispatch", "owned_frame_data",
     "owned_frame_size", "owned_frame_release", "request_reader_destroy", "ask_ticket_cancel"}
  BY DEF ClientRows, each, ++

LEMMA ViewDomain ==
  /\ DOMAIN LifecycleRows = {"get_abi_version", "get_info", "runtime_destroy", "apply_network"}
  /\ DOMAIN ViewRows =
       {"host_handles_close", "start", "stop", "submit_envelope", "apply_snapshot", "get_config",
        "get_host_handles", "get_health", "get_stats", "get_capabilities"}
  <1>1. DOMAIN LifecycleRows = {"get_abi_version", "get_info", "runtime_destroy", "apply_network"}
    BY DEF LifecycleRows, each, ++
  <1>2. DOMAIN ViewRows =
          {"host_handles_close", "start", "stop", "submit_envelope", "apply_snapshot", "get_config",
           "get_host_handles", "get_health", "get_stats", "get_capabilities"}
    BY DEF ViewRows, each, ++
  <1>3. QED
    BY <1>1, <1>2

LEMMA AskDomain ==
  /\ DOMAIN TransportRows =
       {"apply_tcp_connection_options", "apply_tcp_security_options", "get_tcp_connection_config",
        "get_tcp_security_info", "transport_apply_reason_name", "deadletter_reason_name"}
  /\ DOMAIN AskRows =
       {"ask_client_create", "ask_client_destroy", "ask_ticket_destroy", "ask_client_begin", "ask_ticket_await"}
  /\ DOMAIN BytesRows = {"build_raw_request", "build_raw_reply", "client_bytes_release"}
  <1>1. DOMAIN TransportRows =
          {"apply_tcp_connection_options", "apply_tcp_security_options", "get_tcp_connection_config",
           "get_tcp_security_info", "transport_apply_reason_name", "deadletter_reason_name"}
    BY DEF TransportRows, each, ++
  <1>2. DOMAIN AskRows =
          {"ask_client_create", "ask_client_destroy", "ask_ticket_destroy", "ask_client_begin", "ask_ticket_await"}
    BY DEF AskRows, each, ++
  <1>3. DOMAIN BytesRows = {"build_raw_request", "build_raw_reply", "client_bytes_release"}
    BY DEF BytesRows, each, ++
  <1>4. QED
    BY <1>1, <1>2, <1>3

\* The host's tables lie one over another: a function has the row of the first
\* table it is in.
LEMMA HostLayers ==
  /\ DOMAIN HostRows = DOMAIN ClientRows \cup DOMAIN LifecycleRows \cup DOMAIN ViewRows
                       \cup DOMAIN TransportRows \cup DOMAIN AskRows \cup DOMAIN BytesRows
  /\ \A f \in DOMAIN LifecycleRows : f \notin DOMAIN ClientRows => HostRows[f] = LifecycleRows[f]
  /\ \A f \in DOMAIN ViewRows :
        f \notin DOMAIN ClientRows \cup DOMAIN LifecycleRows => HostRows[f] = ViewRows[f]
  /\ \A f \in DOMAIN TransportRows :
        f \notin DOMAIN ClientRows \cup DOMAIN LifecycleRows \cup DOMAIN ViewRows => HostRows[f] = TransportRows[f]
  /\ \A f \in DOMAIN BytesRows :
        f \notin DOMAIN ClientRows \cup DOMAIN LifecycleRows \cup DOMAIN ViewRows
                 \cup DOMAIN TransportRows \cup DOMAIN AskRows => HostRows[f] = BytesRows[f]
  <1>1. PICK two : two = ClientRows ++ LifecycleRows
    OBVIOUS
  <1>2. PICK three : three = two ++ ViewRows
    OBVIOUS
  <1>3. PICK four : four = three ++ TransportRows
    OBVIOUS
  <1>4. PICK five : five = four ++ AskRows
    OBVIOUS
  <1>5. HostRows = five ++ BytesRows
    BY <1>1, <1>2, <1>3, <1>4 DEF HostRows
  <1>6. /\ DOMAIN two = DOMAIN ClientRows \cup DOMAIN LifecycleRows
        /\ \A f \in DOMAIN LifecycleRows : f \notin DOMAIN ClientRows => two[f] = LifecycleRows[f]
    BY <1>1 DEF ++
  <1>7. /\ DOMAIN three = DOMAIN two \cup DOMAIN ViewRows
        /\ \A f \in DOMAIN two : three[f] = two[f]
        /\ \A f \in DOMAIN ViewRows : f \notin DOMAIN two => three[f] = ViewRows[f]
    BY <1>2 DEF ++
  <1>8. /\ DOMAIN four = DOMAIN three \cup DOMAIN TransportRows
        /\ \A f \in DOMAIN three : four[f] = three[f]
        /\ \A f \in DOMAIN TransportRows : f \notin DOMAIN three => four[f] = TransportRows[f]
    BY <1>3 DEF ++
  <1>9. /\ DOMAIN five = DOMAIN four \cup DOMAIN AskRows
        /\ \A f \in DOMAIN four : five[f] = four[f]
    BY <1>4 DEF ++
  <1>10. /\ DOMAIN HostRows = DOMAIN five \cup DOMAIN BytesRows
         /\ \A f \in DOMAIN five : HostRows[f] = five[f]
         /\ \A f \in DOMAIN BytesRows : f \notin DOMAIN five => HostRows[f] = BytesRows[f]
    BY <1>5 DEF ++
  <1>11. DOMAIN HostRows = DOMAIN ClientRows \cup DOMAIN LifecycleRows \cup DOMAIN ViewRows
                           \cup DOMAIN TransportRows \cup DOMAIN AskRows \cup DOMAIN BytesRows
    BY <1>6, <1>7, <1>8, <1>9, <1>10
  <1>12. \A f \in DOMAIN three : HostRows[f] = three[f]
    BY <1>8, <1>9, <1>10
  <1>13. \A f \in DOMAIN LifecycleRows : f \notin DOMAIN ClientRows => HostRows[f] = LifecycleRows[f]
    BY <1>6, <1>7, <1>12
  <1>14. \A f \in DOMAIN ViewRows :
           f \notin DOMAIN ClientRows \cup DOMAIN LifecycleRows => HostRows[f] = ViewRows[f]
    BY <1>6, <1>7, <1>12
  <1>15. \A f \in DOMAIN TransportRows :
           f \notin DOMAIN ClientRows \cup DOMAIN LifecycleRows \cup DOMAIN ViewRows => HostRows[f] = TransportRows[f]
    BY <1>6, <1>7, <1>8, <1>9, <1>10
  <1>16. \A f \in DOMAIN BytesRows :
           f \notin DOMAIN ClientRows \cup DOMAIN LifecycleRows \cup DOMAIN ViewRows
                    \cup DOMAIN TransportRows \cup DOMAIN AskRows => HostRows[f] = BytesRows[f]
    BY <1>6, <1>7, <1>8, <1>9, <1>10
  <1>17. QED
    BY <1>11, <1>13, <1>14, <1>15, <1>16

\* The three tables lie over one another in the same way.
LEMMA TableLayers ==
  /\ Functions = DOMAIN FeatureRows \cup DOMAIN LaneRows \cup DOMAIN HostRows
  /\ \A f \in DOMAIN FeatureRows : Rows[f] = FeatureRows[f]
  /\ \A f \in DOMAIN LaneRows : f \notin DOMAIN FeatureRows => Rows[f] = LaneRows[f]
  /\ \A f \in DOMAIN HostRows : f \notin DOMAIN FeatureRows \cup DOMAIN LaneRows => Rows[f] = HostRows[f]
  <1>1. PICK two : two = FeatureRows ++ LaneRows
    OBVIOUS
  <1>2. Rows = two ++ HostRows
    BY <1>1 DEF Rows
  <1>3. /\ DOMAIN two = DOMAIN FeatureRows \cup DOMAIN LaneRows
        /\ \A f \in DOMAIN FeatureRows : two[f] = FeatureRows[f]
        /\ \A f \in DOMAIN LaneRows : f \notin DOMAIN FeatureRows => two[f] = LaneRows[f]
    BY <1>1 DEF ++
  <1>4. /\ DOMAIN Rows = DOMAIN two \cup DOMAIN HostRows
        /\ \A f \in DOMAIN two : Rows[f] = two[f]
        /\ \A f \in DOMAIN HostRows : f \notin DOMAIN two => Rows[f] = HostRows[f]
    BY <1>2 DEF ++
  <1>5. QED
    BY <1>3, <1>4 DEF Functions

LEMMA LaneDomain ==
  /\ DOMAIN LaneRows = DOMAIN FileRows \cup DOMAIN StreamRows \cup DOMAIN StreamReadRows
  /\ DOMAIN HostRows = DOMAIN ClientRows \cup DOMAIN LifecycleRows \cup DOMAIN ViewRows
                       \cup DOMAIN TransportRows \cup DOMAIN AskRows \cup DOMAIN BytesRows
  /\ Functions = DOMAIN FeatureRows \cup DOMAIN LaneRows \cup DOMAIN HostRows
  <1>1. DOMAIN LaneRows = DOMAIN FileRows \cup DOMAIN StreamRows \cup DOMAIN StreamReadRows
    <2>1. DOMAIN StreamLaneRows = DOMAIN StreamRows \cup DOMAIN StreamReadRows
      BY DEF StreamLaneRows, ++
    <2>2. DOMAIN LaneRows = DOMAIN FileRows \cup DOMAIN StreamLaneRows
      BY DEF LaneRows, ++
    <2>3. QED
      BY <2>1, <2>2
  <1>2. DOMAIN HostRows = DOMAIN ClientRows \cup DOMAIN LifecycleRows \cup DOMAIN ViewRows
                          \cup DOMAIN TransportRows \cup DOMAIN AskRows \cup DOMAIN BytesRows
    BY HostLayers
  <1>3. Functions = DOMAIN FeatureRows \cup DOMAIN LaneRows \cup DOMAIN HostRows
    BY TableLayers
  <1>4. QED
    BY <1>1, <1>2, <1>3

\* No function has a row in two tables.
LEMMA LaneRowsApart ==
  /\ \A f \in DOMAIN FileRows : Rows[f] = FileRows[f]
  /\ \A f \in DOMAIN StreamRows : Rows[f] = StreamRows[f]
  /\ \A f \in DOMAIN StreamReadRows : Rows[f] = StreamReadRows[f]
  <1>1. \A f \in DOMAIN LaneRows : Rows[f] = LaneRows[f]
    <2>1. \A f \in DOMAIN LaneRows : f \notin DOMAIN FeatureRows
      BY FeatureDomain, FileDomain, StreamDomain, LaneDomain
    <2>2. QED
      BY <2>1, TableLayers
  <1>2. \A f \in DOMAIN FileRows : LaneRows[f] = FileRows[f]
    BY DEF LaneRows, ++
  <1>3. \A f \in DOMAIN StreamRows \cup DOMAIN StreamReadRows : f \notin DOMAIN FileRows
    BY FileDomain, StreamDomain
  <1>4. \A f \in DOMAIN StreamReadRows : f \notin DOMAIN StreamRows
    BY StreamDomain
  <1>5. \A f \in DOMAIN StreamRows \cup DOMAIN StreamReadRows : LaneRows[f] = StreamLaneRows[f]
    <2>1. \A f \in DOMAIN StreamLaneRows : f \notin DOMAIN FileRows => LaneRows[f] = StreamLaneRows[f]
      BY DEF LaneRows, ++
    <2>2. DOMAIN StreamRows \cup DOMAIN StreamReadRows = DOMAIN StreamLaneRows
      BY DEF StreamLaneRows, ++
    <2>3. QED
      BY <1>3, <2>1, <2>2
  <1>6. \A f \in DOMAIN StreamRows : StreamLaneRows[f] = StreamRows[f]
    BY DEF StreamLaneRows, ++
  <1>7. \A f \in DOMAIN StreamReadRows : StreamLaneRows[f] = StreamReadRows[f]
    BY <1>4 DEF StreamLaneRows, ++
  <1>8. QED
    BY <1>1, <1>2, <1>5, <1>6, <1>7, LaneDomain

LEMMA HostRowsApart ==
  /\ \A f \in DOMAIN FeatureRows : Rows[f] = FeatureRows[f]
  /\ \A f \in DOMAIN LifecycleRows : Rows[f] = LifecycleRows[f]
  /\ \A f \in DOMAIN ViewRows : Rows[f] = ViewRows[f]
  /\ \A f \in DOMAIN TransportRows : Rows[f] = TransportRows[f]
  /\ \A f \in DOMAIN BytesRows : Rows[f] = BytesRows[f]
  <1>1. \A f \in DOMAIN HostRows : f \notin DOMAIN FeatureRows /\ f \notin DOMAIN LaneRows
    BY FeatureDomain, FileDomain, StreamDomain, ClientDomain, ViewDomain, AskDomain, LaneDomain
  <1>2. \A f \in DOMAIN HostRows : Rows[f] = HostRows[f]
    BY <1>1, TableLayers
  <1>3. \A f \in DOMAIN LifecycleRows : f \notin DOMAIN ClientRows
    BY ClientDomain, ViewDomain
  <1>4. \A f \in DOMAIN ViewRows : f \notin DOMAIN ClientRows \cup DOMAIN LifecycleRows
    BY ClientDomain, ViewDomain
  <1>5. \A f \in DOMAIN TransportRows : f \notin DOMAIN ClientRows \cup DOMAIN LifecycleRows \cup DOMAIN ViewRows
    BY ClientDomain, ViewDomain, AskDomain
  <1>6. \A f \in DOMAIN BytesRows : f \notin DOMAIN ClientRows \cup DOMAIN LifecycleRows \cup DOMAIN ViewRows
                                              \cup DOMAIN TransportRows \cup DOMAIN AskRows
    BY ClientDomain, ViewDomain, AskDomain
  <1>7. \A f \in DOMAIN FeatureRows : Rows[f] = FeatureRows[f]
    BY TableLayers
  <1>8. /\ \A f \in DOMAIN LifecycleRows : HostRows[f] = LifecycleRows[f]
        /\ \A f \in DOMAIN ViewRows : HostRows[f] = ViewRows[f]
    BY <1>3, <1>4, HostLayers
  <1>9. \A f \in DOMAIN TransportRows : HostRows[f] = TransportRows[f]
    BY <1>5, HostLayers
  <1>10. \A f \in DOMAIN BytesRows : HostRows[f] = BytesRows[f]
    BY <1>6, HostLayers
  <1>11. QED
    BY <1>2, <1>7, <1>8, <1>9, <1>10, LaneDomain

\* Core's function of a lane is looked up at every call.
LEMMA LanesAreLookedUp == \A f \in DOMAIN LaneRows : Rows[f].lookup
  <1> DEFINE lookedUp(table) == \A f \in DOMAIN table : table[f].lookup
  <1>1. \A functions, tests, stamps, output : lookedUp(each(functions, Lane(tests, stamps, output)))
    BY DEF Lane, each
  <1>2. \A s, t : lookedUp(s) /\ lookedUp(t) => lookedUp(s ++ t)
    BY DEF ++
  <1>3. lookedUp(FileRows) /\ lookedUp(StreamRows) /\ lookedUp(StreamReadRows)
    <2> HIDE DEF lookedUp
    <2>1. QED
      BY <1>1, <1>2, Zenon DEF FileRows, StreamRows, StreamReadRows
  <1>4. QED
    BY <1>3, LaneDomain, LaneRowsApart

\* The functions of a table that are among these stamp the record on that side.
stamping(table, side, these) == \A f \in DOMAIN table : f \in these => side \in table[f].stamps

LEMMA StampsAdd ==
  /\ \A s, t, side, these :
       stamping(s, side, these) /\ stamping(t, side, these) => stamping(s ++ t, side, these)
  /\ \A functions, tests, stamps, output, side, these :
       side \in stamps \/ functions \cap these = {}
         => /\ stamping(each(functions, Row(tests, stamps, output)), side, these)
            /\ stamping(each(functions, Lane(tests, stamps, output)), side, these)
  <1>1. ASSUME NEW s, NEW t, NEW side, NEW these, stamping(s, side, these), stamping(t, side, these)
        PROVE  stamping(s ++ t, side, these)
    BY <1>1 DEF stamping, ++
  <1>2. ASSUME NEW functions, NEW tests, NEW stamps, NEW output, NEW side, NEW these,
               side \in stamps \/ functions \cap these = {}
        PROVE  /\ stamping(each(functions, Row(tests, stamps, output)), side, these)
               /\ stamping(each(functions, Lane(tests, stamps, output)), side, these)
    BY <1>2 DEF stamping, each, Row, Lane
  <1>3. QED
    BY <1>1, <1>2

\* Every record that Core sizes is stamped, by Swift or by the bridge.
LEMMA InputsAreSized == \A f \in SizedInputs : "input" \in SwiftStamps[f] \cup Rows[f].stamps
  <1>1. \A f \in StartupOptions : f \in DOMAIN StartupStamps /\ "input" \in StartupStamps[f]
    BY DEF StartupOptions, StartupStamps, each, ++
  <1>2. \A f \in ConnectionOptions \cup SecurityOptions :
          f \in DOMAIN TransportStamps /\ "input" \in TransportStamps[f] /\ f \notin DOMAIN StartupStamps
    BY DEF ConnectionOptions, SecurityOptions, TransportStamps, StartupStamps, each, ++
  <1>3. \A f \in FileConfig : /\ f \in DOMAIN FileStamps /\ "input" \in FileStamps[f]
                              /\ f \notin DOMAIN StartupStamps \cup DOMAIN TransportStamps
    BY DEF FileConfig, FileStamps, StartupStamps, TransportStamps, each, ++
  <1>4. \A f \in StreamConfig :
          /\ f \in DOMAIN StreamStamps /\ "input" \in StreamStamps[f]
          /\ f \notin DOMAIN StartupStamps \cup DOMAIN TransportStamps \cup DOMAIN FileStamps
    BY DEF StreamConfig, StreamStamps, FileStamps, StartupStamps, TransportStamps, each, ++
  <1>5. \A f \in StartupOptions \cup ConnectionOptions \cup SecurityOptions \cup FileConfig \cup StreamConfig :
          "input" \in SwiftStamps[f]
    BY <1>1, <1>2, <1>3, <1>4 DEF SwiftStamps, ++
  <1>6. /\ stamping(LifecycleRows, "input", NetworkOptions)
        /\ stamping(FileRows, "input", FileSpecs)
        /\ stamping(StreamRows, "input", StreamSpecs)
    BY StampsAdd DEF NetworkOptions, LifecycleRows, FileSpecs, FileRows, StreamSpecs, StreamRows
  <1>7. /\ NetworkOptions \subseteq DOMAIN LifecycleRows
        /\ FileSpecs \subseteq DOMAIN FileRows
        /\ StreamSpecs \subseteq DOMAIN StreamRows
    BY ViewDomain, FileDomain, StreamDomain DEF NetworkOptions, FileSpecs, StreamSpecs
  <1>8. \A f \in NetworkOptions \cup FileSpecs \cup StreamSpecs : "input" \in Rows[f].stamps
    BY <1>6, <1>7, HostRowsApart, LaneRowsApart DEF stamping
  <1>9. OwnerConfig \subseteq FileConfig \cup StreamConfig
    BY DEF OwnerConfig, FileConfig, StreamConfig
  <1>10. QED
    BY <1>5, <1>8, <1>9 DEF SizedInputs

LEMMA OutputsAreSized == \A f \in SizedOutputs : "output" \in SwiftStamps[f] \cup Rows[f].stamps
  <1>1. \A f \in StartupViews : "output" \in SwiftStamps[f]
    <2>1. \A f \in StartupViews : f \in DOMAIN StartupStamps /\ "output" \in StartupStamps[f]
      BY DEF StartupViews, StartupStamps, each, ++
    <2>2. QED
      BY <2>1 DEF SwiftStamps, ++
  <1>2. /\ stamping(ViewRows, "output", StatsAndHandles \cup Health \cup Capabilities \cup {"get_config"})
        /\ stamping(LifecycleRows, "output", {"get_info"})
        /\ stamping(FeatureRows, "output", DOMAIN FeatureRows)
    BY StampsAdd DEF StatsAndHandles, Health, Capabilities, ViewRows, LifecycleRows, FeatureRows
  <1>3. /\ stamping(TransportRows, "output", ConnectionConfig \cup SecurityInfo)
        /\ stamping(FileRows, "output", FileViews)
        /\ stamping(StreamRows, "output", StreamViews)
        /\ stamping(StreamReadRows, "output", StreamViews)
    BY StampsAdd DEF ConnectionConfig, SecurityInfo, TransportRows, FileViews, FileRows,
                     StreamViews, StreamRows, StreamReadRows
  <1>4. /\ StatsAndHandles \cup Health \cup Capabilities \cup {"get_config"} \subseteq DOMAIN ViewRows
        /\ "get_info" \in DOMAIN LifecycleRows
        /\ ConnectionConfig \cup SecurityInfo \subseteq DOMAIN TransportRows
        /\ FileViews \subseteq DOMAIN FileRows
        /\ StreamViews \subseteq DOMAIN StreamRows \cup DOMAIN StreamReadRows
    BY ViewDomain, AskDomain, FileDomain, StreamDomain
       DEF StatsAndHandles, Health, Capabilities, ConnectionConfig, SecurityInfo, FileViews, StreamViews
  <1>5. /\ \A f \in StatsAndHandles \cup Health \cup Capabilities \cup {"get_config", "get_info"} :
             "output" \in Rows[f].stamps
        /\ \A f \in DOMAIN FeatureRows : "output" \in Rows[f].stamps
    BY <1>2, <1>4, HostRowsApart DEF stamping
  <1>6. \A f \in ConnectionConfig \cup SecurityInfo \cup FileViews \cup StreamViews :
          "output" \in Rows[f].stamps
    BY <1>3, <1>4, HostRowsApart, LaneRowsApart DEF stamping
  <1>7. QED
    BY <1>1, <1>5, <1>6 DEF SizedOutputs, InfoAndConfig

-----------------------------------------------------------------------------
(* Bridge: Core's contract. *)

\* A way that frees an object uses it; only releasing bytes may be of nothing, and
\* only a lane's destroy function frees a lane, and nothing else.
declared(f, ways) ==
  /\ \A how \in ways : how.uses = {} => how.frees = {}
  /\ f # "client_bytes_release" /\ (\E how \in ways : how.uses # {}) => \A how \in ways : how.uses # {}
  /\ \A how \in ways : "lane" \in how.frees => f \in {"file_lane_destroy", "stream_destroy"}
  /\ f \in DOMAIN LaneRows => \A how \in ways : how.frees \subseteq {"lane"}

contracts(table) == \A f \in DOMAIN table : declared(f, table[f])

LEMMA ContractsAdd ==
  ASSUME NEW s, NEW t, contracts(s), contracts(t)
  PROVE  contracts(s ++ t)
  BY DEF contracts, ++

LEMMA FreesNothing ==
  ASSUME NEW functions, NEW ways, \A how \in ways : how.frees = {},
         (\E how \in ways : how.uses # {}) => \A how \in ways : how.uses # {}
  PROVE  contracts(each(functions, ways))
  BY DEF contracts, each, declared

LEMMA UsingAndMaking ==
  /\ \A functions, kinds : contracts(each(functions, using(kinds)))
  /\ \A functions, kinds, new : contracts(each(functions, making(kinds, new)))
  <1>1. ASSUME NEW functions, NEW kinds PROVE contracts(each(functions, using(kinds)))
    <2>1. \A how \in using(kinds) : how.frees = {} /\ how.uses = kinds
      BY DEF using, way
    <2>2. QED
      BY <2>1, FreesNothing
  <1>2. ASSUME NEW functions, NEW kinds, NEW new PROVE contracts(each(functions, making(kinds, new)))
    <2>1. \A how \in making(kinds, new) : how.frees = {} /\ how.uses = kinds
      BY DEF making, way
    <2>2. QED
      BY <2>1, FreesNothing
  <1>3. QED
    BY <1>1, <1>2

LEMMA Freeing ==
  ASSUME NEW f, NEW kind,
         IF kind = "lane" THEN f \in {"file_lane_destroy", "stream_destroy"}
                          ELSE f \notin DOMAIN LaneRows
  PROVE  contracts(each({f}, freeing(kind)))
  <1>1. \A how \in freeing(kind) : how.frees = {kind} /\ how.uses = {kind}
    BY DEF freeing, way
  <1>2. QED
    BY <1>1 DEF contracts, each, declared

LEMMA HostFreeing ==
  /\ contracts(each({"owned_frame_release"}, freeing("frame")))
  /\ contracts(each({"request_reader_destroy"}, freeing("reader")))
  /\ contracts(each({"runtime_destroy"}, freeing("runtime")))
  /\ contracts(each({"host_handles_close"}, freeing("handles")))
  /\ contracts(each({"ask_ticket_destroy"}, freeing("ticket")))
  /\ contracts(each({"ask_client_destroy"}, freeing("client")))
  <1>1. DOMAIN LaneRows \cap {"owned_frame_release", "request_reader_destroy", "runtime_destroy",
                              "host_handles_close", "ask_ticket_destroy", "ask_client_destroy"} = {}
    BY FileDomain, StreamDomain, LaneDomain
  <1>2. QED
    BY <1>1, Freeing

LEMMA HostContracts ==
  /\ contracts(ReaderContract) /\ contracts(LibraryContract) /\ contracts(CreateContract)
  /\ contracts(TransportContract) /\ contracts(LifecycleContract) /\ contracts(AskContract)
  BY UsingAndMaking, HostFreeing, ContractsAdd
     DEF ReaderContract, LibraryContract, CreateContract, TransportContract, LifecycleContract, AskContract

\* Bytes are released by the function that may be called with none.
LEMMA BytesContracts == contracts(BytesContract)
  <1>1. contracts(each({"copy_envelope_payload"}, making({"wire"}, {"payload"}) \cup using({"wire"})))
    <2>1. \A how \in making({"wire"}, {"payload"}) \cup using({"wire"}) : how.frees = {} /\ how.uses = {"wire"}
      BY DEF making, using, way
    <2>2. QED
      BY <2>1, FreesNothing
  <1>2. contracts(each({"copy_request_dispatch"},
                       making({"frame"}, {"target", "payload"}) \cup making({"frame"}, {"target"})))
    <2>1. \A how \in making({"frame"}, {"target", "payload"}) \cup making({"frame"}, {"target"}) :
            how.frees = {} /\ how.uses = {"frame"}
      BY DEF making, way
    <2>2. QED
      BY <2>1, FreesNothing
  <1>3. contracts(each({"client_bytes_release"},
                       freeing("wire") \cup freeing("target") \cup freeing("payload") \cup using({})))
    <2>1. "client_bytes_release" \notin DOMAIN LaneRows
      BY FileDomain, StreamDomain, LaneDomain
    <2>2. \A how \in freeing("wire") \cup freeing("target") \cup freeing("payload") \cup using({}) :
            how.frees = how.uses /\ "lane" \notin how.frees
      BY DEF freeing, using, way
    <2>3. QED
      BY <2>1, <2>2 DEF contracts, each, declared
  <1>4. QED
    BY <1>1, <1>2, <1>3, UsingAndMaking, ContractsAdd DEF BytesContract

LEMMA LaneContracts ==
  /\ contracts(FileContract) /\ contracts(TransferContract)
  /\ contracts(StreamContract) /\ contracts(SessionContract)
  <1>1. contracts(each({"file_lane_destroy"}, freeing("lane"))) /\ contracts(each({"stream_destroy"}, freeing("lane")))
    BY Freeing
  <1>2. QED
    BY <1>1, UsingAndMaking, ContractsAdd DEF FileContract, TransferContract, StreamContract, SessionContract

LEMMA ContractDomain ==
  /\ \A f \in {"get_abi_version", "get_info", "get_capabilities"} \cup DOMAIN FeatureRows :
       f \in DOMAIN LibraryContract
  /\ \A f \in {"get_config", "apply_network"} \cup DOMAIN TransportRows : f \in DOMAIN TransportContract
  /\ \A f \in {"runtime_destroy", "get_host_handles", "start", "stop", "get_stats", "get_health",
                "submit_envelope", "apply_snapshot", "host_handles_close"} : f \in DOMAIN LifecycleContract
  <1>1. \A f \in {"get_abi_version", "get_info", "get_capabilities"} \cup DOMAIN FeatureRows :
          f \in DOMAIN LibraryContract
    BY DEF LibraryContract, each
  <1>2. \A f \in {"get_config", "apply_network"} \cup DOMAIN TransportRows : f \in DOMAIN TransportContract
    <2>1. \A f \in {"get_config", "apply_network", "apply_tcp_connection_options", "get_tcp_connection_config",
                    "apply_tcp_security_options", "get_tcp_security_info", "transport_apply_reason_name",
                    "deadletter_reason_name"} : f \in DOMAIN TransportContract
      BY Tables, Zenon DEF TransportContract
    <2>2. QED
      BY <2>1, AskDomain
  <1>3. \A f \in {"runtime_destroy", "get_host_handles", "start", "stop", "get_stats", "get_health",
                  "submit_envelope", "apply_snapshot", "host_handles_close"} : f \in DOMAIN LifecycleContract
    BY Tables, Zenon DEF LifecycleContract
  <1>4. QED
    BY <1>1, <1>2, <1>3

LEMMA EveryContract ==
  /\ Functions \subseteq DOMAIN Contract
  /\ \A f \in Functions : declared(f, Contract[f])
  <1>1. contracts(Contract)
    <2> HIDE DEF contracts
    <2>1. QED
      BY HostContracts, BytesContracts, LaneContracts, ContractsAdd DEF Contract
  <1>2. ASSUME NEW f,
               \/ f \in DOMAIN ReaderContract \/ f \in DOMAIN LibraryContract \/ f \in DOMAIN CreateContract
               \/ f \in DOMAIN TransportContract \/ f \in DOMAIN LifecycleContract \/ f \in DOMAIN AskContract
               \/ f \in DOMAIN BytesContract \/ f \in DOMAIN TransferContract \/ f \in DOMAIN SessionContract
        PROVE  f \in DOMAIN Contract
    BY <1>2, Tables, Zenon DEF Contract
  <1>3. \A f \in DOMAIN LaneRows : f \in DOMAIN TransferContract \/ f \in DOMAIN SessionContract
    BY LaneDomain DEF TransferContract, SessionContract, StreamLaneRows, each, ++
  <1>4. \A f \in DOMAIN FeatureRows \cup DOMAIN LifecycleRows \cup DOMAIN ViewRows \cup DOMAIN TransportRows :
          f \in DOMAIN LibraryContract \/ f \in DOMAIN TransportContract \/ f \in DOMAIN LifecycleContract
    BY ViewDomain, AskDomain, ContractDomain
  <1>5. \A f \in DOMAIN ClientRows \cup DOMAIN AskRows \cup DOMAIN BytesRows :
          \/ f \in DOMAIN ReaderContract \/ f \in DOMAIN CreateContract
          \/ f \in DOMAIN AskContract \/ f \in DOMAIN BytesContract
    <2>1. /\ "request_reader_create" \in DOMAIN ReaderContract /\ "request_reader_read" \in DOMAIN ReaderContract
          /\ "owned_frame_data" \in DOMAIN ReaderContract /\ "owned_frame_size" \in DOMAIN ReaderContract
          /\ "owned_frame_release" \in DOMAIN ReaderContract /\ "request_reader_destroy" \in DOMAIN ReaderContract
      BY Tables, Zenon DEF ReaderContract
    <2>2. /\ "create_native" \in DOMAIN CreateContract /\ "get_startup_config" \in DOMAIN CreateContract
          /\ "get_delivery_config" \in DOMAIN CreateContract
      BY Tables, Zenon DEF CreateContract
    <2>3. /\ "ask_client_create" \in DOMAIN AskContract /\ "ask_client_begin" \in DOMAIN AskContract
          /\ "ask_ticket_await" \in DOMAIN AskContract /\ "ask_ticket_cancel" \in DOMAIN AskContract
          /\ "ask_ticket_destroy" \in DOMAIN AskContract /\ "ask_client_destroy" \in DOMAIN AskContract
      BY Tables, Zenon DEF AskContract
    <2>4. /\ "build_raw_request" \in DOMAIN BytesContract /\ "build_raw_reply" \in DOMAIN BytesContract
          /\ "copy_envelope_payload" \in DOMAIN BytesContract /\ "copy_request_dispatch" \in DOMAIN BytesContract
          /\ "client_bytes_release" \in DOMAIN BytesContract
      BY Tables, Zenon DEF BytesContract
    <2>5. QED
      BY <2>1, <2>2, <2>3, <2>4, ClientDomain, AskDomain
  <1>6. Functions \subseteq DOMAIN Contract
    BY <1>2, <1>3, <1>4, <1>5, LaneDomain
  <1>7. QED
    BY <1>1, <1>6 DEF contracts

\* The bridge tests that the bytes Swift releases are some.
LEMMA ReleaseIsTested == "owner" \in Rows["client_bytes_release"].tests
  <1>1. "client_bytes_release" \in DOMAIN BytesRows /\ "owner" \in BytesRows["client_bytes_release"].tests
    BY DEF BytesRows, Row, each, ++
  <1>2. QED
    BY <1>1, HostRowsApart

\* A lane is freed by one function, whoever calls.
LEMMA OneDestroy ==
  ASSUME role \in {"host", "file", "stream"}
  PROVE  /\ Callable \subseteq Functions
         /\ \A f, g \in Callable : {f, g} \subseteq {"file_lane_destroy", "stream_destroy"} => f = g
  <1>1. CASE role = "host"
    BY <1>1, ClientDomain, ViewDomain, AskDomain, LaneDomain DEF Callable
  <1>2. CASE role = "file"
    BY <1>2, FileDomain, FeatureDomain, LaneDomain DEF Callable
  <1>3. CASE role = "stream"
    BY <1>3, StreamDomain, FeatureDomain, LaneDomain DEF Callable, StreamLaneRows, ++
  <1>4. QED
    BY <1>1, <1>2, <1>3

-----------------------------------------------------------------------------
(* Bridge: the calls. *)

given == IF Rows[call.f].output = "own" THEN call.copy ELSE call.slot

\* What Swift holds when its call is over, as far as Core has come.
holding == IF call.at = "bridge" THEN (held \ call.how.frees) \cup given ELSE held

inCall ==
  /\ call = [at |-> call.at, f |-> call.f, how |-> call.how, sized |-> call.sized,
             slot |-> call.slot, copy |-> call.copy]
  /\ call.at \in {"core", "bridge"}
  /\ call.how \in Contract[call.f]

BridgeInv ==
  /\ role \in {"host", "file", "stream"}
  /\ missing \subseteq DOMAIN LaneRows
  /\ call = Idle \/ inCall
  /\ EntersAsDeclared
  /\ holding \subseteq live
  /\ \A k \in live \ holding : Destroys(k) \subseteq missing

LEMMA BridgeInitInv == BridgeInit => BridgeInv
  BY BridgeAssumption DEF BridgeInit, BridgeInv, Idle, EntersAsDeclared, holding

\* A refusal frees nothing, but of a lane whose library has no way to free it.
LEMMA RefuseKeeps ==
  ASSUME BridgeInv, NEW f \in Callable, Refuse(f)
  PROVE  BridgeInv'
  <1>1. PICK how \in Contract[f] : May(f, how) /\ ~passes(f, how) /\ held' = held \ how.frees
    BY DEF Refuse
  <1>2. UNCHANGED <<role, missing, live, call>> /\ call = Idle
    BY <1>1 DEF Refuse, May
  <1>3. f \in Functions /\ declared(f, Contract[f])
    BY OneDestroy, EveryContract DEF BridgeInv
  <1>4. \/ how.frees = {}
        \/ how.frees = {"lane"} /\ f \in missing /\ f \in {"file_lane_destroy", "stream_destroy"}
    <2>1. CASE owns(f) /\ how.uses = {}
      BY <1>3, <2>1 DEF declared
    <2>2. CASE f \in missing
      BY <1>3, <2>2 DEF declared, BridgeInv
    <2>3. QED
      BY <1>1, <2>1, <2>2 DEF passes
  <1>5. holding = held /\ holding' = held'
    BY <1>2 DEF holding, Idle
  <1>6. held' \subseteq live
    BY <1>1, <1>5 DEF BridgeInv
  <1>7. \A k \in live \ held' : Destroys(k) \subseteq missing
    <2> SUFFICES ASSUME NEW k \in live, k \notin held', k \in held PROVE Destroys(k) \subseteq missing
      BY <1>5 DEF BridgeInv
    <2>1. k = "lane" /\ f \in missing /\ f \in {"file_lane_destroy", "stream_destroy"}
      BY <1>1, <1>4
    <2>2. \A g \in Destroys("lane") : g \in Callable /\ g \in {"file_lane_destroy", "stream_destroy"}
      BY OneDestroy, EveryContract DEF Destroys, declared, way, BridgeInv
    <2>3. QED
      BY <2>1, <2>2, OneDestroy DEF BridgeInv
  <1>8. \A k : Destroys(k)' = Destroys(k)
    BY <1>2 DEF Destroys, Callable
  <1>9. QED
    BY <1>2, <1>5, <1>6, <1>7, <1>8 DEF BridgeInv, EntersAsDeclared, Idle

LEMMA EnterCoreKeeps ==
  ASSUME BridgeInv, NEW f \in Callable, EnterCore(f)
  PROVE  BridgeInv'
  <1>1. PICK how \in Contract[f] :
          /\ May(f, how) /\ passes(f, how)
          /\ call' = [at |-> "core", f |-> f, how |-> how, sized |-> SwiftStamps[f] \cup Rows[f].stamps,
                      slot |-> {}, copy |-> {}]
    BY DEF EnterCore
  <1>2. UNCHANGED <<role, missing, held, live>> /\ call = Idle
    BY <1>1 DEF EnterCore, May
  <1>3. f \in Functions /\ declared(f, Contract[f])
    BY OneDestroy, EveryContract DEF BridgeInv
  <1>4. inCall' /\ call'.at = "core" /\ call'.f = f /\ call'.how = how
        /\ call'.sized = SwiftStamps[f] \cup Rows[f].stamps
    BY <1>1 DEF inCall
  <1>5. holding = held /\ holding' = held
    BY <1>2, <1>4 DEF holding, Idle
  <1>6. f \notin missing
    BY <1>1, LanesAreLookedUp DEF passes, BridgeInv
  <1>7. sized(f) \subseteq SwiftStamps[f] \cup Rows[f].stamps
    BY InputsAreSized, OutputsAreSized DEF sized
  <1>8. how.uses \subseteq live
    BY <1>1, <1>5 DEF May, BridgeInv
  <1>9. owns(f) => how.uses # {}
    <2>1. CASE f = "client_bytes_release"
      BY <1>1, <2>1, ReleaseIsTested DEF passes
    <2>2. CASE f # "client_bytes_release"
      BY <1>3, <2>2 DEF declared, owns
    <2>3. QED
      BY <2>1, <2>2
  <1>10. EntersAsDeclared'
    BY <1>2, <1>4, <1>6, <1>7, <1>8, <1>9 DEF EntersAsDeclared, sized, owns
  <1>11. \A k : Destroys(k)' = Destroys(k)
    BY <1>2 DEF Destroys, Callable
  <1>12. QED
    BY <1>2, <1>4, <1>5, <1>10, <1>11 DEF BridgeInv

\* What Core makes comes to Swift on the way the bridge takes, whichever it is.
LEMMA ReturnsKeep ==
  ASSUME BridgeInv, CoreReturns \/ Return
  PROVE  BridgeInv'
  <1>1. \A k : UNCHANGED <<role, missing>> => Destroys(k)' = Destroys(k)
    BY DEF Destroys, Callable
  <1>2. CASE CoreReturns
    <2> DEFINE own == Rows[call.f].output = "own"
    <2>1. PICK ok : LET new == IF ok THEN call.how.makes ELSE {}
                    IN  /\ live' = (live \ call.how.frees) \cup new
                        /\ call' = [call EXCEPT !.at = "bridge",
                                                !.slot = IF own THEN {} ELSE new,
                                                !.copy = IF own THEN new ELSE {}]
      BY <1>2, Zenon DEF CoreReturns
    <2> PICK new : new = IF ok THEN call.how.makes ELSE {}
      OBVIOUS
    <2>2. call.at = "core" /\ UNCHANGED <<role, missing, held>> /\ inCall
      <3>1. call.at = "core" /\ UNCHANGED <<role, missing, held>>
        BY <1>2, Zenon DEF CoreReturns
      <3>2. QED
        BY <3>1 DEF BridgeInv, Idle
    <2>3. /\ inCall' /\ call'.at = "bridge" /\ call'.f = call.f /\ call'.how = call.how
          /\ call'.slot = (IF own THEN {} ELSE new) /\ call'.copy = (IF own THEN new ELSE {})
      BY <2>1, <2>2 DEF inCall
    <2>4. holding = held /\ holding' = (held \ call.how.frees) \cup new
      BY <2>1, <2>2, <2>3 DEF holding, given
    <2>5. holding' \subseteq live' /\ live' \ holding' \subseteq live \ holding
      BY <2>1, <2>4 DEF BridgeInv
    <2>6. QED
      BY <1>1, <2>2, <2>3, <2>5 DEF BridgeInv, EntersAsDeclared
  <1>3. CASE Return
    <2>1. /\ call.at = "bridge" /\ call' = Idle /\ UNCHANGED <<role, missing, live>>
          /\ held' = (held \ call.how.frees) \cup given
      BY <1>3 DEF Return, given
    <2>2. holding' = holding
      BY <2>1 DEF holding, Idle
    <2>3. QED
      BY <1>1, <2>1, <2>2 DEF BridgeInv, EntersAsDeclared, Idle
  <1>4. QED
    BY <1>2, <1>3

LEMMA BridgeStepInv == BridgeInv /\ [BridgeNext]_bridgeVars => BridgeInv'
  <1> SUFFICES ASSUME BridgeInv, [BridgeNext]_bridgeVars PROVE BridgeInv'
    OBVIOUS
  <1>1. CASE BridgeNext
    BY <1>1, RefuseKeeps, EnterCoreKeeps, ReturnsKeep DEF BridgeNext
  <1>2. CASE UNCHANGED bridgeVars
    BY <1>2 DEF bridgeVars, BridgeInv, inCall, EntersAsDeclared, holding, given, Destroys, Callable,
                sized, owns
  <1>3. QED
    BY <1>1, <1>2

\* Between Swift, the bridge and Core a pointer is on one side of a call or on its way
\* across, in every reachable state.
THEOREM BridgeInvHolds == BridgeSpec => []BridgeInv
  BY BridgeInitInv, BridgeStepInv, PTL DEF BridgeSpec

\* Whatever a library lacks, Core is entered only through a function it exports, with
\* every record it sizes stamped and with objects that are alive.
THEOREM CoreIsEnteredAsDeclared == BridgeSpec => []EntersAsDeclared
  <1>1. BridgeInv => EntersAsDeclared
    BY DEF BridgeInv
  <1>2. QED
    BY <1>1, BridgeInvHolds, PTL

\* No call of the bridge, refused or not, loses an object or leaves a pointer to one
\* that is gone, as long as the library can free it at all.
THEOREM NoObjectIsLost == BridgeSpec => []NothingLost
  <1>1. BridgeInv => NothingLost
    BY DEF BridgeInv, NothingLost, holding, Idle
  <1>2. QED
    BY <1>1, BridgeInvHolds, PTL

================================================================================
