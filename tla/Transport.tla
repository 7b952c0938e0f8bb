----------------------------- MODULE Transport -----------------------------
(***************************************************************************)
(* What the application asks of the transport, and what Core is told.  At  *)
(* the start: the optional groups of create_native and the network policy. *)
(* Later: threads that apply security or a connection strategy, each under *)
(* the session's lock for as long as Core takes (it may read files), and   *)
(* the close that seals and retires the host meanwhile.                    *)
(*                                                                         *)
(* Every option crosses the C ABI as a value and a bit of a presence mask. *)
(* A value is a number, 0 the zero of its C type: an empty string, a null  *)
(* pointer, the first constant of an enumeration.                          *)
(***************************************************************************)
EXTENDS Naturals

CONSTANTS
  Callers,          \* threads that apply a policy to an open host
  StartSpecs,       \* what a host may be started with
  StartSecurity,    \* what security it may have had applied by then
  SecuritySpecs,    \* what a thread may ask for
  ConnectionSpecs,
  None              \* an option that is nil

Plaintext == 0
Node == 3           \* the network mode; 1 is embedded, 2 outbound only
File == 1           \* the one source of credentials

Tunings == {"maxConnections", "maxRequestsPerConnection", "idleTimeoutMs"}
CredentialFiles == {"caCertificateFile", "identityCertificateFile", "privateKeyFile"}
Credentials == CredentialFiles \cup {"reloadMode", "credentialGeneration", "credentialID"}
SecurityFields == Credentials \cup {"mode", "source"}
Groups == {"execution", "io", "monitor", "connection"}
NetworkValues == {"bindHost", "bindPort", "advertiseHost", "advertisePort"}

ASSUME TransportAssumption ==
  /\ \A s \in SecuritySpecs \cup StartSecurity : s \in [Credentials \cup {"mode"} -> Nat]
  /\ \A s \in ConnectionSpecs : s \in [Tunings \cup {"mode"} -> Nat \cup {None}] /\ s.mode # None
  /\ \A s \in StartSpecs :
       /\ DOMAIN s = Groups \cup {"network"}
       /\ s.connection \in ConnectionSpecs \cup {None}
       /\ \A g \in Groups \ {"connection"} : s[g] \in Nat \cup {None}
       /\ s.network \in [NetworkValues \cup {"mode"} -> Nat]
  /\ None \notin Nat \cup Callers \cup [SecurityFields -> Nat]

VARIABLES
  start,            \* the spec of the host
  phase,            \* of the host
  accepted,         \* the startup options Core was created with
  announced,        \* the network options it was given
  active,           \* the security it has published
  locked,           \* the holder of the session's lock
  caller,           \* where each thread is
  asked,            \* the security or connection policy it asks for
  answer            \* what its call returned, or None

vars == <<start, phase, accepted, announced, active, locked, caller, asked, answer>>
startOnly == <<start, accepted, announced>>

-----------------------------------------------------------------------------
(* Translations. *)

\* Mutant of connectionOptions: a zero is taken for nil.
connectionOptionsNonzero(spec) ==
  LET given == {"mode"} \cup {f \in Tunings : spec[f] \notin {None, 0}}
  IN  [fields |-> given, values |-> [f \in DOMAIN spec |-> IF f \in given THEN spec[f] ELSE 0]]

\* The mode always, a tuning value only if it is not nil.
connectionOptions(spec) ==
  LET given == {"mode"} \cup {f \in Tunings : spec[f] # None}
  IN  [fields |-> given, values |-> [f \in DOMAIN spec |-> IF f \in given THEN spec[f] ELSE 0]]

\* createNative: a group that is nil is a null pointer.
startupOptions(spec) ==
  [g \in {h \in Groups : spec[h] # None} |->
     IF g = "connection" THEN connectionOptions(spec[g]) ELSE spec[g]]

\* The bits of a network mask, as the bridge sets them and as the ABI names them.
bridgeBit == [mode |-> 0, bindHost |-> 1, advertiseHost |-> 2, bindPort |-> 3, advertisePort |-> 4]
NetworkBit == [mode |-> 0, bindHost |-> 1, bindPort |-> 2, advertiseHost |-> 3, advertisePort |-> 4]

\* apply_network: a node announces every field, other modes what is not zero.
networkOptions(net) ==
  [fields |-> IF net.mode = Node THEN 0..4
              ELSE {bridgeBit[f] : f \in {"mode"} \cup {v \in NetworkValues : net[v] # 0}},
   values |-> net]

withSource(spec, source) ==
  [f \in SecurityFields |-> IF f = "source" THEN source ELSE spec[f]]

\* Mutant of securityOptions: a plaintext policy is its mode.
securityOptionsModeOnly(spec) ==
  IF spec.mode # Plaintext
  THEN [fields |-> SecurityFields, values |-> withSource(spec, File)]
  ELSE [fields |-> {"mode"}, values |-> [f \in SecurityFields |-> 0]]

\* TLS sends every field.  Plaintext sends what is not the default, for Core to
\* refuse, and names the source if there is a file.
securityOptions(spec) ==
  LET given == {f \in Credentials : spec[f] # 0}
      files == given \cap CredentialFiles # {}
  IN  IF spec.mode # Plaintext
      THEN [fields |-> SecurityFields, values |-> withSource(spec, File)]
      ELSE [fields |-> {"mode"} \cup given \cup (IF files THEN {"source"} ELSE {}),
            values |-> withSource(spec, IF files THEN File ELSE 0)]

-----------------------------------------------------------------------------
(* Core, as the headers describe it. *)

\* What Core may accept: no value without its field, nothing but the mode for
\* plaintext, and for TLS a newer generation of the mode it runs, with its files.
acceptable(options) ==
  LET v == options.values IN
  /\ "mode" \in options.fields
  /\ \A f \in SecurityFields \ options.fields : v[f] = 0
  /\ v.mode = active.mode
  /\ v.mode = Plaintext => options.fields = {"mode"}
  /\ v.mode # Plaintext =>
       /\ v.credentialGeneration > active.credentialGeneration
       /\ \A f \in CredentialFiles \cup {"source"} : v[f] # 0

\* A call of Core returns a status, and a record with that status and the security
\* that is active afterwards.  A record Core does not know is left blank.
blank == [ok |-> TRUE, active |-> None]

securityCall(options, status, record) ==
  \/ /\ acceptable(options)
     /\ active' = options.values
     /\ status = TRUE /\ record = [ok |-> TRUE, active |-> active']
  \/ /\ UNCHANGED active
     /\ status = FALSE /\ record \in {[ok |-> FALSE, active |-> active], blank}

\* A connection strategy is fixed when the runtime is created.
connectionCall(status, record) ==
  /\ UNCHANGED active
  /\ status = FALSE /\ record \in {[ok |-> FALSE, active |-> active], blank}

-----------------------------------------------------------------------------
(* The host *)

Init ==
  /\ start \in StartSpecs
  /\ phase = "creating"
  /\ accepted = None
  /\ announced = None
  /\ active = withSource([f \in Credentials \cup {"mode"} |-> 0], 0)
  /\ locked = None
  /\ caller = [c \in Callers |-> "idle"]
  /\ asked = [c \in Callers |-> None]
  /\ answer = [c \in Callers |-> None]

nobodyCalls == UNCHANGED <<locked, caller, asked, answer>>

Create ==
  /\ phase = "creating"
  /\ \/ accepted' = startupOptions(start) /\ phase' = "announcing"
     \/ phase' = "failed" /\ UNCHANGED accepted
  /\ UNCHANGED <<start, announced, active>>
  /\ nobodyCalls

Announce ==
  /\ phase = "announcing"
  /\ announced' = networkOptions(start.network)
  /\ phase' \in {"securing", "failed"}
  /\ UNCHANGED <<start, accepted, active>>
  /\ nobodyCalls

\* The security of the start was applied (Startup models a refusal), or there was
\* none, and the host is open.
Secure ==
  /\ phase = "securing"
  /\ \/ UNCHANGED active
     \/ \E s \in StartSecurity : active' = withSource(s, File)
  /\ phase' = "open"
  /\ UNCHANGED startOnly
  /\ nobodyCalls

\* requestRetirement; the client, the handles and the runtime go later, under the
\* same lock.
Seal ==
  /\ phase = "open"
  /\ locked = None
  /\ phase' = "sealed"
  /\ UNCHANGED <<startOnly, active>>
  /\ nobodyCalls

Retire ==
  /\ phase = "sealed"
  /\ locked = None
  /\ phase' = "retired"
  /\ UNCHANGED <<startOnly, active>>
  /\ nobodyCalls

-----------------------------------------------------------------------------
(* A thread that applies a policy, any number of times. *)

goto(c, place) == caller' = [caller EXCEPT ![c] = place]
reply(c, record) == answer' = [answer EXCEPT ![c] = record]

Call(c) ==
  /\ caller[c] = "idle"
  /\ phase \in {"open", "sealed", "retired"}
  /\ \E s \in SecuritySpecs \cup ConnectionSpecs : asked' = [asked EXCEPT ![c] = s]
  /\ goto(c, "waiting")
  /\ reply(c, None)
  /\ UNCHANGED <<startOnly, phase, active, locked>>

\* Mutant of Enter: the lock covers the test and not the call.
EnterAndUnlock(c) ==
  /\ caller[c] = "waiting"
  /\ locked = None
  /\ goto(c, IF phase = "open" THEN "calling" ELSE "idle")
  /\ UNCHANGED <<startOnly, phase, active, locked, asked, answer>>

\* withTransportLock and requireTransportOpen: a sealed host is refused.
Enter(c) ==
  /\ caller[c] = "waiting"
  /\ locked = None
  /\ \/ phase = "open" /\ locked' = c /\ goto(c, "calling")
     \/ phase # "open" /\ goto(c, "idle") /\ UNCHANGED locked
  /\ UNCHANGED <<startOnly, phase, active, asked, answer>>

\* The status and the record must agree, else the call throws.
project(c, status, record) ==
  IF record.ok = status THEN reply(c, record) ELSE UNCHANGED answer

leave(c) ==
  /\ locked' = IF locked = c THEN None ELSE locked
  /\ goto(c, "idle")

applyConnection(c) ==
  /\ asked[c] \in ConnectionSpecs
  /\ \E status \in BOOLEAN, record \in {[ok |-> FALSE, active |-> active], blank} :
       connectionCall(status, record) /\ project(c, status, record)

applySecurity(c) ==
  /\ asked[c] \in SecuritySpecs
  /\ LET options == securityOptions(asked[c])
         actives == {active, options.values}
     IN \E status \in BOOLEAN, record \in [ok : BOOLEAN, active : actives] \cup {blank} :
          securityCall(options, status, record) /\ project(c, status, record)

Apply(c) ==
  /\ caller[c] = "calling"
  /\ applyConnection(c) \/ applySecurity(c)
  /\ leave(c)
  /\ UNCHANGED <<startOnly, phase, asked>>

Next ==
  \/ Create \/ Announce \/ Secure \/ Seal \/ Retire
  \/ \E c \in Callers : Call(c) \/ Enter(c) \/ Apply(c)

Spec == Init /\ [][Next]_vars

-----------------------------------------------------------------------------
(* Properties *)

\* A thread whose call returns applied got everything it asked for: the security
\* that is then active agrees with its policy in every field, so nothing given was
\* dropped on the way, no refusal looks like success, and a strategy of a running
\* host never looks changed.
AppliedMeansAsked ==
  \A c \in Callers : answer[c] # None /\ answer[c].ok =>
    /\ asked[c] \in SecuritySpecs
    /\ answer[c].active # None
    /\ \A f \in DOMAIN asked[c] : answer[c].active[f] = asked[c][f]

\* While Core applies a policy the host stays open, however long Core reads its
\* files: neither the seal nor the retirement gets in between, nor another call.
SealedOut == \A c \in Callers : caller[c] = "calling" => phase = "open" /\ locked = c

\* Core is told what was given and nothing else: a group or a tuning value that is
\* nil is left to Core's defaults, one that is zero or false is explicit.
GivenIsExplicit ==
  accepted # None =>
    /\ \A g \in Groups : g \in DOMAIN accepted <=> start[g] # None
    /\ \A g \in DOMAIN accepted \ {"connection"} : accepted[g] = start[g]
    /\ "connection" \in DOMAIN accepted =>
         LET given == start.connection
             told  == accepted.connection
         IN  \A f \in Tunings \cup {"mode"} :
               /\ f \in told.fields <=> given[f] # None
               /\ told.values[f] = (IF f \in told.fields THEN given[f] ELSE 0)

\* "Swift preserves [...] exact presence bits" (TRANSPORT_CONFIGURATION.md:4): a
\* network value that is not zero is announced under its own bit of the mask, and
\* but for a node no other bit is.
ExactPresenceBits ==
  announced # None =>
    LET given == {f \in NetworkValues \cup {"mode"} : f = "mode" \/ announced.values[f] # 0}
    IN  /\ {NetworkBit[f] : f \in given} \subseteq announced.fields
        /\ announced.values.mode # Node => announced.fields = {NetworkBit[f] : f \in given}
=============================================================================
