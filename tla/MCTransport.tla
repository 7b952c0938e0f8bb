---------------------------- MODULE MCTransport ----------------------------
(* Starts with nothing given, with zeros given, and with an outbound policy *)
(* that gives a bind port; security policies that Core may apply, and       *)
(* plaintext ones that carry credentials.                                   *)
EXTENDS Transport, TLC

network(mode, bindHost, bindPort, advertiseHost, advertisePort) ==
  [mode |-> mode, bindHost |-> bindHost, bindPort |-> bindPort,
   advertiseHost |-> advertiseHost, advertisePort |-> advertisePort]

strategy(mode, connections, requests, idle) ==
  [mode |-> mode, maxConnections |-> connections,
   maxRequestsPerConnection |-> requests, idleTimeoutMs |-> idle]

spec(execution, io, monitor, connection, net) ==
  [execution |-> execution, io |-> io, monitor |-> monitor,
   connection |-> connection, network |-> net]

security(mode, reload, generation, id, files) ==
  [f \in Credentials \cup {"mode"} |->
     IF f = "mode" THEN mode
     ELSE IF f = "reloadMode" THEN reload
     ELSE IF f = "credentialGeneration" THEN generation
     ELSE IF f = "credentialID" THEN id
     ELSE IF f \in files THEN 1 ELSE 0]

MCConnectionSpecs == {strategy(1, 0, None, 5), strategy(3, None, None, None)}

MCStartSpecs ==
  {spec(None, None, None, None, network(1, 0, 0, 0, 0)),
   spec(0, 0, 0, strategy(1, 0, None, 5), network(3, 1, 1, 1, 0)),
   spec(None, 1, None, strategy(3, None, None, None), network(2, 0, 1, 0, 0)),
   spec(1, None, 1, None, network(2, 0, 1, 1, 0))}

MCStartSecurity == {security(1, 0, 1, 1, CredentialFiles)}

MCSecuritySpecs ==
  {security(Plaintext, 0, 0, 0, {}), security(Plaintext, 1, 0, 0, {}),
   security(Plaintext, 0, 0, 1, {}), security(Plaintext, 0, 0, 0, {"privateKeyFile"}),
   security(1, 1, 1, 1, CredentialFiles), security(1, 0, 2, 1, CredentialFiles),
   security(1, 1, 3, 0, CredentialFiles), security(1, 0, 3, 1, {"caCertificateFile"}),
   security(2, 0, 2, 1, CredentialFiles)}
=============================================================================
