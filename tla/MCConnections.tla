----------------------------- MODULE MCConnections -----------------------------
(***************************************************************************)
(* An instance of module Connections for TLC: what CartridgeRequirements   *)
(* publishes while it is being set up, when an endpoint moves, with        *)
(* listeners that need no secret, and with two internal endpoints.         *)
(***************************************************************************)
EXTENDS Connections

Es(scope, uri, auth, ca) == [scope |-> scope, uri |-> uri, auth |-> auth, ca |-> ca]
Listener(name, servers, auth, ca) == [name |-> name, servers |-> servers, auth |-> auth, ca |-> ca]

Outside == Es("External", "outside", None, None)
Inside  == Es("Internal", "inside", "es-user", "es-ca")
Moved   == Es("Internal", "moved", "es-user", None)

Plain == Listener("internal-service-plain", "kafka:9092", None, None)
TLS   == Listener("internal-service-tls", "kafka:9093", "kafka-user", "kafka-user")
Open  == Listener("internal-service-tls", "kafka:9094", None, None)

SomeStatuses ==
  { [es |-> <<>>, kafka |-> None],
    [es |-> <<Inside, Outside>>, kafka |-> <<Plain, TLS>>],
    [es |-> <<Outside, Moved>>, kafka |-> <<TLS>>],
    [es |-> <<Inside, Moved>>, kafka |-> <<Open, Plain>>] }
=============================================================================
