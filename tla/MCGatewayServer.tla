--------------------------- MODULE MCGatewayServer ---------------------------
(* Instantiates GatewayServer for TLC: two transport endpoints, one of    *)
(* them TLS, and the option lists a gateway main builds New from.          *)
EXTENDS GatewayServer

Opt(op, arg) == [op |-> op, arg |-> arg]

EpA == [name |-> "svcA", tls |-> FALSE]
EpB == [name |-> "svcB", tls |-> TRUE]

\* New(WithConfig(conf)) with the config file's endpoint and transports,
\* with and without a cors section; New(Trans(a), TLS(...)); New(); and
\* a config without cors followed by AllowOrigins, which panics.
MCConfigs ==
    { <<Opt("WithConfig", [endpoint |-> [tls |-> FALSE], cors |-> "set",
                           transports |-> <<EpA, EpB>>])>>,
      <<Opt("WithConfig", [endpoint |-> [tls |-> FALSE], cors |-> None,
                           transports |-> <<EpB>>])>>,
      <<Opt("Trans", <<EpA>>), Opt("TLS", <<>>), Opt("Name", "api")>>,
      <<>>,
      <<Opt("WithConfig", [endpoint |-> [tls |-> TRUE], cors |-> None,
                           transports |-> <<>>]),
        Opt("AllowOrigins", <<"*">>)>> }
=============================================================================
