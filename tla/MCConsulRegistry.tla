--------------------------- MODULE MCConsulRegistry ---------------------------
EXTENDS ConsulRegistry

Opt(op, arg) == [op |-> op, arg |-> arg]

\* The addresses Listen may be given, as tokens (see Endpoint): the
\* default 127.0.0.1:8080, :8080, the interface address, 0.0.0.0:8080,
\* [::]:8080, and a host with no port.
MCAddrs ==
    { <<"lo", ":", "p8080">>, <<":", "p8080">>, <<"ip", ":", "p8080">>,
      <<"any", ":", "p8080">>, <<"[", ":", ":", "]", ":", "p8080">>,
      <<"ip">> }

\* New(Registry(consul), Listen(a)) for every address; New with no
\* options (no registry); a Listen that a later WithConfig overrides with
\* the config file's named endpoint, or by a config file with no network
\* key; and TLS with an explicit Name.
MCConfigs ==
    {<<Opt("Registry", "consul"), Opt("Listen", a)>> : a \in MCAddrs}
    \cup { <<>>,
           <<Opt("Listen", <<"ip", ":", "p8080">>),
             Opt("WithConfig", [addr |-> <<":", "p8080">>, network |-> "tcp",
                                tls |-> FALSE, name |-> "cfg"]),
             Opt("Registry", "consul")>>,
           <<Opt("Registry", "consul"),
             Opt("WithConfig", [addr |-> <<":", "p8080">>, network |-> "",
                                tls |-> FALSE, name |-> "cfg"])>>,
           <<Opt("TLS", <<"cert", "key">>), Opt("Name", "svc"),
             Opt("Registry", "consul")>> }

MCPortOf == "p8080" :> 8080
=============================================================================
