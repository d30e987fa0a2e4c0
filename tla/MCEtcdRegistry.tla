--------------------------- MODULE MCEtcdRegistry ---------------------------
(* Instantiates EtcdRegistry for TLC.  The .cfg files pick the bounds and  *)
(* the store calls that may fail.                                          *)
EXTENDS EtcdRegistry

\* Every store call may fail.
MCAllCalls == Calls

Opt(op, arg) == [op |-> op, arg |-> arg]

\* NewETCDRegistry(WithEndPoints(e1)), with the defaults (no endpoints),
\* and with two endpoints and DialTimeout(0).
MCRegistryConfigs ==
    { <<Opt("WithEndPoints", <<"e1">>)>>,
      <<>>,
      <<Opt("WithEndPoints", <<"e1", "e2">>), Opt("DialTimeout", 0)>> }

\* Every store call but Put may fail (see the put_failure run).
MCAllButPut == Calls \ {"put"}
=============================================================================
