------------------------ MODULE MCGatewayMiddlewares ------------------------
EXTENDS GatewayMiddlewares

\* Two gateways: an IP whitelist and a client check in front of the token,
\* role and scope inspectors, and an IP blacklist in front of the token and
\* scope inspectors.
MCStacks == {<<"allows", "clients", "token", "roles", "scope">>,
             <<"blocks", "token", "scope">>}

\* One resource: every URI under "a".  Every URI of up to two characters:
\* under it, at its boundary (the part before "*" itself), and outside it.
MCResources == "r1" :> <<"a", "*">>
MCRequestURIs == BoundedSeq({"a", "b"}, 2)
=============================================================================
