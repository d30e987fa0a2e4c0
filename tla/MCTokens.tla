------------------------------ MODULE MCTokens ------------------------------
EXTENDS Tokens

\* The key files of the model: a private and a public key of one pair, and
\* a file that is not PEM.
MCPem == ("priv.pem" :> [part |-> "private", pair |-> "kp1"]) @@
         ("pub.pem"  :> [part |-> "public",  pair |-> "kp1"]) @@
         ("bad.pem"  :> [part |-> "none",    pair |-> "kp1"])

\* RandStr(32), and a key of another length given by a caller.
MCKeySize == ("rand32" :> 32) @@ ("short" :> 5) @@ ("other" :> 32)

Opt(op, arg) == [op |-> op, arg |-> arg]

\* The New calls: the two test set-ups (jwt with HS256 and a one-tick
\* access lifetime; paseto with no options at all), RSA keys from files,
\* a key handed to the variadic option, and paseto with lifetimes.
MCConfigs ==
    { [scheme |-> "jwt",
       opts |-> <<Opt("SignWithHS256", <<>>), Opt("ExpiresIn", 1)>>],
      [scheme |-> "jwt",
       opts |-> <<Opt("PrivateKey", "priv.pem"), Opt("PublicKey", "pub.pem")>>],
      [scheme |-> "jwt", opts |-> <<Opt("SignWithHS256", <<"short">>)>>],
      [scheme |-> "paseto", opts |-> <<>>],
      [scheme |-> "paseto",
       opts |-> <<Opt("ExpiresIn", 1), Opt("RefreshExpiresIn", 2)>>] }

\* A token signed by another issuer's HS256 key.
MCForged == [alg |-> "HS256", key |-> [bytes |-> "other"], sub |-> "u1",
             iat |-> 1, exp |-> 3, kind |-> "access"]
=============================================================================
