------------------------------- MODULE Tokens -------------------------------
(***************************************************************************)
(* The token issuers of auth/tokens: jwt.JWTokens and paseto.PasetoTokens, *)
(* both behind auth.Tokens.  New folds its Option functions over the       *)
(* defaults; Generate signs (or encrypts) an access token and a refresh    *)
(* token for a Principal; Inspect is what TokenInspector (gateway) and     *)
(* onAuth (service) call on every bearer credential.                       *)
(*                                                                         *)
(* Time is whole Unix seconds scaled down: a tick is the unit of every     *)
(* duration in the model.  A key is a record: a []byte key names its      *)
(* bytes, a variadic []interface{} key names the slice, an RSA key names  *)
(* its key pair and which half it is.  A token is a record of              *)
(* what signature verification and claim validation read; "kind" is a     *)
(* ghost field saying which of the two Generate returned it as.            *)
(***************************************************************************)
EXTENDS Naturals, Sequences, SequencesExt

CONSTANTS
    Configs,          \* the New(...) calls: [scheme, opts] with opts a
                      \* sequence of options [op, arg]
    Pem,              \* the key files: what ParseRSA*KeyFromPEM makes of each
    KeySize,          \* the length in bytes of each []byte key atom
    Users,            \* the Principals Generate is called for
    JwtExpiresIn,     \* jwt.New's defaults, 7200 s and 25 days, in ticks
    JwtRefreshExpiresIn,
    RandKey,          \* the []byte(auth.RandStr(32)) of one process start
    Forged,           \* a token signed under another key
    MaxNow,           \* the last tick of a behaviour
    None

VARIABLES
    conf,        \* the Options New built, or None before New
    now,         \* time.Now().Unix()
    principal,   \* the caller's *Principal of each user, as Generate leaves it
    issued,      \* the tokens Generate has handed out
    seen         \* the last authenticated request: its bearer token, the
                 \* tick, and the user put in its context (None: anonymous)

vars == <<conf, now, principal, issued, seen>>

Bytes(b) == [bytes |-> b]
IsBytes(k) == k \in {Bytes(b) : b \in DOMAIN KeySize}
Pairs == {Pem[f].pair : f \in DOMAIN Pem}
\* The Authorization header: empty or without a space (""), or a scheme.
Schemes == {"", "Bearer", "bearer", "Basic"}
IsRSA(k, part) == k \in [rsa : Pairs, part : {part}]

-----------------------------------------------------------------------------
(* New and the Option functions of jwt/options.go and paseto/options.go. *)

\* One jwt Option applied to the Options struct.  PrivateKey and PublicKey
\* keep the old key when the file does not parse.
ApplyOption(o, opt) ==
    LET a == opt.arg IN
    CASE opt.op = "SigningWith"      -> [o EXCEPT !.method = a]
      [] opt.op = "SigningKey"       -> [o EXCEPT !.signingKey = a]
      [] opt.op = "PrivateKey"       ->
           [o EXCEPT !.method = "RS256",
                     !.private = IF Pem[a].part = "private"
                                 THEN [rsa |-> Pem[a].pair, part |-> "private"]
                                 ELSE @]
      [] opt.op = "PublicKey"        ->
           [o EXCEPT !.method = "RS256",
                     !.public = IF Pem[a].part = "public"
                                THEN [rsa |-> Pem[a].pair, part |-> "public"]
                                ELSE @]
      [] opt.op = "SignWithHS256"    ->
           \* the variadic key slice itself is stored, not its element
           LET k == IF a = <<>> THEN Bytes(RandKey) ELSE [slice |-> a]
           IN [o EXCEPT !.method = "HS256", !.private = k, !.public = k]
      [] opt.op = "Issuer"           -> [o EXCEPT !.issuer = a]
      [] opt.op = "ExpiresIn"        -> [o EXCEPT !.expiresIn = a]
      [] opt.op = "RefreshExpiresIn" -> [o EXCEPT !.refreshExpiresIn = a]

\* One paseto Option; SignWithPaseto stores its variadic slice the same way.
ApplyPasetoOption(o, opt) ==
    LET a == opt.arg IN
    CASE opt.op = "SignWithPaseto"   ->
           [o EXCEPT !.symmetric = IF a = <<>> THEN Bytes(RandKey)
                                   ELSE [slice |-> a]]
      [] opt.op = "Issuer"           -> [o EXCEPT !.issuer = a]
      [] opt.op = "ExpiresIn"        -> [o EXCEPT !.expiresIn = a]
      [] opt.op = "RefreshExpiresIn" -> [o EXCEPT !.refreshExpiresIn = a]

\* The zero Options, one record for both packages.
NoOptions(scheme) ==
    [scheme |-> scheme, method |-> None, signingKey |-> None,
     private |-> None, public |-> None, symmetric |-> None,
     issuer |-> "", expiresIn |-> 0, refreshExpiresIn |-> 0]

\* jwt.New: the issuer and the two lifetimes, then the options.
NewJWT(opts) ==
    FoldLeft(ApplyOption,
             [NoOptions("jwt") EXCEPT !.issuer = "www.titan.com",
                                      !.expiresIn = JwtExpiresIn,
                                      !.refreshExpiresIn = JwtRefreshExpiresIn],
             opts)

\* paseto.New: no defaults but a random key when no option gave one.
NewPaseto(opts) ==
    LET o == FoldLeft(ApplyPasetoOption, NoOptions("paseto"), opts)
    IN IF o.symmetric = None THEN [o EXCEPT !.symmetric = Bytes(RandKey)]
       ELSE o

-----------------------------------------------------------------------------
(* Signing and verifying.                                                  *)

\* SignedString: HS256 takes a []byte key, RS256 an *rsa.PrivateKey; any
\* other key is ErrInvalidKeyType.
SignOK(o) ==
    \/ o.method = "HS256" /\ IsBytes(o.private)
    \/ o.method = "RS256" /\ IsRSA(o.private, "private")

\* What a signature made with the options' private key is checked against.
SignedBy(o) == IF o.method = "HS256" THEN o.private
               ELSE [rsa |-> o.private.rsa]

\* Method.Verify with the key Inspect's key function returns.
VerifyOK(o, t) ==
    \/ /\ o.method = "HS256" /\ IsBytes(o.public) /\ t.key = o.public
    \/ /\ o.method = "RS256" /\ IsRSA(o.public, "public")
       /\ t.key = [rsa |-> o.public.rsa]

\* StandardClaims.Valid: exp and iat are checked when they are not zero.
ClaimsValid(t, n) ==
    /\ t.exp = 0 \/ n <= t.exp
    /\ t.iat = 0 \/ n >= t.iat

\* The refresh token of Generate: the access token's claims, re-signed
\* with the refresh lifetime.
Refresh(t, o) == [t EXCEPT !.exp = now + o.refreshExpiresIn, !.kind = "refresh"]

-----------------------------------------------------------------------------

Init ==
    /\ conf = None
    /\ now = 1
    /\ principal = [u \in Users |-> [iat |-> 0, exp |-> 0, issuer |-> ""]]
    /\ issued = {}
    /\ seen = None

\* jwt.New / paseto.New.
New ==
    /\ conf = None
    /\ \E c \in Configs :
         conf' = IF c.scheme = "jwt" THEN NewJWT(c.opts) ELSE NewPaseto(c.opts)
    /\ UNCHANGED <<now, principal, issued, seen>>

\* JWTokens.Generate: a nil signing method panics in SignedString; a key
\* of the wrong type is an error before either token is returned.
GenerateJWT(u) ==
    /\ conf # None /\ conf.scheme = "jwt" /\ conf.method # None
    /\ LET acc == [alg |-> conf.method, key |-> SignedBy(conf), sub |-> u,
                   iat |-> now, exp |-> now + conf.expiresIn,
                   kind |-> "access"]
       IN issued' = IF SignOK(conf) THEN issued \cup {acc, Refresh(acc, conf)}
                    ELSE issued
    /\ UNCHANGED <<conf, now, principal, seen>>

\* PasetoTokens.Generate: the key must be 32 bytes ([]byte assertion on a
\* wrapped key panics, and no step is taken); the caller's Principal is
\* stamped and left holding the refresh token's expiry.
GeneratePaseto(u) ==
    /\ conf # None /\ conf.scheme = "paseto" /\ IsBytes(conf.symmetric)
    /\ IF KeySize[conf.symmetric.bytes] = 32
       THEN LET acc == [alg |-> "v2.local", key |-> conf.symmetric, sub |-> u,
                        iat |-> now, exp |-> now + conf.expiresIn,
                        kind |-> "access"]
            IN /\ issued' = issued \cup {acc, Refresh(acc, conf)}
               /\ principal' = [principal EXCEPT ![u] =
                      [iat |-> now, exp |-> now + conf.refreshExpiresIn,
                       issuer |-> conf.issuer]]
       ELSE UNCHANGED <<issued, principal>>
    /\ UNCHANGED <<conf, now, seen>>

\* JWTokens.Inspect: ParseWithClaims with a key function that rejects a
\* foreign method, then signature and StandardClaims checks.
InspectJWT(t) ==
    /\ t.alg = conf.method
    /\ VerifyOK(conf, t)
    /\ ClaimsValid(t, now)

\* PasetoTokens.Inspect: Decrypt with the symmetric key, and nothing more.
InspectPaseto(t) == t.alg = "v2.local" /\ t.key = conf.symmetric

\* authHeader (gateway middlewares) and grpc_auth.AuthFromMD (onAuth): the
\* credential after "<scheme> " when the scheme is bearer in any case; an
\* empty header, one with no space, or another scheme yields none.
BearerToken(hd) == IF hd.scheme \in {"Bearer", "bearer"} THEN hd.token ELSE None

\* A request reaches onAuth (service) or TokenInspector (gateway): the
\* bearer credential, if any, goes to Inspect, and the Principal it returns
\* goes into the context; a failed Inspect leaves the request anonymous.
\* A paseto key that is not []byte panics in Inspect, and no step is taken.
Authenticate(hd) ==
    /\ conf # None
    /\ conf.scheme = "paseto" => IsBytes(conf.symmetric)
    /\ LET t == BearerToken(hd)
           ok == /\ t # None
                 /\ IF conf.scheme = "jwt" THEN InspectJWT(t) ELSE InspectPaseto(t)
       IN seen' = [token |-> t, at |-> now, user |-> IF ok THEN t.sub ELSE None]
    /\ UNCHANGED <<conf, now, principal, issued>>

Tick ==
    /\ now < MaxNow
    /\ now' = now + 1
    /\ UNCHANGED <<conf, principal, issued, seen>>

Next ==
    \/ New
    \/ \E u \in Users : GenerateJWT(u) \/ GeneratePaseto(u)
    \/ \E sc \in Schemes, t \in issued \cup {Forged} :
         Authenticate([scheme |-> sc, token |-> t])
    \/ Tick

Spec == Init /\ [][Next]_vars

-----------------------------------------------------------------------------
\* Inspect "checks whether the AccessToken is valid" (auth.go, the Tokens
\* interface): a request is authenticated as a user only by a token that
\* has not passed the expiry Generate wrote into it.
InspectRejectsExpired ==
    seen # None /\ seen.user # None => seen.at <= seen.token.exp

=============================================================================
