------------------------ MODULE GatewayMiddlewares ------------------------
(***************************************************************************)
(* The HTTP middleware chain of the gateway.  gateway.New starts with no  *)
(* middlewares, Use appends its arguments in order, and Start wraps the   *)
(* grpc-gateway mux in them from the last to the first, so the first one *)
(* Use was given is the outermost and runs first (gateway/gateway.go).    *)
(* One request then goes through the middlewares of                       *)
(* gateway/middlewares/middlewares.go:                                    *)
(*  - Allows and Blocks: the remote address against an IP list;           *)
(*  - AllowClients: the client ID against a client list, with ignored     *)
(*    paths and a client ID that may come from a JSON body;               *)
(*  - TokenInspector: a bearer token puts its Principal in the context;   *)
(*  - RolesInspector: Casbin RBAC for the context's user or "anonymous";  *)
(*  - ScopeInspector: rules.VerifyRequest (module ScopeRules).            *)
(* contains() runs sort.SearchStrings, a binary search, over the list as  *)
(* configured, in the order it was given.  Allows and Blocks look up      *)
(* req.RemoteAddr, which net/http sets to "IP:port", in a list of IPs.    *)
(*                                                                         *)
(* Strings in lists are the naturals 0..MaxValue with their order, 0 being *)
(* "".  The token is "none" (no or malformed Authorization header),      *)
(* "invalid" (tokens.Inspect fails) or "valid" (Inspect returns a         *)
(* Principal named UserName with the request's scopes).  The Casbin       *)
(* policy is the set of subjects it allows for the request's object and   *)
(* action; enforceErr is an enforcer whose Enforce returns an error.      *)
(***************************************************************************)
EXTENDS Naturals, Sequences, SequencesExt

CONSTANTS
    MaxValue,      \* list strings are 0..MaxValue, 0 being ""
    MaxListLen,    \* longest configured list
    Stacks,        \* the middleware lists a gateway is built with, in Use order
    Alphabet,      \* characters of request URIs and resource patterns
    MaxLen,        \* longest URI or pattern
    Ids,           \* resource IDs, also the scopes that grant them
    Resources,     \* rules.resources: the EndPoint pattern of each ID
    RequestURIs,   \* the request URIs of the model
    UserName,      \* the Name of the token's Principal
    None

Empty  == 0
Values == 1..MaxValue
Kinds  == {"allows", "blocks", "clients", "token", "roles", "scope"}

Rules == INSTANCE ScopeRules
             WITH resources <- Resources, uri <- None, user <- None,
                  status <- None, Disjoint <- TRUE

\* The documented use: TokenInspector comes before the inspectors that read
\* the user it puts in the context.
ASSUME \A s \in Stacks :
         /\ s \in Seq(Kinds)
         /\ \E t \in 1..Len(s) :
              /\ s[t] = "token"
              /\ \A k \in 1..Len(s) : s[k] \in {"roles", "scope"} => t < k

\* The lists the program passes, in the order it writes them.
Lists     == {s \in BoundedSeq(Values, MaxListLen) : IsInjective(s)}
Subjects  == {"anonymous", "members", UserName}
ScopeSeqs == {<<>>} \cup {<<sc>> : sc \in Rules!Scopes}

Confs == [ips : Lists, clients : Lists, policy : SUBSET Subjects,
          enforceErr : BOOLEAN]
Reqs  == [addr : Values, client : {Empty} \cup Values, ignored : BOOLEAN,
          body : {"none", "bad", "nonstring"},
          token : {"none", "invalid", "valid"}, scopes : ScopeSeqs,
          uri : RequestURIs]

Decided == {"next", "400", "401", "403", "502", "503"}

VARIABLES
    stack,     \* the arguments the program passes to Use, in order
    used,      \* defaultGateway.middlewares
    handler,   \* the middlewares the served handler runs, outermost first
    conf,      \* the lists, the Casbin policy and the enforcer
    req,       \* the request
    pos,       \* the middleware the request is in
    user,      \* the context's user: the Principal's scopes, or None
    client,    \* the context's client ID, or None
    status     \* "config", "pending", "panic", or the answer

vars == <<stack, used, handler, conf, req, pos, user, client, status>>

-----------------------------------------------------------------------------
(* contains(s, searchterm): i := sort.SearchStrings(s, searchterm);       *)
(* return i < len(s) && s[i] == searchterm.  sort.Search halves [i, j)    *)
(* keeping the smallest index whose element is >= the term; Go indexes    *)
(* from 0, so a[h] is a[h + 1] here.                                       *)
RECURSIVE SearchFrom(_, _, _, _)
SearchFrom(a, x, i, j) ==
    IF i >= j THEN i
    ELSE LET h == (i + j) \div 2
         IN IF a[h + 1] >= x THEN SearchFrom(a, x, i, h)
                             ELSE SearchFrom(a, x, h + 1, j)

SearchStrings(a, x) == SearchFrom(a, x, 0, Len(a))

contains(s, t) ==
    /\ Len(s) > 0
    /\ LET i == SearchStrings(s, t) IN i < Len(s) /\ s[i + 1] = t

\* One turn of Start's loop, lines 145-147: m := middlewares[len-i-1];
\* handler = m(handler).  A handler is the list of middlewares it runs,
\* outermost first, so m(h) is m in front of h.
WrapStep(mws, i, h) == <<mws[Len(mws) - i]>> \o h

RECURSIVE WrapFrom(_, _, _)
WrapFrom(mws, i, h) ==
    IF i = Len(mws) THEN h ELSE WrapFrom(mws, i + 1, WrapStep(mws, i, h))

-----------------------------------------------------------------------------
\* gateway.New: no middlewares.  The configuration and the request are
\* fixed before anything runs.
Init ==
    /\ stack \in Stacks
    /\ used = <<>>
    /\ handler = <<>>
    /\ conf \in Confs
    /\ req \in Reqs
    /\ pos = 1
    /\ user = None
    /\ client = None
    /\ status = "config"

\* Use, lines 80-85: the next argument is appended.
Use ==
    /\ status = "config" /\ Len(used) < Len(stack)
    /\ used' = Append(used, stack[Len(used) + 1])
    /\ UNCHANGED <<stack, handler, conf, req, pos, user, client, status>>

\* Start, lines 141-149: the mux wrapped in every middleware.
Start ==
    /\ status = "config" /\ used = stack
    /\ handler' = WrapFrom(used, 0, <<>>)
    /\ status' = "pending"
    /\ UNCHANGED <<stack, used, conf, req, pos, user, client>>

At(kind) == status = "pending" /\ pos <= Len(handler) /\ handler[pos] = kind

\* next.ServeHTTP: the request moves to the next handler.
Pass == pos' = pos + 1 /\ UNCHANGED status

\* http.Error and return.
Deny(code) == status' = code /\ UNCHANGED pos

\* req.RemoteAddr of a request from IP a: "a:port", a string no list of
\* IPs holds (numbered past every list value; the order of these strings
\* among the IPs does not change the answer of contains, which is false).
RemoteAddr(a) == MaxValue + a

\* Allows, lines 112-123.
Allows ==
    /\ At("allows")
    /\ IF contains(conf.ips, RemoteAddr(req.addr)) THEN Pass ELSE Deny("401")
    /\ UNCHANGED <<stack, used, handler, conf, req, user, client>>

\* Blocks, lines 126-136.
Blocks ==
    /\ At("blocks")
    /\ IF contains(conf.ips, RemoteAddr(req.addr)) THEN Deny("502") ELSE Pass
    /\ UNCHANGED <<stack, used, handler, conf, req, user, client>>

\* AllowClients, lines 28-88.  An ignored path passes untouched.  A client
\* ID not in the header, query or form is looked for in a JSON body: a body
\* that does not parse is 400, and a client_id that is not a string fails
\* the .(string) assertion and panics.  With no clients configured every
\* request passes; otherwise an empty or unlisted client is 401.  A
\* passing client ID is put in the context.
AllowClients ==
    /\ At("clients")
    /\ CASE req.ignored ->
              Pass /\ UNCHANGED client
         [] req.client = Empty /\ req.body = "bad" ->
              Deny("400") /\ UNCHANGED client
         [] req.client = Empty /\ req.body = "nonstring" ->
              status' = "panic" /\ UNCHANGED <<pos, client>>
         [] Len(conf.clients) = 0 ->
              Pass /\ client' = IF req.client = Empty THEN None ELSE req.client
         [] req.client = Empty \/ ~contains(conf.clients, req.client) ->
              Deny("401") /\ UNCHANGED client
         [] OTHER ->
              Pass /\ client' = req.client
    /\ UNCHANGED <<stack, used, handler, conf, req, user>>

\* TokenInspector, lines 92-109, with authHeader, lines 213-229: a bearer
\* token that Inspect accepts puts its Principal in the context; the
\* request passes either way.
TokenInspector ==
    /\ At("token")
    /\ user' = IF req.token = "valid" THEN req.scopes ELSE user
    /\ Pass
    /\ UNCHANGED <<stack, used, handler, conf, req, client>>

\* RolesInspector, lines 139-187: the subject is "members" for an
\* authenticated user and "anonymous" otherwise; an anonymous refusal is
\* 401, and a refused user is checked again under its own name.
RolesInspector ==
    /\ At("roles")
    /\ LET ok  == user # None
           sub == IF ok THEN "members" ELSE "anonymous"
       IN CASE conf.enforceErr        -> Deny("503")
            [] sub \in conf.policy    -> Pass
            [] ~ok                    -> Deny("401")
            [] UserName \in conf.policy -> Pass
            [] OTHER                  -> Deny("403")
    /\ UNCHANGED <<stack, used, handler, conf, req, user, client>>

\* ScopeInspector, lines 190-203: VerifyRequest never errors, so false is
\* 403.  Its answer may depend on the order of the resources map.
ScopeInspector ==
    /\ At("scope")
    /\ \E ok \in Rules!VerifyRequest(Resources, req.uri, user) :
         IF ok THEN Pass ELSE Deny("403")
    /\ UNCHANGED <<stack, used, handler, conf, req, user, client>>

\* Past the last middleware the request reaches the grpc-gateway mux.
Backend ==
    /\ status = "pending" /\ pos > Len(handler)
    /\ status' = "next"
    /\ UNCHANGED <<stack, used, handler, conf, req, pos, user, client>>

\* The request has been answered.
Done ==
    /\ status \notin {"config", "pending"}
    /\ UNCHANGED vars

Next ==
    \/ Use \/ Start
    \/ Allows \/ Blocks \/ AllowClients \/ TokenInspector
    \/ RolesInspector \/ ScopeInspector \/ Backend \/ Done

Spec == Init /\ [][Next]_vars

-----------------------------------------------------------------------------
TypeOK ==
    /\ used \in Seq(Kinds) /\ handler \in Seq(Kinds)
    /\ conf \in Confs /\ req \in Reqs
    /\ pos \in 1..(Len(stack) + 1)
    /\ user \in ScopeSeqs \cup {None}
    /\ client \in Values \cup {None}
    /\ status \in Decided \cup {"config", "pending", "panic"}

\* The token's user, as every inspector after TokenInspector should see it.
TokenUser == req.token = "valid" /\ "token" \in ToSet(stack)

\* What each middleware's comment promises for this request: Allows
\* "filters every request outside the whitelist", Blocks "intercepts every
\* request from a blacklisted IP", AllowClients "filters every request not
\* in the given range", RolesInspector admits by the Casbin policy for the
\* user or "anonymous", and ScopeInspector admits a user whose scopes grant
\* the resource the URI names.
Admits(k) ==
    CASE k = "allows"  -> req.addr \in ToSet(conf.ips)
      [] k = "blocks"  -> req.addr \notin ToSet(conf.ips)
      [] k = "clients" ->
           \/ req.ignored
           \/ /\ ~(req.client = Empty /\ req.body # "none")
              /\ \/ Len(conf.clients) = 0
                 \/ req.client # Empty /\ req.client \in ToSet(conf.clients)
      [] k = "token"   -> TRUE
      [] k = "roles"   ->
           /\ ~conf.enforceErr
           /\ IF TokenUser THEN {"members", UserName} \cap conf.policy # {}
                           ELSE "anonymous" \in conf.policy
      [] k = "scope"   ->
           /\ TokenUser
           /\ \E id \in DOMAIN Resources :
                Rules!MeantMatch(req.uri, Resources[id])
                /\ Rules!Verify(req.scopes, id)

\* A request the gateway answers reaches the backend exactly when every
\* middleware it was built with admits it: the first Use argument runs
\* first, the user TokenInspector finds reaches the inspectors after it,
\* and each list check decides by membership of the client's IP or ID in
\* the list as configured.
ChainDecides ==
    status \in Decided =>
        (status = "next" <=> \A k \in ToSet(stack) : Admits(k))

=============================================================================
