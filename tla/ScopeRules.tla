------------------------------ MODULE ScopeRules ------------------------------
(***************************************************************************)
(* Scope-based access control: ScopeInspector                              *)
(* (gateway/middlewares/middlewares.go) asks rules.VerifyRequest           *)
(* (auth/rules.go) whether the request may pass.  VerifyRequest ranges     *)
(* over the resources map, takes the first resource whose EndPoint         *)
(* pattern matches the request URI (IsPatternMatch, auth/utils.go) and     *)
(* answers Verify(user, that resource).  Go ranges over a map in an order  *)
(* that is random on every range, so "first" may be any matching         *)
(* resource.                                                               *)
(*                                                                         *)
(* URIs and patterns are short sequences of characters; "*" is the         *)
(* wildcard.  Lower-casing and EqualFold are left out: every name here is *)
(* already lower case.  The resource's Type (the HTTP method) is not read *)
(* by VerifyRequest and is not modelled.  Each behaviour handles the same *)
(* request twice (two calls), as a client that repeats it would.          *)
(***************************************************************************)
EXTENDS Naturals, Sequences, SequencesExt

CONSTANTS
    Alphabet,   \* characters of URIs and patterns, "*" excluded
    MaxLen,     \* longest URI or pattern
    Ids,        \* resource IDs, which are also the scopes that grant them
    Disjoint,   \* TRUE: no URI matches two configured resources
    None

Star == "*"
URIs == BoundedSeq(Alphabet, MaxLen)
Patterns == BoundedSeq(Alphabet \cup {Star}, MaxLen) \ {<<>>}
Scopes == Ids \cup {Star}
Calls == {1, 2}

ASSUME Star \notin Alphabet /\ Disjoint \in BOOLEAN

VARIABLES
    resources,   \* rules.resources: the EndPoint of each configured ID
    uri,         \* req.RequestURI
    user,        \* the Principal's Scopes, or None for no user
    status       \* ScopeInspector's answer per call: None, "next" or "403"

vars == <<resources, uri, user, status>>

-----------------------------------------------------------------------------
\* IsPatternMatch(key1, key2), utils.go 85-95.  i is strings.Index of "*"
\* (0-based, -1 if absent); key[:i] is the first i characters.
IsPatternMatch(key1, key2) ==
    LET i == IF Star \in Range(key2)
             THEN IndexFirstSubSeq(<<Star>>, key2) - 1 ELSE -1
    IN CASE i = -1           -> key1 = key2
         [] Len(key1) > i    -> SubSeq(key1, 1, i) = SubSeq(key2, 1, i)
         [] OTHER            -> key1 = SubSeq(key2, 1, i)

\* Verify(user, res), rules.go 79-92: a first scope "*" grants everything,
\* otherwise a scope equal to the resource ID grants it.
Verify(scopes, id) ==
    /\ Len(scopes) > 0
    /\ scopes[1] = Star \/ \E j \in 1..Len(scopes) : scopes[j] = id

\* The resources whose pattern matches the URI.
Matching(res, u) == {id \in DOMAIN res : IsPatternMatch(u, res[id])}

\* VerifyRequest, rules.go 64-77: the answers it can give, one per order
\* in which range may visit the map.  No resources, no user or no match
\* is false.
VerifyRequest(res, u, scopes) ==
    IF DOMAIN res = {} \/ scopes = None \/ Matching(res, u) = {}
    THEN {FALSE}
    ELSE {Verify(scopes, id) : id \in Matching(res, u)}

-----------------------------------------------------------------------------
\* What a pattern is read to mean: a pattern without "*" names one URI, and
\* a "*" stands for whatever follows the part before it.
MeantMatch(u, p) ==
    IF Star \in Range(p)
    THEN IsPrefix(SubSeq(p, 1, IndexFirstSubSeq(<<Star>>, p) - 1), u)
    ELSE u = p

\* Two configured resources cover a common URI.
Overlapping(res) ==
    \E u \in URIs, a, b \in DOMAIN res :
        a # b /\ MeantMatch(u, res[a]) /\ MeantMatch(u, res[b])

\* Any set of resources keyed by ID; the map holds one per ID.
Init ==
    /\ resources \in UNION {[D -> Patterns] : D \in SUBSET Ids}
    /\ Disjoint => ~Overlapping(resources)
    /\ uri \in URIs
    /\ user \in {None} \cup BoundedSeq(Scopes, 2)
    /\ status = [k \in Calls |-> None]

\* ScopeInspector, middlewares.go 190-203: VerifyRequest never returns an
\* error, so a false answer is 403 and a true one passes the request on.
Inspect(k) ==
    /\ status[k] = None
    /\ \E ok \in VerifyRequest(resources, uri, user) :
         status' = [status EXCEPT ![k] = IF ok THEN "next" ELSE "403"]
    /\ UNCHANGED <<resources, uri, user>>

Done ==
    /\ \A k \in Calls : status[k] # None
    /\ UNCHANGED vars

Next == (\E k \in Calls : Inspect(k)) \/ Done

Spec == Init /\ [][Next]_vars

-----------------------------------------------------------------------------
\* The same request from the same user gets the same answer every time:
\* the decision does not depend on the order in which VerifyRequest
\* ranges over the resources map.
SameAnswer ==
    status[1] # None /\ status[2] # None => status[1] = status[2]

=============================================================================
