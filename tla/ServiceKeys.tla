------------------------------ MODULE ServiceKeys ------------------------------
(***************************************************************************)
(* The etcd key layout of registered services: BuildPrefix and            *)
(* BuildRegPath (runtime/service.go) and the three store calls of the      *)
(* etcd registry that use them (registry/etcd/registry.go): register()    *)
(* Puts the descriptor at BuildRegPath, unregister() Deletes that key, and *)
(* GetServices Gets it.                                                    *)
(*                                                                         *)
(* Several service instances share one store.  Their Name, Version and    *)
(* Addr are short strings over Alphabet (which holds no "/"), built       *)
(* character by character because the properties are about the keys the  *)
(* formatting produces.                                                    *)
(* The lease that carries a key and the keep-alive loop are modelled in   *)
(* EtcdRegistry; here a key lives from its Put to its Delete.             *)
(***************************************************************************)
EXTENDS Naturals, Sequences, SequencesExt

CONSTANTS
    Alphabet,    \* characters of names, versions and addresses
    MaxLen,      \* longest name, version or address
    Instances,   \* service instances
    None

Slash == "/"
Strings == BoundedSeq(Alphabet, MaxLen)
NonEmpty == Strings \ {<<>>}
Descs == [name : NonEmpty, version : Strings, addr : NonEmpty]

VARIABLES
    desc,     \* each instance's ServiceDesc
    store,    \* the etcd keyspace: key -> the descriptor stored there
    up,       \* instances whose last registry call was a Register
    found     \* what each instance's last GetServices returned, or None

vars == <<desc, store, up, found>>

-----------------------------------------------------------------------------
Str(s) == <<s>>

\* BuildPrefix, service.go 30-35: "/name/" or "/name/version/".
BuildPrefix(info) ==
    IF info.version = <<>>
    THEN Str(Slash) \o info.name \o Str(Slash)
    ELSE Str(Slash) \o info.name \o Str(Slash) \o info.version \o Str(Slash)

\* BuildRegPath, service.go 37-39: the prefix followed by the address.
BuildRegPath(info) == BuildPrefix(info) \o info.addr

-----------------------------------------------------------------------------
\* Distinct instances have distinct descriptors; an address may be reused
\* by an instance of another name or version.
Init ==
    /\ desc \in [Instances -> Descs]
    /\ \A i, j \in Instances : i # j => desc[i] # desc[j]
    /\ store = <<>>
    /\ up = {}
    /\ found = [i \in Instances |-> None]

\* register(), registry.go 141-146: Put the descriptor at its key,
\* replacing whatever was there.
Register(i) ==
    /\ i \notin up
    /\ store' = (BuildRegPath(desc[i]) :> desc[i]) @@ store
    /\ up' = up \cup {i}
    /\ UNCHANGED <<desc, found>>

\* unregister(), registry.go 150-153: Delete the key.
Unregister(i) ==
    /\ i \in up
    /\ store' = [k \in DOMAIN store \ {BuildRegPath(desc[i])} |-> store[k]]
    /\ up' = up \ {i}
    /\ UNCHANGED <<desc, found>>

\* GetServices, registry.go 108-125: Get of the instance's own key, with
\* no prefix option; every returned value is decoded.
GetServices(i) ==
    /\ found' = [found EXCEPT ![i] =
                   {store[k] : k \in DOMAIN store \cap {BuildRegPath(desc[i])}}]
    /\ UNCHANGED <<desc, store, up>>

Next == \E i \in Instances : Register(i) \/ Unregister(i) \/ GetServices(i)

Spec == Init /\ [][Next]_vars

-----------------------------------------------------------------------------
\* GetServices returns every instance registered under the caller's name
\* and version (spec section 4.2: a prefix range read under the
\* name/version prefix).
DiscoversAllInstances ==
    [][\A i \in Instances :
         found'[i] # found[i] =>
            found'[i] = {store[k] : k \in {k2 \in DOMAIN store :
                                             IsPrefix(BuildPrefix(desc[i]), k2)}}]_vars

=============================================================================
