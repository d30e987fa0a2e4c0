---------------------------- MODULE ConsulRegistry ----------------------------
(***************************************************************************)
(* The consul registry (registry/consul/registry.go) driven by the service *)
(* bootstrap (service/service.go), and the consul agent it talks to.       *)
(*                                                                         *)
(* Main is the service's main goroutine: Start calls Register, which sends *)
(* one agent registration with a TCP check (interval 5s,                   *)
(* DeregisterCriticalServiceAfter 5s) and Fatals on error; on a signal     *)
(* WaitForClose calls Unregister, which deregisters by ID and Fatals on    *)
(* error, then sleeps and returns.  Nothing re-registers: liveness is left *)
(* to the agent, which probes the check and drops a service whose check   *)
(* stayed critical for the window.  A gateway reads the catalog through    *)
(* GetServices at any time.                                                *)
(*                                                                         *)
(* Start runs grpc's Serve in a goroutine before it registers, and that    *)
(* goroutine and Main write the one variable err of Start without a lock: *)
(* the goroutine assigns Serve's error and panics if it reads it non-nil, *)
(* Main assigns Register's result and Fatals if it reads it non-nil.      *)
(***************************************************************************)
EXTENDS Naturals, Endpoint

CONSTANTS
    Window,     \* DeregisterCriticalServiceAfter, in probe intervals
    MaxFlakes,  \* probes of a reachable server that the network fails
    Configs,    \* the option lists service.New is called with
    MaxServices,\* MicroService.Register calls before Start
    Calls,      \* RPCs clients send to the instance they found in the catalog
    None

ASSUME Window \in Nat \ {0} /\ MaxFlakes \in Nat

VARIABLES
    pc,           \* Main's position
    registered,   \* the agent's catalog holds this instance
    check,        \* the TCP check's status: "passing" or "critical"
    criticalFor,  \* probe intervals the check has been critical
    flakes,       \* failed probes of a reachable server so far
    opts,         \* the service's *Options: ServiceDesc's address, network,
                  \* TLS, Name and ID, and whether a registry is set
    services,     \* grpc services given to MicroService.Register
    serve,        \* the serve goroutine: "idle", "serving", "returned", "done"
    err,          \* Start's err: "nil" or "serve" (Serve's error)
    calls,        \* each RPC: not sent, in flight, answered, or refused
    lastRead      \* the last GetServices: whether the catalog held the
                  \* instance and with which check status, the statuses of
                  \* the instances it returned, and whether it returned an
                  \* error

vars == <<pc, registered, check, criticalFor, flakes, serve, err, lastRead,
          opts, services, calls>>

Labels == {"start", "register", "reg_check", "serving", "stopping",
           "unregister", "sleep", "exited"}
Statuses == {"passing", "critical"}
Reads == [held : BOOLEAN, status : Statuses, got : SUBSET Statuses,
          err : BOOLEAN]

TypeOK ==
    /\ pc \in Labels
    /\ registered \in BOOLEAN
    /\ check \in Statuses
    /\ criticalFor \in 0..Window
    /\ flakes \in 0..MaxFlakes
    /\ opts.tls \in BOOLEAN /\ opts.registry \in BOOLEAN
    /\ opts.network \in {"tcp", ""}
    /\ opts.id \in {"", "uuid"}
    /\ services \in 0..MaxServices
    /\ serve \in {"idle", "serving", "returned", "done"}
    /\ err \in {"nil", "serve"}
    /\ calls \in [Calls -> {"none", "inflight", "answered", "refused"}]
    /\ lastRead \in Reads \cup {None}

-----------------------------------------------------------------------------
(* service.New: newOptions and the Option functions, service/options.go. *)

\* newOptions: ServiceDesc with no name and the endpoint 127.0.0.1:8080
\* (NewEndpoint: network "tcp"), no TLS, no registry.
DefaultOptions ==
    [addr |-> <<"lo", Colon, "p8080">>, network |-> "tcp", tls |-> FALSE,
     name |-> "", id |-> "", registry |-> FALSE]

\* One Option.  Name sets the name and an ID "<name>-<uuid>"; WithConfig
\* replaces the whole endpoint (address, network and TLS: a config file
\* with no network leaves it "", since nothing calls SetDefault) and the
\* name when the config has one, leaving the ID alone.  TTL, HealthCheck, Reflection,
\* Auth and Logger set fields this model does not read.
ApplyServiceOption(o, opt) ==
    LET a == opt.arg IN
    CASE opt.op = "Listen"     -> [o EXCEPT !.addr = a]
      [] opt.op = "TLS"        -> [o EXCEPT !.tls = TRUE]
      [] opt.op = "Name"       -> [o EXCEPT !.name = a, !.id = "uuid"]
      [] opt.op = "Registry"   -> [o EXCEPT !.registry = TRUE]
      [] opt.op = "WithConfig" ->
           [o EXCEPT !.addr = a.addr, !.network = a.network, !.tls = a.tls,
                     !.name = IF a.name # "" THEN a.name ELSE @]
      [] OTHER                 -> o

NewOptions(c) == FoldLeft(ApplyServiceOption, DefaultOptions, c)

addr == opts.addr

\* A consul check starts critical until its first probe passes.
Init ==
    /\ pc = "start"
    /\ registered = FALSE
    /\ check = "critical"
    /\ criticalFor = 0
    /\ flakes = 0
    /\ serve = "idle"
    /\ err = "nil"
    /\ lastRead = None
    /\ opts \in {NewOptions(c) : c \in Configs}
    /\ services = 0
    /\ calls = [q \in Calls |-> "none"]

Running == pc # "exited"

\* The port accepts connections: the process runs and Serve has not returned.
Up == Running /\ serve = "serving"

\* The check's TCP connection to LocalIP():GetPort() reaches the server.
Reachable == Up /\ Reaches(addr, GetPort(addr))

-----------------------------------------------------------------------------
(* Main: Start, service.go 110-143, and Register, consul 48-74.          *)

\* MicroService.Register, service.go 99-108: the grpc service is kept for
\* Start, and names the microservice (Name, so with an ID) when no name
\* is set yet.
RegisterService ==
    /\ pc = "start" /\ services < MaxServices
    /\ services' = services + 1
    /\ opts' = IF opts.name = "" THEN [opts EXCEPT !.name = "svc", !.id = "uuid"]
               ELSE opts
    /\ UNCHANGED <<pc, registered, check, criticalFor, flakes, serve, err,
                   lastRead, calls>>

\* How initGRPCServer (service.go 149-197) ends: with TLS, Fatal when the
\* certificate files do not load; then Fatal when no grpc service was
\* registered; else the server is built.
InitOutcomes ==
    (IF opts.tls THEN {"bad_credentials"} ELSE {})
        \cup {IF services = 0 THEN "no_services" ELSE "ok"}

\* initGRPCServer, then Listen (net.Listen(Network, Addr)), which Fatals
\* on a network other than "tcp" or an address it cannot parse or bind;
\* else the serve goroutine is started, and Main goes on to
\* Register when a registry is set, else to WaitForClose.
StartRegister ==
    /\ pc = "start"
    /\ \E init \in InitOutcomes :
         IF init = "ok" /\ opts.network = "tcp" /\ Listens(addr)
         THEN /\ pc' = IF opts.registry THEN "register" ELSE "serving"
              /\ serve' = "serving"
         ELSE pc' = "exited" /\ UNCHANGED serve
    /\ UNCHANGED <<registered, check, criticalFor, flakes, err, lastRead, opts,
                   services, calls>>

\* Mutant: the agent call returns before the service is in the catalog.
RegisterNotRecorded ==
    /\ pc = "register"
    /\ \/ pc' = "reg_check" /\ err' = "nil"
       \/ pc' = "exited" /\ UNCHANGED err
    /\ UNCHANGED <<registered, check, criticalFor, flakes, serve, lastRead, opts, services, calls>>

\* ServiceRegister succeeds and the agent holds the service with a fresh
\* critical check, and `err = Register(...)` stores nil; or it fails and
\* Register's own logger.Fatal ends the process.
Register ==
    /\ pc = "register"
    /\ \/ /\ pc' = "reg_check" /\ err' = "nil" /\ registered' = TRUE
          /\ check' = "critical" /\ criticalFor' = 0
       \/ pc' = "exited" /\ UNCHANGED <<registered, check, criticalFor, err>>
    /\ UNCHANGED <<flakes, serve, lastRead, opts, services, calls>>

\* Start, line 137: `err != nil` reads err again; a Serve error stored
\* since Register returned makes Main Fatal with it.
RegCheck ==
    /\ pc = "reg_check"
    /\ pc' = IF err = "nil" THEN "serving" ELSE "exited"
    /\ UNCHANGED <<registered, check, criticalFor, flakes, serve, err, lastRead, opts, services, calls>>

\* WaitForClose, service.go 77-82: a termination signal (SIGHUP changes
\* nothing and waits again) starts GracefulStop, which closes the
\* listener first: Serve returns nil, which the goroutine stores and
\* finds nil.
Signal ==
    /\ pc = "serving"
    /\ pc' = "stopping"
    /\ serve' = IF serve = "serving" THEN "done" ELSE serve
    /\ err' = IF serve = "serving" THEN "nil" ELSE err
    /\ UNCHANGED <<registered, check, criticalFor, flakes, lastRead, opts, services, calls>>

\* GracefulStop returns once no call is in flight; Unregister is called
\* when a registry is set (service.go 82-84).
StopDone ==
    /\ pc = "stopping"
    /\ \A q \in Calls : calls[q] # "inflight"
    /\ pc' = IF opts.registry THEN "unregister" ELSE "sleep"
    /\ UNCHANGED <<registered, check, criticalFor, flakes, serve, err, lastRead, opts, services, calls>>

\* Unregister, consul 77-84: ServiceDeregister(srvInfo.ID) removes the
\* service from the agent, or fails and logger.Fatal ends the process.
\* The agent registered a service with no ID under its name, and refuses
\* to deregister the empty ID.
Unregister ==
    /\ pc = "unregister"
    /\ \/ pc' = "sleep" /\ registered' = FALSE /\ opts.id # ""
       \/ pc' = "exited" /\ UNCHANGED registered
    /\ UNCHANGED <<check, criticalFor, flakes, serve, err, lastRead, opts, services, calls>>

\* WaitForClose, service.go 89-91: the second's sleep, then return.
Exit ==
    /\ pc = "sleep"
    /\ pc' = "exited"
    /\ UNCHANGED <<registered, check, criticalFor, flakes, serve, err, lastRead, opts, services, calls>>

-----------------------------------------------------------------------------
(* The serve goroutine, service.go 123-133.                               *)

\* Serve fails (the listener breaks) before any GracefulStop, and the
\* goroutine stores its error in err.
ServeFail ==
    /\ Up
    /\ serve' = "returned" /\ err' = "serve"
    /\ UNCHANGED <<pc, registered, check, criticalFor, flakes, lastRead, opts, services, calls>>

\* `if err != nil { panic(...) }` reads err again: a panic ends the
\* process, and a nil stored by Main in between lets the goroutine end
\* quietly with no server running.
ServeCheck ==
    /\ Running /\ serve = "returned"
    /\ serve' = "done"
    /\ pc' = IF err = "nil" THEN pc ELSE "exited"
    /\ UNCHANGED <<registered, check, criticalFor, flakes, err, lastRead, opts, services, calls>>

-----------------------------------------------------------------------------
(* Clients.  A client dials the instance it found in the catalog; the     *)
(* grpc server runs each call's handler in a goroutine of its own.        *)

\* A client dials the catalog's address, LocalIP():GetPort() (registry.go
\* 57-58), as the check does: the call is accepted when that reaches a
\* running Serve, and refused once the listener is closed (GracefulStop,
\* a failed Serve), when the process is gone, or when the server listens
\* elsewhere.
Call(q) ==
    /\ calls[q] = "none" /\ registered
    /\ calls' = [calls EXCEPT ![q] = IF Reachable THEN "inflight" ELSE "refused"]
    /\ UNCHANGED <<pc, registered, check, criticalFor, flakes, serve, err, lastRead, opts, services>>

\* The handler returns its answer.  A call still in flight when the
\* process ends is cut off.
Answer(q) ==
    /\ Running /\ calls[q] = "inflight"
    /\ calls' = [calls EXCEPT ![q] = "answered"]
    /\ UNCHANGED <<pc, registered, check, criticalFor, flakes, serve, err, lastRead, opts, services>>

-----------------------------------------------------------------------------
(* The agent.                                                              *)

\* The TCP check of LocalIP():GetPort(), registry.go 61-64, every interval.
\* A probe that reaches the server passes unless the network fails it (at
\* most MaxFlakes times); a probe that reaches nothing fails.
Probe ==
    /\ registered
    /\ \E st \in IF Reachable THEN Statuses ELSE {"critical"} :
         /\ st = "critical" /\ Reachable => flakes < MaxFlakes
         /\ check' = st
         /\ flakes' = IF st = "critical" /\ Reachable THEN flakes + 1 ELSE flakes
         /\ criticalFor' = IF st = "passing" THEN 0
                           ELSE IF criticalFor < Window THEN criticalFor + 1
                           ELSE criticalFor
    /\ UNCHANGED <<pc, registered, serve, err, lastRead, opts, services, calls>>

\* The check stayed critical for the window: the agent deregisters it.
Reap ==
    /\ registered /\ check = "critical" /\ criticalFor = Window
    /\ registered' = FALSE
    /\ UNCHANGED <<pc, check, criticalFor, flakes, serve, err, lastRead, opts, services, calls>>

\* GetServices, consul 87-103: Catalog().Service lists every instance of
\* the name whatever its check; its error is dropped, and a failed or
\* empty read returns nil, nil.
GetServices ==
    /\ \E fail \in BOOLEAN :
         lastRead' = [held   |-> registered,
                      status |-> check,
                      got    |-> IF registered /\ ~fail THEN {check} ELSE {},
                      err    |-> FALSE]
    /\ UNCHANGED <<pc, registered, check, criticalFor, flakes, serve, err, opts, services, calls>>

Next ==
    \/ RegisterService
    \/ StartRegister \/ Register \/ RegCheck \/ Signal \/ StopDone
    \/ Unregister \/ Exit
    \/ ServeFail \/ ServeCheck
    \/ \E q \in Calls : Call(q) \/ Answer(q)
    \/ Probe \/ Reap \/ GetServices

Spec == Init /\ [][Next]_vars

-----------------------------------------------------------------------------
\* GetServices answers with the healthy instances of the name or with an
\* error (spec section 4.3: "all healthy instances under the descriptor's
\* Name"; section 7: discovery failures propagate to the caller).
DiscoveryFaithful ==
    lastRead # None /\ ~lastRead.err =>
        lastRead.got = IF lastRead.held THEN {"passing"} \cap {lastRead.status}
                                        ELSE {}

\* The port Register gives the agent and its check (GetPort, registry.go
\* 58 and 63) is the port net.Listen bound, for every address whose host
\* has no colon; an IPv6 address such as [::]:8080 is outside it, and
\* GetPort reads 0 there.
RegisteredPortIsListenPort ==
    registered /\ Colon \notin ToSet(ListenHost(addr)) =>
        GetPort(addr) = ListenPort(addr)

-----------------------------------------------------------------------------
(* Refinement of the registration lifecycle of spec section 4.2: the      *)
(* agent's catalog entry is the published record.  A deregistered         *)
(* instance that still runs is Degraded, and nothing brings it back.  A  *)
(* service with no registry never leaves Unregistered.                     *)
Serving == {"reg_check", "serving", "stopping"}

PhaseBar ==
    CASE ~opts.registry                                -> "Unregistered"
      [] pc = "register"                               -> "Registering"
      [] pc = "unregister"                             -> "Stopping"
      [] pc \in Serving /\ registered                  -> "Active"
      [] pc \in Serving /\ ~registered                 -> "Degraded"
      [] OTHER                                         -> "Unregistered"

Lifecycle == INSTANCE RegistrationLifecycle
                 WITH phase <- PhaseBar, published <- registered

\* The consul registry implements the abstract registration lifecycle.
ImplementsLifecycle == Lifecycle!Spec

=============================================================================
