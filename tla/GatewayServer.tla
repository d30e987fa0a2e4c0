---------------------------- MODULE GatewayServer ----------------------------
(***************************************************************************)
(* The HTTP gateway process of gateway/gateway.go and gateway/options.go:  *)
(* New folds its Options over the defaults, the main goroutine registers   *)
(* transports and routes, and Start sets the server up, starts the signal  *)
(* goroutine and blocks in ListenAndServe.  A SIGTERM or SIGINT taken by   *)
(* that goroutine starts http.Server.Shutdown; requests arrive from the    *)
(* network while the listener is open.  When Start returns, main returns  *)
(* and the process exits.                                                  *)
(*                                                                         *)
(* An endpoint is a record of its name and whether it uses TLS; the       *)
(* middleware chain Start wraps is GatewayMiddlewares' subject and is left *)
(* out here.                                                               *)
(***************************************************************************)
EXTENDS Naturals, Sequences, SequencesExt

CONSTANTS
    Configs,      \* the option lists New is called with
    ServerNames,  \* the names Transport may be called with
    MaxFuncs,     \* register functions per Transport call
    MaxHandlers,  \* Handle calls
    Requests,     \* the requests clients send
    MaxSignals,   \* signals sent to the process
    None

VARIABLES
    opts,       \* the *Options newOptions built
    registers,  \* b.clientRegisters: name -> number of register functions
    handlers,   \* len(b.handlers)
    main,       \* the main goroutine, or how the process ended
    sig,        \* the signal goroutine Start starts
    closed,     \* Shutdown has closed the listener
    req,        \* each request: not sent, in flight, answered, or cut off
    signals,    \* signals sent so far
    dialled     \* server name -> the name of the endpoint Start dialled it at

vars == <<opts, registers, handlers, main, sig, closed, req, signals, dialled>>

Ended == {"fatal", "panic", "exited", "killed"}
Alive == main \notin Ended

-----------------------------------------------------------------------------
(* newOptions and the Option functions.                                   *)

\* newOptions' defaults: no transports, an empty (non-nil) CORSConfig, and
\* the endpoint "127.0.0.1:8081" without TLS.
DefaultOptions ==
    [transports |-> <<>>, cors |-> "empty", tls |-> FALSE, panic |-> FALSE]

\* One Option.  WithConfig copies *conf.EndPoint (a nil endpoint section
\* panics) and takes the config's CORS pointer and transport list whole;
\* AllowOrigins and its siblings write through o.CORS, which panics when
\* a WithConfig before them set it nil.  Name, Version, TTL, Listen,
\* Registry and Logger set fields this model does not read.
ApplyOption(o, opt) ==
    LET a == opt.arg IN
    CASE opt.op = "WithConfig" ->
           IF a.endpoint = None THEN [o EXCEPT !.panic = TRUE]
           ELSE [o EXCEPT !.tls = a.endpoint.tls, !.cors = a.cors,
                          !.transports = a.transports]
      [] opt.op = "Trans"        -> [o EXCEPT !.transports = @ \o a]
      [] opt.op \in {"AllowOrigins", "AllowMethods", "AllowHeaders"} ->
           IF o.cors = None THEN [o EXCEPT !.panic = TRUE]
           ELSE [o EXCEPT !.cors = "set"]
      [] opt.op = "TLS"          -> [o EXCEPT !.tls = TRUE]
      [] OTHER                   -> o

-----------------------------------------------------------------------------
Init ==
    /\ opts = None /\ registers = <<>> /\ handlers = 0
    /\ main = "new" /\ sig = "none" /\ closed = FALSE
    /\ req = [r \in Requests |-> "none"] /\ signals = 0
    /\ dialled = <<>>

\* New(opts...): a panic in an Option ends the process.
New ==
    /\ main = "new"
    /\ \E c \in Configs :
         LET o == FoldLeft(ApplyOption, DefaultOptions, c)
         IN /\ opts' = o
            /\ main' = IF o.panic THEN "panic" ELSE "build"
    /\ UNCHANGED <<registers, handlers, sig, closed, req, signals, dialled>>

\* Transport(name, fns...): the name's register functions are replaced.
Transport(name, k) ==
    /\ main = "build"
    /\ registers' = (name :> k) @@ registers
    /\ UNCHANGED <<opts, handlers, main, sig, closed, req, signals, dialled>>

\* Handle(method, pattern, handler) appends one route function.
Handle ==
    /\ main = "build" /\ handlers < MaxHandlers
    /\ handlers' = handlers + 1
    /\ UNCHANGED <<opts, registers, main, sig, closed, req, signals, dialled>>

\* The endpoint Start dials a server name at (lines 107-116): the first
\* transport, unless another one carries the name.  A name that no
\* endpoint carries falls back to the first.
DialEndpoint(n) ==
    LET named == SelectSeq(opts.transports, LAMBDA e : e.name = n)
    IN IF opts.transports[1].name = n \/ named = <<>>
       THEN opts.transports[1] ELSE named[1]

\* buildDialOptions with loadTLSCredentials (lines 211-272): a TLS
\* endpoint's CA and key pair files are read, and Start Fatals when they
\* do not load; a plain endpoint dials insecure.
DialOutcomes(ep) == {"ok"} \cup (IF ep.tls THEN {"fatal"} ELSE {})

\* Start, lines 95-157, up to ListenAndServe.  Fatal with registered
\* transports and no endpoint.  Otherwise every name with register
\* functions is dialled at its endpoint: the generated register function
\* dials without blocking, so it fails only as its dial options do (the
\* credentials).  A route can fail too (Fatal), and a nil CORS panics in
\* Allows; else signal.Notify is called and the signal goroutine started.
StartSetup ==
    /\ main = "build"
    /\ IF DOMAIN registers # {} /\ opts.transports = <<>>
       THEN main' = "fatal" /\ UNCHANGED <<sig, dialled>>
       ELSE LET dialling == {n \in DOMAIN registers : registers[n] > 0}
                fails == handlers > 0
                         \/ \E n \in dialling :
                              "fatal" \in DialOutcomes(DialEndpoint(n))
            IN /\ dialled' = [n \in dialling |-> DialEndpoint(n).name]
               /\ \E end \in {IF opts.cors = None THEN "panic" ELSE "listen"}
                             \cup (IF fails THEN {"fatal"} ELSE {}) :
                    /\ main' = end
                    /\ sig' = IF end = "listen" THEN "ready" ELSE sig
    /\ UNCHANGED <<opts, registers, handlers, closed, req, signals>>

\* The goroutine runs to `<-stop` and blocks there.
SignalWait ==
    /\ Alive /\ sig = "ready"
    /\ sig' = "waiting"
    /\ UNCHANGED <<opts, registers, handlers, main, closed, req, signals, dialled>>

\* The process ends: every request still in flight is cut off.
CutOff(end) ==
    /\ main' = end
    /\ req' = [r \in Requests |-> IF req[r] = "inflight" THEN "cut" ELSE req[r]]

\* SIGTERM or SIGINT.  Before Notify, and after the goroutine's deferred
\* signal.Stop, the default action kills the process.  In between Notify
\* makes a non-blocking send on the unbuffered channel: the goroutine
\* takes it only while it waits in `<-stop`, and then calls cancel() and
\* Shutdown, which first closes the listener; otherwise it is dropped.
Signal ==
    /\ Alive /\ signals < MaxSignals
    /\ signals' = signals + 1
    /\ CASE main \in {"new", "build"} \/ sig = "done" ->
              CutOff("killed") /\ UNCHANGED <<sig, closed>>
         [] sig = "waiting" ->
              sig' = "shutdown" /\ closed' = TRUE /\ UNCHANGED <<main, req>>
         [] OTHER -> UNCHANGED <<main, sig, closed, req>>
    /\ UNCHANGED <<opts, registers, handlers, dialled>>

\* ListenAndServe (ListenAndServeTLS with the TLS option) on a server not
\* yet shut down: it binds and serves, or fails (the address, or the
\* certificate files) and Start calls Fatalf.
Listen ==
    /\ main = "listen" /\ ~closed
    /\ \E ok \in BOOLEAN : main' = IF ok THEN "serving" ELSE "fatal"
    /\ UNCHANGED <<opts, registers, handlers, sig, closed, req, signals, dialled>>

\* The server accepts a request while its listener is open.
Accept(r) ==
    /\ main = "serving" /\ ~closed /\ req[r] = "none"
    /\ req' = [req EXCEPT ![r] = "inflight"]
    /\ UNCHANGED <<opts, registers, handlers, main, sig, closed, signals, dialled>>

\* The handler writes its answer.
Answer(r) ==
    /\ Alive /\ req[r] = "inflight"
    /\ req' = [req EXCEPT ![r] = "answered"]
    /\ UNCHANGED <<opts, registers, handlers, main, sig, closed, signals, dialled>>

\* Shutdown returns once every connection is idle; the goroutine's
\* deferred signal.Stop runs.
ShutdownDone ==
    /\ Alive /\ sig = "shutdown"
    /\ \A r \in Requests : req[r] # "inflight"
    /\ sig' = "done"
    /\ UNCHANGED <<opts, registers, handlers, main, closed, req, signals, dialled>>

\* ListenAndServe returns ErrServerClosed as soon as Shutdown has closed
\* the listener (at once, when Shutdown came first); Start logs and
\* returns, main returns, and the process exits.
StartReturns ==
    /\ main \in {"listen", "serving"} /\ closed
    /\ CutOff("exited")
    /\ UNCHANGED <<opts, registers, handlers, sig, closed, signals, dialled>>

Next ==
    \/ New
    \/ \E n \in ServerNames, k \in 0..MaxFuncs : Transport(n, k)
    \/ Handle
    \/ StartSetup
    \/ SignalWait
    \/ Signal
    \/ Listen
    \/ \E r \in Requests : Accept(r) \/ Answer(r)
    \/ ShutdownDone
    \/ StartReturns

Spec == Init /\ [][Next]_vars

-----------------------------------------------------------------------------
\* A graceful stop: Start takes its signal to http.Server.Shutdown, which
\* waits for the requests in flight, and net/http's documentation of
\* Shutdown asks the program not to exit before Shutdown returns.  No
\* request the gateway accepted is cut off by the process ending.
NoRequestCut == \A r \in Requests : req[r] # "cut"

=============================================================================
