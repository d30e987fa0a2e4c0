--------------------------- MODULE EtcdRegistry ---------------------------
(***************************************************************************)
(* The lease-backed service registry of registry/etcd/registry.go, driven *)
(* by its one caller, service.Start / WaitForClose (service/service.go).  *)
(*                                                                         *)
(* Actors:                                                                 *)
(*   Main     the process's main goroutine: Register, wait for a signal,  *)
(*            GracefulStop, Unregister, sleep one second, exit.           *)
(*   k \in Loops  the keepAlive goroutine started by the k-th successful  *)
(*            Register call.                                               *)
(*   the etcd store and the client library, as environment: leases are    *)
(*   granted, kept alive by the client while the process runs, and expire *)
(*   (deleting the keys bound to them) when they are no longer renewed or *)
(*   when a partition outlasts the TTL.  The client closes a keep-alive   *)
(*   channel when its lease is gone, and also at its own deadline (no     *)
(*   response for a TTL), after which it stops renewing that lease.       *)
(*                                                                         *)
(* Data is abstracted to what the properties tell apart: the one key      *)
(* BuildRegPath(srvInfo) is the variable `record` holding the lease it is *)
(* bound to; a keep-alive channel is named by the lease it renews and a   *)
(* close channel by the Register call that made it; 0 is Go's nil channel *)
(* and clientv3.NoLease.  Every store call may fail when it is listed in  *)
(* FailingCalls, within a budget of MaxFailures.  KeepAlive is not among *)
(* them: clientv3 fails it only once the client is closed, which this     *)
(* code never does.                                                       *)
(***************************************************************************)
EXTENDS Naturals, FiniteSets, Sequences, SequencesExt

CONSTANTS
    MaxLeases,         \* lease IDs the store can grant are 1..MaxLeases
    MaxRegisterCalls,  \* calls of Register on the one ETCDRegistry object
    FailingCalls,      \* store calls that may return an error
    MaxFailures,       \* bound on the errors the store returns in a behaviour
    MaxExpiries,       \* bound on leases lost while the process runs
    RegistryConfigs,   \* the option lists NewETCDRegistry is called with
    Main,              \* model value naming the main goroutine
    None               \* model value: the key holds no record

Calls == {"dial", "grant", "put", "delete", "revoke"}

NoLease == 0           \* clientv3.NoLease
NilChan == 0           \* Go's nil channel
Loops   == 1..MaxRegisterCalls
Threads == {Main} \cup Loops

ASSUME /\ MaxRegisterCalls \in Nat \ {0}
       /\ FailingCalls \subseteq Calls
       /\ MaxFailures \in Nat /\ MaxExpiries \in Nat
       \* enough lease IDs for every Register call, every re-registration
       \* after an expiry, an error or a revoke by another goroutine
       /\ MaxLeases >= 2 * MaxRegisterCalls + MaxExpiries + MaxFailures

VARIABLES
    live,         \* leases the store holds: granted, not expired, not revoked
    renewed,      \* leases an etcd client of this process keeps alive
    nextLease,    \* the ID the store grants next
    record,       \* lease the key BuildRegPath(srvInfo) is bound to, or None
    leasesID,     \* r.leasesID
    keepAliveCh,  \* r.keepAliveCh: the lease whose keep-alive channel it is
    closeCh,      \* r.closeCh: the Register call that made it
    pc,           \* control point of every goroutine
    selCh,        \* channels a keepAlive loop's select is blocked on
    sendCh,       \* channel Unregister is sending on
    regCalls,     \* Register calls made
    failing,      \* the store calls that fail in this behaviour, picked
                  \* once at start from FailingCalls
    failures,     \* store errors injected so far
    expiries,     \* leases lost while the process runs, and keep-alive
                  \* channels closed at the client's deadline
    lapsed,       \* leases whose keep-alive channel the client closed at
                  \* its deadline, and which it no longer renews
    options       \* r.options: how many etcd endpoints, and DialTimeout

vars == <<live, renewed, nextLease, record, leasesID, keepAliveCh, closeCh,
          pc, selCh, sendCh, regCalls, failing, failures, expiries, lapsed,
          options>>

MainLabels == {"start", "reg_grant", "reg_keepalive", "reg_put", "serving",
               "unregister", "sleep", "exited"}
LoopLabels == {"idle", "select", "reg_grant", "reg_keepalive", "reg_put",
               "delete", "revoke", "done"}
Leases == 1..MaxLeases

TypeOK ==
    /\ live \subseteq Leases /\ renewed \subseteq Leases
    /\ nextLease \in 1..MaxLeases + 1
    /\ record \in {None} \cup ({NoLease} \cup Leases)
    /\ leasesID \in {NoLease} \cup Leases
    /\ keepAliveCh \in {NilChan} \cup Leases
    /\ closeCh \in {NilChan} \cup Loops
    /\ pc[Main] \in MainLabels
    /\ \A k \in Loops : pc[k] \in LoopLabels
    /\ selCh \in [Loops -> [close : {NilChan} \cup Loops,
                            ka : {NilChan} \cup Leases]]
    /\ sendCh \in {NilChan} \cup Loops
    /\ regCalls \in 0..MaxRegisterCalls
    /\ failing \subseteq FailingCalls
    /\ failures \in 0..MaxFailures /\ expiries \in 0..MaxExpiries
    /\ lapsed \subseteq Leases
    /\ options.endpoints \in Nat /\ options.dialTimeout \in Int

\* registry.DefaultOptions: no endpoints, a DialTimeout of 3 seconds.
DefaultOptions == [endpoints |-> 0, dialTimeout |-> 3]

\* WithEndPoints replaces the endpoint list; DialTimeout sets the timeout.
ApplyRegistryOption(o, opt) ==
    CASE opt.op = "WithEndPoints" -> [o EXCEPT !.endpoints = Len(opt.arg)]
      [] opt.op = "DialTimeout"   -> [o EXCEPT !.dialTimeout = opt.arg]

Init ==
    /\ options \in {FoldLeft(ApplyRegistryOption, DefaultOptions, c) :
                     c \in RegistryConfigs}
    /\ live = {} /\ renewed = {} /\ nextLease = 1
    /\ record = None
    /\ leasesID = NoLease /\ keepAliveCh = NilChan /\ closeCh = NilChan
    /\ pc = [t \in Threads |-> IF t = Main THEN "start" ELSE "idle"]
    /\ selCh = [k \in Loops |-> [close |-> NilChan, ka |-> NilChan]]
    /\ sendCh = NilChan
    /\ failing \in SUBSET FailingCalls
    /\ regCalls = 0 /\ failures = 0 /\ expiries = 0 /\ lapsed = {}

-----------------------------------------------------------------------------
(* Helpers                                                                 *)

\* The process is running: after exit no goroutine takes a step.
Running == pc[Main] # "exited"

\* The store may answer call c with an error.
CanFail(c) == c \in failing /\ failures < MaxFailures

\* The client has closed the keep-alive channel of lease l: the lease is
\* gone (a keep-alive answered with TTL <= 0) or its deadline passed.
KAClosed(l) == l \notin live \/ l \in lapsed

\* Remove the key when its lease goes away.
DropRecordOf(l) == record' = IF record = l THEN None ELSE record

\* A goroutine moves to a control point.
Goto(t, lbl) == pc' = [pc EXCEPT ![t] = lbl]

\* The process exits (logger.Fatal or the end of main): every goroutine
\* stops, and with them the client's keep-alive requests.
ExitProcess ==
    /\ pc' = [pc EXCEPT ![Main] = "exited"]
    /\ renewed' = {}

\* A keepAlive loop enters its select: `case <-r.closeCh` and
\* `case res := <-r.keepAliveCh` read the fields now and block on the
\* channels read.
EnterSelect(k) ==
    selCh' = [selCh EXCEPT ![k] = [close |-> closeCh', ka |-> keepAliveCh']]

\* register() returned an error to goroutine t.  In Register the error goes
\* back to service.Start, whose logger.Fatal exits the process; in the
\* keepAlive loop it is logged and the loop selects again.
RegisterFailed(t) ==
    IF t = Main
    THEN ExitProcess /\ UNCHANGED selCh
    ELSE Goto(t, "select") /\ EnterSelect(t) /\ UNCHANGED renewed

\* Mutant: Register forgets `r.closeCh = make(chan struct{})`.
RegisterSucceededNoCloseCh(t) ==
    IF t = Main
    THEN /\ UNCHANGED closeCh
         /\ pc' = [pc EXCEPT ![Main] = "serving", ![regCalls] = "select"]
         /\ EnterSelect(regCalls)
    ELSE /\ UNCHANGED closeCh
         /\ Goto(t, "select") /\ EnterSelect(t)

\* register() returned nil to goroutine t.  Register then makes r.closeCh
\* and starts the keepAlive goroutine of this call.
RegisterSucceeded(t) ==
    IF t = Main
    THEN /\ closeCh' = regCalls
         /\ pc' = [pc EXCEPT ![Main] = "serving", ![regCalls] = "select"]
         /\ EnterSelect(regCalls)
    ELSE /\ UNCHANGED closeCh
         /\ Goto(t, "select") /\ EnterSelect(t)

-----------------------------------------------------------------------------
(* ETCDRegistry.Register, up to the call of register(): validate the     *)
(* host, dial a new client, remember srvInfo.  Called by service.Start    *)
(* and, to ask what a second call does, again while serving.              *)
Register ==
    /\ pc[Main] \in {"start", "serving"}
    /\ regCalls < MaxRegisterCalls
    /\ regCalls' = regCalls + 1
    /\ \/ \* strings.Split(Addr, ":")[0] == "": error, and Start exits
          ExitProcess /\ UNCHANGED <<failures, failing>>
       \/ \* clientv3.New with an empty endpoint list: no available endpoints
          /\ options.endpoints = 0
          /\ ExitProcess /\ UNCHANGED <<failures, failing>>
       \/ /\ options.endpoints > 0 /\ CanFail("dial")
          /\ failures' = failures + 1 /\ UNCHANGED failing
          /\ ExitProcess
       \/ /\ options.endpoints > 0
          /\ Goto(Main, "reg_grant")
          /\ UNCHANGED <<renewed, failures, failing>>
    /\ UNCHANGED <<live, nextLease, record, leasesID, keepAliveCh, closeCh,
                   selCh, sendCh, expiries, lapsed, options>>

\* register(), first call: Grant a lease of srvTTL, under a context that
\* times out after DialTimeout seconds, and store its ID in r.leasesID.
\* A timeout of zero or less has expired before the call: Grant fails.
RegisterGrant(t) ==
    /\ Running /\ pc[t] = "reg_grant"
    /\ UNCHANGED <<record, keepAliveCh, sendCh, regCalls, expiries, lapsed, options>>
    /\ \/ /\ options.dialTimeout <= 0
          /\ UNCHANGED <<live, nextLease, leasesID, closeCh, failures, failing>>
          /\ RegisterFailed(t)
       \/ /\ options.dialTimeout > 0 /\ CanFail("grant")
          /\ failures' = failures + 1 /\ UNCHANGED failing
          /\ UNCHANGED <<live, nextLease, leasesID, closeCh>>
          /\ RegisterFailed(t)
       \/ /\ options.dialTimeout > 0 /\ nextLease <= MaxLeases
          /\ live' = live \cup {nextLease}
          /\ leasesID' = nextLease
          /\ nextLease' = nextLease + 1
          /\ Goto(t, "reg_keepalive")
          /\ UNCHANGED <<failures, failing, renewed, selCh, closeCh>>

\* register(), second call: r.keepAliveCh = cli.KeepAlive(leaseResp.ID),
\* under context.Background().  It returns a channel and no error while
\* the client is open, even for a lease already gone (the channel is then
\* closed by the first answer); the client renews the lease.
RegisterKeepAlive(t) ==
    /\ Running /\ pc[t] = "reg_keepalive"
    /\ keepAliveCh' = leasesID
    /\ renewed' = IF leasesID \in live THEN renewed \cup {leasesID} ELSE renewed
    /\ Goto(t, "reg_put")
    /\ UNCHANGED <<live, nextLease, record, leasesID, closeCh, selCh, sendCh,
                   regCalls, failures, failing, expiries, lapsed, options>>

\* Mutant: Put without clientv3.WithLease, so the key is bound to no lease.
RegisterPutNoLease(t) ==
    /\ Running /\ pc[t] = "reg_put"
    /\ UNCHANGED <<live, nextLease, leasesID, keepAliveCh, sendCh, regCalls,
                   expiries, lapsed, options>>
    /\ \/ /\ CanFail("put")
          /\ failures' = failures + 1 /\ UNCHANGED failing
          /\ UNCHANGED <<record, closeCh>>
          /\ RegisterFailed(t)
       \/ /\ record' = NoLease
          /\ UNCHANGED <<failures, failing, renewed>>
          /\ RegisterSucceeded(t)

\* register(), third call: Put the JSON of srvInfo at BuildRegPath(srvInfo)
\* WithLease(r.leasesID).  The store refuses a lease it no longer holds.
RegisterPut(t) ==
    /\ Running /\ pc[t] = "reg_put"
    /\ UNCHANGED <<live, nextLease, leasesID, keepAliveCh, sendCh, regCalls,
                   expiries, lapsed, options>>
    /\ \/ /\ CanFail("put")
          /\ failures' = failures + 1 /\ UNCHANGED failing
          /\ UNCHANGED <<record, closeCh>>
          /\ RegisterFailed(t)
       \/ /\ leasesID \notin live
          /\ UNCHANGED <<record, failures, failing, closeCh>>
          /\ RegisterFailed(t)
       \/ /\ leasesID \in live
          /\ record' = leasesID
          /\ UNCHANGED <<failures, failing, renewed>>
          /\ RegisterSucceeded(t)

-----------------------------------------------------------------------------
(* The keepAlive goroutine k: one action per case of its select, then the *)
(* two calls of the stop case.                                             *)

\* `case <-r.closeCh`: the rendezvous with Unregister's send.  The send
\* completes, and Unregister returns nil, as soon as the loop receives.
StopReceived(k) ==
    /\ Running /\ pc[k] = "select"
    /\ selCh[k].close # NilChan
    /\ pc[Main] = "unregister" /\ sendCh = selCh[k].close
    /\ pc' = [pc EXCEPT ![k] = "delete", ![Main] = "sleep"]
    /\ UNCHANGED <<live, renewed, nextLease, record, leasesID, keepAliveCh,
                   closeCh, selCh, sendCh, regCalls, failures, failing, expiries, lapsed, options>>

\* Mutant: the channel case tests `res != nil`: it re-registers on every
\* keep-alive answer and ignores the closed channel.
RenewalLostInverted(k) ==
    /\ Running /\ pc[k] = "select"
    /\ selCh[k].ka # NilChan
    /\ UNCHANGED <<live, renewed, nextLease, record, leasesID, keepAliveCh,
                   closeCh, sendCh, regCalls, failures, failing, expiries, lapsed, options>>
    /\ IF KAClosed(selCh[k].ka)
       THEN EnterSelect(k) /\ UNCHANGED pc
       ELSE Goto(k, "reg_grant") /\ UNCHANGED selCh

\* `case res := <-r.keepAliveCh` with res == nil: the client closed the
\* channel (the lease is gone or the client's deadline passed), and a
\* closed channel reads nil at once on every select; register() again.
\* A non-nil response changes nothing and is not an action.
RenewalLost(k) ==
    /\ Running /\ pc[k] = "select"
    /\ selCh[k].ka # NilChan /\ KAClosed(selCh[k].ka)
    /\ Goto(k, "reg_grant")
    /\ UNCHANGED <<live, renewed, nextLease, record, leasesID, keepAliveCh,
                   closeCh, selCh, sendCh, regCalls, failures, failing, expiries, lapsed, options>>

\* Mutant: the ticker case without its `r.keepAliveCh == nil` guard.
TickUnguarded(k) ==
    /\ Running /\ pc[k] = "select"
    /\ UNCHANGED <<live, renewed, nextLease, record, leasesID, keepAliveCh,
                   closeCh, sendCh, regCalls, failures, failing, expiries, lapsed, selCh, options>>
    /\ Goto(k, "reg_grant")

\* Mutant: the ticker case never retries register().
TickNoRetry(k) ==
    /\ Running /\ pc[k] = "select"
    /\ UNCHANGED <<live, renewed, nextLease, record, leasesID, keepAliveCh,
                   closeCh, sendCh, regCalls, failures, failing, expiries, lapsed, pc, options>>
    /\ EnterSelect(k)

\* `case <-ticker.C`: register() again if r.keepAliveCh is nil now, else
\* select again, reading r.closeCh and r.keepAliveCh afresh.
Tick(k) ==
    /\ Running /\ pc[k] = "select"
    /\ UNCHANGED <<live, renewed, nextLease, record, leasesID, keepAliveCh,
                   closeCh, sendCh, regCalls, failures, failing, expiries, lapsed, options>>
    /\ IF keepAliveCh = NilChan
       THEN Goto(k, "reg_grant") /\ UNCHANGED selCh
       ELSE EnterSelect(k) /\ UNCHANGED pc

\* unregister(): Delete the key; an error is only logged.
StopDelete(k) ==
    /\ Running /\ pc[k] = "delete"
    /\ \/ /\ CanFail("delete")
          /\ failures' = failures + 1 /\ UNCHANGED failing
          /\ UNCHANGED record
       \/ /\ record' = None
          /\ UNCHANGED <<failures, failing>>
    /\ Goto(k, "revoke")
    /\ UNCHANGED <<live, renewed, nextLease, leasesID, keepAliveCh, closeCh,
                   selCh, sendCh, regCalls, expiries, lapsed, options>>

\* Mutant: the stop case without its `return`: the loop selects again.
StopRevokeNoReturn(k) ==
    /\ Running /\ pc[k] = "revoke"
    /\ UNCHANGED <<nextLease, leasesID, keepAliveCh, closeCh, sendCh,
                   regCalls, expiries, lapsed, options>>
    /\ \/ /\ CanFail("revoke")
          /\ failures' = failures + 1 /\ UNCHANGED failing
          /\ UNCHANGED <<live, renewed, record>>
       \/ /\ live' = live \ {leasesID}
          /\ renewed' = renewed \ {leasesID}
          /\ DropRecordOf(leasesID)
          /\ UNCHANGED <<failures, failing>>
    /\ Goto(k, "select") /\ EnterSelect(k)

\* Revoke(r.leasesID); an error is only logged; then the loop returns.
StopRevoke(k) ==
    /\ Running /\ pc[k] = "revoke"
    /\ \/ /\ CanFail("revoke")
          /\ failures' = failures + 1 /\ UNCHANGED failing
          /\ UNCHANGED <<live, renewed, record>>
       \/ /\ live' = live \ {leasesID}
          /\ renewed' = renewed \ {leasesID}
          /\ DropRecordOf(leasesID)
          /\ UNCHANGED <<failures, failing>>
    /\ Goto(k, "done")
    /\ UNCHANGED <<nextLease, leasesID, keepAliveCh, closeCh, selCh, sendCh,
                   regCalls, expiries, lapsed, options>>

-----------------------------------------------------------------------------
(* WaitForClose on the main goroutine.                                     *)

\* SIGTERM/SIGINT/SIGQUIT: GracefulStop, then Unregister blocks sending on
\* the r.closeCh it reads.
Signal ==
    /\ pc[Main] = "serving"
    /\ sendCh' = closeCh
    /\ Goto(Main, "unregister")
    /\ UNCHANGED <<live, renewed, nextLease, record, leasesID, keepAliveCh,
                   closeCh, selCh, regCalls, failures, failing, expiries, lapsed, options>>

\* Unregister returned nil: time.Sleep(time.Second), return, and the
\* process exits whatever the keepAlive goroutine is doing.
Exit ==
    /\ pc[Main] = "sleep"
    /\ ExitProcess
    /\ UNCHANGED <<live, nextLease, record, leasesID, keepAliveCh, closeCh,
                   selCh, sendCh, regCalls, failures, failing, expiries, lapsed, options>>

-----------------------------------------------------------------------------
(* The store and the client's lease machinery.  A lease nobody renews   *)
(* expires after its TTL: after the process exits, or once the client     *)
(* gave up on it at its deadline.  Otherwise a lease is lost only by a    *)
(* partition outlasting the TTL.  Expiry deletes the keys bound to it and *)
(* makes the client close its keep-alive channel.  A partition may also   *)
(* leave the client without an answer for a TTL while the lease lives on: *)
(* the client closes the channel at its deadline and stops renewing.      *)
(* Both faults together happen at most MaxExpiries times while running.  *)
Unrenewed(l) == ~Running \/ l \in lapsed

Expire(l) ==
    /\ l \in live
    /\ ~Unrenewed(l) => expiries < MaxExpiries
    /\ live' = live \ {l}
    /\ renewed' = renewed \ {l}
    /\ DropRecordOf(l)
    /\ expiries' = IF Unrenewed(l) THEN expiries ELSE expiries + 1
    /\ UNCHANGED <<nextLease, leasesID, keepAliveCh, closeCh, pc, selCh,
                   sendCh, regCalls, failures, failing, lapsed, options>>

Deadline(l) ==
    /\ Running /\ l \in live \cap renewed
    /\ expiries < MaxExpiries
    /\ renewed' = renewed \ {l}
    /\ lapsed' = lapsed \cup {l}
    /\ expiries' = expiries + 1
    /\ UNCHANGED <<live, nextLease, record, leasesID, keepAliveCh, closeCh, pc,
                   selCh, sendCh, regCalls, failures, failing, options>>

-----------------------------------------------------------------------------
RegisterStep(t) ==
    RegisterGrant(t) \/ RegisterKeepAlive(t) \/ RegisterPut(t)

LoopStep(k) ==
    StopReceived(k) \/ RenewalLost(k) \/ Tick(k) \/ StopDelete(k)
    \/ StopRevoke(k)

Next ==
    \/ Register
    \/ \E t \in Threads : RegisterStep(t)
    \/ \E k \in Loops : LoopStep(k)
    \/ Signal
    \/ Exit
    \/ \E l \in Leases : Expire(l) \/ Deadline(l)

\* Fairness.  Goroutines that can run do (weak fairness); Go's select picks
\* uniformly among ready cases, so a pending stop is eventually taken even
\* though the loop keeps leaving its select (strong fairness); the store
\* expires an unrenewed lease once its TTL has passed (after exit, or
\* after the client gave up on it).  Signals and the
\* second Register call come from outside and get no fairness.
Fairness ==
    /\ \A t \in Threads : WF_vars(RegisterStep(t))
    /\ \A k \in Loops : /\ SF_vars(StopReceived(k))
                        /\ WF_vars(RenewalLost(k) \/ Tick(k))
                        /\ WF_vars(StopDelete(k) \/ StopRevoke(k))
    /\ WF_vars(Exit)
    /\ \A l \in Leases : WF_vars(Unrenewed(l) /\ Expire(l))

Spec == Init /\ [][Next]_vars /\ Fairness

-----------------------------------------------------------------------------
(* GetServices: Get(BuildRegPath(srvInfo)) without WithPrefix, so it sees *)
(* at most this instance's own key; each value decodes to one descriptor. *)
GetServices == {v \in {record} : v # None}

-----------------------------------------------------------------------------
(* Properties                                                              *)

\* Any record in the store is bound to r.leasesID, the lease the stop case
\* revokes, or to a lease this process no longer renews, which expires on
\* its own: register() never grants a new lease (overwriting r.leasesID)
\* while the published record hangs on an older lease the client still
\* keeps alive, which the stop case's Revoke would miss and which would
\* keep the record published as long as the process runs.  Violated if a
\* goroutine re-registers while its lease is healthy.
RecordBoundToCurrentLease ==
    record # None => record = leasesID \/ record \notin renewed

\* Unregister has returned (or the process is gone).
ShutDown == pc[Main] \in {"sleep", "exited"}

\* Once Unregister has returned and the key is gone, no step publishes it
\* again: nothing left running re-registers an instance that is shutting
\* down.
NoResurrection == [][ShutDown /\ record = None => record' = None]_vars

\* Spec section 8, clean teardown: after Unregister() returns, GetServices
\* no longer includes the descriptor.  Unregister returns when the loop
\* receives from r.closeCh, before unregister() and Revoke run.
CleanTeardown == pc[Main] = "sleep" => GetServices = {}

\* Spec section 4.2, keep-alive resilience: while the service is serving,
\* a lost registration is eventually published again by the keepAlive
\* loop, whatever store errors (within the budget) happen on the way.
RegistrationRecovers ==
    (pc[Main] = "serving" /\ record = None)
        ~> (record # None \/ pc[Main] # "serving")

\* RegistrationRecovers in every behaviour whose store never fails a Put:
\* dial, Grant, KeepAlive, Delete and Revoke errors are all recovered
\* from (a failed Put is the one error the loop does not retry after).
RecoversUnlessPutFails == "put" \notin failing => RegistrationRecovers

\* WaitForClose terminates: Unregister's send on r.closeCh is eventually
\* received and the process exits.
ShutdownCompletes == pc[Main] = "unregister" ~> pc[Main] = "exited"

\* After the process exits, the key disappears from the store even when
\* Delete and Revoke failed or never ran: the record is bound to a lease
\* that nobody renews any more.
RecordGoneAfterExit == pc[Main] = "exited" ~> record = None

-----------------------------------------------------------------------------
(* Refinement: the registry implements the lifecycle of spec section 4.2. *)
(* The abstract phase is read off the goroutines' control points; the     *)
(* record is published when the key exists.                              *)

StopInProgress == \E k \in Loops : pc[k] \in {"delete", "revoke"}
StopDone == \E k \in Loops : pc[k] = "done"

PhaseBar ==
    CASE pc[Main] = "start" -> "Unregistered"
      [] pc[Main] \in {"reg_grant", "reg_keepalive", "reg_put"} -> "Registering"
      [] Running /\ StopInProgress -> "Stopping"
      [] ~Running \/ StopDone -> "Unregistered"
      [] record # None -> "Active"
      [] OTHER -> "Degraded"

Lifecycle == INSTANCE RegistrationLifecycle
                 WITH phase <- PhaseBar, published <- (record # None)

\* The lease registry, seen through PhaseBar, only takes the transitions of
\* the spec's lifecycle: it publishes only on completing or recovering a
\* registration, never while registering fails, stopping or stopped.
ImplementsLifecycle == Lifecycle!Spec

=============================================================================
