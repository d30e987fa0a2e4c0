# TLA+ models of go-titan

This directory holds TLA+ models of the go-titan microservice kit (`src/`).
The models are checked with TLC. Each module is translated from the Go source. The one
exception is `RegistrationLifecycle`, which is the abstract promise of spec
section 4.2 that both registries are shown to implement.

## The system and its parts

| Part | Source | State that matters | Concurrency |
|---|---|---|---|
| etcd registry | `registry/etcd/registry.go`, `registry/options.go` | client, lease id, renewal channel `keepAliveCh`, stop channel `closeCh`, the record in etcd | the caller's thread; one `keepAlive` goroutine per successful `Register` |
| service bootstrap | `service/service.go` | `Start`'s local `err`, shared with the serve goroutine | main goroutine: `Start` → `Register` → `WaitForClose` → `Unregister` → sleep 1 s → exit; one goroutine running grpc `Serve` |
| consul registry | `registry/consul/registry.go` | agent registration, health check, catalog | the caller only; `Fatal` on every error |
| gateway middlewares and chain | `gateway/gateway.go`, `gateway/middlewares/middlewares.go` | the `Use`'d middlewares, the handler `Start` wraps from them, the lists, Casbin policy, the request context | one handler call per request, no shared writes |
| scope rules | `auth/rules.go` | a map of resources | read-only after loading |
| identity manager, verify codes | `auth/identities.go`, `auth/verify_code.go` | rows of the `verify_codes` table | concurrent request handlers |
| gorm repository | `repository/gorm.go` | `limit` and `skip` fields shared by all callers | concurrent request handlers |
| gateway server | `gateway/gateway.go`, `gateway/options.go`, `config/cors.go` | the Options `New` builds, the registered transports and routes, the listener, the requests in flight | main goroutine in `ListenAndServe`; one signal goroutine running `Shutdown`; one handler per request |
| token issuers | `auth/tokens/jwt`, `auth/tokens/paseto` | the Options `New` builds, the clock, the tokens handed out | called from every request handler; no writes after `New` |
| service endpoint | `config/endpoint.go`, `runtime/service.go` | the configured address, what `Listen` binds | none |
| config, logger, broker, health server | `config/...`, `logger/`, `broker/`, `service/health_srv.go` | none relevant | none |

The parts interact in one place that has protocol state: the service registers
itself with a registry at start and unregisters it on a signal. Gateways resolve
the service through the same store. The registry is therefore where the
model checker earns its keep, and it is the core of this project.

## Modules

### `EtcdRegistry` (core)

Threads: `Main` is the service's main goroutine (`Start`, `WaitForClose`).
`Loops = 1..MaxRegisterCalls` are the `keepAlive` goroutines. Loop `k` is started by
the `k`-th successful `Register`.

The variables and the code they stand for:

- `live`, `renewed`: the etcd leases that exist, and those that the client's KeepAlive renews.
- `nextLease`: the next lease id Grant hands out.
- `record`: the lease the published key is attached to, or `None`.
- `leasesID`, `keepAliveCh`, `closeCh`: the struct fields of the same names.
  Channels are named by the lease or call number that created them; `0` is a nil channel.
- `pc`: each thread's position.
- `selCh`: the channel fields a loop read when it entered `select`.
- `sendCh`: the stop channel Main is sending on.
- `regCalls`, `failures`, `expiries`: the bounding counters.
- `lapsed`: leases whose keep-alive channel the client closed at its own
  deadline (no answer for a TTL) and which it no longer renews.
- `options`: `r.options`, folded in `Init` from one option list of
  `RegistryConfigs` (`DefaultOptions`, `ApplyRegistryOption`: the number of
  endpoints and `DialTimeout`). With no endpoints `clientv3.New` fails and
  `Register` returns its error. A `DialTimeout` of zero or less gives
  `register()` a context that expired before `Grant`, so every Grant fails.

Actions, one per step of the code:

- `Register`: validation and dial, then `RegisterGrant`, `RegisterKeepAlive` and `RegisterPut`.
  These are the three store calls of `register()`. Grant and Put may fail and return.
  KeepAlive does not fail: clientv3 fails it only once the client is closed,
  which this code never does, so `keepAliveCh` is never nil after the first
  registration and the ticker's nil guard (`registry.go:176`) never fires.
  They are taken by Main, or by a loop that is re-registering.
- `RegisterSucceeded` and `RegisterFailed` are what the caller does next.
  On success Main makes `closeCh` and starts the goroutine.
  On failure Main exits by `Fatal`. A loop logs the failure and goes back to `select`.
- `Signal` is WaitForClose's signal path, up to the send on `closeCh`.
  `StopReceived` is the rendezvous, which is when Unregister returns.
  Then come `StopDelete` and `StopRevoke`, the goroutine's teardown.
  `Exit` is the end of the one-second sleep.
- `RenewalLost` is the `keepAliveCh` case with a nil result: the channel is
  closed (`KAClosed`) because the lease is gone or the client's deadline passed.
  A closed channel is ready on every `select`, so a failed re-registration is
  retried at once.
  `Tick` is the ticker case.
- `Expire` is the store's lease expiry, and `Deadline` the client closing a
  channel at its deadline while the lease lives on. With the store call
  failures they are the environment's steps. A lease nobody renews
  (`Unrenewed`: after exit, or after its deadline) expires freely; losing a
  renewed lease and a deadline close are partitions and share the
  `MaxExpiries` budget.

The bounds are named constants:

- `MaxLeases`: the lease ids.
- `MaxRegisterCalls`: the Register calls.
- `FailingCalls` and `MaxFailures`: the store calls that may fail, and how
  often. The variable `failing` is the subset that does fail. It is picked
  once at start, so one run covers every choice of failing calls, and a
  property can assume that a given call never fails.
- `MaxExpiries`: the lease expiries while the process runs.
- `RegistryConfigs`: `WithEndPoints(e1)`, the defaults, and two endpoints
  with `DialTimeout(0)`. They give a working client, a failed dial and a
  Grant that always times out.

### `RegistrationLifecycle` (abstract)

The lifecycle of spec section 4.2:
Unregistered → Registering → Active ⇄ Degraded → Stopping → Unregistered.
`published` says whether the record is visible. `EtcdRegistry` maps onto it through
`PhaseBar` and `record # None`, and `ImplementsLifecycle` checks the refinement.

### `ConsulRegistry`

The consul registry together with the service bootstrap that drives it and
the consul agent it talks to.

- `pc` is Main's position: `StartRegister`, `Register`, `RegCheck`, `Signal`, `Unregister`, `Exit`.
  `StartRegister` is `Start` up to the `go` statement: `initGRPCServer` and
  `Listen` may Fatal. `InitOutcomes` names how `initGRPCServer` ends: it
  builds the server, or it Fatals on TLS credentials that do not load or
  when no service was registered (`service.go:149-197`). `Register` and `Unregister` are the agent calls. Each
  one either succeeds or fails, and a failure ends the process through
  `logger.Fatal`.
- `serve` and `err` are the serve goroutine and `Start`'s `err`. `ServeFail`
  is Serve returning an error, stored in `err`; `ServeCheck` re-reads `err`
  and panics if it is non-nil. `Register` stores its nil in the same `err`
  and `RegCheck` re-reads it. So a Serve error can make Main Fatal, or be
  overwritten by Main's nil and lost. `Signal` is the start of
  `GracefulStop`: it closes the listener, so Serve returns nil, and Main
  waits in `"stopping"`. `StopDone` is `GracefulStop` returning once no
  call is in flight; Main then goes to `Unregister` (or to the sleep when
  no registry is set).
- `calls` are the RPCs of clients that found the instance in the catalog
  (`Calls`). A client dials the catalog's address, `LocalIP():GetPort()`,
  as the check does. `Call` is accepted when that reaches a running Serve
  (`Reachable`), and refused once the listener is closed, when the process
  is gone, or when the server listens elsewhere; `Answer` is the handler
  returning. A call still in flight when `pc` reaches `"exited"` is cut
  off. The model reaches calls refused while the catalog still lists the
  instance: `WaitForClose` drains before it deregisters.
- The agent is `registered`, `check` and `criticalFor`.
  - `Probe` is the TCP check. It dials `LocalIP():GetPort()`
    (`consul/registry.go:63`). It can pass only when that reaches the
    listener (`Reachable`: the process runs, Serve has not returned, and
    `Endpoint!Reaches` holds for the configured address). Otherwise it is
    always critical. A reachable server may still fail up to `MaxFlakes`
    probes.
  - `Reap` is `DeregisterCriticalServiceAfter`: a check that has been critical for
    `Window` probe intervals is deregistered.
- `GetServices` records what the catalog held and what the read returned, in `lastRead`.
  The read may fail, and that failure is dropped.
- `PhaseBar` maps the state onto `RegistrationLifecycle`. A deregistered instance
  that still runs is Degraded. `ImplementsLifecycle` checks the refinement.

- `opts` is the `*Options` that `service.New` folds its option list (one of
  `Configs`) into: `DefaultOptions` is `newOptions`, `ApplyServiceOption` one
  `Option` (`Listen`, `TLS`, `Name`, `Registry`, `WithConfig`). `addr` is
  its listen address; `StartRegister` Fatals when `Listen` cannot bind it,
  or when the network is not `tcp`: `WithConfig` copies the config's endpoint
  whole, and nothing calls `SetDefault`, so a config file without a
  `network` key makes `net.Listen("", addr)` fail.
  Without the `Registry` option there is no agent call at all: Start serves
  and WaitForClose goes straight to the sleep.
- `RegisterService` is `MicroService.Register` (`services` counts them, up to
  `MaxServices`). A service with no name is named `svc` with a fresh
  `name-uuid` ID, as `Name()` does. `WithConfig` sets the name and not the
  ID, so a config-named service registers with an empty ID; `Unregister`
  then fails (the agent refuses `ServiceDeregister("")`) and the process
  Fatals.

### `Endpoint`

The service address as a sequence of tokens: `":"` and atoms. An atom is a
run of characters with no colon, e.g. `"lo"` for 127.0.0.1, `"any"` for
0.0.0.0, `"["`, `"]"` and port atoms.

- `GetPort` is `EndPoint.GetPort`. `Split` is `strings.Split` on `":"`, which
  keeps empty runs. The port is the run after the *first* colon, read by
  `Atoi`, which yields 0 when the run is not a number.
- `ListenHost`, `ListenPort` and `Listens` are `net.Listen`'s
  `SplitHostPort`. It cuts at the *last* colon, and a host with a colon must
  be bracketed.
- `Reaches(addr, port)` says that a dial to `LocalIP:port` reaches the
  listener. That needs a wildcard host or the host `LocalIP`.

The default address `127.0.0.1:8080` (`service/options.go:40`) listens, but
the consul check dials `LocalIP():8080`, which never reaches it. That is why
the check has to be left unset for local runs (the TODO at
`consul/registry.go:54`).

### `Tokens`

The two token issuers behind `auth.Tokens`.

- `New` folds the Option functions (`ApplyOption`, `ApplyPasetoOption`)
  over the defaults of `jwt.New` or `paseto.New`.
- A key is a record. A `[]byte` key names its bytes. The variadic key slice
  that `SignWithHS256(key)` and `SignWithPaseto(key)` store is a
  `[slice]`. An RSA key names its pair and its half.
- `GenerateJWT` and `GeneratePaseto` add the access token and the refresh
  token to `issued`. A token records:
  - the algorithm and the key it was signed or encrypted with;
  - its `iat` and `exp`;
  - a ghost `kind`.
- A signing error returns no token. A panic takes no step: a nil signing
  method in jwt, or a wrapped key in paseto.
- PASETO's Generate also stamps the caller's `principal`.
- `InspectJWT` is `ParseWithClaims`: the method check of the key function,
  signature verification with the public key, and `StandardClaims.Valid`
  (`ClaimsValid`: `exp` and `iat`, when they are set).
- `InspectPaseto` is `Decrypt` with the symmetric key, and nothing more.
- `Authenticate` is a request that reaches `onAuth` (service) or
  `TokenInspector` (gateway). `BearerToken` is `authHeader` and
  `AuthFromMD`: it takes the credential after a bearer scheme in any case.
  The user `Inspect` returns goes into the context. A failed Inspect leaves
  the request anonymous. The last request is kept in `seen`.
- `Tick` advances `now` up to `MaxNow`.

### `GatewayMiddlewares`

One request through the gateway. `Use` appends the middlewares of a stack
(one of `Stacks`) to `used`. `Start` builds `handler` with `WrapFrom`, which
wraps `used` from the last element to the first as `Start`'s loop does, so
the first `Use`'d middleware runs first. Then each middleware is an action
on the request at `pos`:

- `Allows` and `Blocks`: the IP whitelist and blacklist, by `contains`
  (`SearchStrings` is the recursive binary search of `sort.SearchStrings`).
- `AllowClients`: the ignored path, the JSON body's `client_id` (400 on a
  bad body, a panic on a non-string id), then the client whitelist.
- `TokenInspector`: a valid bearer token puts the user in the context.
- `RolesInspector`: the Casbin enforcer (`enforceErr` is its error) for
  "members" or "anonymous", then for the user name.
- `ScopeInspector`: `VerifyRequest` of `ScopeRules`, taken in through
  `INSTANCE`, so it may answer by map order.
- `Backend`: the request reaches the grpc-gateway mux.

Lists in `Confs` are the lists the program may pass, in any order and
without repeats: nothing sorts them before `sort.SearchStrings`. `Allows`
and `Blocks` look up `RemoteAddr(req.addr)`, the `"IP:port"` string that
net/http puts in `req.RemoteAddr`, which no list of IPs holds.

### `GatewayServer`

The gateway process from `New` to exit.

- `New` folds `ApplyOption` over `DefaultOptions` (`newOptions`).
  - `WithConfig` copies the config's endpoint, CORS pointer and transport
    list. A config without an endpoint section panics. One without a `cors`
    section leaves the CORS pointer nil.
  - `AllowOrigins`, `AllowMethods` and `AllowHeaders` write through that
    pointer, so they panic after such a `WithConfig`.
- `Transport` and `Handle` are the builder calls `main` makes before `Start`.
- `StartSetup` is `Start` up to the `go` statement.
  - It Fatals when transports are registered and no endpoint is configured.
  - Every name with register functions is dialled at `DialEndpoint(n)`: the
    first transport, unless another carries the name. A name no endpoint
    carries falls back to the first, which `dialled` records.
  - TLS client credentials that do not load (`DialOutcomes`,
    `buildDialOptions` and `loadTLSCredentials`) or a failing route Fatal.
    The generated register functions dial without blocking, so they fail
    only as their dial options do.
  - A nil CORS panics in `Allows`.
  - Otherwise `signal.Notify` is called, and the signal goroutine exists
    (`sig = "ready"`).
- `SignalWait` is the goroutine reaching `<-stop`.
- `Signal` is one SIGTERM or SIGINT.
  - Before `Notify`, and after the goroutine's deferred `signal.Stop`, it
    kills the process.
  - In between, Notify's send on the unbuffered channel is taken only while
    the goroutine waits. The goroutine then calls `Shutdown`, which closes
    the listener (`closed`).
  - Otherwise the signal is dropped.
- `Listen` is `ListenAndServe` (TLS when configured). It serves, or fails and
  Fatals.
- `Accept` and `Answer` are the network's requests and their handlers.
- `ShutdownDone` is `Shutdown` returning once no request is in flight.
- `StartReturns` is `ListenAndServe` returning `ErrServerClosed` once the
  listener is closed, then `Start` and `main` returning. `CutOff` marks the
  requests still in flight as cut off by the process ending.

### `VerifyCodes`

`GenVerifyCode` and `GetVerifyCode` of several concurrent `Requests` over
the one `verify_codes` row of a client and mobile. `NewVerifyCode` draws a
code that expires `Expires` ticks from now. Each gorm call is an operator
with the semantics the code gets from gorm (`repository/gorm.go`):
`ExistsResult` is `First`, which errors on a missing row; `Updated` leaves
a missing row missing; `DeleteOutcomes` is `Delete(c, cond, args)`, which
passes the condition as primary keys and so deletes nothing or is refused;
`GetResult` is `First` again, whose error `GetVerifyCode` turns into `""`.
Every handler step is one store call, so calls of different requests
interleave between them. `Tick` advances the clock up to `MaxTime`.

### `ScopeRules`

`ScopeInspector` calls `VerifyRequest`, which calls `IsPatternMatch` and `Verify`.

- URIs and patterns are sequences over a two-letter alphabet, plus `*`.
- `VerifyRequest` is the set of answers it can give, one for each resource that
  a Go map range can visit first.
- `Init` chooses any resource map, URI and user. When `Disjoint` is set, it keeps
  only maps in which no URI matches two resources under the meaning a reader
  gives the patterns (`MeantMatch`).
- `Inspect(k)` handles the same request on call `k`.
- `MeantMatch` is not code: it is the reading of a pattern that
  `Overlapping` and `GatewayMiddlewares`' `Admits` state properties with.

### `ServiceKeys`

`BuildPrefix` and `BuildRegPath` are operators over character sequences. Several
instances `Register` (Put), `Unregister` (Delete) and `GetServices` (Get) against
one keyspace. Leases are left to `EtcdRegistry`.

### `GormPaging`

The `limit` and `skip` fields of the one `gormRepos` that all handlers share.
Each handler makes one paged call: `Begin`, `SetLimit`, `SetSkip`, `Find`,
`Reset` (All only), `Count`. Each field access is its own step, because the
fields are plain ints with no lock. `Overlap` lets calls of different handlers
interleave, and `UseQuery` lets callers use Query as well as All.

A login is a third kind of caller. `idManager.Valid` looks the identity up
with `Get`, which is an unpaged `Query`, and then `Compare`s the password.
The identity exists and the password is right. Whether the one matching row
is in the page depends on the skip the Find ran with (`RowInPage`). Find
reports no error for an empty page, so `Get` returns a zero Identity, and
bcrypt refuses its empty secret.

## Runs

| Run | Expect | What it shows |
|---|---|---|
| `registry_etcd` | pass | The set of store calls that fail is picked at start, any subset of them, within 3 failures and 3 partitions (a renewed lease lost, or a keep-alive channel closed at the client's deadline). A published record hangs on the current lease or on one the client no longer renews, never on an older lease still kept alive that the stop case's Revoke would miss (`RecordBoundToCurrentLease`). Once shutdown has removed the record, nothing republishes it (`NoResurrection`). The registry refines `RegistrationLifecycle`. When Put is not among the failing calls, a lost registration is republished (`RecoversUnlessPutFails`). A signal always leads to exit (`ShutdownCompletes`), and the record is gone after exit (`RecordGoneAfterExit`). |
| `registry_put_failure` | violation | The same model without the assumption: `RegistrationRecovers` in every behaviour, Put failures included. A failed re-registration Put is never retried: the finding at `registry.go:145`. |
| `registry_teardown` | violation | `CleanTeardown`: when Unregister has returned and Main sleeps, the record is still published. Unregister returns at the handoff (`registry.go:76`). |
| `gateway_chain` | violation | `ChainDecides`: for two stacks, every list (in any order), policy and request, does the request reach the backend exactly when every middleware of the stack admits it by its comment? It does not: `Allows` looks up `"IP:port"` in a list of IPs and refuses a whitelisted client (`middlewares.go:115`). |
| `codes_fresh_mobile` | violation | `FreshMobileGetsCode`: GenVerifyCode for a mobile with no row returns an error, because `Exists` reports the missing row as an error. |
| `consul_lifecycle` | pass | The registry with its agent refines `RegistrationLifecycle`, through the serve goroutine's race on `err`, client calls, GracefulStop and the agent's reaping. A registered instance's port, as `GetPort` reads it, is the port it listens on (`RegisteredPortIsListenPort`). |
| `consul_discovery` | violation | `DiscoveryFaithful`: GetServices returns an instance whose check is critical, and a failed read looks like an empty catalog. |
| `rules_overlap` | violation | With overlapping resources, the answer depends on the order of the map range. |
| `keys_discovery` | violation | `DiscoversAllInstances`: etcd GetServices reads its own exact key, so it never returns another instance of the service. |
| `tokens_expiry` | violation | `InspectRejectsExpired`: PASETO's Inspect accepts an access token after its expiry. With the jwt set-ups on the same clock the property holds. |
| `gateway_shutdown` | violation | `NoRequestCut`: a signal starts `Shutdown`, `ListenAndServe` returns at once, and `Start` returns (the process exits) while an accepted request is still in flight. |
| `paging_concurrent` | violation | `ValidAcceptsUser`: a login of an existing user with the right password is answered `ErrWrongPassword`. Another handler's Skip, set concurrently or left behind by a paged Query, offsets Get's lookup past the row. |

Every property of a passing run has a mutant in `PROJECT.json`: a plausible bug
in the mapped code that makes the property fail under the run's own cfg.
For example:

- `TickUnguarded` retries without the nil-channel guard;
- `RenewalLostInverted` tests `res != nil` in the channel case;
- `StopRevokeNoReturn` forgets the `return` after Revoke;
- `RegisterPutNoLease` drops `WithLease`;
- `RegisterNotRecorded` returns from the agent call before the catalog holds the service;
- `GetPortFirstRun` reads the port before the first colon.

### Bounds

- **Registry runs.** They use one Register call. That is the only number the
  service path makes, because `Start` calls Register once. `MaxLeases = 8` covers
  every Grant that the bounded failures and expiries can cause, and an `ASSUME`
  states the bound. Three failures and three partitions are enough to reach each of these:
  - a failure in every stage of a re-registration after an expiry;
  - an expiry during teardown;
  - a Put refused on an expired lease;
  - a channel closed at the deadline followed by a re-registration while
    the old lease still lives (141,008 states).
- **Gateway.** Two stacks: all five kinds except `blocks` in their usual
  order, and `blocks`, `token`, `scope`. Lists of up to 2 of the values
  `{1, 2}`, every Casbin policy over the three subjects, and every request
  (address, client, body, token, scopes, and each of the 7 URIs of up to
  two characters). That covers every branch of each middleware, an empty
  and a full list, and URIs under the resource, at its boundary and outside
  it. Lists in any order reach the unsorted-list case of `contains`.
- **Verify codes.** Three requests, two codes, an expiry of 2 and a clock
  up to 3: two writers and a reader can interleave, and a row can expire.
- **Consul.** `Window = 2` separates a single critical probe from a reaped
  check. `MaxFlakes = 3` lets a reachable check fail, pass and fail again.
  `Configs` holds ten option lists. Six are `Registry` with `Listen` at:
  - the default `127.0.0.1:8080`;
  - `:8080`, `0.0.0.0:8080` and `[::]:8080`;
  - `LocalIP:8080`;
  - an address with no port.
  Together they give the check a reachable and an unreachable listener, a
  port `GetPort` misreads (0 for `[::]`), and a failed `Listen`. The other
  four are the empty list (no registry), a `WithConfig` with a config name
  (the empty ID), a `WithConfig` whose config has no network (the Listen
  Fatal), and `TLS` with `Name` (the credential Fatal).
  `MaxServices = 1` separates "no service registered" from one.
  Two `Calls` let one call be in flight at the signal while another is
  refused after it (69,530 states).
- **Tokens.** Five `New` set-ups:
  - the two tests' set-ups;
  - RSA keys from files;
  - a key handed to `SignWithHS256`;
  - PASETO with lifetimes of 1 and 2.

  One user, a forged HS256 token, and a clock up to 4. That runs past every
  access expiry and the jwt refresh expiry (defaults scaled to 2 and 3).
- **Scope rules.** Two resources, and URIs and patterns of length up to 2 over
  `{a, b}`. That includes a wildcard at every position, an exact pattern and
  two patterns that share a URI.
- **Keys.** Two instances, with one-character fields.
- **Gateway server.** Five option lists: a config with and without `cors`,
  `Trans` with `TLS`, no options, and a cors-less config followed by
  `AllowOrigins`. Two server names with up to one register function, one
  route, two requests and two signals. A second signal reaches both the
  dropped send and the kill after `signal.Stop`.
- **Paging.** Three handlers with pages `{1, 2}`. That is enough for one
  handler to overwrite, and another to reset, a third's paging.

### Fairness

- **EtcdRegistry.** Each thread's steps are weakly fair: a runnable goroutine
  is eventually scheduled.
- **EtcdRegistry, `StopReceived`.** This step is strongly fair. Go's `select`
  picks uniformly among ready cases, so a case that stays ready again and again
  is eventually taken. The ticker can make the stop case ready only
  intermittently from the model's point of view.
- **EtcdRegistry, lease expiry.** Expiry of a renewed lease is not fair,
  because renewals may go on forever. A lease nobody renews (after exit, or
  after the client's deadline closed its channel) expires weakly fairly:
  etcd expires it after its TTL. The client's deadline close is a fault and
  gets no fairness.
- **ConsulRegistry.** `consul_lifecycle` checks safety only (`Spec`, no
  fairness). A liveness property that a signal ends the process would
  need every handler to return, which `GracefulStop` (no deadline) does
  not guarantee (see the hazards below).
- **The other modules.** Their runs check safety only and assume no fairness.
  `gateway_shutdown` checks an invariant, and the process really stops
  (exit, Fatal, panic or kill), so it does not check for deadlock.

## Findings

1. **Unregister returns before the record is deleted** (`registry.go:76`).
   The spec says the record is gone when Unregister returns. The code only
   hands off to the goroutine, and the process exits a second later however
   far Delete and Revoke have got.
2. **A failed Put during re-registration is never retried** (`registry.go:145`, guard at `:176`).
3. **IP lists never match, and lists are searched unsorted**
   (`middlewares.go:115`, `:129`, `:209`). `Allows` and `Blocks` look up
   `req.RemoteAddr`, which net/http sets to `"IP:port"`, in a list of IPs:
   a whitelist refuses every request with 401 and a blacklist blocks none.
   `gateway_chain` finds the whitelist case. `contains` also binary-searches
   the list in the order it was given, so a client list out of order can
   refuse a listed client.
4. **Consul discovery returns unhealthy instances and hides errors** (`consul/registry.go:88`).
5. **Scope decisions depend on map order** (`rules.go:68`).
   The resources of the rules test overlap in exactly this way.
6. **etcd discovery reads one exact key** (`etcd/registry.go:109`). It has no prefix read.
7. **Paging fields are shared by all callers** (`gorm.go:22`). Query also
   never resets them (`gorm.go:77`). Logins go through the same fields
   (`identities.go:97`), so a caller's paging can refuse an existing user.
8. **A first verify code can never be issued** (`identities.go:41`).
   `Exists` errors on a missing row, and GenVerifyCode returns that error.
9. **PASETO tokens never expire** (`paseto.go:72`). Inspect only decrypts.
   With `paseto.New()` and no options, ExpiresIn is 0, so every access token
   has already expired when it is issued, and it is still accepted.

10. **The gateway exits before Shutdown drains** (`gateway.go:186`).
    `ListenAndServe` returns `ErrServerClosed` as soon as `Shutdown` closes
    the listener. `Start` then returns and `main` ends the process, cutting
    off the requests `Shutdown` was waiting for.

Hazards the model reaches but no run turns into a finding:

- The gateway's signal channel is unbuffered (`gateway.go:156`).
  `GatewayServer` drops a signal that arrives while the goroutine is not in
  `<-stop`, so that signal does not stop the gateway. Stating this as a
  liveness property would need a run of its own.

- `WithConfig` names a service without giving it an ID
  (`service/options.go:120`), so `consul` Unregister sends an empty ID and
  always fails (`consul/registry.go:79`): every graceful stop of a
  config-named service ends in Fatal and leaves the instance to the check's
  reaping. `consul_lifecycle` reaches this path; stating that Unregister
  succeeds would need a violation run of its own.

- The gateway dials a server name that no endpoint carries at the first
  transport (`gateway.go:108`), so its routes reach another service.
  `GatewayServer` records this in `dialled`, and `gateway_shutdown`'s state
  space reaches it. No run states it as a property.

- `registry.DefaultOptions` has no endpoints, and `DialTimeout(0)` makes
  every `Grant` time out (`etcd/registry.go:129`). Either one makes `Start`
  Fatal at the first Register. `registry_etcd` reaches both exits.

- `WaitForClose` calls `GracefulStop` with no deadline (`service.go:82`).
  One handler that never returns keeps the process alive and registered
  after SIGTERM. `ConsulRegistry` models the wait (`StopDone`) and handlers
  that need not return; stating that a signal ends the process would need a
  violation run of its own. Calls are drained before Unregister, so clients
  that resolve the instance in between are refused.

- `Start`'s `err` is shared with the serve goroutine without a lock
  (`service.go:129`, `:137`). A Serve error can be overwritten by
  Register's nil and lost. `consul_lifecycle` reaches a process that runs
  registered with no server; with consul the agent's TCP check then reaps
  the instance, and with etcd nothing probes the port.

- clientv3 closes a keep-alive channel at its own deadline while the lease
  may live on (`etcd/registry.go:169`). The loop re-registers under a new
  lease while the record still hangs on the old one, which the client no
  longer renews. `RecordBoundToCurrentLease` shows the record is never left
  on a lease that is still renewed, so it expires on its own.

- A config file without a `network` key makes `Start` Fatal
  (`service/options.go:123`, `runtime/service.go:27`): `WithConfig` copies
  the endpoint whole and nothing calls `SetDefault`.
- `AllowClients` panics on a `client_id` that is not a string (`middlewares.go:61`).
- The refresh token has the claims and key of the access token, so Inspect
  accepts it as a bearer credential (`jwt.go:54`). The PASETO test expects
  this, so no property forbids it.
- A random default key is drawn at every start (`paseto.go:25`). A restart or
  a second instance rejects every earlier token.
- `SignWithHS256(key)` and `SignWithPaseto(key)` store the variadic slice, not
  the key. jwt's Generate then always errors, and paseto's panics. The model
  keeps this; no run states a property about it.

## What is not modelled, and why

- Marshalling and logging. The record is one value, which is all the
  properties tell apart.
- The successful renewal responses on `keepAliveCh`. They change no state.
- The ticker's period. Time is abstracted to the order of events.
- A second Register on one etcd registry. The service path never makes one.
- The rest of the identity manager (`Add`, `Bind`, lookups). Each
  is a single repository call with no interleaving of its own.
- `buildDialOptions`' interceptor list and `ServiceConnector`
  (`client.go`). They build values with no state of their own.
- The serve goroutine in `EtcdRegistry`. The race on `err` is modelled
  once, with the consul registry, where its effect is bounded.
- The cryptography of the token issuers. A token is reduced to the key that
  made it and its claims. Restarts of the issuing process are not modelled.
- The connection constructors of `repository/conns.go` and the DSN of
  `repository/options.go`. Each builds a connection string and opens one
  driver, with no state of its own. One slip is worth noting:
  `WithSQLite("")` computes the default `"data.db"` but opens the empty
  name (`conns.go:88`), which SQLite takes as a temporary database.
- Configuration parsing, the logger, the broker interface, the health server,
  and the gateway's gRPC-gateway mux wiring. They have no concurrent state, or
  they are outside TLC's reach.

## Plan for the following sittings

1. The serve goroutine and the race on `err` in `EtcdRegistry`, with a run
   showing the record stays published while no server runs.
2. Service shutdown ordering (GracefulStop before Unregister), with clients that resolve through the registry.
3. Issuer restarts and several instances sharing tokens.
4. The rest of the login path: the token `Generate` after `Valid`, composed with `Tokens`.
