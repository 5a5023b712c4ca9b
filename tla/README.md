# A TLA+ verification of reaas

The repository deploys one Go service, podinfo (`src/app/podinfo`), to AWS Lambda and
to EC2 (`src/infra`) through GitHub workflows (`src/.github/workflows`). This directory
holds TLA+ models of the service and of its deployment, the TLC runs that check them, and
TLAPS proofs about them.

## Inventory

| Component | State it keeps | Operations | Hard part | Correct when | Module |
|---|---|---|---|---|---|
| Process lifecycle (`cmd/podinfo/main.go`, `pkg/signals`, `ListenAndServe` of `pkg/api/http` and `pkg/api/grpc`) | listeners, `healthy`, `ready`, signal channel, shutdown context | start servers, probes, `/readyz/enable`, `/readyz/disable`, signals, `Graceful` | one context shared by a pause and three drains; races of server goroutines and signals with main | accepted requests are cut off only as promised; the process ends | `Lifecycle`, `GracefulService` |
| Websocket echo (`pkg/api/http/echows.go`) | three goroutines, unbuffered channel `in`, channel `done` | echo a message, send the status every 5 s, write | who closes what, in which order; a writer that dies | nothing is sent on a closed channel; goroutines end | `EchoWs` |
| Config cache (`pkg/fscache`, `configs.go`) | `sync.Map`, the mounted volume behind `..data` | initial read, event loop, reload, reader | the volume switches while it is read | the cache ends up equal to the volume and never goes back | `ConfigCache`, `PublishedView` |
| Backend fan-out (`pkg/api/http/echo.go`) | `result` slice, wait group, the captured `ctx` | one goroutine per backend | the captured `ctx` is assigned by all of them; backends that never answer | every result is in its slot, the reply is sent, no call ends another | `EchoFanOut` |
| Redis cache (`pkg/api/http/cache.go`) | connection pool, keys with expiry | write, read, delete, the version ticker | two commands that are not one; a pool full of dead connections; early returns; clients and the ticker share the names of keys | calls fail only for a reason of their own time; no connection leaks; the version outlasts a missed renewal | `RedisCache`, `KeyService` |
| File store (`store.go`) | files named by hash | write, read | truncate and then write; overlapping uploads; a crash in between | a download is whole unless something disturbed it | `Store` |
| JWT (`token.go` of both APIs) | none, but tokens that live for a minute | generate, validate | expiry cut to seconds, issuer, the status of refusals | a token is accepted for its minute and no longer, by both servers | `Tokens` |
| HTTP middleware and small handlers (`http.go`, `delay.go`, `metrics.go`, `chunked.go`, `status.go`, `version.go`, `logging.go`, `index.go`, ...) | counters | record the status, delay, fail at random, answer | integer edges in `rand.Intn`; a wrapped response writer; the order of middlewares | the recorded status is the sent one, once per request | `HttpReply` |
| Routing (`server.go`, `docs/docs.go`) | none | dispatch | the first match wins; paths shared by several routes | documented operations reach their handlers; label sets are bounded | `Routes` |
| podcli (`cmd/podcli`) | none | check http, tcp, cert, grpc; ws | retry loops copied three times; two goroutines and one `os.Exit` | the exit code stands for all attempts; commands end | `PodcliCheck`, `PodcliWs`, `Podcli` |
| gRPC services (`pkg/api/grpc`) | none | echo, version, info, env, headers, status, delay, panic | only what their server does while it drains | see the lifecycle | `Lifecycle`, `Tokens` (partly) |
| Lambda deployment (`deploy.yml`, `promote-to-prod.yml`, `infra/*/lambda`) | function versions, alias `live` | update code, publish, move alias, health check | concurrent runs; failure after the alias moved | the alias names a healthy version | `LambdaDeploy` |
| Instance boot (`user_data.sh`, hooks in both workflows) | containers by name | user data, ApplicationStart and ValidateService hooks | the agent starts before user data ends, and both use one container name | an instance that passed runs the image of its bundle | `InstanceBoot` |
| EC2 deployment (`deploy.yml`, `promote-to-prod.yml`, `infra/*/ec2`) | launch template, groups, CodeDeploy deployments | new template version, halt, create deployment | template changed before the deployment succeeds | serving instances run one validated image | not modelled |
| Image pipeline (`build.yml`) | ECR images and tags | build, push, sign, SBOM, verify | push precedes signing | what is deployed is the build it came from | not modelled |
| Terraform state, VPC, IAM, KMS, alarms (`infra`) | cloud resources | apply | declarative | - | not modelled |

Helm charts, kustomize overlays, timoni modules, protobuf and swagger output, dashboards
and end-to-end shell tests are configuration or generated; they were read for the values they give
(probes, ports, timeouts) and hold no logic of their own to model.

How the parts interact: Kubernetes, the load balancer and CodeDeploy's validate hook all
read `/healthz`; every request but those without a route passes the middlewares before its handler; the config cache, the Redis
pool and the websocket run inside the process whose lifecycle decides when their goroutines die; the file store outlives the process; podcli
is what probes and test jobs run against it; a workflow hands an image to the Lambda job, or as a bundle to the hooks on an instance,
where user data shares the Docker daemon with them.

## Plan

Modules in the order in which they were written; what composes them is in the last column.

| Order | Module(s) | Models | State | Composed by |
|---|---|---|---|---|
| 1 | `Lifecycle`, `GracefulService` | process life and graceful shutdown; what it promises its clients | checked, proved, refinement proved | `MCLifecycle` |
| 2 | `EchoWs` | one websocket session | checked, proved | `MCHandlers` |
| 3 | `ConfigCache`, `PublishedView` | cache, volume and reader; what the cache promises them | checked, proved, refinement proved | `MCConfigCache` |
| 4 | `LambdaDeploy` | the Lambda jobs of both workflows | checked, proved | `MCDeployments` |
| 5 | `Routes`, `HttpReply` | where a request goes, what it is answered, what is counted | checked, proved | `MCHttp` |
| 6 | `RedisCache`, `KeyService`, `Store`, `Tokens` | the handlers that keep data; what `/cache` promises its clients | checked, safety proved, refinement proved | `MCHttp`, `MCHandlers` |
| 7 | `EchoFanOut` | one request to all backends | checked, safety proved | `MCHandlers` |
| 8 | `PodcliCheck`, `PodcliWs` | the commands of podcli | checked, safety proved | `Podcli` |
| 9 | `InstanceBoot` | user data against hooks | checked, proved | `MCDeployments` |

Every invariant and every action property of the runs that pass is a theorem, the three refinements included; what is
left to TLC is liveness (see [Proofs](#proofs)).

## Modules and how they correspond to the code

**Lifecycle.** `main` is the program counter of the main goroutine: `start_*` are the calls
of `ListenAndServe` (gRPC in `main.go:138-145`, HTTP and HTTPS and the two flags in
`server.go:156-203`), `arm` is `SetupSignalHandler`, `serve` the wait on the stop channel,
`drop_healthy` to `returned` the statements of `Graceful` in their order. `lis` is the state
of each server's listener: its goroutine may open it any time after it was spawned, also
after the shutdown began (`starting`, `late`). `handler`, `sigs` and `stop` are the signal
goroutine, its channel of two and the stop channel. `budget` is what is left of the one context
that the pause and the three drains share; `nap` what is left of the three-second pause.
Requests are accepted and answered at any moment by the environment; a websocket is
*hijacked*, so `Shutdown` does not wait for it. `exit` says how the process ended: `clean`
when main returns, otherwise a failed server, the panic route, or a signal.

**GracefulService.** The abstract promise: patient requests are never lost in an orderly
end, bounded ones only when the closing phase is late, and clients are shut out only while
closing. `KeepsContract` is `Lifecycle` under the mapping at the end of that module.

**EchoWs.** One program counter per goroutine of `echows.go`; a hand-over on the unbuffered
channel `in` is one step of sender and writer together. `holds` is the value the writer has
received, `null` being what a receive from a closed channel yields.

**EchoFanOut.** One program counter per goroutine of `echoHandler`. The assignment of the captured `ctx` (`echo.go:48`) is
a read (`LoadCtx`) and a write (`StoreCtx`), and the `:=` of line 49 a further read (`Derive`), so that goroutines see each other's values in every order.
A context is reduced to whose trace it carries and whose cancel ends it. A backend may answer, fail, or stay silent at
any point; `Expire` is `--http-client-timeout`, `Leave` a client that goes away.

**RedisCache.** A client is a request or the version goroutine; `Get`, `Ping`, `Dial` and `Close` are redigo's pool as
`startCachePool` configures it (`Shortened` is what its `MaxIdle` leaves of the idle list), the rest are single commands, so that two clients interleave between `EXISTS` and
`GET`. Redis (external) may go out of reach (`Stop`) and come back (`Start`) with its keys, when it was only cut off, or without, when it had
stopped; every old connection is dead then, and a command whose reply was lost may have been applied. It may also evict a key. The key clients name is their own or the hostname, under which
the version is kept: both are keys of one Redis. Of each it is known how long it has left (`ttl`, in units of 30 s, `Forever` after a client's `SET`). `Pass` lets 30 s go by however
far the last renewal has come, since `redis.Dial` sets no read timeout (`cache.go:141`). A `--cache-server` that cannot be parsed fails
every dial, as a Redis that is never in reach. `outage` and `missed` are history: whether Redis was out of reach during the call, and
how many renewals in a row failed or came late.

**KeyService.** The abstract promise of `/cache`: a store of one key that requests ask and that answers at one instant, or fails if it was down in
between; a change may have been made as it went down, though its request failed. It may lose the key, and others may set it (the version goroutine, if the key is the hostname). `ServesAtomically` is `RedisCache` under the mapping there: a request is *waiting* from the time it wants a
connection, and the `EXISTS` and the `GET` of a read are one question, whose instant is that of `GET`, or of `EXISTS` when that finds nothing.
A read whose key goes away in between answers 500 where one that never saw it answers 404; both are what a missing key may be answered.

**Store.** An upload truncates the file and writes it block by block at its own offset, as `os.WriteFile` does; a
download reads to the end the file has by then. A write may fail, the process may crash, the file stays.

**Tokens.** The times of issue and of validation are half seconds, the claim whole ones. `HttpHeader` and `GrpcHeader`
are the two ways of reading the header; foreign tokens vary in algorithm, key, issuer and expiry.

**Routes.** The route table in the order of `registerHandlers`; gorilla/mux is external and tries the routes one by one.
`agent` is what `HeadersRegexp` asks of the client's header, if anything.
The `Documented...` sets are the operations of `docs.go` with the handler that carries each annotation.

**HttpReply.** A handler is the set of scripts it can run, a script the sequence of its calls on the response writer; a middleware
maps the scripts of the next handler to its own, and `registerMiddlewares` nests them as the code does. `Effect` is what
net/http (external) and the interceptor of `metrics.go` make of a call. Durations are counted in units of 10^12 ns so
that int64 overflow (`Int64`) is exact for the values considered.

**Podcli, PodcliCheck, PodcliWs.** The loop of each check with its own `continue` and exit branches, any answer at each attempt; the three goroutines of
`ws` with the unbuffered `errChan` (`Report` is the one hand-over) and `os.Exit` in `ReadFails`. `open` counts the connections that the gRPC check dials itself; those
of the HTTP check belong to the pool of `http.DefaultClient`, which keeps them or not as net/http sees fit. `UsageError` is `ws` without an address or with
one that is no URL, `terminal` the raw mode, which lasts from `EnterRawMode` to the end of each `Readline`. Out of the model: signals sent to podcli, and
the error for a frame of unknown type, which the websocket library does not return.

**ConfigCache.** `updateCache` file by file and entry by entry, the event loop, and
`/configs` entry by entry. Kubelet is external: it makes the links of new keys, switches
`..data`, removes the links of dropped keys. The order of these three is an assumption, the one
`fscache.go` relies on when it takes the creation of `..data` for the end of an update.
Contents are the version number that wrote them, so a mixed cache is visible.

**PublishedView.** What the cache promises: a key shows published content or none, later content only, and nothing only if a later version
is without it; when the view settles it is the current version. It knows nothing of directories, links, events or updates that stop half way.
`ShowsThePublished` is `ConfigCache` under the mapping there, where *settled* is a watcher at rest without an event queued and without a failed update.

**LambdaDeploy.** One program counter per job; `alone` and `own` are history variables.
Lambda itself is external: it accepts one update at a time, publishes a version while the
update runs, does not publish the same image twice in a row. The image a job deploys is any
image: how it is looked up in the registry is not modelled. `StepFails` is any failed call
or cancelled job, after any step.

**InstanceBoot.** `boot` is the program counter of user data, in which no failure ends the script, `hook` that of the hook
scripts, in which `set -e` ends it. Both use the container name podinfo. `flow` tells the scripts of deploy.yml, which remove an older container, from
those of promote-to-prod.yml, which do not.

**Composition.** The components in `MCHttp`, `MCHandlers` and `MCDeployments` share no state in the code, so a product
of their state spaces would show nothing that the parts do not. `part` chooses one of them in the
initial state, the others rest; each component's invariants are stated for its part. In `MCHttp` the Redis cache is two
parts: two requests at once on a key of their own while time stands still (`cache`), and one at a time on either key while it passes (`version`). `Podcli` does the same with `command`, which in
the code too is chosen once by the arguments.

## Runs

| Run | Shows |
|---|---|
| `lifecycle` | all configurations of servers and flags: plain requests get the time that the timeout leaves, listeners stay open through the pause and the first HTTP drain has what the pause left, two signals always end the process, the first one does unless an RPC never ends, and the process implements `GracefulService` |
| `lifecycle_probes` (violation) | a probe succeeds again after the shutdown has lowered the flags |
| `lifecycle_timeout` (violation) | the shutdown timeout does not bound the gRPC drain |
| `config_cache` | the cache settles only on the published version, permanent keys are always served, the cache becomes current if no update fails and implements `PublishedView` |
| `config_cache_stale` (violation) | one dangling link leaves the cache stale for good |
| `http` | requests reach the documented handlers under bounded labels; metrics tell the truth but for four named cases and count each request once; which requests panic; `/cache` implements `KeyService`, connections never leak, the version outlasts a missed renewal; downloads are whole unless disturbed; tokens last their minute on both servers |
| `handlers` | sessions: no send on a closed channel, no echo lost or doubled, nulls only at the end, the one way they leak; fan-out: calls are isolated, the reply comes; cache: calls end and the version comes back after outages |
| `podcli` | the exit code of a check stands for all its attempts and that of a session for how it ended, gRPC connections held, frames shown before the close is reported; every command ends but a certificate check of a silent target and a session whose write blocks |
| `deployments` | Lambda jobs end, never move the alias behind their own version, and alone they deploy exactly their image; an instance whose hooks passed runs the healthy image of its bundle, in production only if user data came too late |
| `lambda_wrong_version` (violation) | overlapping jobs deploy each other's images |
| `lambda_no_rollback` (violation) | a failed health check leaves the failed version live |
| `reply_chunked` (violation) | `/chunked` without a wait panics under the default server timeout before it has sent anything |

### Bounds

- `Lifecycle`: one RPC, one plain request on each HTTP server, one websocket; each may be
  accepted again after it was answered. `Timeout` 5 and `Pause` 3 seconds keep the pause shorter than the
  timeout, as the defaults do. The number of signals is counted up to two, since a third finds a process
  that has exited. The proofs are for any requests and timings.
- `EchoWs`: `MaxMessages` 5 exceeds the four places a message can be in at once.
- `EchoFanOut`: two backends, enough for one goroutine to read the variable between the read and the write of another; every subset
  of them has an unusable URL.
- `ConfigCache`: three versions, so that a switch can overtake an update which was itself
  started by a switch; three keys, with one added, one dropped and one permanent.
- `Routes`: every route, every method of the table and HEAD, with and without a browser's header, and a path without a route;
  two request URIs, which differ from their patterns.
- `HttpReply`: two concurrent requests on one process. `SomeConfigs` takes each fault-injecting option alone and random delays together
  with random errors; the delays 4 and 5 s are on both sides of a server timeout of 5 s, the bounds <<2, 2>> are equal. `Waits` are
  1000 s and 9223373000 s, whose nanoseconds overflow int64. `Codes` are the edges of what HTTP can send, an informational one, an
  ordinary one, and a parameter that is no int. The two requests are symmetric (no liveness is checked in this run).
- `RedisCache`: two requests and the version goroutine with `MaxIdle` 2 and one outage for the safety properties, so that a burst exceeds the pool and dead connections
  are left in it; one request on its own key, `MaxIdle` 1 and one outage for liveness. The outage may have begun before the process. A `ttl` of two units is the minute of the version; a key
  loses a whole unit with every tick, also when it was set just before, so it never lives longer in the model than in Redis.
- `Store`: two uploads and a download of a content of two blocks: one upload can truncate what the other has half written.
- `Tokens`: issue at a whole and at a half second, time up to 62 seconds.
- `PodcliCheck`: `--retry` from -1 to 4; `PodcliWs`: two lines and two frames in every order.
- `LambdaDeploy`: three jobs, because two overlap and a third can find the update of a failed
  one still running; one healthy and one unhealthy image; `MaxAttempts` 2 for the 10
  and 15 attempts of the workflows, so that there is a failed probe which is not the last.
  The violations need two jobs.
- `InstanceBoot`: no bounds; the state space is that of one instance.

`CHECK_DEADLOCK FALSE` stands where the system really stops: a process exits, a session or a request is
over, a command or a job has ended. `ConfigCache` never stops and is checked.

### Fairness

- `Lifecycle`: the main goroutine, the signal goroutine and the clock are weakly fair: the Go
  scheduler runs what can run. Clients, signals, servers' goroutines and failures are not fair.
- `EchoWs`: every goroutine is weakly fair. Hand-overs are strongly fair, because senders blocked on a Go channel are served
  first in, first out, and so is the receipt of `done`, which
  stays readable while the competing ticker is ready only every five seconds. The peer is not fair.
- `EchoFanOut`: goroutines run and timers fire; a backend owes neither an answer nor the rest of its body.
- `RedisCache`: a call returns if Redis is in reach, since what waits on a dead connection hears of it from TCP, at the latest through redigo's
  keepalive; time passes, the ticker's goroutine runs, and Redis comes back. Requests need not come.
- `ConfigCache`: the watcher goroutine and kubelet (which completes what it began). Readers are not fair.
- `Podcli`: dials and calls that have a timeout end; the TLS handshake of the certificate check has none and is not fair. The goroutines of
  `ws` run; its user and the server do as they like, and no write to the websocket is fair, as it has no deadline (`ws.go:106`).
- `LambdaDeploy`: the runner executes each job's next step and Lambda finishes its updates.
  Jobs need not start, and nothing makes steps fail.
- `HttpReply`, `Routes`, `Store`, `Tokens`, `InstanceBoot`: none, as they state safety only.

## Proofs

Checked by TLAPS for every value of the constants that the `ASSUME`s allow: `TargetAssumption`,
`HijackedAssumption`, `TimingAssumption` (`Lifecycle`), `MessagesAssumption` (`EchoWs`), `PayloadAssumption` (`ConfigCache`),
`LambdaAssumption` (`LambdaDeploy`), `RetriesAssumption` (`PodcliCheck`), `SessionAssumption` (`Podcli`), `ReplyAssumption` (`HttpReply`),
`CacheAssumption` (`MCHttp`, `MCHandlers`), `FilesAssumption`, `TokensAssumption` (`MCHttp`). They say that bounds are natural numbers, that requests are finitely many,
that the goroutine which sets the version is none of them, that
delay bounds are natural numbers among those that main accepts (`main.go:118`, which would let negative ones through), and that the server timeout is at least a second and below the 1000 s in which `HttpReply` measures waits. The theorems about a composition are about the
specification that TLC explores; `StepsOfParts` and `StepsOfHandlers` show
once that a step of it is a step of each part or leaves it alone. Where a composition has a module as an instance, its facts come in as an instance too
(`CacheFacts` of `RedisCacheProofs`), and `SameCache` and `SamePromise` say that both instances have the same steps.

- `LifecycleProofs`. `DrainCorrect` proves the inductive `DrainInv`: main closes the servers one
  after the other, so what may still be open is read off its program counter. Neither
  `RpcsSafe` nor `PlainRequestsSafe` is inductive alone, because what the exit cuts off depends
  on what the earlier waits left. `ContractKept` is the refinement, step by step: a
  step of the process is a step of `GracefulService` or a stutter. `ListenersOutliveThePause` is an action property:
  `PauseInv` says that during the pause the context has lost exactly what the pause has taken, and
  `OnlyGracefulCloses` that no other step closes a listener of a process that goes on.
- `HandlersProofs`, the session. `ChannelSafe` follows from `CloseChain`: `in` is closed after the closer saw
  `sendHostWs` sign off, which follows `done`, which follows the end of the read loop.
  `EchoesCorrect` counts messages; it needs that the writer holds something exactly while it writes.
  `NullsComeLast` adds that a null was taken from a closed channel, so that the close chain dates it.
- `HandlersProofs`, types. `HandlersTyped` collects those of the session, of the fan-out (from `FanInv`) and of the pool (from `RedisCacheProofs`).
- `HandlersProofs`, the fan-out. `CallsStayIsolated`: the variable that all goroutines assign never carries a
  cancel (`OwnCancels`), since what is stored is a context with one more client trace, and each goroutine's cancel is on the one it derives from it; so whichever
  value a goroutine reads in the race, only its own return or the expiry of its own timeout ends its context.
- `ConfigCacheProofs`. `QuietCorrect` needs `Agreement` (as long as no event waits, each
  stage of an update agrees with the volume as far as it has come) and `LinksCover` (what
  is published is linked, before and during a switch). `PermanentServed` needs
  `PermanentKept`: an update that reaches its prune has read every permanent file.
  `ViewKept` is the refinement. Its invariant `OnlyForward` says what an update under way may do to the cache later: what it has read is never older than
  what is shown, and a key that it will prune was superseded by a version without it, though the directory may have been listed under one version,
  each file read under another, and the prune done under a third. `AgreementHolds` makes a watcher at rest a settled view.
- `HttpReplyProofs`. Which calls a handler still has to make matters for what the interceptor may have missed, so
  the properties are not inductive over the status alone. The first half shows what scripts look like, handler by handler and middleware by
  middleware: all statuses can be sent or the panic is a known one, a hijack comes before any status, and the observation of a measured request is
  its last operation (`Shaped`, `ObservedLast`). The second half is `ExchangeInv`, what is known of one request in each of its states:
  `Settled` (what the rest of its script can still tell the interceptor), `Agrees` (the interceptor's status and the connection's)
  and `Answered`. `Counted` says that each counter is the number of requests measured with that status; `MetricsTellTheTruth`,
  `RequestsCountedOnce` and `PanicsAreKnown` follow.
- `HttpProofs`, the router. Row by row: each of the 32 rows is labelled by the table, serves a documented operation only
  with a documented handler, and every documented operation but one has a row that takes it from any client. `DispatchInv` adds that the
  rows before the current one do not take the request. `DocumentedOperationsReached` and `RouteLabelsBounded` follow, the order of the two rows for `/` included.
- `HttpProofs`, the file store. `DownloadsStayWhole` needs `FileKept`: in a file that no failed upload
  touched, the upload that truncated it last has restored every block behind it, or the file is whole. `ReadSoFar` says that
  an undisturbed download has got every block it has passed.
- `RedisCacheProofs`, safety. `Balance`: opened connections are the idle ones and those in the hands of a client; `ConnStates`
  says in which states of a call that is. `Aware` keeps what a call knows of an outage of its own time, and
  that it holds a live connection otherwise. `InTime` counts: the units left of the version and the renewals missed, the one that is due included, make up its minute. The proof showed the model to be wrong where TLC's run had not: with
  `MaxIdle` of 2 or more, giving back a connection to a short idle list took the `SubSeq` of a sequence beyond its length. The model now has `Shortened`, and the run `MaxIdle` 2.
- `RedisCacheProofs`, the refinement. `CacheServesAtomically` adds `Asked` (an idle request has no answer left, one that asks has a command of its own) to that invariant; `Aware` is what
  justifies a failure: a request not excused by an outage holds a connection that is alive, so its command is applied. Every step
  is one of the service (`HandlerServes`, `CommandServes`, `RedisServes`) or is not seen (`Get`, `Ping`, `Dial`, an `EXISTS` that finds the key, the ticker).
  `CacheAnswersAtomic` (`HttpProofs`) carries it over to the run.
- `HttpProofs`, tokens. `TokensAlwaysLastAMinute` is an action property over `TokenInv`: a token of ours has the expiry, the key and
  the issuer that it was given, whole seconds included. `HttpTyped` collects the types of all six parts.
- `DeploymentProofs`, Lambda. `NeverBack` needs `UpdateInv`: an update in progress belongs to a job
  that waits for it or has failed since, so nobody's own version changes after its wait.
  `AloneCorrect` adds `AloneInv`, over the history variable `alone`: nobody else's update can
  begin while a job runs alone, and one that a failed job left behind ends before its wait does.
- `DeploymentProofs`, instances. `InstancesRunTheBundle` needs `BootInv`: after the hook's `docker run` succeeded the container is
  the bundle's for good (`RanTheBundle`), and the container that user data started on an instance of production stays (`KeptInProduction`).
- `PodcliProofs`. `VerdictMatchesAttempts` says nothing before the end, so
  `CheckInv` says at each program counter what has been done so far: at the head of the loop `n`
  attempts were made, the last of them failed, the delay was slept before all but the second, and
  only gRPC left connections. `NextTurn` keeps it for every failed attempt, `Ending` for every way out.
  `CheckVerdictCorrect` and `ProcessConnectionsCorrect` carry it over to the process, whose
  other command never leaves the start of the check. `SessionVerdictCorrect` is about `ws`: `Phases` relates the three
  goroutines and the terminal, `GivenUp` says why the console has reported (the connection is closed, or all input went out), `InOrder` that what went out is a prefix of what was typed, and what was shown of what arrived.

Only model-checked: liveness under fairness (`TwoSignalsExit`, `ShutdownCompletes`, `SessionEnds`, `FanOutCompletes`, `CacheRecovers`,
`CommandsEnd`, `EventuallyCurrentUnlessFailed`, `JobsEnd`), which is beyond the prover: it has no rule for ENABLED,
so that a fairness condition cannot be used.

## Disagreements with the documentation

Shown by a run:

1. `shutdown.go:40` promises that probes fail from then on; `/readyz/enable` still raises the flag.
2. The shutdown timeout (`main.go:36`, `shutdown.go:67`) does not bound `GracefulStop`.
3. `fscache.go:20-21` promises an update at any change; a failed reload is never retried.
4. `ARCHITECTURE.md:131` and `README.md:23` promise a rollback; the Lambda job performs none.
5. The step "Retrieve Published Version" (`deploy.yml:90`) may retrieve another job's.
6. `chunked.go:14` promises a partial response; without a wait the handler panics first (`chunked.go:29` multiplies two durations).

Met while modelling; the models contain them as the code has them, where they cover that code:

- `docs.go:524` and `token.go:74` document `POST /token/validate`; the route takes GET only (`server.go:120`) and POST gets 405. `DocumentedOperationsReachTheirHandler` excepts it.
- `http_requests_total` is described as "The total number of HTTP requests" (`metrics.go:38`); requests that panic or have no route are not in it.
- Every error reply has the status 200 (`http.go:66-88`), also where `token.go:76` documents 401.
- Over gRPC, a wrong issuer is answered with no error and no message (`grpc/token.go:92`).
- Equal delay bounds pass the check at start-up (`main.go:118`) and make every request panic (`delay.go:40`).
- podcli calls its delay the "wait duration between retries" (`check.go:70`); the first retry follows at once (`check.go:104`).
- podcli takes a gRPC target that answers NOT_SERVING for healthy (`check.go:304`).
- A download during an upload, or after one that failed, gets a partial file with status 202.
- All goroutines of `/echo` assign the same variable without synchronisation (`echo.go:48`).
- `README.md:66` of podinfo says that PanicService answers "1 CANCELLED"; the process exits.
- `ARCHITECTURE.md:121`: the alias routes to a specific version; the alias of a new environment names `$LATEST` (`lambda.tf:52`).
- The pool of Redis connections and the tracer provider are never closed at the end of the process.
- In `start_container.sh` and `start.sh` the value for a missing secret is not reached when the lookup fails, since `set -e` ends the script there.
- The `start.sh` of a promotion does not remove the container that user data starts under the same name: a new instance passes only if the hook wins that race.
- `deploy.yml:5` waits for a workflow called "Build and Push"; `build.yml:1` is called "Build and Push Artifacts".

## Not modelled

- EC2 blue/green deployment: the copy of the group, the switch of traffic, rollback and termination are decided inside CodeDeploy and
  Auto Scaling, of which the repository holds settings only. What the jobs run on an instance is in `InstanceBoot`.
- Image pipeline: each step is one call of a service outside the repository, and no deployment reads a signature. That the image of a deployment
  is the last one pushed under a tag, signed or not (`deploy.yml:57`, `promote-to-prod.yml:91`), is left open by letting jobs deploy any image.
- HTTP/2: the small handlers are modelled on HTTP/1.1. `/status/101` over HTTP/2 (`--secure-port`, `--h2c`) counts 101 where the client gets 200.
- The gRPC services other than Delay, Panic and Token: they compute their answer from their argument in one step.
- How the AWS CLI pages a long list of versions (`deploy.yml:95`).
- Readers of `/configs` may see entries of two versions in one answer (`configs.go:11`); the code promises no snapshot, and `ConfigCache` allows it.
- Terraform (declarative), Helm, kustomize, timoni and generated code (no logic), logging and tracing (no state that
  anything depends on but the shared `ctx` of `/echo`), the stress test of `main.go:218-256` (it takes CPU and memory and changes no other state) and the
  metrics server of `server.go:266-282` (its own listener, which the shutdown never touches).
