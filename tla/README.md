# TLA+ verification of MeshVPN

MeshVPN is a self-hosted platform: users ask a control plane to deploy a
repository, worker machines build and run it, an edge router sends the traffic
to the right worker, and a forwarder on each worker reports that traffic back.
This directory holds TLA+ models of the parts where the order of events decides
whether the system is right, the TLC configurations that check them, and TLAPS
proofs of their most important properties. Paths below are relative to `src/`.

Run a check with `tlc -config <cfg> <module>` and a proof with `tlapm <module>.tla`
in this directory.

## 1. The system

| Part | Source | State | Operations |
|---|---|---|---|
| Deploy API | `control-plane/internal/service/deployments.go`, `httpapi/handlers.go` | the request being handled | `Deploy`, `EnqueueDeploy`: check, choose a subdomain, store the row, then the job |
| Job queue | `control-plane/internal/store/jobs.go` | table `deployment_jobs` or a list in memory: status, assigned worker, age | `Enqueue`, `GetNextUnassignedJob`, `AssignToWorker`, `ReleaseFromWorker`, `ClaimForWorker`, `ClaimNext`, `MarkDone`, `MarkFailed` |
| Worker registry | `control-plane/internal/store/workers.go` | table `workers`: status, current_jobs, last heartbeat | `Register`, `UpdateHeartbeat`, `Update`, `IncrementJobCount`, `DecrementJobCount`, `MarkOffline` |
| Deployment store | `control-plane/internal/store/postgres_deployments.go`, `repository.go` | table `deployments` or a map in memory: status, owner_worker_id, subdomain, build log | `Start`, `Update` (errors are logged only), `Get`, `List` |
| Job distributor | `control-plane/internal/service/distributor.go` | one goroutine's locals, `lastShiftByDeploy` | per tick: health scan, failover, rebalance, one assignment |
| Placement | the same file | none | `selectWorker`, the scores, `workerScoreForRebalance` |
| Worker API | `control-plane/internal/httpapi/workers.go` | requests being handled | `Register`, `Heartbeat`, `ClaimJob`, `JobComplete`, `JobFailed` |
| Worker agent | `worker-agent/internal/agent/agent.go` | current job, heartbeat loop | register once; poll, execute, report once |
| Executor of the agent | `worker-agent/internal/executor/executor.go` | none of its own | clone, build, push, namespace, apply, rollout, with retries of kubectl |
| Embedded worker | `control-plane/internal/service/worker.go` | current job, live build log | claim, deploy, live logs, settle, give the slot back |
| Runtime drivers | `control-plane/internal/runtime` | none of their own; the platform keeps workloads and routes | docker run, or namespace, apply, rollout, autoscaler |
| Autoscaling policy | `service/autoscaling_policy.go`, `domain/package.go` | none | normalise replica bounds |
| Mesh router | `tools/mesh-router/main.go` | route cache with a TTL | look up a worker, keep it, proxy the request |
| Traffic forwarder | `tools/traffic-forwarder/main.go` | log position, bounded queue, batch, counters | read, enqueue or drop, flush, one retry |
| Telemetry ingestion | `control-plane/internal/httpapi/handlers_telemetry.go`, `store/postgres_analytics.go` | resolve cache, table `deployment_requests` | resolve each identifier, one insert per batch |
| Analytics collector | `control-plane/internal/analytics/collector.go` | table `deployment_metrics`, place in a round | a round over the running deployments, clean-up |
| Deployment details | `service/deployment_details.go`, `analytics/kubernetes_client.go` | cache of pods and resources | three goroutines per request |
| Streams | `httpapi/handlers.go`, `httpapi/analytics.go` | position in a log | `StreamBuildLogs`, `StreamAppLogs`, `GetAppLogs` |
| Auth, users, schema, metrics, scripts | `auth`, `store/migrations_runner.go`, `telemetry`, `scripts` | users, applied versions | not modelled (section 7) |

**Interactions.** The control plane's goroutines (distributor, embedded worker,
one per HTTP request) and the agents share nothing but the tables. Almost no
statement is part of a transaction and almost none is conditional on what was
read before, so every pair of statements of different actors can interleave.
Agents reach the tables by HTTP requests that may be lost, time out or be
answered late. Workers change platforms (a Docker daemon, a cluster) through
commands that fail half way and are tried again, and nothing ever removes what
they made. The router and the forwarder use the database and the API from
outside; the collector and the pages read what all of these write.

**What is hard.** A deployment is moved from a list read earlier; rows are read,
changed and written back whole; a re-queue and a deploy request are two
statements with a failure between them; a slot count is kept by three writers;
a worker may be declared dead while it works; a report may be handled after its
sender gave up; a name is checked on a list and stored later; a command whose
answer was lost may have worked; a cache may be filled with what was true
before, or renewed from itself; a batch may be inserted and sent again; a row's
numbers are counted one after the other; a stream's offset outlives the log it
points into. `PROJECT.json` lists these hazards at their lines with the
properties that cover them.

**What makes each part right.**
- queue, agents, embedded worker: at most one party executes a deployment or may
  settle its row (`SingleCustody`), a finished job stays finished
  (`SettledJobsStay`);
- distributor: the lists it works through stay true (`ListsStayTrue`), a dead
  worker's deployments leave it (`FailsOver`);
- slots of the embedded worker: exact until a failure, and then each failure
  costs one at most (`LocalSlotsAccounted`);
- the whole: every accepted deployment settles (`EventuallySettled`), and each
  one goes through the lifecycle and no other way (`LifecycleHolds`);
- subdomains: two live deployments share a name (`NamesShared`), or two
  workloads a route (`RoutesShared`), only for the reasons listed there;
- runtime: what the row calls running is served under its name (`OwnerServes`)
  and autoscaled (`RunningIsScaled`), an agent's job fails for what the API server
  refuses or does not answer three times, never for what its own retries made
  (`RetriesSuffice`), every build ends (`EventuallyBuilt`);
- router: no request goes to a worker long gone (`RoutesRecent`), routes follow
  the deployment (`RoutesConverge`);
- forwarder: every payload is accounted for (`Accounted`), duplicates are bounded
  (`AtMostTwice`), nothing lingers (`Drains`);
- telemetry and collector: requests are counted for whom they were meant
  (`AnswersRecent`), windows are nested (`WindowsNested`), metrics follow what the
  table still has (`MetricsConverge`), old rows go (`OldRequestsGo`);
- pages: a build log arrives in order and whole (`BuildLogSpliced`, `StreamsEnd`),
  so does an application's (`AppLogFollows`, `AppLogArrives`), and pods are shown
  as they recently were (`PodsRecent`).

## 2. The modules

Five groups, each with its own state. Arrows of EXTENDS go from bottom to top in
each group; proofs extend properties.

| Module | Models | Notes |
|---|---|---|
| **Control plane in multi-worker mode** | | |
| `Domain` | ids, statuses, records of the domain package | constants with their assumptions |
| `JobStore`, `WorkerStore`, `DeploymentStore` | the tables | one operator per SQL statement: its WHERE is the guard or a no-op, its SET the primed variable |
| `Placement` | selection and rebalance scores | pure operators on the workers table |
| `Distributor` | the goroutine of `JobDistributor` | `dist.pc` is the next statement, the rest of `dist` its local variables |
| `WorkerAgents` | agents and the handlers they call | a handler is one step per statement and outlives its caller |
| `LocalWorker` | the embedded `DeploymentWorker` | settles the row before it marks the job |
| `ControlPlane` | the composition, failures, restart, fairness | EXTENDS the three above and adds the deploy API |
| `Lifecycle` | abstract specification: what a user sees of a deployment | no queue, tables or messages |
| `ControlPlaneProperties` | the properties and the refinement mapping | `Life == INSTANCE Lifecycle WITH ...` |
| `ControlPlaneProofs` | proofs: who may do what | its invariant `IInv` is the base of the next two |
| `JobProofs` | proofs: finished jobs, slots | |
| `LifecycleProofs` | proof of the refinement | |
| **Hosting: from a request to a served subdomain** | | |
| `AutoscalingPolicy` | what Deploy, `Normalize` and the autoscaler do to replica bounds | pure operators |
| `Subdomains` | the deploy API, `GenerateSubdomain`, rows and queue in Postgres or memory | a request is three steps |
| `Runtime` | docker and Kubernetes drivers, the agents' executor, platforms | one step per command, with what it leaves behind |
| `Hosting` | the composition: `processNext` in both modes, moves, restarts | |
| `HostingProperties`, `HostingProofs` | properties, proofs | |
| **Mesh router** | | |
| `MeshRouter` | the route cache and concurrent lookups | over `Lifecycle` |
| `MeshRouterProofs` | proofs | |
| **Telemetry and analytics** | | |
| `TelemetrySender` | log reader, queue, batches, retry, batch handler | |
| `TelemetrySenderProofs` | proofs | |
| `ResolveCache` | `resolveTelemetryDeploymentID` and its cache, handlers of single posts and batches | lookup, answer and insertion are steps of their own |
| `Collector` | `deployment_requests`, `deployment_metrics`, a round | one step per statement |
| `Analytics` | the composition, the clock, restarts | |
| `AnalyticsProperties`, `AnalyticsProofs` | properties, proofs | |
| **Pages** | | |
| `BuildLogs` | live log, final log, `StreamBuildLogs` | |
| `AppLogs` | a container's output, `StreamAppLogs`, `GetAppLogs`, a client of both | |
| `PodMetrics` | `GetDeploymentDetails` and the pod cache | |
| `Pages` | the three, one per behaviour | |
| `PagesProperties`, `PagesProofs` | properties, proofs | |

`MCControlPlane`, `MCHosting`, `MCAnalytics` and `MCPages` hold the constants of
the TLC instances that a cfg cannot write down; the router and the forwarder need
none.

Definitions named "Mutant" in a comment are plausible bugs of the definition
below them. They are part of no specification: putting one in its place makes
a run fail, which shows that the property it is listed with can fail.

### Correspondence and abstractions

*Statements.* One SQL statement is one step. `done = FALSE` (or `stored = FALSE`)
means it failed; callers that look at the error take the error path, callers
that do not go on. Exceptions, each of which merges reads with one neighbour:
placement reads the workers once (`PickWorker`), although `selectWorker` lists
them for each strategy step; `SettleReported` joins the handler's `Get` with its
`Update`, since only status and owner are kept of the row and both are
overwritten; a failing `List` or `Get` that ends a distributor phase is the same
as a tick in which nothing qualified.

*Ids.* Jobs are numbered in the order in which they are stored. `queued_at` is
taken some statements earlier, so two jobs may in reality be ordered the other
way round; ties in scores are broken nondeterministically.

*Heartbeats.* The age of a heartbeat is one bit (`fresh`): within the timeout or
not. `HeartbeatExpires` may clear it for a dead agent at any time, for a live one
only when the network keeps its heartbeats away, which counts as a failure. An
agent has one heartbeat handler at a time.

*Failures of the control plane* are drawn from `FaultKinds` and at most
`MaxFaults`: `crash` (agent dies), `restart` (control plane), `partition`, `lost`
(message or response), `sql` (statement fails), `swallowed` (row write fails,
only logged), `requeue` (the same for the row write in `requeueDeployment`).

*Timing.* In the control plane builds end with success or failure after any time;
`BuildOutlastsPlacement` says that no build ends within the few milliseconds
between `AssignToWorker` and the end of the same tick. The proofs and `custody` do
without it, but for the refinement and the slots. These and the runs `lifecycle`
and `settles` need it: `stale_write` shows what happens otherwise (section 4).

*Hosting* looks at the same jobs and rows from the other side: it has names,
commands and platforms, both modes and both stores, and takes from the control
plane that a job is claimed by one worker at a time (`SingleCustody`) and that
only running deployments are queued again (`LifecycleHolds`). So `Claim` and
`Requeue` are one step each there. A name is a sequence whose further elements
are the random suffix, taken to be new; `Sanitized` and `Routed` are the two
`sanitizeSubdomain` functions, which differ for a name cut at 63 characters
behind a hyphen. A command works, fails, or fails after it has done some or all
of its work; which of the objects of an apply are there decides what is served.
The agents' executor tells three answers of kubectl apart (`Answers`): none, which
is tried again and may have taken effect (`kubectl` in `faults`); a refusal for a
reason of the API server's own, a permission, a quota, a port out of range, which
fails the job at once (`refused` in `faults`); and one that looks at the command.
kubectl applies the objects of a manifest one by one and goes on behind one that
was refused, so a refused apply leaves nothing, the workload, the ingress or
both. A refused `get namespace` leads to `create` like any other error of it, a
refused rollout status is one of its failures. Agents are given a namespace, as
`worker-agent/agent.yaml` does; without one the executor leaves out its first two
commands.
Clone, Dockerfile check, build and push are one step. The docker driver works
only for the embedded worker, as in the code.

*Router.* The row says `running` exactly when the abstract phase is `up`, and its
owner is then the host. So the router is modelled over `Lifecycle`, which the
control plane is proved to implement (section 5). A worker stands for its `tailscale_ip`;
workers that registered without one, for which the code falls back to
127.0.0.1, are left out. `since` is a history variable: for how long a worker
has not hosted a deployment.

*Forwarder.* A payload is the number of its log line. Lines about other hosts
and lines that do not parse are left out. Whether a subdomain resolves is
decided anew for each insert, which allows everything the resolve cache can do.
The 200 ms pause before the retry is only time. A request the sender gave up
goes on in the handler (`late`), since `db.Exec` takes no context. A restart of
the forwarder forgets its queue and its counters.

*Telemetry and collector.* A post is its identifiers. `ago` is a history variable:
for each identifier and each answer, how many ticks since that was the right
answer; lifetimes are counted in ticks too. In memory (no database) there are
lookups and the cache but no tables. Of a request the deployment and its age
class count; a byte of bandwidth stands for its bytes, whether there are
percentiles for the percentiles. `GetRequestCounts` has one "now" for its windows,
so rows do not get older between them, but they do arrive. `here` is the set of
deployments of which the control plane's own cluster has the workload: the
collector asks no other (`getPodCounts`), so for one that runs by docker or on
an agent's cluster kubectl fails in every round, and its pods stay zero. A
deployment that starts does so here or elsewhere, and one that moves away leaves
its workload behind, which goes on being counted. CPU and memory usage, which
fail like the pods, and Prometheus gauges are left out.

*Pages.* Logs are sequences of chunks (build logs) or bytes named by container
and place in its output (application logs); where its lines end decides what the
tail is. The client of `AppLogs` is the one that
`docs/BACKEND-INTEGRATION.md` 7.1 describes. Pods and resources are the time
since kubectl said so. `deployment.Status` is assigned by one goroutine and read
by another without synchronisation: the model lets the reader see either value.

## 3. What the runs show

| Run | Instance | Shows |
|---|---|---|
| `custody` | 1 deployment, 1 agent, embedded worker, 2 jobs, any 2 failures but a lost re-queue write | `TypeOK`, `SingleCustody`, `ListsStayTrue`, `SettledJobsStay` |
| `lifecycle` | 1 deployment, 1 agent, embedded worker, 3 jobs (2 moves), 1 failure of any kind but a lost re-queue write, fair | `LifecycleHolds`: the control plane implements `Lifecycle`; `FailsOver`; `LocalSlotsAccounted` |
| `settles` | 2 deployments, agent and embedded worker with one slot, no failure, fair | `EventuallySettled`, `LocalSlotsAccounted` |
| `router` | 1 deployment, 2 workers, 2 concurrent lookups, TTL 2, fair | `RouterTypeOK`, `RoutesRecent`, `RoutesConverge` |
| `telemetry` | 3 lines, queue 2, batch 2, `--tail` 1, any 2 failures, fair | `TypeOK`, `Accounted`, `AtMostTwice`, `SentIsInserted`, `Drains` |
| `hosting` | 2 requests for one name, the name cut behind a hyphen, or nothing usable; the control plane's host and one agent, both modes, stores and backends; 1 failure in single-worker, 3 in multi-worker mode (1 deployment, 1 move), fair | `TypeOK`, `NamesShared`, `RoutesShared`, `OwnerServes`, `RunningIsScaled`, `RetriesSuffice`, `EventuallyBuilt` |
| `analytics` | 2 deployments of one name, 2 posts at a time, cache of 2 entries, TTL 1 and 0 for "unknown"; one of four budgets per behaviour, fair | `TypeOK`, `AnswersRecent`, `WindowsNested`, `MetricsConverge`, `OldRequestsGo` |
| `pages` | 2 viewers and 5 chunks; a tail of 3 lines of 1 or 2 bytes out of 4 and a new container; 2 requests, TTL 2; 1 failure, fair | `TypeOK`, `BuildLogSpliced`, `AppLogFollows`, `PodsRecent`, `StreamsEnd`, `AppLogArrives` |

**Bounds of the control plane, router and forwarder.** `MaxJobs` is the number of
job ids; `MaxMoves` bounds how often a deployment is re-queued, so that ids do not
run out; `MaxFaults` bounds failures; `MaxLines` the log; `LookupTicks` the
duration of a lookup (the code has no timeout on the query, the bound is what the
router's property is about). All hazards of the core are about one deployment and
at most two parties that may both believe they have it: the queue, two agents (or
an agent and the embedded worker), the handler of an old report, and the
distributor. Two jobs are the original one and its re-queue, three allow a
deployment to move and come back. Two deployments are only needed where
deployments compete for something, the slots and the head of the queue, and
there they are present. Two failures in `custody` are a partition that makes a
live worker's deployment move and a second one that hits the move. Two remote agents
occur in the runs of section 4 only; where the distributor and the tables are
concerned the second party may as well be the embedded worker.

**Bounds of hosting.** Two requests are what a clash of names takes. `Raw` has two
spellings of one name, a name that is cut, and nothing left; `Payloads` reaches
both sides of each guard on the bounds, `Packages` a valid and an invalid one.
Three failures are what it takes to exhaust a command's retries, so multi-worker
mode has them, refusals among them; single-worker mode, where no agent runs, needs one for a failed
apply, a restart or a `List` that fails. Only one deployment is asked for in
multi-worker mode, since what two do to each other, by names and on one platform,
already happens in single-worker mode.

**Bounds of analytics.** `Limits` holds four budgets, so that not everything
happens in each behaviour: the cache under two handlers, ticks and a failure, in
memory and with a database; the collector over two deployments, either of which may
run, with requests getting older twice; one deployment that starts or stops running,
with a failure. Two entries in a cache of two are
full: an insertion then makes the whole cache new. `NegativeTTL` is below
`CacheTTL`, as 20 s is below 2 minutes; each budget has at most two ticks, enough for an entry to
expire, because what matters is whether a handler's steps fall before or after.

**Bounds of pages.** Five chunks are a header, two sections, two pieces of output:
the final log can be shorter or longer than the live one by a chunk of each kind.
Four lines outgrow a tail of three by one, with widths that make the bytes of a
window go up or down. A request may take one tick, an entry lives two; two
requests can already renew an entry from itself. Three requests were tried with
the proof's invariant.

The proofs remove the bounds for the safety properties they cover.

**Fairness.** `WF` on the distributor, on the embedded worker, on every handler
and on every agent's loop: they are goroutines in endless loops, and tickers and
timeouts bound each wait. A dead agent's heartbeat does grow old. There is no
fairness for deploy requests, failures, live logs, cooldowns, or a crashed
agent's return. In the router the clock and lookups are fair, requests are
not; in the forwarder the log connection, the sender's loop, and the end of
each wait (by answer or by `TELEMETRY_HTTP_TIMEOUT`) are. In hosting a request
that has begun goes on and every worker polls; commands end (`rollout status`
by its timeout; git, docker and the other kubectl commands have none, so here it is
assumed); pods need not come up, and a rollout
may fail instead. In analytics only the collector's own statements are fair, and
only those that do not fail: failures are possible at any time but not for ever
(the budget), inserts are not needed. In pages the worker, the streams' tickers
and the client's are fair; nobody has to open a page, and no failure is assumed
or excluded.

## 4. Where code and documents disagree

Four runs are expected to fail. Each checks one sentence of the documents.

| Run | Statement | What happens |
|---|---|---|
| `queued_has_job` | `docs/MULTI-WORKER-ARCHITECTURE.md:52`, a queued deployment's job waits for assignment | row and job are stored by two statements; if the second fails the row stays queued without a job |
| `deploying_ends` | the same, line 53, deploying means in progress | an agent that dies while it deploys leaves the row deploying and the job running for ever; failover looks at running rows only |
| `stale_write` | the same, line 63, the re-queue path is the way out of running | `distributeJobs` writes back the row it read before a fast worker settled it |
| `duplicate_owner` | `docs/DYNAMIC-PLACEMENT-FAILOVER-ARCHITECTURE.md:433`, no duplicate ownership | the row write of a re-queue fails and is only logged, the job is stored anyway, and the next tick re-queues again |

In other places the documents promise more than the properties of the passing runs
say. These have no run of their own: each is what a property admits, and TLC
finds a counterexample for the first, second, third and fifth as soon as the
property says what the document does.

- *Totals.* `docs/DEPLOYMENT-ANALYTICS-API.md:274` has "Total requests (all time)",
  `docs/SYSTEM-ARCHITECTURE.md:402` "All-time requests", and line 529 keeps aggregated
  metrics "Forever". `GetRequestCounts` and `GetBandwidthStats` count the rows of
  `deployment_requests` (`postgres_analytics.go:312-317`, `337-355`), from which
  every round removes those older than seven days (`collector.go:107-109`), so the
  totals go down again. `MetricsConverge` says what the code does: the total follows
  the rows that are left.
- *Unique subdomains.* `docs/SYSTEM-ARCHITECTURE.md:358` has "subdomain TEXT UNIQUE";
  the column is `TEXT NOT NULL` without a unique index
  (`migrations/001_phase1.sql:54`), and `isSubdomainUnique` looks before the row is
  stored. `NamesShared` lists when two live deployments share one: overlapping
  requests, a `List` that failed, a name that was cut.
- *Seven days.* `docs/SYSTEM-ARCHITECTURE.md:376` gives raw requests a "TTL: 7 days".
  A round without a running deployment ends before the clean-up
  (`collector.go:91-94`), so as long as nothing runs nothing is removed:
  `OldRequestsGo` needs a running deployment.
- *Pods.* `docs/DEPLOYMENT-ANALYTICS-API.md:18` and `305-306` list current and desired
  pods of a deployment. They are those of the control plane's own cluster
  (`collector.go:283-314`): zero for ever for a deployment on an agent's cluster or
  on docker (`MetricsConverge`).
- *Polling.* `docs/BACKEND-INTEGRATION.md:409-412` has "only new `application_logs`
  chunk" for a request with a cursor. The cursor counts bytes of the last `tail`
  lines, so once a line has dropped out of these it points elsewhere: after lines of
  1, 1, 1 and 2 bytes and a tail of three, a client that had the first three gets
  the second byte of the fourth only. `AppLogFollows` is about output that fits
  into the tail.
- *Streams.* A build-log stream says `complete` when the row says how the build
  ended; if the one write of that is lost (`worker.go:205`; `Update` only logs the
  error) it stays open for ever. `StreamsEnd` admits exactly that.

## 5. What is proved

Every theorem is about `Spec`, for all values of the constants that satisfy the
named assumptions in the modules. Each rests on an inductive invariant, which was
checked by TLC on an instance before it was proved; the proof that a step keeps it
has one lemma per component and one step per action. All invariants, action
properties and the refinement that the runs check are proved: what is left to TLC
is liveness, and the four runs that are expected to fail.

`ControlPlaneProofs`, for any sets of jobs, deployments and workers, any
capacities, strategy and number of failures: `TypeCorrect` (`TypeOK`), `Custody`
(`SingleCustody`), `ListsTrue` (`ListsStayTrue`). One assumption is about the
environment, `NoLostRequeue`: it does not lose the row write of a re-queue.
`duplicate_owner` shows that `SingleCustody` fails without it; nothing else is
assumed, in particular not `BuildOutlastsPlacement`.
Call a job *carrying* while it is queued, executed, being reported or with the
embedded worker. `SingleCustody` says that a deployment has at most one carrying
job and none while it runs or is promised. It is not inductive: to see that a
claim does not create a second executor one must know who holds the job
(`HoldersOK`), that two carrying jobs of one deployment are the same
(`Exclusive`), that a promise excludes both another promise and a running row
(`Unshared`, `PromisesOK`), that a new deployment has neither job nor row
(`NewOK`), and that what the distributor remembers between two statements is
still so (`DistOK`: whatever is on its list is still running, and a status
`running` it read is still the status when it writes it back).

`JobProofs`, from the same assumptions: `SettledStay`, the action property
`SettledJobsStay`. `MarkDone` and `MarkFailed` update by job id and look at no
status, so it rests on their callers: the further invariant `MarkingOK` says that
a report about to be marked, and the embedded worker until it has marked, find
their job running. That a report's job is not the embedded worker's comes from
`HoldersOK`.

`SlotsAccounted` (`LocalSlotsAccounted`) in the same module, for any jobs, slots
and strategy, with two more assumptions: the control plane is a worker at all
(`ControlPlaneAsWorker`; otherwise it has no row in the table), and
`BuildOutlastsPlacement`. The count is kept by three writers, none of which looks
at the jobs, so `SlotsOK` relates it to the set `LocalJobs` and follows that set
through each of them. A slot is only taken when one was free and the assigned job
was nobody's (`AssignmentOK`: what `PickWorker` found still holds when the job is
assigned, since the distributor alone adds to `LocalJobs`); the worker cannot give
a slot back before it was counted, or the guard at zero of `DecrementJobCount`
would lose it (`CountedInTime`, the reason for `BuildOutlastsPlacement`); nothing
is assigned when the worker registers for the first time, so that its 0 is right;
and every job's deployment has its row (`RowsKnown`), without which the worker would
be done with a job at once, build or not. Each of these holds until a failure of
the kinds in `SlotFaults`; after one, only the inequality is left, and a withdrawn
assignment must not take the slot of another one (the part of `AssignmentOK` about
`release`).

`LifecycleProofs`, for any deployments, jobs, workers and failures:
`ImplementsLifecycle`, the refinement `LifecycleHolds`, from `NoLostRequeue` and
`BuildOutlastsPlacement`. First the refinement mapping is computed once and for
all: under `IInv` the phase and the host of a deployment follow from who holds its
one carrying job (`Phases`). Then each step of the control plane is a step of the
lifecycle: the deploy API's are `Submit` and `Queue`, a claim is `Take`, the write
of the outcome is `Succeed` or `Fail` with the executor as owner, a re-queue is
`Relocate`, a failed write, a crash or a restart is `Strand` of the deployments whose
only holder it was; everything else, the heartbeats, marks, counts and live logs,
stutters. What is needed beyond `IInv` is `LifeOK`: no outcome before its
job is over (`CarryingOK`), a deployment without a job yet has no outcome
(`StoredOK`), the row of a re-queue says `queued` between its two statements
(`RequeuedOK`), and while the distributor is placing a job nobody settles it
(`PlacingOK`), which is where `BuildOutlastsPlacement` comes in: `stale_write` is
the counterexample without it.

`HostingProofs`, for any requests, names, hosts, payloads, packages, moves and
failures: `TypeCorrect`, `NamesRarelyShared`, `RoutesRarelyShared`,
`RunningServed`, `RunningScaled`, `FailuresJustified`. That a running row is
served needs the whole history of its job: one host at most has it and the row
is settled last (`Custody`), each stage knows what the stages before it left on
the platform (`Progress`), and nothing else touches a workload of a running
deployment (`Served`). That names are not shared needs memory: whatever was on
the list when a name was chosen has another name, has failed, or was cut, and
that stays so (`ListsRemembered`), since a failed deployment never comes back and
a name is kept through moves (`NamesKept`). That the autoscaler takes the bounds
is fixed when the request is checked and remembered in the request
(`BoundsTaken`). Why an agent's job has failed (`FailuresJustified` for
`RetriesSuffice`) is remembered by the failures that were counted (`Justified`):
each try of a command that is not the first stands for one that was not answered,
and a refusal is counted or comes from the host name. That a job which
fails for its rollout finds its namespace and objects in place rests on what each
stage knows of the ones before it, and on namespaces never going away again
(`NamespacesStay`), although tries whose answers were lost may have made them.

`MeshRouterProofs`, for any TTL, lookup bound, deployments, workers and number
of concurrent lookups: `RouterTyped` and `RoutesStayRecent`. The invariant adds
that the worker a lookup found was the host no longer ago than the lookup's age
(`FoundOK`) and that an entry's worker was the host at most a lookup before the
entry was made (`CacheOK`).

`TelemetrySenderProofs`, for any capacities, log and failures: `TelemetryTyped`,
`CountersTrue` (`Accounted`), `DuplicatesBounded` (`AtMostTwice`) and `SentArrived`
(`SentIsInserted`). The invariant adds that the sender never selects with a full
batch (`RoomInBatch`), which bounds the batch. That a line is inserted at most
twice for each reading needs a weight (`DuplicatesOK`): a row counts one, so does
a copy the handler still has, a queued payload two, one in the batch as many as
tries are left; reading a line adds two, and no other step adds anything, a timeout
included, which makes a copy of the batch but uses up a try. Copies and rows are
counted as sets of places (`Copies`, `RowsOf`), whose cardinalities the lemmas
before the theorems relate: what a queue loses a batch gains, and what an insert
finds known becomes that many new rows (`KnownInserted`).

`AnalyticsProofs`, for any deployments, names, batches, lifetimes, capacity and
budgets: `TypeCorrect` (with the bound on the cache), `CountedForItsDeployment`
(`AnswersRecent`), `RowsAreNested` (`WindowsNested`). A handler's answer is as
recent as the handler is old at every stage of a lookup (`FoundFits`), so an entry
was right at most one handler before it was stored (`EntryFits`), and what a
handler takes from the cache is older by its own age (`LocalFits`). Of a round,
what has been counted so far is still in the table, in the order in which the
statements are made (`RoundFits`): swapping the windows breaks it, and so does
the mutant `DayFirst`.

`PagesProofs`: `PodsAreRecent` (`PodsRecent`) for any number of requests, any TTL
and any duration of a request within `PodAssumption`: no request takes longer
than an entry lives (twelve seconds; kubectl is run without a timeout, so this is
about the cluster). An entry's halves may come from an earlier entry and are
stored with a new timestamp, so why are they not renewed for ever? Because of
those who looked before: whoever missed the cache finds later only entries newer
than its miss, holding data that was fetched by requests that missed too
(`NewerThanMiss`, `Fetched`), and a request that hits at first stores nothing.
`LogsAreSpliced` (`BuildLogSpliced`) for any number of chunks and viewers: a
viewer's text begins the live log, or is spliced at the offset where the final
log took over (`Begins`, `Spliced`, both pointwise, which the prover can follow).
`LogIsFollowed` (`AppLogFollows`) for lines of any length: an answer from the n-th
byte on completes the client's buffer if that was right up to n (`AnswerAppends`),
and n never lies behind the buffer's end, because a stream's position is that end or
0 and a request's cursor is it too (`AppOK`). `TypeCorrect` puts the three pages'
invariants together.

**Only model-checked.** Liveness under fairness (`EventuallySettled`, `FailsOver`,
`EventuallyBuilt`, `RoutesConverge`, `Drains`, `MetricsConverge`, `OldRequestsGo`,
`StreamsEnd`, `AppLogArrives`): it needs `ENABLED`, which the prover cannot handle.
So do the four expected violations of section 4, which are single counterexamples.

## 6. The plan

Done, in this order: the tables, placement, distributor, agents, embedded worker,
their composition, `Lifecycle` and the refinement; the router on top of
`Lifecycle`; the forwarder with the batch handler; subdomains, runtime and
executor and their composition in both modes; the resolve cache and the
collector; the streams and the details.

Proved, in this order: types and custody of the control plane, the router, the
forwarder's counters, hosting, analytics, the pages; then the refinement, the slots,
duplicates and the application log. Left for the provers: steps towards liveness
that are safety by themselves (that a step which helps is never disabled by others),
and the refinement under weaker timing than `BuildOutlastsPlacement`, for a
lifecycle that admits the stale write.

## 7. Not modelled

- *Authentication and users* (`auth/middleware.go`, `postgres_users.go`): a library
  validates tokens. A sign-in reads the user's row and writes a new one when it
  could not be read, for any error, which would overwrite a subscription; but
  nothing in the repository calls `UpdateSubscription` or reads the flag.
- *Migrations* (`migrations_runner.go`): run once, before anything else, each in a
  transaction; two processes that start together on an empty database may both
  apply one, and the second then fails to start.
- *Gauges and averages* of the platform (`aggregatePlatformMetrics`, the platform
  and analytics pages): sums of rows read, without state. The analytics stream
  repeats `GetMetrics`.
- *Units* of kubectl's output (`parseMemoryToMB`, CPU quantities), wording of
  logs, JSON, YAML and SQL text.
- *Host names and pods of Traefik* (the forwarder's search for them), the bridge
  proxy, agent configuration and entry points, Prometheus, dashboards, scripts,
  API descriptions: they keep no state that decides anything.
- *Removal*: no code deletes a deployment, a workload or a route, so there is
  nothing to model; what follows from that is in `RoutesShared`.
- *What properties deliberately allow*: the last hour of a metrics row may exceed
  its total, which is counted first; the metrics of a deployment that stopped
  running are never refreshed; a deployment that moves back to a docker host
  fails on the name of its old container (`conflict` in `Runtime`), which
  ends the build; two deployments may alternate between two workers for ever, at
  one move per cooldown (`MaxMoves` cuts this off).
