------------------------------- MODULE Runtime -------------------------------
(***************************************************************************)
(* What turns a job into something that serves requests: the drivers of    *)
(* the control plane (runtime/docker_driver.go, kubernetes_driver.go,      *)
(* deployer.go) and the executor of an agent (worker-agent/internal/       *)
(* executor/executor.go). Every host has a platform of its own, a Docker   *)
(* daemon or a cluster, whose commands may fail.                           *)
(*                                                                         *)
(* Clone, Dockerfile check, build and push leave nothing behind that a     *)
(* later step depends on: they are one step, which a repository may fail.  *)
(***************************************************************************)
EXTENDS Subdomains

CONSTANTS
    ControlPlaneHost, \* where the control plane's driver works
    AgentHosts        \* where an agent's executor works

VARIABLES
    run,       \* per host: the job being executed and how far it has got
    namespace, \* per host: does the namespace exist
    workload   \* per host and deployment: what the platform has of it

runtimeVars == <<run, namespace, workload>>

Hosts == {ControlPlaneHost} \cup AgentHosts

RuntimeAssumption == ControlPlaneHost \notin AgentHosts

ASSUME RuntimeAssumed == RuntimeAssumption

Errors == {"none", "lookup", "repository", "platform", "conflict", "unreachable", "refused"}

Stages == {"prepare", "namespace", "create", "apply", "rollout", "scale", "ended"}

RunRecord ==
    [pc : {"idle", "claimed", "settled"} \cup Stages,
     dep : Deployments, try : 1..3, error : Errors]

Idle(h) == run[h].pc = "idle"

\* "created": Docker has a container of that name which did not start.
Workload == [state : {"none", "created", "pending", "ready"},
             route : AllNames \cup {NoName}, scaled : BOOLEAN]

NoWorkload == [state |-> "none", route |-> NoName, scaled |-> FALSE]

RuntimeInit ==
    /\ run \in [Hosts -> {[pc |-> "idle", dep |-> d, try |-> 1, error |-> "none"] :
                             d \in {CHOOSE d \in Deployments : TRUE}}]
    /\ namespace = [h \in Hosts |-> FALSE]
    /\ workload = [h \in Hosts |-> [d \in Deployments |-> NoWorkload]]

OnDocker(h) == h = ControlPlaneHost /\ config.backend = "docker"

Go(h, stage) == run' = [run EXCEPT ![h].pc = stage, ![h].try = 1]

Fail(h, error) == run' = [run EXCEPT ![h].pc = "ended", ![h].error = error]

NameOf(h) == deployments[run[h].dep].name

\* The driver's route has the sanitized name, the executor's the name as it is.
HostRoute(h) == IF h = ControlPlaneHost THEN RouteOf(NameOf(h)) ELSE NameOf(h)

Put(h, w) == workload' = [workload EXCEPT ![h][run[h].dep] = w]

Current(h) == workload[h][run[h].dep]

-----------------------------------------------------------------------------
Prepare(h, ok) ==
    /\ run[h].pc = "prepare"
    /\ IF ~ok THEN Fail(h, "repository")
       ELSE Go(h, IF OnDocker(h) THEN "apply" ELSE "namespace")
    /\ UNCHANGED <<namespace, workload>>

\* docker run --name laptopcloud-<id>: a container of that name must not exist.
DockerRun(h, ok) ==
    /\ OnDocker(h) /\ run[h].pc = "apply"
    /\ IF Current(h).state # "none" THEN ~ok /\ Fail(h, "conflict") /\ UNCHANGED workload
       ELSE IF ok THEN /\ Go(h, "scale")
                       /\ Put(h, [state |-> "ready", route |-> HostRoute(h), scaled |-> FALSE])
       ELSE /\ Fail(h, "platform")
            /\ UNCHANGED workload \/ Put(h, [NoWorkload EXCEPT !.state = "created"])
    /\ UNCHANGED namespace

\* What an apply leaves that fails on the way, or whose answer is lost: kubectl
\* applies the objects one by one and goes on after one that was refused.
Applied(h) ==
    LET w == Current(h)
        state == IF w.state = "ready" THEN "ready" ELSE "pending"
    IN [nothing |-> w,
        workload |-> [w EXCEPT !.state = state],
        route |-> [w EXCEPT !.route = HostRoute(h)],
        all |-> [w EXCEPT !.state = state, !.route = HostRoute(h)]]

\* No ingress has a host name that ends in a hyphen.
RouteValid(h) == HostRoute(h) = RouteOf(NameOf(h))

-----------------------------------------------------------------------------
(* KubernetesDriver: one attempt for each command. *)

\* get, then create. A namespace that exists but that get failed to see is an
\* error of create, and a create may have worked although it failed.
EnsureNamespace(h, ok) ==
    /\ h = ControlPlaneHost /\ run[h].pc = "namespace"
    /\ IF ok THEN Go(h, "apply") ELSE Fail(h, "platform")
    /\ \/ namespace' = [namespace EXCEPT ![h] = TRUE]
       \/ ~ok /\ UNCHANGED namespace
    /\ UNCHANGED workload

Apply(h, ok) ==
    /\ h = ControlPlaneHost /\ ~OnDocker(h) /\ run[h].pc = "apply"
    /\ IF ok THEN Go(h, "rollout") /\ Put(h, Applied(h).all)
       ELSE /\ Fail(h, "platform")
            /\ \E left \in {"nothing", "workload", "route", "all"} : Put(h, Applied(h)[left])
    /\ UNCHANGED namespace

\* rollout status, at most 600 s.
Rollout(h, ok) ==
    /\ h = ControlPlaneHost /\ run[h].pc = "rollout"
    /\ IF ok THEN Current(h).state = "ready" /\ Go(h, "scale") ELSE Fail(h, "platform")
    /\ UNCHANGED <<namespace, workload>>

\* ApplyCPUAutoscaling: what fails here is only a warning in the build log.
Autoscale(h, ok) ==
    /\ h = ControlPlaneHost /\ run[h].pc = "scale"
    /\ LET wanted == config.hpa /\ ~OnDocker(h) /\ AutoscalerTakes(request[run[h].dep].bounds)
       IN IF wanted /\ ok THEN Put(h, [Current(h) EXCEPT !.scaled = TRUE])
          ELSE UNCHANGED workload
    /\ Go(h, "ended")
    /\ UNCHANGED namespace

-----------------------------------------------------------------------------
(* The executor: each kubectl command is tried again, three times in all,  *)
(* as long as its error looks transient. A transient error says nothing    *)
(* about whether the command took effect. Any other error ends the         *)
(* command, and with it the job, unless it was "get".                      *)

\* "none": a transient error. "refused": the API server wants none of it, for
\* permissions, a quota or a port out of range. "taken": it looks at it.
Answers == {"none", "refused", "taken"}

\* Mutant: one try too many.
AgainOnceMore(h, onGivingUp) ==
    IF run[h].try <= 3 THEN run' = [run EXCEPT ![h].try = @ + 1] ELSE onGivingUp

Again(h, onGivingUp) ==
    IF run[h].try < 3 THEN run' = [run EXCEPT ![h].try = @ + 1] ELSE onGivingUp

\* ensureNamespace: any error of "get" leads to "create".
GetNamespace(h, answer) ==
    /\ h \in AgentHosts /\ run[h].pc = "namespace"
    /\ IF answer = "none" THEN Again(h, Go(h, "create"))
       ELSE Go(h, IF answer = "taken" /\ namespace[h] THEN "apply" ELSE "create")
    /\ UNCHANGED <<namespace, workload>>

\* Mutant: a namespace that exists is an error, also if the first try made it.
CreateNamespaceOnce(h, answer) ==
    /\ h \in AgentHosts /\ run[h].pc = "create"
    /\ CASE answer = "none" -> Again(h, Fail(h, "unreachable"))
         [] answer = "refused" -> Fail(h, "refused")
         [] answer = "taken" -> IF namespace[h] THEN Fail(h, "refused") ELSE Go(h, "apply")
    /\ \/ answer # "refused" /\ namespace' = [namespace EXCEPT ![h] = TRUE]
       \/ answer # "taken" /\ UNCHANGED namespace
    /\ UNCHANGED workload

\* AlreadyExists is no error; one that is refused may have been there before.
CreateNamespace(h, answer) ==
    /\ h \in AgentHosts /\ run[h].pc = "create"
    /\ CASE answer = "none" -> Again(h, Fail(h, "unreachable"))
         [] answer = "refused" -> Fail(h, "refused")
         [] answer = "taken" -> Go(h, "apply")
    /\ \/ answer # "refused" /\ namespace' = [namespace EXCEPT ![h] = TRUE]
       \/ answer # "taken" /\ UNCHANGED namespace
    /\ UNCHANGED workload

\* What an apply may leave that was not answered, or of which something was
\* refused. A host name that ends in a hyphen always is.
LeavesSome(h) ==
    \E left \in {"nothing", "workload"} \cup (IF RouteValid(h) THEN {"route", "all"} ELSE {}) :
        Put(h, Applied(h)[left])

AgentApply(h, answer) ==
    /\ h \in AgentHosts /\ run[h].pc = "apply"
    /\ CASE answer = "none" -> Again(h, Fail(h, "unreachable")) /\ LeavesSome(h)
         [] answer = "refused" -> Fail(h, "refused") /\ LeavesSome(h)
         [] answer = "taken" ->
               IF RouteValid(h) THEN Go(h, "rollout") /\ Put(h, Applied(h).all)
               ELSE Fail(h, "refused") /\ Put(h, Applied(h).workload)
    /\ UNCHANGED namespace

\* Mutant: the executor does not wait.
AgentRolloutEarly(h, reached, ok) ==
    /\ h \in AgentHosts /\ run[h].pc = "rollout"
    /\ IF ~reached THEN Again(h, Fail(h, "unreachable")) ELSE Go(h, "ended")
    /\ UNCHANGED <<namespace, workload>>

\* waitForDeploymentRollout: at most 180 s for each try.
AgentRollout(h, reached, ok) ==
    /\ h \in AgentHosts /\ run[h].pc = "rollout"
    /\ IF ~reached THEN Again(h, Fail(h, "unreachable"))
       ELSE IF ok THEN Current(h).state = "ready" /\ Go(h, "ended")
       ELSE Fail(h, "platform")
    /\ UNCHANGED <<namespace, workload>>

-----------------------------------------------------------------------------
\* The pods of a workload come up, or never do.
PodsReady(h, d) ==
    /\ workload[h][d].state = "pending"
    /\ workload' = [workload EXCEPT ![h][d].state = "ready"]
    /\ UNCHANGED <<run, namespace>>

=============================================================================
