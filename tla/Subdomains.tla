------------------------------ MODULE Subdomains ------------------------------
(***************************************************************************)
(* The deploy API (httpapi/handlers.go Deploy, service/deployments.go      *)
(* EnqueueDeploy): a request is normalised, gets a subdomain that no       *)
(* listed deployment uses, stores its row and then its job. Each of the    *)
(* last three is one step, so requests interleave.                         *)
(*                                                                         *)
(* Rows and jobs are in Postgres, or in memory when no database is         *)
(* configured (store/repository.go, store/jobs.go). In memory no           *)
(* statement fails, and nothing outlives the process.                      *)
(***************************************************************************)
EXTENDS AutoscalingPolicy, FiniteSets, Sequences

CONSTANTS
    Deployments,  \* one deploy request each
    Raw,          \* subdomains and repository names as users write them
    Sanitized,    \* sanitizeSubdomain: Raw to Names, or NoName for nothing left
    Names,        \* what sanitizeSubdomain returns, each name a sequence
    NoName,
    Routed,       \* runtime's sanitizeSubdomain: what is left of a name that
                  \* was cut at 63 characters behind a hyphen
    Packages,     \* bound: the packages asked for
    Payloads      \* bound: the replica bounds asked for

VARIABLES
    config,      \* how the process was configured
    deployments, \* the rows
    jobs,        \* per deployment, the status of its newest job
    line,        \* the queue: deployments in the order their jobs are claimed
    request      \* per deployment, the deploy request

apiVars == <<deployments, jobs, line, request>>

\* A name somebody has taken gets a suffix of six random digits, which no
\* other name has.
Suffixed(n, d) == Append(n, d)

AllNames == Names \cup {Suffixed(n, d) : n \in Names, d \in Deployments}

SubdomainAssumption ==
    /\ Deployments # {}
    /\ Payloads \subseteq Bounds
    /\ NoName \notin AllNames
    /\ Sanitized \in [Raw -> Names \cup {NoName}]
    /\ Routed \in [Names -> Names]
    /\ \A n \in Names : Routed[Routed[n]] = Routed[n]
    /\ \A n, m \in Names : \A d, e \in Deployments :
          /\ Suffixed(n, d) \notin Names
          /\ Suffixed(n, d) = Suffixed(m, e) => n = m /\ d = e

ASSUME SubdomainAssumed == SubdomainAssumption

\* Multi-worker mode needs a database; Docker has no autoscaler to switch on.
Config ==
    {c \in [store : {"memory", "postgres"}, mode : {"single", "multi"},
            backend : {"docker", "kubernetes"}, hpa : BOOLEAN] :
        /\ c.mode = "multi" => c.store = "postgres"
        /\ c.backend = "docker" => ~c.hpa}

InMemory == config.store = "memory"

Statuses == {"queued", "deploying", "running", "failed"}

Row == [status : Statuses \cup {"absent"}, name : AllNames \cup {NoName}]

NoDeploymentRow == [status |-> "absent", name |-> NoName]

Request ==
    [pc : {"new", "checked", "stored", "answered", "refused"},
     name : AllNames \cup {NoName}, bounds : Bounds, listed : SUBSET Deployments]

Untouched == [pc |-> "new", name |-> NoName, bounds |-> [min |-> 0, max |-> 0, target |-> 0],
              listed |-> {}]

ApiInit ==
    /\ deployments = [d \in Deployments |-> NoDeploymentRow]
    /\ jobs = [d \in Deployments |-> "none"]
    /\ line = <<>>
    /\ request = [d \in Deployments |-> Untouched]

Stored(d) == deployments[d].status # "absent"

-----------------------------------------------------------------------------
\* sanitizeSubdomain of the runtime: the name in the route and in the result.
RouteOf(n) == IF n \in Names THEN Routed[n] ELSE n

\* Mutant: only what runs holds its name.
InUseRunning(n, listed) ==
    \E d \in listed : deployments[d].name = n /\ deployments[d].status = "running"

\* isSubdomainUnique, negated
InUse(n, listed) ==
    \E d \in listed : deployments[d].name = n /\ deployments[d].status # "failed"

\* A List that fails returns no rows, one whose scan fails leaves rows out.
Listing(complete) ==
    IF complete THEN {{d \in Deployments : Stored(d)}}
    ELSE (SUBSET {d \in Deployments : Stored(d)}) \ {{d \in Deployments : Stored(d)}}

\* GenerateSubdomain: a name the user gave is refused when it is in use, one
\* taken from the repository gets a suffix, which is not checked again.
GeneratedName(d, given, raw, listed) ==
    LET n == Sanitized[raw]
    IN IF n = NoName \/ (given /\ InUse(n, listed)) THEN NoName
       ELSE IF InUse(n, listed) THEN Suffixed(n, d)
       ELSE n

Refuse(d) ==
    /\ request' = [request EXCEPT ![d].pc = "refused"]
    /\ UNCHANGED <<deployments, jobs, line>>

\* Deploy up to GenerateSubdomain: package, bounds, name, environment.
Check(d, package, payload, given, raw, envValid, complete) ==
    /\ request[d].pc = "new"
    /\ complete \/ ~InMemory
    /\ LET bounds == Asked(package, payload)
       IN IF ~IsValidPackage(package) THEN Refuse(d)
          ELSE IF ~Accepts(bounds) THEN Refuse(d)
          ELSE \E listed \in Listing(complete) :
                 LET n == GeneratedName(d, given, raw, listed)
                 IN IF n = NoName \/ ~envValid THEN Refuse(d)
                    ELSE /\ request' = [request EXCEPT ![d] =
                                [pc |-> "checked", name |-> n,
                                 bounds |-> Defaulted(bounds), listed |-> listed]]
                         /\ UNCHANGED <<deployments, jobs, line>>

\* repo.Start: in Postgres the queue is ordered by the time of this step.
StoreRow(d, stored) ==
    /\ request[d].pc = "checked"
    /\ stored \/ ~InMemory
    /\ request' = [request EXCEPT ![d].pc = "stored"]
    /\ deployments' = IF stored
                      THEN [deployments EXCEPT ![d] = [status |-> "queued",
                                                       name |-> request[d].name]]
                      ELSE deployments
    /\ line' = IF InMemory THEN line ELSE Append(line, d)
    /\ UNCHANGED jobs

\* jobs.Enqueue; without a job the row stays, and the client gets an error.
StoreJob(d, done) ==
    /\ request[d].pc = "stored"
    /\ done \/ ~InMemory
    /\ request' = [request EXCEPT ![d].pc = "answered"]
    /\ jobs' = IF done THEN [jobs EXCEPT ![d] = "queued"] ELSE jobs
    /\ line' = IF InMemory THEN Append(line, d) ELSE line
    /\ UNCHANGED deployments

\* Mutant: a job waits until those before it are done, so a failed one blocks.
InTurnAfterDone(d) ==
    \E i \in 1..Len(line) : line[i] = d /\ \A k \in 1..(i - 1) : jobs[line[k]] = "done"

\* ClaimNext, and in multi-worker mode a job assigned to whoever claims it.
InTurn(d) ==
    \E i \in 1..Len(line) : line[i] = d /\ \A k \in 1..(i - 1) : jobs[line[k]] # "queued"

ClaimNext(d) ==
    /\ jobs[d] = "queued"
    /\ config.mode = "single" => InTurn(d)
    /\ jobs' = [jobs EXCEPT ![d] = "running"]

\* repo.Update of a row that exists; a lost write is only logged.
UpdateRow(d, status, name, stored) ==
    deployments' = IF stored
                   THEN [deployments EXCEPT ![d] = [status |-> status, name |-> name]]
                   ELSE deployments

=============================================================================
