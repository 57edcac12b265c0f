-------------------------- MODULE ControlPlaneProofs --------------------------
(***************************************************************************)
(* Proofs about the control plane, for any number of deployments, jobs and *)
(* workers, any configuration and any number of failures.                  *)
(***************************************************************************)
EXTENDS ControlPlaneProperties, TLAPS

-----------------------------------------------------------------------------
(* The inductive invariant *)

\* Job j may still lead to a deployment or to a write of the row.
Carrying(j) ==
    \/ jobs[j].status = "queued"
    \/ \E w \in RemoteWorkers : Executing(w, j)
    \/ ReportPending(j)
    \/ LocalBusyWith(j)

\* A row of the jobs table has a deployment, an unused id has none.
RowsOK ==
    \A j \in Jobs : jobs[j].status = "absent" <=> jobs[j].deployment = NoDeployment

\* Whoever executes a job is the only one, and nobody has reported it yet.
HoldersOK ==
    /\ \A w \in RemoteWorkers :
          agent[w].pc \in {"executing", "reporting"} => agent[w].job \in Jobs
    /\ \A w \in RemoteWorkers : \A j \in Jobs :
          Executing(w, j) => /\ jobs[j].status = "running"
                             /\ report[j].pc = "none"
                             /\ \A v \in RemoteWorkers : Executing(v, j) => v = w
    /\ local.pc # "idle" => /\ ControlPlaneAsWorker
                            /\ local.job \in Jobs
                            /\ jobs[local.job].status \notin {"absent", "queued"}
                            /\ report[local.job].pc = "none"
                            /\ \A w \in RemoteWorkers : ~Executing(w, local.job)
    /\ \A j \in Jobs :
          LocalBusyWith(j) => jobs[j].status = "running"
    /\ \A j \in Jobs :
          report[j].pc # "none" => /\ report[j].worker \in RemoteWorkers
                                   /\ jobs[j].status \notin {"absent", "queued"}

\* No two jobs of one deployment are under way.
Exclusive ==
    \A j, k \in Jobs :
        Carrying(j) /\ Carrying(k) /\ jobs[j].deployment = jobs[k].deployment => j = k

\* A job under way: no other is about to be stored, and it does not run yet.
Unshared ==
    \A j \in Jobs : \A d \in Deployments :
        Carrying(j) /\ jobs[j].deployment = d => ~Promised(d) /\ ~Running(d)

\* One promise at a time, none for a running deployment; who runs has an owner.
PromisesOK ==
    \A d \in Deployments :
        /\ ~(Promised(d) /\ Running(d))
        /\ ~(api[d] = "stored" /\ At("enqueue") /\ dist.dep = d)
        /\ Running(d) => deployments[d].owner \in Workers

\* Nothing is known of a deployment nobody has asked for.
NewOK ==
    \A d \in Deployments :
        api[d] = "new" => /\ deployments[d].status = "absent"
                          /\ \A j \in Jobs : jobs[j].deployment # d
                          /\ ~Promised(d)

\* What the distributor remembers still holds when it is used.
DistOK ==
    /\ dist.pc \in {"assign", "count", "release", "read", "record"} =>
          /\ dist.job \in Jobs
          /\ jobs[dist.job].status # "absent"
          /\ dist.target \in Workers
    /\ At("enqueue") => dist.dep \in Deployments
    /\ dist.pc \notin {"requeue", "enqueue"} => dist.dset = {}
    /\ \A d \in dist.dset : Running(d)
    /\ At("record") /\ dist.seen = "running" => Running(jobs[dist.job].deployment)

IInv ==
    /\ TypeOK /\ RowsOK /\ HoldersOK /\ Exclusive /\ Unshared
    /\ PromisesOK /\ NewOK /\ DistOK

NoLostRequeue == "requeue" \notin FaultKinds

-----------------------------------------------------------------------------
LEMMA ChoiceIsWorker == \A d : Choice(d) \subseteq Workers
BY DEF Choice, SmartChoice, FirstOf, LocalChoice, RemoteChoice, RemoteCandidates, Workers

LEMMA AtRestOK ==
    ASSUME dist' = AtRest
    PROVE  dist' \in DistRecord /\ DistOK'
BY DEF AtRest, DistRecord, DistOK, At, JobOrNone, WorkerOrNone, DeploymentOrNone,
   DeploymentStatus

\* MarkDone and MarkFailed: nothing but the status of one job.
LEMMA MarkingTyped ==
    ASSUME jobs \in [Jobs -> JobRecord], NEW j \in Jobs, NEW status \in {"done", "failed"},
           jobs' = [jobs EXCEPT ![j].status = status]
    PROVE  /\ jobs' \in [Jobs -> JobRecord]
           /\ jobs'[j].status = status /\ jobs'[j].deployment = jobs[j].deployment
           /\ \A k \in Jobs \ {j} : jobs'[k] = jobs[k]
<1>1. [jobs[j] EXCEPT !.status = status] \in JobRecord
  BY DEF JobRecord, JobStatus
<1>2. jobs'[j] = [jobs[j] EXCEPT !.status = status]
  OBVIOUS
<1> QED BY <1>1, <1>2 DEF JobRecord

LEMMA RemoteIsWorker == RemoteWorkers \subseteq Workers
BY DEF Workers

\* Every statement on the workers table keeps its type.
LEMMA WorkersTyped ==
    ASSUME workers \in [Workers -> WorkerRecord], NEW w,
           \/ Register(w) \/ UpdateHeartbeat(w) \/ MarkOffline(w)
           \/ IncrementJobCount(w) \/ DecrementJobCount(w)
           \/ \E status \in {"idle", "busy"}, current \in Nat :
                 UpdateWorker(w, status, current)
    PROVE  workers' \in [Workers -> WorkerRecord]
<1> USE DEF WorkerRecord, WorkerStatus
<1>1. ASSUME NEW r \in WorkerRecord, workers' = [workers EXCEPT ![w] = r]
      PROVE  workers' \in [Workers -> WorkerRecord]
  BY <1>1
<1>2. CASE w \in Workers
  <2>1. workers[w] \in WorkerRecord
    BY <1>2
  <2>2. CASE Register(w)
    BY <2>2, <1>1 DEF Register
  <2>3. CASE UpdateHeartbeat(w)
    <3> DEFINE r == [workers[w] EXCEPT !.fresh = TRUE]
    <3>1. r \in WorkerRecord
      BY <2>1
    <3>2. workers' = [workers EXCEPT ![w] = r]
      BY <2>3 DEF UpdateHeartbeat
    <3> QED BY <3>1, <3>2, <1>1
  <2>4. CASE MarkOffline(w)
    <3> DEFINE r == [workers[w] EXCEPT !.status = "offline"]
    <3>1. r \in WorkerRecord
      BY <2>1
    <3>2. workers' = [workers EXCEPT ![w] = r]
      BY <2>4 DEF MarkOffline
    <3> QED BY <3>1, <3>2, <1>1
  <2>5. CASE IncrementJobCount(w)
    <3> DEFINE status == IF workers[w].current + 1 >= MaxConcurrentJobs[w]
                         THEN "busy" ELSE workers[w].status
               current == workers[w].current + 1
               r == [workers[w] EXCEPT !.current = current, !.status = status]
    <3>1. status \in WorkerStatus /\ current \in Nat
      BY <2>1
    <3>2. workers' = [workers EXCEPT ![w] = r]
      BY <2>5 DEF IncrementJobCount
    <3> HIDE DEF status, current
    <3>3. r \in WorkerRecord
      BY <2>1, <3>1
    <3> QED BY <3>2, <3>3, <1>1
  <2>6. CASE DecrementJobCount(w)
    <3> DEFINE status == IF /\ workers[w].status = "busy"
                            /\ workers[w].current - 1 < MaxConcurrentJobs[w]
                         THEN "idle" ELSE workers[w].status
               current == IF workers[w].current > 0 THEN workers[w].current - 1 ELSE 0
               r == [workers[w] EXCEPT !.current = current, !.status = status]
    <3>1. status \in WorkerStatus /\ current \in Nat
      BY <2>1
    <3>2. workers' = [workers EXCEPT ![w] = r]
      BY <2>6 DEF DecrementJobCount
    <3> HIDE DEF status, current
    <3>3. r \in WorkerRecord
      BY <2>1, <3>1
    <3> QED BY <3>2, <3>3, <1>1
  <2>7. ASSUME NEW status \in {"idle", "busy"}, NEW current \in Nat,
               UpdateWorker(w, status, current)
        PROVE  workers' \in [Workers -> WorkerRecord]
    <3> DEFINE r == [workers[w] EXCEPT !.status = status, !.current = current]
    <3>1. r \in WorkerRecord
      BY <2>1
    <3>2. workers' = [workers EXCEPT ![w] = r]
      BY <2>7 DEF UpdateWorker
    <3> QED BY <3>1, <3>2, <1>1
  <2> QED BY <2>2, <2>3, <2>4, <2>5, <2>6, <2>7
<1>3. CASE w \notin Workers
  BY <1>3 DEF Register, UpdateHeartbeat, MarkOffline, IncrementJobCount,
     DecrementJobCount, UpdateWorker
<1> QED BY <1>2, <1>3

\* A step that writes no job, no deployment, no report and promises no job,
\* and lets agents at most stop what they do.
LEMMA QuietStep ==
    ASSUME IInv,
           UNCHANGED <<jobs, deployments, report, local, api>>,
           \A w \in RemoteWorkers :
               agent'[w] = agent[w] \/ agent'[w].pc \in {"down", "idle"},
           At("enqueue")' => UNCHANGED dist
    PROVE  RowsOK' /\ HoldersOK' /\ Exclusive' /\ Unshared' /\ PromisesOK' /\ NewOK'
<1> USE DEF IInv, Executing, ReportPending, LocalBusyWith
<1>1. \A j \in Jobs : Carrying(j)' => Carrying(j)
  BY DEF Carrying
<1>2. \A d \in Deployments : /\ Promised(d)' => Promised(d)
                             /\ Running(d)' <=> Running(d)
  BY DEF Promised, Running, At
<1>3. RowsOK'
  BY DEF RowsOK
<1>4. HoldersOK'
  BY DEF HoldersOK
<1>5. Exclusive'
  BY <1>1 DEF Exclusive
<1>6. Unshared'
  BY <1>1, <1>2 DEF Unshared
<1>7. PromisesOK'
  BY <1>2 DEF PromisesOK, At
<1>8. NewOK'
  BY <1>2 DEF NewOK
<1> QED BY <1>3, <1>4, <1>5, <1>6, <1>7, <1>8

\* A step that changes the holder or the status of a job, but no row of the
\* deployments table and nothing the distributor remembers.
LEMMA JobStep ==
    ASSUME IInv,
           UNCHANGED <<deployments, api, dist>>,
           \A j \in Jobs : /\ jobs'[j].deployment = jobs[j].deployment
                           /\ jobs'[j].status = "absent" <=> jobs[j].status = "absent"
                           /\ Carrying(j)' => Carrying(j)
    PROVE  RowsOK' /\ Exclusive' /\ Unshared' /\ PromisesOK' /\ NewOK' /\ DistOK'
<1> USE DEF IInv, Promised, Running, At
<1>1. RowsOK' /\ Exclusive'
  BY DEF RowsOK, Exclusive
<1>2. Unshared' /\ PromisesOK' /\ NewOK'
  BY DEF Unshared, PromisesOK, NewOK
<1>3. DistOK'
  BY DEF DistOK
<1> QED BY <1>1, <1>2, <1>3

\* A write of a deployment's row by whoever has its job.
LEMMA RowStep ==
    ASSUME IInv, NEW j \in Jobs, Carrying(j),
           NEW status \in DeploymentStatus \ {"absent"}, NEW owner \in WorkerOrNone,
           NEW stored \in BOOLEAN,
           UpdateDeployment(jobs[j].deployment, status, owner, stored),
           status = "running" => owner \in Workers /\ ~Carrying(j)',
           \A k \in Jobs : Carrying(k)' => Carrying(k),
           UNCHANGED <<jobs, api, dist>>
    PROVE  /\ deployments' \in [Deployments -> DeploymentRecord]
           /\ RowsOK' /\ Exclusive' /\ Unshared' /\ PromisesOK' /\ NewOK' /\ DistOK'
<1> DEFINE d == jobs[j].deployment
<1>1. d \in Deployments
  <2>1. jobs[j].status # "absent"
    BY DEF Carrying, IInv, HoldersOK, LocalBusyWith, Executing, ReportPending
  <2> QED BY <2>1 DEF IInv, TypeOK, RowsOK, JobRecord, DeploymentOrNone
<1>2. ~Promised(d) /\ ~Running(d) /\ api[d] # "new"
  BY <1>1 DEF IInv, Unshared, NewOK
<1>3. deployments' \in [Deployments -> DeploymentRecord]
  BY <1>1 DEF IInv, TypeOK, UpdateDeployment, DeploymentRecord
<1>4. /\ \A e \in Deployments \ {d} : deployments'[e] = deployments[e]
      /\ Running(d)' => status = "running" /\ deployments'[d].owner = owner
  BY <1>1, <1>2 DEF IInv, TypeOK, UpdateDeployment, DeploymentRecord, Running
<1>5. RowsOK' /\ Exclusive'
  BY DEF IInv, RowsOK, Exclusive
<1>6. Unshared'
  <2> SUFFICES ASSUME NEW k \in Jobs, NEW e \in Deployments,
                      Carrying(k)', jobs[k].deployment = e
               PROVE  ~Promised(e)' /\ ~Running(e)'
    BY DEF Unshared
  <2>1. Carrying(k) /\ ~Promised(e)' /\ ~Running(e)
    BY DEF IInv, Unshared, Promised, At
  <2>2. CASE e = d
    BY <2>1, <2>2, <1>4 DEF IInv, Exclusive
  <2>3. CASE e # d
    BY <2>1, <2>3, <1>4 DEF Running
  <2> QED BY <2>1, <2>2, <2>3
<1>7. PromisesOK'
  BY <1>1, <1>2, <1>4 DEF IInv, PromisesOK, Promised, Running, At
<1>8. NewOK'
  BY <1>1, <1>2, <1>4 DEF IInv, NewOK, Promised, At
<1>9. DistOK'
  <2>1. \A e \in Deployments : Running(e) => Running(e)'
    BY <1>2, <1>4 DEF Running
  <2>2. dist.dset \subseteq Deployments
    BY DEF IInv, TypeOK, DistRecord
  <2>3. At("record") => jobs[dist.job].deployment \in Deployments
    BY DEF At, IInv, DistOK, TypeOK, RowsOK, JobRecord, DeploymentOrNone
  <2> QED BY <2>1, <2>2, <2>3 DEF IInv, DistOK, At
<1> QED BY <1>3, <1>5, <1>6, <1>7, <1>8, <1>9

-----------------------------------------------------------------------------
(* The deploy API *)

LEMMA StoreDeploymentKeeps ==
    ASSUME IInv, NEW d \in Deployments, NEW stored \in BOOLEAN,
           StoreDeployment(d, stored), Outcome(stored, "swallowed"),
           UNCHANGED <<distVars, agentVars, local>>
    PROVE  IInv'
<1> USE DomainAssumed, ControlPlaneAssumed
    DEF DomainAssumption, ControlPlaneAssumption, IInv, TypeOK, JobRecord,
        DeploymentRecord, StoreDeployment, StartDeployment, UpdateDeployment, Outcome,
        Fault, distVars, agentVars, Executing, ReportPending, LocalBusyWith, Carrying,
        Promised, Running, At
<1>1. TypeOK'
  BY DEF DeploymentStatus, WorkerOrNone
<1>2. RowsOK' /\ HoldersOK' /\ Exclusive'
  BY DEF RowsOK, HoldersOK, Exclusive
<1>3. Unshared'
  BY DEF Unshared, NewOK
<1>4. PromisesOK'
  BY DEF PromisesOK, NewOK
<1>5. NewOK'
  BY DEF NewOK
<1>6. DistOK'
  BY DEF DistOK, NewOK
<1> QED BY <1>1, <1>2, <1>3, <1>4, <1>5, <1>6

LEMMA EnqueueDeploymentKeeps ==
    ASSUME IInv, NEW d \in Deployments, NEW done \in BOOLEAN,
           EnqueueDeployment(d, done), Outcome(done, "sql"),
           UNCHANGED <<distVars, agentVars, local>>
    PROVE  IInv'
<1> USE DomainAssumed, ControlPlaneAssumed
    DEF DomainAssumption, ControlPlaneAssumption, IInv, TypeOK, JobRecord,
        EnqueueDeployment, Enqueue, NewJob, Outcome, Fault, distVars, agentVars,
        Executing, ReportPending, LocalBusyWith, Carrying, Promised, Running, At
<1>1. TypeOK'
  BY DEF JobStatus, DeploymentOrNone, WorkerOrNone
<1>2. RowsOK'
  BY DEF RowsOK
<1>3. HoldersOK'
  BY SMTT(60) DEF HoldersOK
<1>4. Exclusive'
  BY DEF HoldersOK, Exclusive, Unshared
<1>5. Unshared'
  BY SMTT(60) DEF Unshared, PromisesOK
<1>6. PromisesOK'
  BY DEF PromisesOK
<1>7. NewOK'
  BY DEF NewOK
<1>8. DistOK'
  BY DEF DistOK
<1> QED BY <1>1, <1>2, <1>3, <1>4, <1>5, <1>6, <1>7, <1>8

-----------------------------------------------------------------------------
(* The distributor *)

\* The steps between two writes of a job or of a deployment.
LEMMA DistributorReadsKeep ==
    ASSUME IInv,
           \/ HealthScan \/ ListOffline \/ ListFailover \/ ListScores
           \/ ListRebalance \/ PickWorker,
           UNCHANGED <<agentVars, local, api, faults>>
    PROVE  IInv'
<1> USE DomainAssumed, ControlPlaneAssumed
    DEF DomainAssumption, ControlPlaneAssumption
<1>1. UNCHANGED <<jobs, deployments, workers, cooling, report, local, api, agent,
                  heartbeat, faults>>
  BY DEF HealthScan, ListOffline, ListFailover, ListScores, ListRebalance, PickWorker,
         agentVars
<1>2. dist' \in DistRecord /\ dist'.pc # "enqueue" /\ DistOK'
  <2>1. ASSUME NEW ws \in SUBSET Workers, NEW pc \in {"mark", "failover", "rebalance"},
               dist' = [dist EXCEPT !.pc = pc, !.wset = ws], dist.dset = {}
        PROVE  dist' \in DistRecord /\ dist'.pc # "enqueue" /\ DistOK'
    BY <2>1, <1>1 DEF IInv, TypeOK, DistRecord, DistOK, At
  <2>2. ASSUME NEW ds \in SUBSET Deployments, NEW loop \in {"failover", "rebalance"},
               \A d \in ds : Running(d),
               dist' = [dist EXCEPT !.pc = "requeue", !.loop = loop, !.wset = {},
                                    !.dset = ds]
        PROVE  dist' \in DistRecord /\ dist'.pc # "enqueue" /\ DistOK'
    BY <2>2, <1>1 DEF IInv, TypeOK, DistRecord, DistOK, At, Running
  <2>3. CASE HealthScan
    <3> DEFINE ws == {w \in RemoteWorkers : Online(w) /\ ~workers[w].fresh}
    <3>1. ws \in SUBSET Workers /\ dist.dset = {}
      BY <2>3, RemoteIsWorker DEF HealthScan, At, IInv, DistOK
    <3>2. dist' = [dist EXCEPT !.pc = "mark", !.wset = ws]
      BY <2>3 DEF HealthScan
    <3> QED BY <3>1, <3>2, <2>1
  <2>4. CASE ListOffline
    <3> DEFINE ws == {w \in Workers : workers[w].status = "offline"}
    <3>1. ws \in SUBSET Workers /\ dist.dset = {}
      BY <2>4 DEF ListOffline, At, IInv, DistOK
    <3>2. dist' = [dist EXCEPT !.pc = "failover", !.wset = ws]
      BY <2>4 DEF ListOffline
    <3> QED BY <3>1, <3>2, <2>1
  <2>5. CASE ListScores
    <3>1. Outscored \in SUBSET Workers /\ dist.dset = {}
      BY <2>5 DEF ListScores, Outscored
    <3>2. dist' = [dist EXCEPT !.pc = "rebalance", !.wset = Outscored]
      BY <2>5 DEF ListScores
    <3> QED BY <3>1, <3>2, <2>1
  <2>6. CASE ListFailover
    <3> DEFINE ds == {d \in Deployments :
                         Running(d) /\ deployments[d].owner \in dist.wset /\ MayMove(d)}
    <3>1. dist' = [dist EXCEPT !.pc = "requeue", !.loop = "failover", !.wset = {},
                               !.dset = ds]
      BY <2>6 DEF ListFailover
    <3>2. ds \in SUBSET Deployments /\ \A d \in ds : Running(d)
      OBVIOUS
    <3> QED BY <3>1, <3>2, <2>2
  <2>7. CASE ListRebalance
    <3> DEFINE ds == {d \in Deployments \ cooling :
                         Running(d) /\ deployments[d].owner \in dist.wset /\ MayMove(d)}
    <3>1. dist' = [dist EXCEPT !.pc = "requeue", !.loop = "rebalance", !.wset = {},
                               !.dset = ds]
      BY <2>7 DEF ListRebalance
    <3>2. ds \in SUBSET Deployments /\ \A d \in ds : Running(d)
      OBVIOUS
    <3> QED BY <3>1, <3>2, <2>2
  <2>8. CASE PickWorker
    <3>1. CASE dist' = AtRest
      BY <3>1, AtRestOK DEF AtRest, At
    <3>2. ASSUME NEW j \in Unassigned, NEW w \in Workers,
                 dist' = [AtRest EXCEPT !.pc = "assign", !.job = j, !.target = w]
          PROVE  dist' \in DistRecord /\ dist'.pc # "enqueue" /\ DistOK'
      BY <3>2, <1>1 DEF AtRest, DistRecord, DistOK, At, Unassigned, JobOrNone,
         WorkerOrNone, DeploymentOrNone, DeploymentStatus
    <3> QED BY <2>8, <3>1, <3>2, ChoiceIsWorker
        DEF PickWorker, GetNextUnassignedJob, Oldest
  <2> QED BY <2>3, <2>4, <2>5, <2>6, <2>7, <2>8
<1>3. TypeOK'
  BY <1>1, <1>2 DEF IInv, TypeOK
<1>4. RowsOK' /\ HoldersOK' /\ Exclusive' /\ Unshared' /\ PromisesOK' /\ NewOK'
  BY <1>1, <1>2, QuietStep DEF At
<1> QED BY <1>2, <1>3, <1>4 DEF IInv

LEMMA DistributorQuietKeeps ==
    ASSUME IInv, NEW done \in BOOLEAN,
           \/ RegisterControlPlane(done)
           \/ \E w \in RemoteWorkers : MarkStaleOffline(w, done)
           \/ CountJob(done)
           \/ ReadDeployment(done),
           Outcome(done, "sql"), UNCHANGED <<agentVars, local, api>>
    PROVE  IInv'
<1> USE DomainAssumed, ControlPlaneAssumed
    DEF DomainAssumption, ControlPlaneAssumption
<1>1. UNCHANGED <<jobs, deployments, cooling, report, local, api, agent, heartbeat>>
  BY DEF RegisterControlPlane, MarkStaleOffline, CountJob, ReadDeployment, agentVars
<1>2. faults' \in 0..MaxFaults
  BY DEF IInv, TypeOK, Outcome, Fault
<1>3. workers' \in [Workers -> WorkerRecord]
  BY WorkersTyped DEF RegisterControlPlane, MarkStaleOffline, CountJob, ReadDeployment,
     IInv, TypeOK
<1>4. dist' \in DistRecord /\ dist'.pc # "enqueue" /\ DistOK'
  <2>1. CASE RegisterControlPlane(done)
    BY <2>1 DEF RegisterControlPlane, AtRest, DistRecord, JobOrNone, WorkerOrNone,
       DeploymentOrNone, DeploymentStatus, DistOK, At
  <2>2. CASE \E w \in RemoteWorkers : MarkStaleOffline(w, done)
    BY <2>2, <1>1 DEF MarkStaleOffline, IInv, TypeOK, DistRecord, DistOK, At
  <2>3. CASE CountJob(done)
    BY <2>3, <1>1 DEF CountJob, IInv, TypeOK, DistRecord, DistOK, At
  <2>4. CASE ReadDeployment(done)
    <3>1. jobs[dist.job].deployment \in Deployments
      BY <2>4 DEF ReadDeployment, IInv, TypeOK, DistOK, At, RowsOK, JobRecord,
         DeploymentOrNone
    <3>2. dist' \in DistRecord
      BY <2>4, <3>1 DEF ReadDeployment, AtRest, IInv, TypeOK, DistRecord, JobOrNone,
         WorkerOrNone, DeploymentOrNone, DeploymentStatus, DeploymentRecord
    <3>3. DistOK' /\ dist'.pc # "enqueue"
      BY <2>4, <3>1, <1>1 DEF ReadDeployment, AtRest, IInv, TypeOK, DistRecord, DistOK,
         At, Running
    <3> QED BY <3>2, <3>3
  <2> QED BY <2>1, <2>2, <2>3, <2>4
<1>5. TypeOK'
  BY <1>1, <1>2, <1>3, <1>4 DEF IInv, TypeOK
<1>6. RowsOK' /\ HoldersOK' /\ Exclusive' /\ Unshared' /\ PromisesOK' /\ NewOK'
  BY <1>1, <1>4, QuietStep DEF At
<1> QED BY <1>4, <1>5, <1>6 DEF IInv

\* AssignToWorker and ReleaseFromWorker: who has a job is not touched.
LEMMA AssignmentKeeps ==
    ASSUME IInv, NEW done \in BOOLEAN, AssignJob(done) \/ ReleaseJob(done),
           Outcome(done, "sql"), UNCHANGED <<agentVars, local, api>>
    PROVE  IInv'
<1> USE DomainAssumed, ControlPlaneAssumed
    DEF DomainAssumption, ControlPlaneAssumption, IInv, TypeOK, AssignJob, ReleaseJob,
        AssignToWorker, ReleaseFromWorker, agentVars, At
<1>1. \A j \in Jobs : /\ jobs'[j].status = jobs[j].status
                      /\ jobs'[j].deployment = jobs[j].deployment
  BY DEF JobRecord
<1>2. UNCHANGED <<deployments, workers, cooling, report, local, api, agent, heartbeat>>
  OBVIOUS
<1>3. \A j \in Jobs : Carrying(j)' <=> Carrying(j)
  BY <1>1, <1>2 DEF Carrying, Executing, ReportPending, LocalBusyWith
<1>4. dist' \in DistRecord /\ dist'.pc # "enqueue"
  BY DEF AtRest, DistRecord, JobOrNone, WorkerOrNone, DeploymentOrNone, DeploymentStatus
<1>5. TypeOK'
  <2>1. jobs' \in [Jobs -> JobRecord]
    <3>1. jobs' = jobs \/ \E w \in WorkerOrNone : jobs' = [jobs EXCEPT ![dist.job].worker = w]
      BY DEF WorkerOrNone, DistOK
    <3>2. ASSUME NEW w \in WorkerOrNone, NEW r \in JobRecord PROVE [r EXCEPT !.worker = w] \in JobRecord
      BY DEF JobRecord
    <3>3. jobs \in [Jobs -> JobRecord] /\ dist.job \in Jobs
      BY DEF DistOK
    <3> HIDE DEF IInv, TypeOK, AssignJob, ReleaseJob, AssignToWorker, ReleaseFromWorker
    <3>4. ASSUME NEW w \in WorkerOrNone, jobs' = [jobs EXCEPT ![dist.job].worker = w]
          PROVE  jobs' \in [Jobs -> JobRecord]
      <4>1. [jobs[dist.job] EXCEPT !.worker = w] \in JobRecord
        BY <3>2, <3>3
      <4> QED BY <3>3, <3>4, <4>1
    <3> QED BY <3>1, <3>3, <3>4
  <2>2. faults' \in 0..MaxFaults
    BY DEF Outcome, Fault
  <2> QED BY <1>2, <1>4, <2>1, <2>2
<1>6. RowsOK' /\ HoldersOK' /\ Exclusive'
  BY <1>1, <1>2, <1>3 DEF RowsOK, HoldersOK, Exclusive, Executing, LocalBusyWith
<1>7. Unshared'
  BY <1>1, <1>2, <1>3, <1>4 DEF Unshared, Promised, Running
<1>8. PromisesOK'
  BY <1>1, <1>2, <1>4 DEF PromisesOK, Promised, Running
<1>9. NewOK'
  BY <1>1, <1>2, <1>4 DEF NewOK, Promised, Running
<1>10. DistOK'
  BY <1>1, <1>2 DEF DistOK, AtRest, DistRecord
<1> QED BY <1>5, <1>6, <1>7, <1>8, <1>9, <1>10

LEMMA RecordAssignmentKeeps ==
    ASSUME IInv, NEW stored \in BOOLEAN, RecordAssignment(stored),
           Outcome(stored, "swallowed"), UNCHANGED <<agentVars, local, api>>
    PROVE  IInv'
<1> DEFINE d == jobs[dist.job].deployment
           status == IF dist.seen = "queued" THEN "deploying" ELSE dist.seen
<1> USE DomainAssumed, ControlPlaneAssumed
    DEF DomainAssumption, ControlPlaneAssumption
<1>1. UNCHANGED <<jobs, workers, cooling, agent, heartbeat, report, local, api>>
      /\ dist' = AtRest
  BY DEF RecordAssignment, agentVars
<1>2. d \in Deployments /\ dist.target \in Workers /\ status \in DeploymentStatus
      /\ dist.job \in Jobs
  BY DEF RecordAssignment, At, IInv, DistOK, TypeOK, RowsOK, JobRecord, DeploymentOrNone,
     DistRecord, DeploymentStatus
<1>3. /\ \A e \in Deployments \ {d} : deployments'[e] = deployments[e]
      /\ deployments'[d] = deployments[d]
         \/ deployments'[d] = [status |-> status, owner |-> dist.target]
  BY <1>2 DEF RecordAssignment, UpdateDeployment, IInv, TypeOK, DeploymentRecord
<1>4. \A e \in Deployments : Running(e)' => Running(e)
  BY <1>2, <1>3 DEF RecordAssignment, Running, IInv, DistOK, At
<1>5. TypeOK'
  <2>1. deployments' \in [Deployments -> DeploymentRecord]
    <3> HIDE DEF status
    <3> QED BY <1>2 DEF RecordAssignment, UpdateDeployment, IInv, TypeOK, DeploymentRecord,
                        WorkerOrNone, status
  <2>2. faults' \in 0..MaxFaults
    BY DEF IInv, TypeOK, Outcome, Fault
  <2> QED BY <2>1, <2>2, <1>1, AtRestOK DEF IInv, TypeOK
<1>6. RowsOK' /\ HoldersOK' /\ Exclusive'
  <2>1. RowsOK'
    BY <1>1 DEF IInv, RowsOK
  <2>2. HoldersOK'
    BY <1>1 DEF IInv, HoldersOK, Executing, LocalBusyWith
  <2>3. Exclusive'
    BY <1>1 DEF IInv, Exclusive, Carrying, Executing, ReportPending, LocalBusyWith
  <2> QED BY <2>1, <2>2, <2>3
<1>7. \A e \in Deployments : ~At("enqueue")' /\ (Promised(e)' => Promised(e))
  BY <1>1 DEF Promised, At, AtRest
<1>8. Unshared'
  BY <1>1, <1>4, <1>7 DEF IInv, Unshared, Carrying, Executing, ReportPending, LocalBusyWith
<1>9. PromisesOK'
  BY <1>2, <1>3, <1>4, <1>7 DEF IInv, PromisesOK, Running
<1>10. NewOK'
  BY <1>1, <1>2, <1>3, <1>7 DEF IInv, NewOK
<1>11. DistOK'
  BY <1>1, AtRestOK
<1> QED BY <1>5, <1>6, <1>8, <1>9, <1>10, <1>11 DEF IInv

LEMMA RequeueDeploymentKeeps ==
    ASSUME IInv, NoLostRequeue, NEW d \in Deployments, NEW stored \in BOOLEAN,
           RequeueDeployment(d, stored), Outcome(stored, "requeue"),
           UNCHANGED <<agentVars, local, api>>
    PROVE  IInv'
<1> USE DomainAssumed, ControlPlaneAssumed
    DEF DomainAssumption, ControlPlaneAssumption
<1>1. UNCHANGED <<jobs, workers, cooling, agent, heartbeat, report, local, api, faults>>
      /\ dist' = [dist EXCEPT !.pc = "enqueue", !.dset = @ \ {d}, !.dep = d]
      /\ deployments' = [deployments EXCEPT ![d] = [status |-> "queued", owner |-> NoWorker]]
  BY DEF RequeueDeployment, UpdateDeployment, Outcome, Fault, NoLostRequeue, agentVars
<1>2. d \in dist.dset /\ Running(d) /\ ~Promised(d) /\ api[d] # "new" /\ At("requeue")
  BY DEF RequeueDeployment, IInv, DistOK, PromisesOK, NewOK, Running
<1>3. TypeOK'
  BY <1>1 DEF IInv, TypeOK, DistRecord, DeploymentOrNone, DeploymentRecord,
     DeploymentStatus, WorkerOrNone
<1>4. \A e \in Deployments : /\ Running(e)' <=> Running(e) /\ e # d
                             /\ Promised(e)' <=> Promised(e) \/ e = d
  BY <1>1, <1>2 DEF IInv, TypeOK, DeploymentRecord, DistRecord, Running, Promised, At
<1>5. RowsOK' /\ HoldersOK' /\ Exclusive'
  BY <1>1 DEF IInv, RowsOK, HoldersOK, Exclusive, Carrying, Executing, ReportPending,
     LocalBusyWith
<1>6. Unshared'
  BY <1>1, <1>2, <1>4 DEF IInv, Unshared, Carrying, Executing, ReportPending, LocalBusyWith
<1>7. PromisesOK'
  BY <1>1, <1>2, <1>4 DEF IInv, TypeOK, PromisesOK, Running, Promised, At, DistRecord
<1>8. NewOK'
  BY <1>1, <1>2, <1>4 DEF IInv, TypeOK, NewOK
<1>9. DistOK'
  BY <1>1, <1>2, <1>4 DEF IInv, TypeOK, DistOK, DistRecord, At
<1> QED BY <1>3, <1>5, <1>6, <1>7, <1>8, <1>9 DEF IInv

LEMMA RequeueJobKeeps ==
    ASSUME IInv, NEW done \in BOOLEAN, RequeueJob(done), Outcome(done, "sql"),
           UNCHANGED <<agentVars, local, api>>, NEW d, d = dist.dep
    PROVE  IInv'
<1> USE DomainAssumed, ControlPlaneAssumed
    DEF DomainAssumption, ControlPlaneAssumption
<1>1. UNCHANGED <<workers, deployments, agent, heartbeat, report, local, api>>
      /\ dist' = [dist EXCEPT !.pc = "requeue", !.dep = NoDeployment]
      /\ At("enqueue") /\ d \in Deployments
      /\ cooling' \in SUBSET Deployments
      /\ faults' \in 0..MaxFaults
  BY DEF RequeueJob, agentVars, IInv, DistOK, TypeOK, Outcome, Fault
<1>2. \A e \in Deployments : /\ Running(e)' <=> Running(e)
                             /\ Promised(e)' => Promised(e) /\ e # d
  BY <1>1 DEF IInv, TypeOK, DistRecord, PromisesOK, Running, Promised, At
<1>3. dist' \in DistRecord
  BY <1>1 DEF IInv, TypeOK, DistRecord, DeploymentOrNone
<1>4. PromisesOK' /\ DistOK'
  <2>1. PromisesOK'
    BY <1>1, <1>2 DEF IInv, PromisesOK, At, Running
  <2>2. DistOK'
    BY <1>1, <1>2 DEF IInv, TypeOK, DistRecord, DistOK, At
  <2> QED BY <2>1, <2>2
<1>5. CASE UNCHANGED jobs
  <2>1. RowsOK' /\ HoldersOK' /\ Exclusive'
    BY <1>1, <1>5 DEF IInv, RowsOK, HoldersOK, Exclusive, Carrying, Executing,
       ReportPending, LocalBusyWith
  <2>2. Unshared' /\ NewOK'
    BY <1>1, <1>2, <1>5 DEF IInv, Unshared, NewOK, Carrying, Executing, ReportPending,
       LocalBusyWith
  <2> QED BY <1>1, <1>3, <1>4, <1>5, <2>1, <2>2 DEF IInv, TypeOK
<1>6. ASSUME NEW j \in Jobs, Enqueue(j, d)
      PROVE  IInv'
  <2>1. /\ jobs[j].status = "absent"
        /\ jobs' \in [Jobs -> JobRecord]
        /\ jobs'[j].status = "queued" /\ jobs'[j].deployment = d
        /\ \A k \in Jobs \ {j} : jobs'[k] = jobs[k]
    BY <1>1, <1>6 DEF Enqueue, NewJob, IInv, TypeOK, JobRecord, JobStatus,
       DeploymentOrNone, WorkerOrNone
  <2>2. \A k \in Jobs \ {j} : Carrying(k)' <=> Carrying(k)
    BY <1>1, <2>1 DEF Carrying, Executing, ReportPending, LocalBusyWith
  <2>3. \A k \in Jobs : Carrying(k) => jobs[k].deployment # d
    BY <1>1 DEF IInv, Unshared, Promised
  <2>4. RowsOK'
    BY <1>1, <2>1 DEF IInv, RowsOK
  <2>5. HoldersOK'
    BY <1>1, <2>1, SMTT(60) DEF IInv, HoldersOK, Executing, LocalBusyWith
  <2>6. Exclusive'
    BY <2>1, <2>2, <2>3 DEF IInv, Exclusive
  <2>7. Unshared'
    <3>1. ~Running(d)' /\ ~Promised(d)'
      BY <1>1, <1>2 DEF IInv, PromisesOK, Promised
    <3> QED BY <1>2, <2>1, <2>2, <3>1 DEF IInv, Unshared
  <2>8. NewOK'
    <3>1. api[d] # "new"
      BY <1>1 DEF IInv, NewOK, Promised
    <3> QED BY <1>1, <1>2, <2>1, <3>1 DEF IInv, NewOK
  <2> QED BY <1>1, <1>3, <1>4, <2>1, <2>4, <2>5, <2>6, <2>7, <2>8 DEF IInv, TypeOK
<1> QED BY <1>5, <1>6, <1>1 DEF RequeueJob

LEMMA CooldownKeeps ==
    ASSUME IInv, NEW d \in Deployments, CooldownElapses(d),
           UNCHANGED <<agentVars, local, api, faults>>
    PROVE  IInv'
<1>1. UNCHANGED <<jobs, workers, deployments, dist, agent, heartbeat, report, local, api,
                  faults>>
      /\ cooling' \in SUBSET Deployments
  BY DEF CooldownElapses, agentVars, IInv, TypeOK
<1>2. RowsOK' /\ HoldersOK' /\ Exclusive' /\ Unshared' /\ PromisesOK' /\ NewOK'
  BY <1>1, QuietStep
<1>3. TypeOK' /\ DistOK'
  BY <1>1 DEF IInv, TypeOK, DistOK, At, Running
<1> QED BY <1>2, <1>3 DEF IInv

LEMMA DistributorKeeps ==
    ASSUME IInv, NoLostRequeue, DistributorNext
    PROVE  IInv'
<1>1. UNCHANGED <<agentVars, local, api>>
  BY DEF DistributorNext
<1>2. CASE /\ \/ HealthScan \/ ListOffline \/ ListFailover \/ ListScores
              \/ ListRebalance \/ PickWorker
           /\ UNCHANGED faults
  BY <1>1, <1>2, DistributorReadsKeep
<1>3. ASSUME NEW done \in BOOLEAN, Outcome(done, "sql"),
             \/ RegisterControlPlane(done)
             \/ \E w \in RemoteWorkers : MarkStaleOffline(w, done)
             \/ CountJob(done)
             \/ ReadDeployment(done)
      PROVE  IInv'
  BY <1>1, <1>3, DistributorQuietKeeps
<1>4. ASSUME NEW done \in BOOLEAN, Outcome(done, "sql"), AssignJob(done) \/ ReleaseJob(done)
      PROVE  IInv'
  BY <1>1, <1>4, AssignmentKeeps
<1>5. ASSUME NEW done \in BOOLEAN, Outcome(done, "sql"), RequeueJob(done)
      PROVE  IInv'
  BY <1>1, <1>5, RequeueJobKeeps
<1>6. ASSUME NEW done \in BOOLEAN, Outcome(done, "swallowed"), RecordAssignment(done)
      PROVE  IInv'
  BY <1>1, <1>6, RecordAssignmentKeeps
<1>7. ASSUME NEW done \in BOOLEAN, Outcome(done, "requeue"),
             NEW d \in Deployments, RequeueDeployment(d, done)
      PROVE  IInv'
  BY <1>1, <1>7, RequeueDeploymentKeeps
<1> QED BY <1>2, <1>3, <1>4, <1>5, <1>6, <1>7 DEF DistributorNext, DistributorStep

-----------------------------------------------------------------------------
(* The agents *)

\* Everything about a worker but what it executes.
LEMMA AgentQuietKeeps ==
    ASSUME IInv, NEW w \in RemoteWorkers,
           \/ AgentStart(w) \/ ReceiveResponse(w) \/ ResponseTimeout(w) \/ AgentCrash(w)
           \/ SendHeartbeat(w) \/ (\E done \in BOOLEAN : ApplyHeartbeat(w, done))
           \/ HeartbeatExpires(w),
           faults' \in 0..MaxFaults, UNCHANGED <<distVars, local, api>>
    PROVE  IInv'
<1>1. UNCHANGED <<jobs, deployments, report, local, api, dist, cooling>>
  BY DEF AgentStart, ReceiveResponse, ResponseTimeout, StopWaiting, AgentCrash,
     SendHeartbeat, ApplyHeartbeat, HeartbeatExpires, distVars, agentVars
<1>2. /\ agent' \in [RemoteWorkers -> AgentRecord]
      /\ \A v \in RemoteWorkers : agent'[v] = agent[v] \/ agent'[v].pc \in {"down", "idle"}
  BY DEF AgentStart, ReceiveResponse, ResponseTimeout, StopWaiting, AgentCrash,
     SendHeartbeat, ApplyHeartbeat, HeartbeatExpires, agentVars, Polling, Down, IInv,
     TypeOK, AgentRecord, JobOrNone
<1>3. heartbeat' \in [RemoteWorkers -> {"none", "idle", "busy"}]
  BY DEF AgentStart, ReceiveResponse, ResponseTimeout, StopWaiting, AgentCrash,
     SendHeartbeat, ApplyHeartbeat, HeartbeatExpires, agentVars, IInv, TypeOK
<1>4. workers' \in [Workers -> WorkerRecord]
  <2>1. CASE AgentStart(w) \/ SendHeartbeat(w)
    BY <2>1, WorkersTyped DEF AgentStart, SendHeartbeat, IInv, TypeOK
  <2>2. CASE \E done \in BOOLEAN : ApplyHeartbeat(w, done)
    <3>1. heartbeat[w] \in {"idle", "busy"}
      BY <2>2 DEF ApplyHeartbeat, IInv, TypeOK
    <3>2. \/ UNCHANGED workers
          \/ \E status \in {"idle", "busy"}, current \in Nat : UpdateWorker(w, status, current)
      BY <2>2, <3>1 DEF ApplyHeartbeat
    <3> QED BY <3>2, WorkersTyped DEF IInv, TypeOK
  <2>3. CASE HeartbeatExpires(w)
    <3>1. w \in Workers
      BY RemoteIsWorker
    <3> DEFINE r == [workers[w] EXCEPT !.fresh = FALSE]
    <3>2. r \in WorkerRecord
      BY <3>1 DEF IInv, TypeOK, WorkerRecord
    <3>3. workers' = [workers EXCEPT ![w] = r]
      BY <2>3 DEF HeartbeatExpires
    <3> QED BY <3>2, <3>3 DEF IInv, TypeOK
  <2>4. CASE ReceiveResponse(w) \/ ResponseTimeout(w) \/ AgentCrash(w)
    BY <2>4 DEF ReceiveResponse, ResponseTimeout, StopWaiting, AgentCrash, IInv, TypeOK
  <2> QED BY <2>1, <2>2, <2>3, <2>4
<1>5. RowsOK' /\ HoldersOK' /\ Exclusive' /\ Unshared' /\ PromisesOK' /\ NewOK'
  BY <1>1, <1>2, QuietStep
<1>6. TypeOK'
  BY <1>1, <1>2, <1>3, <1>4 DEF IInv, TypeOK
<1>7. DistOK'
  BY <1>1 DEF IInv, DistOK, At, Running
<1> QED BY <1>5, <1>6, <1>7 DEF IInv

LEMMA ClaimKeeps ==
    ASSUME IInv, NEW w \in RemoteWorkers, NEW delivered \in BOOLEAN, Claim(w, delivered),
           faults' \in 0..MaxFaults, UNCHANGED <<distVars, local, api>>
    PROVE  IInv'
<1>1. PICK j \in Jobs :
          /\ ClaimForWorker(j, w)
          /\ agent' = IF delivered
                      THEN [agent EXCEPT ![w] = [pc |-> "executing", job |-> j]]
                      ELSE agent
  BY DEF Claim
<1>2. UNCHANGED <<workers, deployments, heartbeat, report, dist, cooling, local, api>>
  BY DEF Claim, distVars
<1>3. /\ jobs[j].status = "queued"
      /\ jobs' \in [Jobs -> JobRecord]
      /\ jobs'[j].status = "running" /\ jobs'[j].deployment = jobs[j].deployment
      /\ \A k \in Jobs \ {j} : jobs'[k] = jobs[k]
  BY <1>1 DEF ClaimForWorker, Oldest, AssignedQueued, IInv, TypeOK, JobRecord, JobStatus
<1>4. agent' \in [RemoteWorkers -> AgentRecord]
  BY <1>1 DEF IInv, TypeOK, AgentRecord, JobOrNone
<1>5. \A v \in RemoteWorkers, k \in Jobs :
          Executing(v, k)' => Executing(v, k) \/ (v = w /\ k = j)
  BY <1>1 DEF Executing, IInv, TypeOK, AgentRecord
<1>6. \A k \in Jobs : Carrying(k)' => Carrying(k)
  BY <1>2, <1>3, <1>5 DEF Carrying, ReportPending, LocalBusyWith
<1>7. HoldersOK'
  <2>1. /\ \A v \in RemoteWorkers : ~Executing(v, j)
        /\ report[j].pc = "none" /\ (local.pc # "idle" => local.job # j)
    BY <1>3 DEF IInv, TypeOK, ReportRecord, HoldersOK
  <2>2. \A v \in RemoteWorkers :
            agent'[v].pc \in {"executing", "reporting"} => agent'[v].job \in Jobs
    BY <1>1 DEF IInv, TypeOK, AgentRecord, HoldersOK
  <2> QED BY <1>2, <1>3, <1>5, <2>1, <2>2, SMTT(60) DEF IInv, HoldersOK, LocalBusyWith
<1>8. RowsOK' /\ Exclusive' /\ Unshared' /\ PromisesOK' /\ NewOK' /\ DistOK'
  BY <1>2, <1>3, <1>6, JobStep
<1>9. TypeOK'
  BY <1>2, <1>3, <1>4 DEF IInv, TypeOK
<1> QED BY <1>7, <1>8, <1>9 DEF IInv

LEMMA FinishJobKeeps ==
    ASSUME IInv, NEW w \in RemoteWorkers, NEW ok \in BOOLEAN, NEW delivered \in BOOLEAN,
           FinishJob(w, ok, delivered),
           faults' \in 0..MaxFaults, UNCHANGED <<distVars, local, api>>
    PROVE  IInv'
<1>1. UNCHANGED <<jobs, workers, deployments, heartbeat, dist, cooling, local, api>>
  BY DEF FinishJob, distVars
<1>2. CASE delivered
  <2>1. PICK j \in Jobs : j = agent[w].job
    BY DEF FinishJob, IInv, HoldersOK
  <2>2. /\ Executing(w, j)
        /\ agent' = [agent EXCEPT ![w].pc = "reporting"]
        /\ report' = [report EXCEPT ![j] = [pc |-> "mark", worker |-> w, ok |-> ok]]
    BY <1>2, <2>1 DEF FinishJob, Executing
  <2>3. /\ agent' \in [RemoteWorkers -> AgentRecord]
        /\ report' \in [Jobs -> ReportRecord]
    BY <2>1, <2>2, RemoteIsWorker
    DEF IInv, TypeOK, AgentRecord, ReportRecord, WorkerOrNone
  <2>4. \A v \in RemoteWorkers, k \in Jobs :
            Executing(v, k)' => Executing(v, k) /\ k # j
    BY <2>1, <2>2 DEF Executing, IInv, TypeOK, AgentRecord, HoldersOK
  <2>5. \A k \in Jobs : Carrying(k)' => Carrying(k)
    BY <1>1, <2>2, <2>4 DEF Carrying, ReportPending, LocalBusyWith, IInv, TypeOK
  <2>6. HoldersOK'
    <3>1. jobs[j].status = "running" /\ ~(local.pc # "idle" /\ local.job = j)
      BY <2>2 DEF IInv, HoldersOK
    <3>2. \A k \in Jobs : /\ report'[k].pc # "none" => k = j \/ report[k].pc # "none"
                          /\ k # j => report'[k] = report[k]
                          /\ report'[j].worker = w
      BY <2>2 DEF IInv, TypeOK
    <3>3. \A v \in RemoteWorkers :
              agent'[v].pc \in {"executing", "reporting"} => agent'[v].job \in Jobs
      BY <2>1, <2>2 DEF IInv, TypeOK, AgentRecord, HoldersOK
    <3> QED BY <1>1, <2>4, <3>1, <3>2, <3>3, SMTT(60) DEF IInv, HoldersOK, LocalBusyWith
  <2>7. RowsOK' /\ Exclusive' /\ Unshared' /\ PromisesOK' /\ NewOK' /\ DistOK'
    BY <1>1, <2>5, JobStep
  <2> QED BY <1>1, <2>3, <2>6, <2>7 DEF IInv, TypeOK
<1>3. CASE ~delivered
  <2>1. UNCHANGED report /\ agent' = [agent EXCEPT ![w] = Polling]
    BY <1>3 DEF FinishJob
  <2>2. /\ agent' \in [RemoteWorkers -> AgentRecord]
        /\ \A v \in RemoteWorkers : agent'[v] = agent[v] \/ agent'[v].pc \in {"down", "idle"}
    BY <2>1 DEF Polling, IInv, TypeOK, AgentRecord, JobOrNone
  <2>3. RowsOK' /\ HoldersOK' /\ Exclusive' /\ Unshared' /\ PromisesOK' /\ NewOK'
    BY <1>1, <2>1, <2>2, QuietStep
  <2>4. TypeOK' /\ DistOK'
    BY <1>1, <2>1, <2>2 DEF IInv, TypeOK, DistOK, At, Running
  <2> QED BY <2>3, <2>4 DEF IInv
<1> QED BY <1>2, <1>3

LEMMA WorkerKeeps ==
    ASSUME IInv, NEW w \in RemoteWorkers,
           \/ AgentNext(w) \/ HeartbeatNext(w) \/ SilenceNext(w) \/ CrashNext(w)
           \/ TimeoutNext(w)
    PROVE  IInv'
<1>1. UNCHANGED <<distVars, local, api>>
  BY DEF AgentNext, HeartbeatNext, SilenceNext, CrashNext, TimeoutNext
<1>2. faults' \in 0..MaxFaults
  BY ControlPlaneAssumed DEF ControlPlaneAssumption, AgentNext, AgentStep, HeartbeatNext,
     HeartbeatStep, SilenceNext, Silence, CrashNext, Crash, TimeoutNext, Timeout, Outcome,
     Fault, IInv, TypeOK
<1>3. \/ AgentStart(w) \/ ReceiveResponse(w) \/ ResponseTimeout(w) \/ AgentCrash(w)
      \/ SendHeartbeat(w) \/ (\E done \in BOOLEAN : ApplyHeartbeat(w, done))
      \/ HeartbeatExpires(w)
      \/ \E delivered \in BOOLEAN : Claim(w, delivered)
      \/ \E delivered, ok \in BOOLEAN : FinishJob(w, ok, delivered)
  BY DEF AgentNext, AgentStep, HeartbeatNext, HeartbeatStep, SilenceNext, Silence,
     CrashNext, Crash, TimeoutNext, Timeout
<1> QED BY <1>1, <1>2, <1>3, AgentQuietKeeps, ClaimKeeps, FinishJobKeeps

-----------------------------------------------------------------------------
(* The handlers of the reports *)

LEMMA ReportKeeps ==
    ASSUME IInv, NEW j \in Jobs, ReportNext(j)
    PROVE  IInv'
<1>1. UNCHANGED <<dist, cooling, agent, heartbeat, local, api>>
  BY DEF ReportNext, ReportStep, MarkReported, DecrementReported, SettleReported, distVars
<1>2. PICK done \in BOOLEAN :
          MarkReported(j, done) \/ DecrementReported(j, done) \/ SettleReported(j, done)
  BY DEF ReportNext, ReportStep
<1>3. faults' \in 0..MaxFaults
  BY ControlPlaneAssumed DEF ControlPlaneAssumption, ReportNext, ReportStep, Outcome,
     Fault, IInv, TypeOK
<1>4. /\ ReportPending(j) /\ report[j].worker \in RemoteWorkers
      /\ jobs[j].status \notin {"absent", "queued"}
      /\ \A w \in RemoteWorkers : ~Executing(w, j)
      /\ local.pc # "idle" => local.job # j
  <2>1. report[j].pc # "none" /\ ReportPending(j)
    BY <1>2 DEF MarkReported, DecrementReported, SettleReported, ReportPending
  <2> QED BY <2>1 DEF IInv, HoldersOK
<1>5. \E pc \in {"decrement", "settle", "over"} : report' = [report EXCEPT ![j].pc = pc]
  BY <1>2 DEF MarkReported, DecrementReported, SettleReported
<1>6. /\ report' \in [Jobs -> ReportRecord]
      /\ report'[j].worker = report[j].worker
      /\ \A k \in Jobs \ {j} : report'[k] = report[k]
  BY <1>5 DEF IInv, TypeOK, ReportRecord
<1>7. jobs' = jobs
      \/ \E status \in {"done", "failed"} : jobs' = [jobs EXCEPT ![j].status = status]
  BY <1>2 DEF MarkReported, DecrementReported, SettleReported, MarkDone, MarkFailed
<1>8. /\ jobs' \in [Jobs -> JobRecord]
      /\ jobs'[j].status \notin {"absent", "queued"}
      /\ jobs'[j].deployment = jobs[j].deployment
      /\ \A k \in Jobs \ {j} : jobs'[k] = jobs[k]
  <2>1. CASE jobs' = jobs
    BY <1>4, <2>1 DEF IInv, TypeOK
  <2>2. CASE \E status \in {"done", "failed"} : jobs' = [jobs EXCEPT ![j].status = status]
    <3>1. PICK status \in {"done", "failed"} : jobs' = [jobs EXCEPT ![j].status = status]
      BY <2>2
    <3> QED BY <3>1, MarkingTyped DEF IInv, TypeOK
  <2> QED BY <1>7, <2>1, <2>2
<1>9. \A k \in Jobs : Carrying(k)' => Carrying(k)
  BY <1>1, <1>4, <1>6, <1>8 DEF Carrying, ReportPending, Executing, LocalBusyWith
<1>10. HoldersOK'
  BY <1>1, <1>4, <1>6, <1>8, SMTT(60) DEF IInv, HoldersOK, Executing, LocalBusyWith
<1>11. workers' \in [Workers -> WorkerRecord]
  BY <1>2, WorkersTyped DEF MarkReported, DecrementReported, SettleReported, IInv, TypeOK
<1>12. CASE UNCHANGED deployments
  <2>1. RowsOK' /\ Exclusive' /\ Unshared' /\ PromisesOK' /\ NewOK' /\ DistOK'
    BY <1>1, <1>4, <1>8, <1>9, <1>12, JobStep
  <2> QED BY <1>1, <1>3, <1>6, <1>8, <1>10, <1>11, <1>12, <2>1 DEF IInv, TypeOK
<1>13. CASE SettleReported(j, done)
  <2> DEFINE status == IF report[j].ok THEN "running" ELSE "failed"
             stored == done /\ Stored(jobs[j].deployment)
  <2>1. /\ UpdateDeployment(jobs[j].deployment, status, report[j].worker, stored)
        /\ UNCHANGED <<jobs, workers>>
        /\ ~ReportPending(j)'
    BY <1>13 DEF SettleReported, ReportPending, IInv, TypeOK, ReportRecord
  <2>2. ~Carrying(j)'
    BY <1>1, <1>4, <2>1 DEF Carrying, Executing, LocalBusyWith
  <2>3. Carrying(j)
    BY <1>4 DEF Carrying
  <2>4. report[j].worker \in Workers /\ report[j].worker \in WorkerOrNone
    BY <1>4, RemoteIsWorker DEF WorkerOrNone
  <2>5. status \in DeploymentStatus \ {"absent"} /\ stored \in BOOLEAN
    BY DEF DeploymentStatus
  <2> HIDE DEF status, stored
  <2>6. /\ deployments' \in [Deployments -> DeploymentRecord]
        /\ RowsOK' /\ Exclusive' /\ Unshared' /\ PromisesOK' /\ NewOK' /\ DistOK'
    BY <1>1, <1>9, <2>1, <2>2, <2>3, <2>4, <2>5, RowStep
  <2> QED BY <1>1, <1>3, <1>6, <1>8, <1>10, <2>1, <2>6 DEF IInv, TypeOK
<1> QED BY <1>2, <1>12, <1>13 DEF MarkReported, DecrementReported

-----------------------------------------------------------------------------
(* The embedded worker *)

LEMMA LocalIdleTyped == LocalIdle \in LocalRecord
BY DEF LocalIdle, LocalRecord, JobOrNone, WorkerOrNone

LEMMA LocalTyped ==
    ASSUME local \in LocalRecord, NEW pc, NEW owner \in WorkerOrNone, NEW ok \in BOOLEAN,
           pc \in {"claimed", "fetched", "building", "built", "settled", "release"},
           \/ local' = [local EXCEPT !.pc = pc]
           \/ local' = [local EXCEPT !.pc = pc, !.owner = owner]
           \/ local' = [local EXCEPT !.pc = pc, !.ok = ok]
    PROVE  local' \in LocalRecord /\ local'.job = local.job /\ local'.pc = pc
<1> USE DEF LocalRecord
<1>1. CASE local' = [local EXCEPT !.pc = pc]
  BY <1>1
<1>2. CASE local' = [local EXCEPT !.pc = pc, !.owner = owner]
  BY <1>2
<1>3. CASE local' = [local EXCEPT !.pc = pc, !.ok = ok]
  BY <1>3
<1> QED BY <1>1, <1>2, <1>3

\* The holders when the embedded worker moves on with its job.
LEMMA LocalMoves ==
    ASSUME IInv, local.pc # "idle",
           local'.pc = "idle" \/ local'.job = local.job,
           UNCHANGED <<agent, report>>,
           \A j \in Jobs \ {local.job} : jobs'[j] = jobs[j],
           jobs'[local.job].status \notin {"absent", "queued"},
           LocalBusyWith(local.job)' => /\ LocalBusyWith(local.job)
                                        /\ jobs'[local.job] = jobs[local.job]
    PROVE  /\ HoldersOK'
           /\ \A j \in Jobs : Carrying(j)' => Carrying(j)
<1>1. local.job \in Jobs
  BY DEF IInv, HoldersOK
<1>2. \A j \in Jobs : LocalBusyWith(j)' => /\ j = local.job
                                           /\ LocalBusyWith(j)
                                           /\ jobs'[j] = jobs[j]
  BY DEF LocalBusyWith
<1>3. \A j \in Jobs : \/ jobs'[j] = jobs[j]
                      \/ /\ j = local.job
                         /\ jobs'[j].status \notin {"absent", "queued"}
  OBVIOUS
<1>4. \A w \in RemoteWorkers : \A j \in Jobs : Executing(w, j)' <=> Executing(w, j)
  BY DEF Executing
<1>5. \A w \in RemoteWorkers : ~Executing(w, local.job)
  BY DEF IInv, HoldersOK
<1>6. \A w \in RemoteWorkers :
          agent'[w].pc \in {"executing", "reporting"} => agent'[w].job \in Jobs
  BY DEF IInv, HoldersOK
<1>7. \A w \in RemoteWorkers : \A j \in Jobs :
          Executing(w, j)' => /\ jobs'[j].status = "running"
                              /\ report'[j].pc = "none"
                              /\ \A v \in RemoteWorkers : Executing(v, j)' => v = w
  BY <1>3, <1>4, <1>5 DEF IInv, HoldersOK
<1>8. local'.pc # "idle" => /\ ControlPlaneAsWorker
                            /\ local'.job \in Jobs
                            /\ jobs'[local'.job].status \notin {"absent", "queued"}
                            /\ report'[local'.job].pc = "none"
                            /\ \A w \in RemoteWorkers : ~Executing(w, local.job)'
  BY <1>1, <1>5 DEF IInv, HoldersOK, Executing
<1>9. \A j \in Jobs : LocalBusyWith(j)' => jobs'[j].status = "running"
  BY <1>2 DEF IInv, HoldersOK
<1>10. \A j \in Jobs : report'[j].pc # "none" => /\ report'[j].worker \in RemoteWorkers
                                                 /\ jobs'[j].status \notin {"absent", "queued"}
  BY <1>3 DEF IInv, HoldersOK
<1>11. HoldersOK'
  BY <1>6, <1>7, <1>8, <1>9, <1>10 DEF HoldersOK, Executing
<1>12. \A j \in Jobs : Carrying(j)' => Carrying(j)
  BY <1>2, <1>3 DEF Carrying, Executing, ReportPending
<1> QED BY <1>11, <1>12

LEMMA LocalClaimKeeps ==
    ASSUME IInv, LocalClaim, UNCHANGED <<distVars, agentVars, api, faults>>
    PROVE  IInv'
<1>1. PICK j \in Jobs : /\ ClaimForWorker(j, ControlPlaneWorker)
                        /\ local' = [LocalIdle EXCEPT !.pc = "claimed", !.job = j]
  BY DEF LocalClaim
<1>2. UNCHANGED <<workers, deployments, agent, heartbeat, report, dist, cooling, api, faults>>
      /\ ControlPlaneAsWorker
  BY DEF LocalClaim, distVars, agentVars
<1>3. /\ jobs[j].status = "queued"
      /\ jobs' \in [Jobs -> JobRecord]
      /\ jobs'[j].status = "running" /\ jobs'[j].deployment = jobs[j].deployment
      /\ \A k \in Jobs \ {j} : jobs'[k] = jobs[k]
  BY <1>1 DEF ClaimForWorker, Oldest, AssignedQueued, IInv, TypeOK, JobRecord, JobStatus
<1>4. local' \in LocalRecord /\ local'.pc = "claimed" /\ local'.job = j
  BY <1>1 DEF LocalIdle, LocalRecord, JobOrNone, WorkerOrNone
<1>5. \A k \in Jobs : Carrying(k)' => Carrying(k)
  BY <1>2, <1>3, <1>4 DEF Carrying, Executing, ReportPending, LocalBusyWith
<1>6. HoldersOK'
  <2>1. (\A v \in RemoteWorkers : ~Executing(v, j)) /\ report[j].pc = "none"
    BY <1>3 DEF IInv, TypeOK, ReportRecord, HoldersOK
  <2> QED BY <1>2, <1>3, <1>4, <2>1, SMTT(60)
      DEF IInv, HoldersOK, Executing, LocalBusyWith
<1>7. RowsOK' /\ Exclusive' /\ Unshared' /\ PromisesOK' /\ NewOK' /\ DistOK'
  BY <1>2, <1>3, <1>5, JobStep
<1>8. TypeOK'
  BY <1>2, <1>3, <1>4 DEF IInv, TypeOK
<1> QED BY <1>6, <1>7, <1>8 DEF IInv

\* Fetching the row, marking the job, giving the slot back.
LEMMA LocalJobKeeps ==
    ASSUME IInv, NEW done \in BOOLEAN,
           LocalFetch(done) \/ LocalMark(done) \/ LocalRelease(done),
           faults' \in 0..MaxFaults, UNCHANGED <<distVars, agentVars, api>>
    PROVE  IInv'
<1> DEFINE j == local.job
<1>1. UNCHANGED <<deployments, agent, heartbeat, report, dist, cooling, api>>
  BY DEF LocalFetch, LocalMark, LocalRelease, distVars, agentVars
<1>2. local.pc # "idle" /\ j \in Jobs /\ jobs[j].status \notin {"absent", "queued"}
  BY DEF LocalFetch, LocalMark, LocalRelease, IInv, HoldersOK
<1>3. /\ local' \in LocalRecord
      /\ local'.pc = "idle" \/ local'.job = j
  <2>1. CASE LocalFetch(done)
    <3>1. LocalDeployment \in Deployments
      BY <1>2 DEF LocalDeployment, IInv, RowsOK, TypeOK, JobRecord, DeploymentOrNone
    <3>2. deployments[LocalDeployment].owner \in WorkerOrNone
      BY <3>1 DEF IInv, TypeOK, DeploymentRecord
    <3>3. CASE local' = [local EXCEPT !.pc = "settled"]
      BY <3>2, <3>3, LocalTyped DEF IInv, TypeOK
    <3>4. CASE local' = [local EXCEPT !.pc = "fetched",
                                      !.owner = deployments[LocalDeployment].owner]
      BY <3>2, <3>4, LocalTyped DEF IInv, TypeOK
    <3> QED BY <2>1, <3>3, <3>4 DEF LocalFetch
  <2>2. CASE LocalMark(done)
    <3>1. local' = [local EXCEPT !.pc = "release"] /\ NoWorker \in WorkerOrNone
      BY <2>2 DEF LocalMark, WorkerOrNone
    <3> QED BY <3>1, LocalTyped DEF IInv, TypeOK
  <2>3. CASE LocalRelease(done)
    BY <2>3, LocalIdleTyped DEF LocalRelease, LocalIdle
  <2> QED BY <2>1, <2>2, <2>3
<1>4. /\ jobs' \in [Jobs -> JobRecord]
      /\ \A k \in Jobs \ {j} : jobs'[k] = jobs[k]
      /\ jobs'[j].status \notin {"absent", "queued"}
      /\ jobs'[j].deployment = jobs[j].deployment
      /\ LocalFetch(done) => jobs' = jobs
  <2>1. jobs' = jobs
        \/ \E status \in {"done", "failed"} : jobs' = [jobs EXCEPT ![j].status = status]
    BY DEF LocalFetch, LocalMark, LocalRelease, MarkDone, MarkFailed
  <2>2. LocalFetch(done) => jobs' = jobs
    BY DEF LocalFetch
  <2>3. CASE jobs' = jobs
    BY <1>2, <2>3 DEF IInv, TypeOK
  <2>4. CASE \E status \in {"done", "failed"} : jobs' = [jobs EXCEPT ![j].status = status]
    <3>1. PICK status \in {"done", "failed"} : jobs' = [jobs EXCEPT ![j].status = status]
      BY <2>4
    <3> QED BY <1>2, <2>2, <3>1, MarkingTyped DEF IInv, TypeOK
  <2> QED BY <2>1, <2>3, <2>4
<1>5. LocalBusyWith(local.job)' => /\ LocalBusyWith(local.job)
                                   /\ jobs'[local.job] = jobs[local.job]
  BY <1>4 DEF LocalBusyWith, LocalFetch, LocalMark, LocalRelease, LocalIdle, IInv, TypeOK,
     LocalRecord
<1>6. workers' \in [Workers -> WorkerRecord]
  BY WorkersTyped DEF LocalFetch, LocalMark, LocalRelease, IInv, TypeOK
<1>7. HoldersOK' /\ \A k \in Jobs : Carrying(k)' => Carrying(k)
  BY <1>1, <1>2, <1>3, <1>4, <1>5, LocalMoves
<1>8. RowsOK' /\ Exclusive' /\ Unshared' /\ PromisesOK' /\ NewOK' /\ DistOK'
  BY <1>1, <1>2, <1>4, <1>7, JobStep
<1>9. TypeOK'
  BY <1>1, <1>3, <1>4, <1>6 DEF IInv, TypeOK
<1> QED BY <1>7, <1>8, <1>9 DEF IInv

\* The writes of the deployment's row.
LEMMA LocalRowKeeps ==
    ASSUME IInv, NEW stored \in BOOLEAN,
           \/ LocalBegin(stored) \/ LocalProgress(stored)
           \/ (\E ok \in BOOLEAN : LocalBuilt(ok, stored)) \/ LocalSettle(stored),
           faults' \in 0..MaxFaults, UNCHANGED <<distVars, agentVars, api>>
    PROVE  IInv'
<1>1. UNCHANGED <<jobs, workers, agent, heartbeat, report, dist, cooling, api>>
  BY DEF LocalBegin, LocalProgress, LocalBuilt, PersistLiveLogs, LocalSettle, distVars,
     agentVars
<1>2. /\ local.pc \in {"fetched", "building", "built"}
      /\ local.job \in Jobs /\ LocalBusyWith(local.job)
      /\ jobs[local.job].status \notin {"absent", "queued"}
      /\ ControlPlaneWorker \in Workers
  BY DEF LocalBegin, LocalProgress, LocalBuilt, PersistLiveLogs, LocalSettle,
     LocalBusyWith, IInv, HoldersOK, Workers
<1>3. local \in LocalRecord /\ local.owner \in WorkerOrNone /\ NoWorker \in WorkerOrNone
  BY DEF IInv, TypeOK, LocalRecord, WorkerOrNone
<1>4. local' \in LocalRecord /\ local'.job = local.job
  <2>1. CASE LocalBegin(stored)
    <3>1. local' = [local EXCEPT !.pc = "building", !.owner = NoWorker]
      BY <2>1 DEF LocalBegin
    <3> QED BY <1>3, <3>1, LocalTyped
  <2>2. CASE LocalProgress(stored)
    BY <1>3, <2>2 DEF LocalProgress
  <2>3. ASSUME NEW ok \in BOOLEAN, LocalBuilt(ok, stored)
        PROVE  local' \in LocalRecord /\ local'.job = local.job
    <3>1. local' = [local EXCEPT !.pc = "built", !.ok = ok]
      BY <2>3 DEF LocalBuilt
    <3> QED BY <1>3, <3>1, LocalTyped
  <2>4. CASE LocalSettle(stored)
    <3>1. local' = [local EXCEPT !.pc = "settled"]
      BY <2>4 DEF LocalSettle
    <3> QED BY <1>3, <3>1, LocalTyped
  <2> QED BY <2>1, <2>2, <2>3, <2>4
<1>5. HoldersOK' /\ \A k \in Jobs : Carrying(k)' => Carrying(k)
  BY <1>1, <1>2, <1>4, LocalMoves
<1>6. PICK status \in DeploymentStatus \ {"absent"}, owner \in WorkerOrNone :
          /\ UpdateDeployment(jobs[local.job].deployment, status, owner, stored)
          /\ status = "running" => owner \in Workers /\ LocalSettle(stored)
  <2> USE DEF LocalDeployment, DeploymentStatus
  <2>1. CASE LocalBegin(stored)
    <3>1. UpdateDeployment(jobs[local.job].deployment, "deploying", local.owner, stored)
      BY <2>1 DEF LocalBegin
    <3> QED BY <1>3, <3>1
  <2>2. CASE LocalProgress(stored) \/ \E ok \in BOOLEAN : LocalBuilt(ok, stored)
    <3>1. UpdateDeployment(jobs[local.job].deployment, "deploying", ControlPlaneWorker,
                           stored)
      BY <2>2 DEF LocalProgress, LocalBuilt, PersistLiveLogs
    <3> QED BY <1>2, <3>1 DEF WorkerOrNone
  <2>3. CASE LocalSettle(stored)
    <3> DEFINE end == IF local.ok THEN "running" ELSE "failed"
    <3>1. UpdateDeployment(jobs[local.job].deployment, end, ControlPlaneWorker, stored)
      BY <2>3 DEF LocalSettle
    <3>2. end \in DeploymentStatus \ {"absent"} /\ ControlPlaneWorker \in WorkerOrNone
      BY <1>2 DEF WorkerOrNone
    <3> HIDE DEF end
    <3> QED BY <1>2, <2>3, <3>1, <3>2
  <2> QED BY <2>1, <2>2, <2>3
<1>7. ASSUME LocalSettle(stored), NEW j \in Jobs, j = local.job
      PROVE  ~Carrying(j)'
  <2>1. local'.pc = "settled"
    BY <1>3, <1>7 DEF LocalSettle, LocalRecord
  <2> QED BY <1>1, <1>2, <1>7, <2>1 DEF Carrying, Executing, ReportPending,
         LocalBusyWith, IInv, HoldersOK
<1>8. PICK j \in Jobs : j = local.job
  BY <1>2
<1>9. /\ deployments' \in [Deployments -> DeploymentRecord]
      /\ RowsOK' /\ Exclusive' /\ Unshared' /\ PromisesOK' /\ NewOK' /\ DistOK'
  <2>1. Carrying(j)
    BY <1>2, <1>8 DEF Carrying
  <2>2. status = "running" => owner \in Workers /\ ~Carrying(j)'
    BY <1>6, <1>7, <1>8
  <2> QED BY <1>1, <1>5, <1>6, <1>8, <2>1, <2>2, RowStep
<1> QED BY <1>1, <1>4, <1>5, <1>9 DEF IInv, TypeOK

LEMMA LocalKeeps ==
    ASSUME IInv, LocalNext \/ LocalLogsNext
    PROVE  IInv'
<1>1. UNCHANGED <<distVars, agentVars, api>>
  BY DEF LocalNext, LocalLogsNext
<1>2. faults' \in 0..MaxFaults
  BY ControlPlaneAssumed DEF ControlPlaneAssumption, LocalNext, LocalStep, LocalLogsNext,
     LocalLogs, Outcome, Fault, IInv, TypeOK
<1>3. \/ LocalClaim /\ UNCHANGED faults
      \/ \E done \in BOOLEAN : LocalFetch(done) \/ LocalMark(done) \/ LocalRelease(done)
      \/ \E stored \in BOOLEAN :
            \/ LocalBegin(stored) \/ LocalProgress(stored)
            \/ (\E ok \in BOOLEAN : LocalBuilt(ok, stored)) \/ LocalSettle(stored)
  BY DEF LocalNext, LocalStep, LocalLogsNext, LocalLogs
<1> QED BY <1>1, <1>2, <1>3, LocalClaimKeeps, LocalJobKeeps, LocalRowKeeps

-----------------------------------------------------------------------------
(* The whole system *)

LEMMA RestartKeeps ==
    ASSUME IInv, Restart
    PROVE  IInv'
<1>1. UNCHANGED <<jobs, workers, deployments, agent>>
      /\ local' = LocalIdle /\ cooling' = {} /\ dist' = Boot
  BY DEF Restart
<1>2. \A j \in Jobs : /\ ~ReportPending(j)' /\ ~LocalBusyWith(j)'
                      /\ report'[j].worker = report[j].worker
                      /\ report'[j].pc = "none" <=> report[j].pc = "none"
  BY DEF Restart, ReportPending, LocalBusyWith, LocalIdle, IInv, TypeOK, ReportRecord
<1>3. \A j \in Jobs : Carrying(j)' => Carrying(j)
  BY <1>1, <1>2 DEF Carrying, Executing
<1>4. \A d \in Deployments : ~Promised(d)' /\ (api'[d] = "new" <=> api[d] = "new")
  BY <1>1 DEF Restart, Boot, AtRest, Promised, At, IInv, TypeOK
<1>5. TypeOK'
  <2>1. dist' \in DistRecord
    BY <1>1 DEF Boot, AtRest, DistRecord, JobOrNone, WorkerOrNone, DeploymentOrNone,
       DeploymentStatus
  <2>2. report' \in [Jobs -> ReportRecord]
    BY DEF Restart, IInv, TypeOK, ReportRecord
  <2>3. local' \in LocalRecord
    BY <1>1 DEF LocalIdle, LocalRecord, JobOrNone, WorkerOrNone
  <2>4. faults' \in 0..MaxFaults
    BY ControlPlaneAssumed DEF ControlPlaneAssumption, Restart, Fault, IInv, TypeOK
  <2> QED BY <1>1, <2>1, <2>2, <2>3, <2>4 DEF Restart, IInv, TypeOK
<1>6. RowsOK' /\ Exclusive' /\ Unshared'
  BY <1>1, <1>3, <1>4 DEF IInv, RowsOK, Exclusive, Unshared, Running
<1>7. HoldersOK'
  BY <1>1, <1>2 DEF IInv, HoldersOK, Executing, LocalIdle
<1>8. PromisesOK' /\ NewOK'
  BY <1>1, <1>4 DEF IInv, PromisesOK, NewOK, Running, Promised
<1>9. DistOK'
  BY <1>1 DEF DistOK, Boot, AtRest, At
<1> QED BY <1>5, <1>6, <1>7, <1>8, <1>9 DEF IInv

LEMMA InitIInv == Init => IInv
<1> SUFFICES ASSUME Init PROVE IInv
  OBVIOUS
<1> USE DEF Init, JobsInit, WorkersInit, DeploymentsInit, DistInit, AgentsInit, LocalInit
<1>1. TypeOK
  <2>1. jobs \in [Jobs -> JobRecord]
    BY DEF JobRecord, NoRow, JobStatus, WorkerOrNone, DeploymentOrNone
  <2>2. workers \in [Workers -> WorkerRecord]
    BY DEF WorkerRecord, WorkerStatus
  <2>3. deployments \in [Deployments -> DeploymentRecord]
    BY DEF DeploymentRecord, DeploymentStatus, WorkerOrNone
  <2>4. dist \in DistRecord
    BY DEF DistRecord, Boot, AtRest, JobOrNone, WorkerOrNone, DeploymentOrNone,
       DeploymentStatus
  <2>5. agent \in [RemoteWorkers -> AgentRecord]
    BY DEF AgentRecord, Down, JobOrNone
  <2>6. report \in [Jobs -> ReportRecord]
    BY DEF ReportRecord, NoReport, WorkerOrNone
  <2>7. local \in LocalRecord
    BY LocalIdleTyped
  <2> QED BY ControlPlaneAssumed, <2>1, <2>2, <2>3, <2>4, <2>5, <2>6, <2>7
      DEF ControlPlaneAssumption, TypeOK
<1>2. RowsOK /\ HoldersOK
  BY DEF RowsOK, HoldersOK, NoRow, Executing, Down, LocalBusyWith, LocalIdle, NoReport
<1>3. \A j \in Jobs : ~Carrying(j)
  BY DEF Carrying, NoRow, Executing, Down, ReportPending, NoReport, LocalBusyWith,
     LocalIdle
<1>4. Exclusive /\ Unshared
  BY <1>3 DEF Exclusive, Unshared
<1>5. PromisesOK /\ NewOK
  BY DomainAssumed DEF DomainAssumption, PromisesOK, NewOK, Promised, Running, At, Boot,
     AtRest, NoRow
<1>6. DistOK
  BY DEF DistOK, Boot, AtRest, At
<1> QED BY <1>1, <1>2, <1>4, <1>5, <1>6 DEF IInv

LEMMA NextKeepsIInv ==
    ASSUME NoLostRequeue
    PROVE  IInv /\ [Next]_vars => IInv'
<1> SUFFICES ASSUME IInv, [Next]_vars PROVE IInv'
  OBVIOUS
<1>1. CASE \E d \in Deployments : ApiNext(d)
  BY <1>1, StoreDeploymentKeeps, EnqueueDeploymentKeeps DEF ApiNext, ApiStep
<1>2. CASE DistributorNext
  BY <1>2, DistributorKeeps
<1>3. CASE CooldownNext
  BY <1>3, CooldownKeeps DEF CooldownNext
<1>4. CASE \E w \in RemoteWorkers :
               \/ AgentNext(w) \/ HeartbeatNext(w) \/ SilenceNext(w) \/ CrashNext(w)
               \/ TimeoutNext(w)
  BY <1>4, WorkerKeeps
<1>5. CASE \E j \in Jobs : ReportNext(j)
  BY <1>5, ReportKeeps
<1>6. CASE LocalNext \/ LocalLogsNext
  BY <1>6, LocalKeeps
<1>7. CASE Restart
  BY <1>7, RestartKeeps
<1>8. CASE UNCHANGED vars
  <2>1. RowsOK' /\ HoldersOK' /\ Exclusive' /\ Unshared' /\ PromisesOK' /\ NewOK'
    BY <1>8, QuietStep DEF vars
  <2>2. TypeOK' /\ DistOK'
    BY <1>8 DEF vars, IInv, TypeOK, DistOK, At, Running
  <2> QED BY <2>1, <2>2 DEF IInv
<1> QED BY <1>1, <1>2, <1>3, <1>4, <1>5, <1>6, <1>7, <1>8 DEF Next

-----------------------------------------------------------------------------
(* What follows for every run of the program *)

LEMMA SpecKeepsIInv ==
    ASSUME NoLostRequeue
    PROVE  Spec => []IInv
<1>1. Init => IInv
  BY InitIInv
<1>2. IInv /\ [Next]_vars => IInv'
  BY NextKeepsIInv
<1> QED BY <1>1, <1>2, PTL DEF Spec

\* The tables and the memory of every process keep their shape.
THEOREM TypeCorrect ==
    ASSUME NoLostRequeue
    PROVE  Spec => []TypeOK
<1>1. IInv => TypeOK
  BY DEF IInv
<1> QED BY <1>1, SpecKeepsIInv, PTL

LEMMA CustodyFollows == IInv => SingleCustody
<1> SUFFICES ASSUME IInv PROVE SingleCustody
  OBVIOUS
<1>1. ASSUME NEW d \in Deployments, NEW c \in Custodians(d)
      PROVE  \E j \in Jobs :
                /\ jobs[j].deployment = d /\ Carrying(j)
                /\ \/ jobs[j].status = "queued" /\ c = <<"queue", NoWorker, j>>
                   \/ \E w \in RemoteWorkers : Executing(w, j) /\ c = <<"agent", w, j>>
                   \/ ReportPending(j) /\ c = <<"handler", report[j].worker, j>>
                   \/ LocalBusyWith(j) /\ c = <<"local", ControlPlaneWorker, j>>
  BY <1>1 DEF Custodians, JobsOf, Carrying
<1>2. ASSUME NEW j \in Jobs
      PROVE  /\ jobs[j].status = "queued" =>
                   /\ ~ReportPending(j) /\ ~LocalBusyWith(j)
                   /\ \A w \in RemoteWorkers : ~Executing(w, j)
             /\ ReportPending(j) => /\ ~LocalBusyWith(j)
                                    /\ \A w \in RemoteWorkers : ~Executing(w, j)
             /\ LocalBusyWith(j) => \A w \in RemoteWorkers : ~Executing(w, j)
             /\ \A w, v \in RemoteWorkers : Executing(w, j) /\ Executing(v, j) => w = v
  BY DEF IInv, HoldersOK, ReportPending, LocalBusyWith
<1>3. NoDuplicateOwnership
  <2>1. ASSUME NEW d \in Deployments, NEW c1 \in Custodians(d), NEW c2 \in Custodians(d)
        PROVE  c1 = c2
    <3>1. PICK j \in Jobs :
             /\ jobs[j].deployment = d /\ Carrying(j)
             /\ \/ jobs[j].status = "queued" /\ c1 = <<"queue", NoWorker, j>>
                \/ \E w \in RemoteWorkers : Executing(w, j) /\ c1 = <<"agent", w, j>>
                \/ ReportPending(j) /\ c1 = <<"handler", report[j].worker, j>>
                \/ LocalBusyWith(j) /\ c1 = <<"local", ControlPlaneWorker, j>>
      BY <1>1
    <3>2. PICK k \in Jobs :
             /\ jobs[k].deployment = d /\ Carrying(k)
             /\ \/ jobs[k].status = "queued" /\ c2 = <<"queue", NoWorker, k>>
                \/ \E w \in RemoteWorkers : Executing(w, k) /\ c2 = <<"agent", w, k>>
                \/ ReportPending(k) /\ c2 = <<"handler", report[k].worker, k>>
                \/ LocalBusyWith(k) /\ c2 = <<"local", ControlPlaneWorker, k>>
      BY <1>1
    <3>3. j = k
      BY <3>1, <3>2 DEF IInv, Exclusive
    <3> QED BY <1>2, <3>1, <3>2, <3>3
  <2> QED BY <2>1 DEF NoDuplicateOwnership
<1>4. ASSUME NEW d \in Deployments, Promised(d) \/ Running(d), NEW c \in Custodians(d)
      PROVE  FALSE
  BY <1>1, <1>4 DEF IInv, Unshared
<1> QED BY <1>3, <1>4 DEF SingleCustody, IInv, PromisesOK

\* At any moment at most one party may still deploy a deployment or settle its
\* row: its queued job, the agent that executes it, the handler of that agent's
\* report or the embedded worker; nobody has it while a new job for it is about
\* to be stored, or while it runs.
THEOREM Custody ==
    ASSUME NoLostRequeue
    PROVE  Spec => []SingleCustody
BY CustodyFollows, SpecKeepsIInv, PTL

LEMMA ListsFollow == IInv => ListsStayTrue
BY DomainAssumed DEF DomainAssumption, IInv, DistOK, PromisesOK, ListsStayTrue, TypeOK,
   DistRecord, Workers

\* The deployments the distributor has listed for re-queueing are, whatever the
\* other processes did since, still running, owned and not yet promised a job.
THEOREM ListsTrue ==
    ASSUME NoLostRequeue
    PROVE  Spec => []ListsStayTrue
BY ListsFollow, SpecKeepsIInv, PTL

=============================================================================
