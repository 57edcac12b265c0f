----------------------------- MODULE JobProofs -----------------------------
(***************************************************************************)
(* A job that is over stays over, a claimed job never returns to the       *)
(* queue, and the slots of the embedded worker are accounted for, for any  *)
(* number of deployments, jobs, workers and failures.                      *)
(***************************************************************************)
EXTENDS ControlPlaneProofs, FiniteSetTheorems

-----------------------------------------------------------------------------
(* MarkDone and MarkFailed overwrite whatever they find. That it is always *)
(* "running" is what their callers have to see to.                         *)

MarkingOK ==
    /\ \A j \in Jobs : report[j].pc = "mark" => jobs[j].status = "running"
    /\ local.pc \notin {"idle", "release"} => jobs[local.job].status = "running"

\* What a step may do to the status of a job.
StatusMoves(j) ==
    /\ jobs[j].status \in {"done", "failed"} => jobs'[j].status = jobs[j].status
    /\ jobs[j].status = "running" => jobs'[j].status \notin {"absent", "queued"}

AllMove == \A j \in Jobs : StatusMoves(j)

-----------------------------------------------------------------------------
\* Jobs are stored and claimed, their assignments change; nobody reports.
LEMMA OthersKeep ==
    ASSUME IInv, MarkingOK, UNCHANGED <<report, local>>,
           \A j \in Jobs : \/ jobs'[j].status = jobs[j].status
                           \/ jobs[j].status = "absent"
                           \/ jobs[j].status = "queued" /\ jobs'[j].status = "running"
    PROVE  MarkingOK' /\ AllMove
<1>1. MarkingOK'
  BY DEF MarkingOK, IInv, HoldersOK
<1>2. AllMove
  BY DEF AllMove, StatusMoves
<1> QED BY <1>1, <1>2

LEMMA JobsAreRecords == IInv => jobs \in [Jobs -> JobRecord]
BY DEF IInv, TypeOK

LEMMA EnqueueStatus ==
    ASSUME IInv, NEW k \in Jobs, NEW d, Enqueue(k, d), NEW j \in Jobs
    PROVE  jobs'[j].status = jobs[j].status \/ jobs[j].status = "absent"
BY JobsAreRecords DEF Enqueue, NewJob

LEMMA ApiSettles ==
    ASSUME IInv, MarkingOK, NEW d \in Deployments, ApiNext(d)
    PROVE  MarkingOK' /\ AllMove
<1>1. UNCHANGED <<report, local>>
  BY DEF ApiNext, agentVars
<1>2. jobs' = jobs \/ \E k \in Jobs : Enqueue(k, d)
  BY DEF ApiNext, ApiStep, StoreDeployment, EnqueueDeployment
<1>3. \A j \in Jobs : jobs'[j].status = jobs[j].status \/ jobs[j].status = "absent"
  BY <1>2, EnqueueStatus
<1> QED BY <1>1, <1>3, OthersKeep

LEMMA DistributorSettles ==
    ASSUME IInv, MarkingOK, DistributorNext
    PROVE  MarkingOK' /\ AllMove
<1>1. UNCHANGED <<report, local>>
  BY DEF DistributorNext, agentVars
<1>2. \/ jobs' = jobs
      \/ \E k \in Jobs : Enqueue(k, dist.dep)
      \/ AssignToWorker(dist.job, dist.target)
      \/ ReleaseFromWorker(dist.job)
  <2>1. CASE HealthScan \/ ListOffline \/ ListFailover \/ ListScores \/ ListRebalance
             \/ PickWorker
    BY <2>1 DEF HealthScan, ListOffline, ListFailover, ListScores, ListRebalance, PickWorker
  <2>2. ASSUME NEW done \in BOOLEAN,
               \/ RegisterControlPlane(done)
               \/ \E w \in RemoteWorkers : MarkStaleOffline(w, done)
               \/ ReadDeployment(done)
               \/ CountJob(done)
               \/ RecordAssignment(done)
               \/ \E d \in Deployments : RequeueDeployment(d, done)
        PROVE  jobs' = jobs
    BY <2>2 DEF RegisterControlPlane, MarkStaleOffline, ReadDeployment, CountJob,
                RecordAssignment, RequeueDeployment
  <2>3. ASSUME NEW done \in BOOLEAN, AssignJob(done) \/ ReleaseJob(done) \/ RequeueJob(done)
        PROVE  \/ jobs' = jobs
               \/ \E k \in Jobs : Enqueue(k, dist.dep)
               \/ AssignToWorker(dist.job, dist.target)
               \/ ReleaseFromWorker(dist.job)
    BY <2>3 DEF AssignJob, ReleaseJob, RequeueJob
  <2> QED
    BY <2>1, <2>2, <2>3 DEF DistributorNext, DistributorStep
<1>3. ASSUME NEW j \in Jobs
      PROVE  jobs'[j].status = jobs[j].status \/ jobs[j].status = "absent"
  <2>1. CASE AssignToWorker(dist.job, dist.target) \/ ReleaseFromWorker(dist.job)
    BY <2>1, JobsAreRecords DEF AssignToWorker, ReleaseFromWorker, JobRecord
  <2> QED BY <1>2, <2>1, EnqueueStatus
<1> QED BY <1>1, <1>3, OthersKeep

\* A claim moves a queued job, a report starts for the running job of an agent.
LEMMA WorkerSettles ==
    ASSUME IInv, MarkingOK, NEW w \in RemoteWorkers,
           \/ AgentNext(w) \/ HeartbeatNext(w) \/ SilenceNext(w) \/ CrashNext(w)
           \/ TimeoutNext(w)
    PROVE  MarkingOK' /\ AllMove
<1>1. local' = local
  BY DEF AgentNext, HeartbeatNext, SilenceNext, CrashNext, TimeoutNext
<1>2. \/ UNCHANGED <<jobs, report>>
      \/ \E delivered \in BOOLEAN : Claim(w, delivered)
      \/ \E ok, delivered \in BOOLEAN : FinishJob(w, ok, delivered)
  BY DEF AgentNext, AgentStep, HeartbeatNext, HeartbeatStep, SilenceNext, Silence,
         CrashNext, Crash, TimeoutNext, Timeout, AgentStart, ReceiveResponse,
         ResponseTimeout, StopWaiting, SendHeartbeat, ApplyHeartbeat, HeartbeatExpires,
         AgentCrash, agentVars
<1>3. CASE UNCHANGED <<jobs, report>>
  BY <1>1, <1>3, OthersKeep
<1>4. ASSUME NEW delivered \in BOOLEAN, Claim(w, delivered)
      PROVE  MarkingOK' /\ AllMove
  <2>1. PICK k \in Jobs : ClaimForWorker(k, w)
    BY <1>4 DEF Claim
  <2>2. /\ jobs[k].status = "queued"
        /\ \A j \in Jobs : \/ jobs'[j].status = jobs[j].status
                           \/ j = k /\ jobs'[j].status = "running"
    BY <2>1, JobsAreRecords DEF ClaimForWorker, Oldest, AssignedQueued, JobRecord
  <2>3. report' = report
    BY <1>4 DEF Claim
  <2> QED BY <1>1, <2>2, <2>3, OthersKeep
<1>5. ASSUME NEW ok \in BOOLEAN, NEW delivered \in BOOLEAN, FinishJob(w, ok, delivered)
      PROVE  MarkingOK' /\ AllMove
  <2>1. /\ jobs' = jobs /\ agent[w].pc = "executing"
        /\ \/ report' = report
           \/ report' = [report EXCEPT
                  ![agent[w].job] = [pc |-> "mark", worker |-> w, ok |-> ok]]
    BY <1>5 DEF FinishJob
  <2>2. agent[w].job \in Jobs /\ jobs[agent[w].job].status = "running"
    BY <2>1 DEF IInv, HoldersOK, Executing
  <2>3. \A j \in Jobs : report'[j].pc = "mark" => jobs'[j].status = "running"
    BY <2>1, <2>2 DEF MarkingOK, IInv, TypeOK
  <2>4. MarkingOK'
    BY <1>1, <2>1, <2>3 DEF MarkingOK
  <2> QED BY <2>1, <2>4 DEF AllMove, StatusMoves
<1> QED BY <1>2, <1>3, <1>4, <1>5

\* A report marks the job it is about, which the embedded worker does not have.
LEMMA ReportSettles ==
    ASSUME IInv, MarkingOK, NEW j \in Jobs, ReportNext(j)
    PROVE  MarkingOK' /\ AllMove
<1>1. local' = local
  BY DEF ReportNext
<1>2. PICK done \in BOOLEAN :
          MarkReported(j, done) \/ DecrementReported(j, done) \/ SettleReported(j, done)
  BY DEF ReportNext, ReportStep
<1>3. \E pc \in {"decrement", "settle", "over"} : report' = [report EXCEPT ![j].pc = pc]
  BY <1>2 DEF MarkReported, DecrementReported, SettleReported
<1>4. /\ report'[j].pc # "mark"
      /\ \A k \in Jobs \ {j} : report'[k] = report[k]
  BY <1>3 DEF IInv, TypeOK, ReportRecord
<1>5. \/ jobs' = jobs
      \/ /\ report[j].pc = "mark"
         /\ \E status \in {"done", "failed"} : jobs' = [jobs EXCEPT ![j].status = status]
  BY <1>2 DEF MarkReported, DecrementReported, SettleReported, MarkDone, MarkFailed
<1>6. \A k \in Jobs \ {j} : jobs'[k] = jobs[k]
  BY <1>5, JobsAreRecords
<1>7. report[j].pc # "none"
  BY <1>2 DEF MarkReported, DecrementReported, SettleReported
<1>8. local.pc # "idle" => local.job \in Jobs \ {j}
  BY <1>7 DEF IInv, HoldersOK
<1>9. MarkingOK'
  BY <1>1, <1>4, <1>6, <1>8 DEF MarkingOK
<1>10. StatusMoves(j)
  BY <1>5, JobsAreRecords DEF StatusMoves, MarkingOK, JobRecord
<1> QED BY <1>6, <1>9, <1>10 DEF AllMove, StatusMoves

\* The embedded worker marks the job it has, which nobody reports.
LEMMA LocalSettles ==
    ASSUME IInv, MarkingOK, LocalNext \/ LocalLogsNext
    PROVE  MarkingOK' /\ AllMove
<1>1. report' = report
  BY DEF LocalNext, LocalLogsNext, agentVars
<1>2. local.pc # "idle" => local.job \in Jobs /\ report[local.job].pc = "none"
  BY DEF IInv, HoldersOK
<1>3. CASE LocalClaim
  <2>1. PICK k \in Jobs :
            /\ ClaimForWorker(k, ControlPlaneWorker)
            /\ local' = [LocalIdle EXCEPT !.pc = "claimed", !.job = k]
    BY <1>3 DEF LocalClaim
  <2>2. /\ jobs[k].status = "queued" /\ jobs'[k].status = "running"
        /\ \A j \in Jobs \ {k} : jobs'[j] = jobs[j]
        /\ local'.job = k
    BY <2>1, JobsAreRecords
    DEF ClaimForWorker, Oldest, AssignedQueued, JobRecord, LocalIdle
  <2>3. MarkingOK'
    BY <1>1, <2>2 DEF MarkingOK
  <2> QED BY <2>2, <2>3 DEF AllMove, StatusMoves
<1>4. ASSUME NEW done \in BOOLEAN, LocalMark(done)
      PROVE  MarkingOK' /\ AllMove
  <2>1. /\ local.pc = "settled" /\ local'.pc = "release"
        /\ \/ jobs' = jobs
           \/ \E status \in {"done", "failed"} :
                 jobs' = [jobs EXCEPT ![local.job].status = status]
    BY <1>4 DEF LocalMark, MarkDone, MarkFailed, IInv, TypeOK, LocalRecord
  <2>2. /\ jobs[local.job].status = "running" /\ local.job \in Jobs
        /\ \A j \in Jobs \ {local.job} : jobs'[j] = jobs[j]
    BY <1>2, <2>1, JobsAreRecords DEF MarkingOK
  <2>3. jobs'[local.job].status \in {"running", "done", "failed"}
    BY <2>1, <2>2, JobsAreRecords DEF JobRecord
  <2>4. MarkingOK'
    BY <1>1, <1>2, <2>1, <2>2 DEF MarkingOK
  <2> QED BY <2>2, <2>3, <2>4 DEF AllMove, StatusMoves
<1>5. ASSUME NEW done \in BOOLEAN,
             \/ LocalFetch(done) \/ LocalBegin(done) \/ LocalProgress(done)
             \/ (\E ok \in BOOLEAN : LocalBuilt(ok, done)) \/ LocalSettle(done)
             \/ LocalRelease(done)
      PROVE  MarkingOK' /\ AllMove
  <2>1. jobs' = jobs
    BY <1>5 DEF LocalFetch, LocalBegin, LocalProgress, PersistLiveLogs, LocalBuilt,
                LocalSettle, LocalRelease
  <2>2. \/ local'.pc = "idle"
        \/ local'.job = local.job /\ local.pc \notin {"idle", "release"}
    <3>1. local \in LocalRecord
      BY DEF IInv, TypeOK
    <3>2. CASE LocalFetch(done)
      BY <3>1, <3>2 DEF LocalFetch, LocalRecord
    <3>3. CASE LocalBegin(done)
      BY <3>1, <3>3 DEF LocalBegin, LocalRecord
    <3>4. CASE LocalProgress(done)
      BY <3>4 DEF LocalProgress, PersistLiveLogs
    <3>5. ASSUME NEW ok \in BOOLEAN, LocalBuilt(ok, done)
          PROVE  local'.job = local.job /\ local.pc \notin {"idle", "release"}
      BY <3>1, <3>5 DEF LocalBuilt, PersistLiveLogs, LocalRecord
    <3>6. CASE LocalSettle(done)
      BY <3>1, <3>6 DEF LocalSettle, LocalRecord
    <3>7. CASE LocalRelease(done)
      BY <3>7 DEF LocalRelease, LocalIdle
    <3> QED BY <1>5, <3>2, <3>3, <3>4, <3>5, <3>6, <3>7
  <2>3. MarkingOK'
    BY <1>1, <2>1, <2>2 DEF MarkingOK
  <2> QED BY <2>1, <2>3 DEF AllMove, StatusMoves
<1> QED BY <1>3, <1>4, <1>5 DEF LocalNext, LocalStep, LocalLogsNext, LocalLogs

\* A restart forgets the reports and the embedded worker, not the jobs.
LEMMA RestartSettles ==
    ASSUME IInv, MarkingOK, Restart
    PROVE  MarkingOK' /\ AllMove
<1>1. /\ jobs' = jobs
      /\ local'.pc = "idle"
      /\ \A j \in Jobs : report'[j].pc # "mark"
  BY DEF Restart, LocalIdle, ReportPending, IInv, TypeOK, ReportRecord
<1> QED BY <1>1 DEF MarkingOK, AllMove, StatusMoves

LEMMA StepSettles == IInv /\ MarkingOK /\ [Next]_vars => MarkingOK' /\ AllMove
<1> SUFFICES ASSUME IInv, MarkingOK, [Next]_vars PROVE MarkingOK' /\ AllMove
  OBVIOUS
<1>1. CASE UNCHANGED vars
  BY <1>1, OthersKeep DEF vars
<1>2. CASE CooldownNext
  BY <1>2, OthersKeep DEF CooldownNext, CooldownElapses, agentVars
<1> QED
  BY <1>1, <1>2, ApiSettles, DistributorSettles, WorkerSettles, ReportSettles,
     LocalSettles, RestartSettles DEF Next

\* MarkDone and MarkFailed do not look at the job's status, yet no handler that
\* was given up, no restart and no release of an assignment ever changes the
\* outcome of a finished job or puts a claimed one back into the queue.
THEOREM SettledStay ==
    ASSUME NoLostRequeue
    PROVE  Spec => SettledJobsStay
<1>1. Init => MarkingOK
  BY DEF Init, AgentsInit, NoReport, LocalInit, LocalIdle, MarkingOK
<1>2. AllMove => [\A j \in Jobs :
          /\ jobs[j].status \in {"done", "failed"} => jobs'[j].status = jobs[j].status
          /\ jobs[j].status = "running" => jobs'[j].status \notin {"absent", "queued"}]_vars
  BY DEF AllMove, StatusMoves
<1> QED
  BY <1>1, <1>2, StepSettles, SpecKeepsIInv, PTL DEF Spec, SettledJobsStay

-----------------------------------------------------------------------------
(* The slots of the embedded worker: the inductive invariant *)

Taken == workers[ControlPlaneWorker].current

Held == Cardinality(LocalJobs)

CountOK ==
    /\ IsFiniteSet(LocalJobs)
    /\ Taken + BeingCounted <= Held + faults
    /\ SlotsUndisturbed => /\ Taken + BeingCounted = Held
                           /\ Held <= MaxConcurrentJobs[ControlPlaneWorker]

\* What the distributor knows of the job and of the worker it has chosen.
AssignmentOK ==
    /\ At("assign") => /\ jobs[dist.job].status = "queued"
                       /\ jobs[dist.job].worker = NoWorker
                       /\ dist.target = ControlPlaneWorker =>
                              Taken < MaxConcurrentJobs[ControlPlaneWorker]
    /\ dist.pc \in {"count", "release"} => jobs[dist.job].worker = dist.target
    /\ At("release") => /\ ~SlotsUndisturbed
                        /\ dist.target = ControlPlaneWorker => Taken + 1 <= Held + faults
    /\ At("record") => dist.seen # "absent"

\* A slot is counted before the embedded worker can give it back.
CountedInTime ==
    SlotsUndisturbed /\ At("count") /\ dist.target = ControlPlaneWorker =>
        /\ dist.job \in LocalJobs
        /\ local.job = dist.job => local.pc \in {"claimed", "fetched", "building"}

\* Every request that was taken has its row.
RowsKnown == \A d \in Deployments : api[d] # "new" => Stored(d)

SlotsOK ==
    /\ CountOK /\ AssignmentOK /\ CountedInTime
    /\ local.pc = "idle" => local.job = NoJob
    /\ At("boot") /\ SlotsUndisturbed => LocalJobs = {}
    /\ SlotsUndisturbed => RowsKnown

-----------------------------------------------------------------------------
\* Failures only accumulate.
FaultsGrow == faults' \in {faults, faults + 1}

LEMMA FaultsCount ==
    ASSUME IInv, FaultsGrow
    PROVE  /\ faults \in Nat /\ faults' \in Nat /\ faults <= faults'
           /\ SlotsUndisturbed' => SlotsUndisturbed
BY ControlPlaneAssumed DEF ControlPlaneAssumption, IInv, TypeOK, FaultsGrow, SlotsUndisturbed

LEMMA Disturbs ==
    ASSUME IInv, NEW kind \in SlotFaults, NEW done \in BOOLEAN, Outcome(done, kind)
    PROVE  /\ FaultsGrow
           /\ ~done => faults' = faults + 1 /\ ~SlotsUndisturbed'
BY ControlPlaneAssumed
DEF ControlPlaneAssumption, IInv, TypeOK, Outcome, Fault, FaultsGrow, SlotsUndisturbed,
    SlotFaults

LEMMA SlotTypes ==
    ASSUME ControlPlaneAsWorker, IInv
    PROVE  /\ ControlPlaneWorker \in Workers
           /\ workers[ControlPlaneWorker] \in WorkerRecord /\ Taken \in Nat
           /\ BeingCounted \in {0, 1}
           /\ MaxConcurrentJobs[ControlPlaneWorker] \in Nat
           /\ NoJob \notin Jobs
BY DomainAssumed DEF DomainAssumption, IInv, TypeOK, WorkerRecord, Workers, Taken,
   BeingCounted, NoJob

LEMMA HeldNat ==
    ASSUME SlotsOK
    PROVE  Held \in Nat
BY FS_CardinalityType DEF SlotsOK, CountOK, Held

\* The jobs held and their count stay, a failure may be added.
LEMMA CountStays ==
    ASSUME ControlPlaneAsWorker, IInv, SlotsOK, FaultsGrow,
           LocalJobs' = LocalJobs, Taken' = Taken, BeingCounted' = BeingCounted
    PROVE  CountOK'
<1>1. /\ faults \in Nat /\ faults' \in Nat /\ faults <= faults'
      /\ SlotsUndisturbed' => SlotsUndisturbed
  BY FaultsCount
<1>2. Taken \in Nat /\ BeingCounted \in {0, 1} /\ Held \in Nat
  BY SlotTypes, HeldNat
<1>3. Held' = Held
  BY DEF Held
<1>4. IsFiniteSet(LocalJobs)'
  BY DEF SlotsOK, CountOK
<1>5. Taken' + BeingCounted' <= Held' + faults'
  <2>1. PICK t \in Nat, b \in {0, 1}, h \in Nat, f \in Nat, g \in Nat :
            /\ t = Taken /\ t = Taken' /\ b = BeingCounted /\ b = BeingCounted'
            /\ h = Held /\ h = Held' /\ f = faults /\ g = faults'
    BY <1>1, <1>2, <1>3
  <2>2. t + b <= h + f /\ f <= g
    BY <2>1, <1>1 DEF SlotsOK, CountOK
  <2>3. t + b <= h + g
    BY <2>2
  <2> QED BY <2>1, <2>3
<1>6. ASSUME SlotsUndisturbed'
      PROVE  (Taken + BeingCounted = Held /\ Held <= MaxConcurrentJobs[ControlPlaneWorker])'
  BY <1>1, <1>2, <1>3, <1>6 DEF SlotsOK, CountOK
<1> QED BY <1>4, <1>5, <1>6 DEF CountOK

\* The step changes neither the jobs held nor the count, nor does the
\* distributor begin or end an assignment.
LEMMA SlotsStay ==
    ASSUME ControlPlaneAsWorker, IInv, SlotsOK, FaultsGrow,
           LocalJobs' = LocalJobs, Taken' = Taken,
           \/ dist' = dist
           \/ /\ dist'.pc \notin {"assign", "count", "release", "record", "boot"}
              /\ dist.pc # "count",
           At("assign") \/ dist.pc \in {"count", "release"} =>
               /\ jobs'[dist.job].worker = jobs[dist.job].worker
               /\ At("assign") => jobs'[dist.job].status = jobs[dist.job].status,
           local'.pc = "idle" => local'.job = NoJob,
           SlotsUndisturbed' => RowsKnown',
           \/ local' = local
           \/ SlotsUndisturbed' /\ BeingCounted = 1 /\ local'.job = dist.job =>
                  local'.pc \in {"claimed", "fetched", "building"}
    PROVE  SlotsOK'
<1>1. /\ faults \in Nat /\ faults' \in Nat /\ faults <= faults'
      /\ SlotsUndisturbed' => SlotsUndisturbed
  BY FaultsCount
<1>2. BeingCounted' = BeingCounted /\ Held' = Held
  BY DEF BeingCounted, At, Held
<1>3. Taken \in Nat /\ BeingCounted \in {0, 1} /\ Held \in Nat
  BY SlotTypes, HeldNat
<1>4. CountOK'
  BY <1>2, CountStays
<1>5. AssignmentOK'
  <2>1. CASE dist' = dist
    <3>1. At("release") => ~SlotsUndisturbed'
      BY <1>1 DEF SlotsOK, AssignmentOK
    <3>2. ASSUME At("release"), dist.target = ControlPlaneWorker
          PROVE  Taken' + 1 <= Held' + faults'
      <4>1. PICK t \in Nat, h \in Nat, f \in Nat, g \in Nat :
                /\ t = Taken /\ t = Taken' /\ h = Held /\ h = Held'
                /\ f = faults /\ g = faults'
        BY <1>1, <1>2, <1>3
      <4>2. t + 1 <= h + f /\ f <= g
        BY <3>2, <4>1, <1>1 DEF SlotsOK, AssignmentOK
      <4>3. t + 1 <= h + g
        BY <4>2
      <4> QED BY <4>1, <4>3
    <3> QED BY <2>1, <3>1, <3>2 DEF SlotsOK, AssignmentOK, At
  <2>2. CASE dist'.pc \notin {"assign", "count", "release", "record"}
    BY <2>2 DEF AssignmentOK, At
  <2> QED BY <2>1, <2>2
<1>6. CountedInTime'
  <2> SUFFICES ASSUME SlotsUndisturbed', dist'.pc = "count", dist'.target = ControlPlaneWorker
               PROVE  /\ dist'.job \in LocalJobs'
                      /\ local'.job = dist'.job =>
                             local'.pc \in {"claimed", "fetched", "building"}
    BY DEF CountedInTime, At
  <2>1. dist' = dist /\ BeingCounted = 1
    BY DEF BeingCounted, At
  <2> QED BY <1>1, <2>1 DEF SlotsOK, CountedInTime, At
<1>7. At("boot")' /\ SlotsUndisturbed' => LocalJobs' = {}
  BY <1>1 DEF SlotsOK, At
<1> QED BY <1>4, <1>5, <1>6, <1>7 DEF SlotsOK

\* A write of a row removes none.
LEMMA RowKept ==
    ASSUME IInv, NEW d, NEW status, status # "absent", NEW owner, NEW stored,
           UpdateDeployment(d, status, owner, stored)
    PROVE  \A e \in Deployments : Stored(e) => Stored(e)'
BY DEF UpdateDeployment, IInv, TypeOK, Stored

LEMMA RowsStayKnown ==
    ASSUME IInv, SlotsOK, FaultsGrow, api' = api,
           \A d \in Deployments : Stored(d) => Stored(d)'
    PROVE  SlotsUndisturbed' => RowsKnown'
BY FaultsCount DEF SlotsOK, RowsKnown

\* The distributor and the embedded worker do nothing: jobs are stored, claimed
\* by an agent or marked by its report.
LEMMA SlotsElsewhere ==
    ASSUME ControlPlaneAsWorker, IInv, SlotsOK, FaultsGrow, UNCHANGED <<dist, local>>,
           Taken' = Taken,
           \A j \in Jobs :
               \/ /\ jobs'[j].worker = jobs[j].worker
                  /\ \/ jobs'[j].status = jobs[j].status
                     \/ jobs[j].status # "queued" /\ jobs'[j].status # "queued"
                     \/ jobs[j].worker \in RemoteWorkers
               \/ jobs[j].status = "absent" /\ jobs'[j].worker = NoWorker,
           SlotsUndisturbed' => RowsKnown'
    PROVE  SlotsOK'
<1>1. /\ ControlPlaneWorker \notin RemoteWorkers
      /\ NoWorker \notin RemoteWorkers \cup {ControlPlaneWorker}
  BY DomainAssumed DEF DomainAssumption
<1>2. LocalJobs' = LocalJobs
  BY <1>1 DEF LocalJobs
<1>3. At("assign") \/ dist.pc \in {"count", "release"} =>
          /\ jobs'[dist.job].worker = jobs[dist.job].worker
          /\ At("assign") => jobs'[dist.job].status = jobs[dist.job].status
  <2>1. At("assign") \/ dist.pc \in {"count", "release"} =>
            dist.job \in Jobs /\ jobs[dist.job].status # "absent"
    BY DEF IInv, DistOK, At
  <2>2. At("assign") => jobs[dist.job].status = "queued" /\ jobs[dist.job].worker = NoWorker
    BY DEF SlotsOK, AssignmentOK
  <2> QED BY <1>1, <2>1, <2>2
<1> QED BY <1>2, <1>3, SlotsStay DEF SlotsOK

-----------------------------------------------------------------------------
(* The steps of the other processes *)

LEMMA ApiKeepsSlots ==
    ASSUME ControlPlaneAsWorker, IInv, SlotsOK, NEW d \in Deployments, ApiNext(d)
    PROVE  SlotsOK'
<1>1. UNCHANGED <<dist, local, workers>>
  BY DEF ApiNext, ApiStep, StoreDeployment, EnqueueDeployment, distVars
<1>2. Taken' = Taken
  BY <1>1 DEF Taken
<1>3. PICK done \in BOOLEAN :
          \/ StoreDeployment(d, done) /\ Outcome(done, "swallowed")
          \/ EnqueueDeployment(d, done) /\ Outcome(done, "sql")
  BY DEF ApiNext, ApiStep
<1>4. FaultsGrow /\ (~done => ~SlotsUndisturbed')
  BY <1>3, Disturbs DEF SlotFaults
<1>5. CASE StoreDeployment(d, done)
  <2>1. jobs' = jobs
    BY <1>5 DEF StoreDeployment
  <2>2. ASSUME done, SlotsUndisturbed'
        PROVE  RowsKnown'
    BY <1>4, <1>5, <2>2, FaultsCount DEF StoreDeployment, StartDeployment, UpdateDeployment,
       SlotsOK, RowsKnown, Stored, IInv, TypeOK
  <2> QED BY <1>1, <1>2, <1>4, <2>1, <2>2, SlotsElsewhere
<1>6. CASE EnqueueDeployment(d, done)
  <2>1. \A j \in Jobs :
            \/ jobs'[j] = jobs[j]
            \/ jobs[j].status = "absent" /\ jobs'[j].worker = NoWorker
    BY <1>6, JobsAreRecords DEF EnqueueDeployment, Enqueue, NewJob
  <2>2. /\ deployments' = deployments
        /\ \A e \in Deployments : api'[e] # "new" => api[e] # "new"
    BY <1>6 DEF EnqueueDeployment, IInv, TypeOK
  <2>3. SlotsUndisturbed' => RowsKnown'
    BY <1>4, <2>2, FaultsCount DEF SlotsOK, RowsKnown, Stored
  <2> QED BY <1>1, <1>2, <1>4, <2>1, <2>3, SlotsElsewhere
<1> QED BY <1>3, <1>5, <1>6

LEMMA CooldownKeepsSlots ==
    ASSUME ControlPlaneAsWorker, IInv, SlotsOK, CooldownNext
    PROVE  SlotsOK'
<1>1. UNCHANGED <<jobs, workers, deployments, dist, local, api, faults>>
  BY DEF CooldownNext, CooldownElapses
<1>2. FaultsGrow /\ Taken' = Taken /\ (SlotsUndisturbed' => RowsKnown')
  BY <1>1 DEF FaultsGrow, Taken, SlotsOK, SlotsUndisturbed, RowsKnown, Stored
<1> QED BY <1>1, <1>2, SlotsElsewhere

\* An agent and its handlers write their own row of the workers table.
LEMMA OtherRow ==
    ASSUME ControlPlaneAsWorker, IInv, NEW w \in RemoteWorkers \cup {NoWorker},
           \/ workers' = workers
           \/ Register(w) \/ UpdateHeartbeat(w) \/ DecrementJobCount(w) \/ MarkOffline(w)
           \/ \E status, current : UpdateWorker(w, status, current)
           \/ workers' = [workers EXCEPT ![w].fresh = FALSE]
    PROVE  Taken' = Taken
<1>1. ControlPlaneWorker \in Workers /\ ControlPlaneWorker # w
  BY SlotTypes, DomainAssumed DEF DomainAssumption
<1>2. workers'[ControlPlaneWorker] = workers[ControlPlaneWorker]
  BY <1>1 DEF Register, UpdateHeartbeat, DecrementJobCount, MarkOffline, UpdateWorker,
     IInv, TypeOK
<1> QED BY <1>2 DEF Taken

LEMMA WorkerKeepsSlots ==
    ASSUME ControlPlaneAsWorker, IInv, SlotsOK, NEW w \in RemoteWorkers,
           \/ AgentNext(w) \/ HeartbeatNext(w) \/ SilenceNext(w) \/ CrashNext(w)
           \/ TimeoutNext(w)
    PROVE  SlotsOK'
<1>1. UNCHANGED <<dist, local, api, deployments>>
  BY DEF AgentNext, AgentStep, HeartbeatNext, HeartbeatStep, SilenceNext, Silence,
         CrashNext, Crash, TimeoutNext, Timeout, AgentStart, ReceiveResponse, Claim,
         FinishJob, ResponseTimeout, StopWaiting, SendHeartbeat, ApplyHeartbeat,
         HeartbeatExpires, AgentCrash, distVars
<1>2. FaultsGrow
  BY ControlPlaneAssumed
  DEF ControlPlaneAssumption, IInv, TypeOK, FaultsGrow, AgentNext, AgentStep, HeartbeatNext,
      HeartbeatStep, SilenceNext, Silence, CrashNext, Crash, TimeoutNext, Timeout, Outcome,
      Fault
<1>3. SlotsUndisturbed' => RowsKnown'
  BY <1>1, <1>2, RowsStayKnown DEF Stored
<1>4. Taken' = Taken
  <2>1. \/ workers' = workers
        \/ Register(w) \/ UpdateHeartbeat(w)
        \/ \E status, current : UpdateWorker(w, status, current)
        \/ workers' = [workers EXCEPT ![w].fresh = FALSE]
    BY DEF AgentNext, AgentStep, HeartbeatNext, HeartbeatStep, SilenceNext, Silence,
         CrashNext, Crash, TimeoutNext, Timeout, AgentStart, ReceiveResponse, Claim,
         FinishJob, ResponseTimeout, StopWaiting, SendHeartbeat, ApplyHeartbeat,
         HeartbeatExpires, AgentCrash
  <2> QED BY <2>1, OtherRow
<1>5. \A j \in Jobs :
          /\ jobs'[j].worker = jobs[j].worker
          /\ jobs'[j].status = jobs[j].status \/ jobs[j].worker \in RemoteWorkers
  <2>1. \/ jobs' = jobs
        \/ \E delivered \in BOOLEAN : Claim(w, delivered)
    BY DEF AgentNext, AgentStep, HeartbeatNext, HeartbeatStep, SilenceNext, Silence,
         CrashNext, Crash, TimeoutNext, Timeout, AgentStart, ReceiveResponse,
         FinishJob, ResponseTimeout, StopWaiting, SendHeartbeat, ApplyHeartbeat,
         HeartbeatExpires, AgentCrash
  <2>2. ASSUME NEW k \in Jobs, ClaimForWorker(k, w), NEW j \in Jobs
        PROVE  /\ jobs'[j].worker = jobs[j].worker
               /\ jobs'[j].status = jobs[j].status \/ jobs[j].worker \in RemoteWorkers
    BY <2>2, JobsAreRecords DEF ClaimForWorker, Oldest, AssignedQueued, JobRecord
  <2> QED BY <2>1, <2>2 DEF Claim
<1> QED BY <1>1, <1>2, <1>3, <1>4, <1>5, SlotsElsewhere

LEMMA ReportKeepsSlots ==
    ASSUME ControlPlaneAsWorker, IInv, SlotsOK, NEW j \in Jobs, ReportNext(j)
    PROVE  SlotsOK'
<1>1. UNCHANGED <<dist, local, api>>
  BY DEF ReportNext, distVars
<1>2. PICK done \in BOOLEAN :
          \/ MarkReported(j, done) \/ DecrementReported(j, done)
          \/ SettleReported(j, done)
  BY DEF ReportNext, ReportStep
<1>3. FaultsGrow
  BY ControlPlaneAssumed
  DEF ControlPlaneAssumption, IInv, TypeOK, FaultsGrow, ReportNext, ReportStep, Outcome, Fault
<1>4. \A d \in Deployments : Stored(d) => Stored(d)'
  <2>1. CASE SettleReported(j, done)
    BY <2>1, RowKept DEF SettleReported
  <2>2. CASE deployments' = deployments
    BY <2>2 DEF Stored
  <2> QED BY <1>2, <2>1, <2>2 DEF MarkReported, DecrementReported
<1>5. report[j].worker \in RemoteWorkers /\ jobs[j].status \notin {"absent", "queued"}
  BY <1>2 DEF MarkReported, DecrementReported, SettleReported, IInv, HoldersOK
<1>6. Taken' = Taken
  BY <1>2, <1>5, OtherRow DEF MarkReported, DecrementReported, SettleReported
<1>7. \/ jobs' = jobs
      \/ \E status \in {"done", "failed"} : jobs' = [jobs EXCEPT ![j].status = status]
  BY <1>2 DEF MarkReported, DecrementReported, SettleReported, MarkDone, MarkFailed
<1>8. \A k \in Jobs :
          /\ jobs'[k].worker = jobs[k].worker
          /\ \/ jobs'[k].status = jobs[k].status
             \/ jobs[k].status # "queued" /\ jobs'[k].status # "queued"
  BY <1>5, <1>7, JobsAreRecords DEF JobRecord
<1> QED BY <1>1, <1>3, <1>4, <1>6, <1>8, RowsStayKnown, SlotsElsewhere

-----------------------------------------------------------------------------
(* The distributor *)

\* The steps that neither begin an assignment nor change one.
LEMMA DistributorReadsKeepSlots ==
    ASSUME ControlPlaneAsWorker, IInv, SlotsOK,
           UNCHANGED <<local, api>>, FaultsGrow,
           \/ HealthScan \/ ListOffline \/ ListFailover \/ ListScores \/ ListRebalance
           \/ \E done \in BOOLEAN :
                 \/ \E w \in RemoteWorkers : MarkStaleOffline(w, done)
                 \/ RecordAssignment(done)
                 \/ RequeueJob(done)
                 \/ \E d \in Deployments : RequeueDeployment(d, done)
    PROVE  SlotsOK'
<1>1. /\ dist'.pc \notin {"assign", "count", "release", "record", "boot"}
      /\ dist.pc \notin {"assign", "count", "release"}
  <2> USE DEF At, IInv, TypeOK, DistRecord
  <2>1. CASE HealthScan \/ ListOffline \/ ListFailover \/ ListScores \/ ListRebalance
    <3>1. ASSUME NEW pc \in {"mark", "failover", "rebalance", "requeue"}, NEW loop,
                 NEW wset, NEW dset,
                 \/ dist' = [dist EXCEPT !.pc = pc, !.wset = wset]
                 \/ dist' = [dist EXCEPT !.pc = pc, !.loop = loop, !.wset = wset,
                                         !.dset = dset]
          PROVE  dist'.pc \notin {"assign", "count", "release", "record", "boot"}
      BY <3>1
    <3>2. CASE HealthScan
      BY <3>1, <3>2 DEF HealthScan
    <3>3. CASE ListOffline
      BY <3>1, <3>3 DEF ListOffline
    <3>4. CASE ListFailover
      BY <3>1, <3>4 DEF ListFailover
    <3>5. CASE ListScores
      BY <3>1, <3>5 DEF ListScores
    <3>6. CASE ListRebalance
      BY <3>1, <3>6 DEF ListRebalance
    <3> QED BY <2>1, <3>2, <3>3, <3>4, <3>5, <3>6
  <2>2. ASSUME NEW done \in BOOLEAN, NEW w \in RemoteWorkers, MarkStaleOffline(w, done)
        PROVE  dist.pc = "mark" /\ dist'.pc = "mark"
    BY <2>2 DEF MarkStaleOffline
  <2>3. ASSUME NEW done \in BOOLEAN, RecordAssignment(done)
        PROVE  dist.pc = "record" /\ dist'.pc = "health"
    BY <2>3 DEF RecordAssignment, AtRest
  <2>4. ASSUME NEW done \in BOOLEAN, RequeueJob(done)
        PROVE  dist.pc = "enqueue" /\ dist'.pc = "requeue"
    BY <2>4 DEF RequeueJob
  <2>5. ASSUME NEW done \in BOOLEAN, NEW d \in Deployments, RequeueDeployment(d, done)
        PROVE  dist.pc = "requeue" /\ dist'.pc = "enqueue"
    BY <2>5 DEF RequeueDeployment
  <2> QED BY <2>1, <2>2, <2>3, <2>4, <2>5
<1>2. Taken' = Taken
  BY OtherRow DEF HealthScan, ListOffline, ListFailover, ListScores, ListRebalance,
     MarkStaleOffline, RecordAssignment, RequeueJob, RequeueDeployment
<1>3. \A d \in Deployments : Stored(d) => Stored(d)'
  <2>1. ASSUME NEW done \in BOOLEAN,
               RecordAssignment(done) \/ \E d \in Deployments : RequeueDeployment(d, done)
        PROVE  \A d \in Deployments : Stored(d) => Stored(d)'
    BY <2>1, RowKept DEF RecordAssignment, RequeueDeployment, SlotsOK, AssignmentOK
  <2>2. CASE deployments' = deployments
    BY <2>2 DEF Stored
  <2> QED BY <2>1, <2>2 DEF HealthScan, ListOffline, ListFailover, ListScores,
             ListRebalance, MarkStaleOffline, RequeueJob
<1>4. LocalJobs' = LocalJobs
  <2>1. CASE jobs' = jobs
    BY <2>1 DEF LocalJobs
  <2>2. ASSUME NEW k \in Jobs, Enqueue(k, dist.dep)
        PROVE  LocalJobs' = LocalJobs
    BY <2>2, JobsAreRecords, DomainAssumed
    DEF DomainAssumption, Enqueue, NewJob, LocalJobs
  <2> QED BY <2>1, <2>2 DEF HealthScan, ListOffline, ListFailover, ListScores,
             ListRebalance, MarkStaleOffline, RecordAssignment, RequeueJob, RequeueDeployment
<1> QED BY <1>1, <1>2, <1>3, <1>4, RowsStayKnown, SlotsStay DEF At, SlotsOK

LEMMA RegisterKeepsSlots ==
    ASSUME ControlPlaneAsWorker, IInv, SlotsOK, NEW done \in BOOLEAN,
           RegisterControlPlane(done), Outcome(done, "sql"), UNCHANGED <<local, api>>
    PROVE  SlotsOK'
<1>1. /\ dist.pc = "boot" /\ dist'.pc = "health"
      /\ UNCHANGED <<jobs, deployments>>
  BY DEF RegisterControlPlane, At, AtRest
<1>2. FaultsGrow /\ (~done => ~SlotsUndisturbed')
  BY Disturbs DEF SlotFaults
<1>3. LocalJobs' = LocalJobs /\ (SlotsUndisturbed' => RowsKnown')
  BY <1>1, <1>2, RowsStayKnown DEF LocalJobs, Stored
<1>4. CASE done
  <2>1. /\ faults' \in Nat
        /\ SlotsUndisturbed' => SlotsUndisturbed
    BY <1>2, FaultsCount
  <2>2. Taken' = 0 /\ BeingCounted' = 0 /\ Held' = Held /\ Held \in Nat
    BY <1>1, <1>3, <1>4, SlotTypes, HeldNat
    DEF RegisterControlPlane, Register, Taken, BeingCounted, Held, At, IInv, TypeOK
  <2>3. SlotsUndisturbed => Held = 0 /\ MaxConcurrentJobs[ControlPlaneWorker] \in Nat
    BY <1>1, FS_EmptySet, SlotTypes DEF SlotsOK, At, Held
  <2>4. CountOK'
    <3>1. IsFiniteSet(LocalJobs)'
      BY <1>3 DEF SlotsOK, CountOK
    <3>2. (Taken + BeingCounted <= Held + faults)'
      <4>1. PICK h \in Nat, f \in Nat : h = Held' /\ f = faults'
        BY <2>1, <2>2
      <4>2. 0 + 0 <= h + f
        OBVIOUS
      <4> QED BY <2>2, <4>1, <4>2
    <3>3. SlotsUndisturbed' => (/\ Taken + BeingCounted = Held
                                /\ Held <= MaxConcurrentJobs[ControlPlaneWorker])'
      BY <2>1, <2>2, <2>3
    <3> QED BY <3>1, <3>2, <3>3 DEF CountOK
  <2>5. AssignmentOK' /\ CountedInTime' /\ ~At("boot")'
    BY <1>1 DEF AssignmentOK, CountedInTime, At
  <2> QED BY <1>3, <2>4, <2>5 DEF SlotsOK
<1>5. CASE ~done
  <2>1. Taken' = Taken
    BY <1>5 DEF RegisterControlPlane, Taken
  <2> QED BY <1>1, <1>2, <1>3, <2>1, SlotsStay DEF At, SlotsOK
<1> QED BY <1>4, <1>5

\* The control plane is chosen only when it has a free slot.
LEMMA PickKeepsSlots ==
    ASSUME ControlPlaneAsWorker, IInv, SlotsOK, PickWorker, UNCHANGED <<local, api, faults>>
    PROVE  SlotsOK'
<1>1. /\ dist.pc = "requeue"
      /\ UNCHANGED <<jobs, workers, deployments>> /\ FaultsGrow
  BY DEF PickWorker, At, FaultsGrow
<1>2. Taken' = Taken /\ LocalJobs' = LocalJobs /\ (SlotsUndisturbed' => RowsKnown')
  BY <1>1, RowsStayKnown DEF Taken, LocalJobs, Stored
<1>3. CASE dist' = AtRest
  BY <1>1, <1>2, <1>3, SlotsStay DEF At, SlotsOK, AtRest
<1>4. ASSUME NEW j \in Unassigned, NEW w \in Choice(jobs[j].deployment),
             dist' = [AtRest EXCEPT !.pc = "assign", !.job = j, !.target = w]
      PROVE  SlotsOK'
  <2>1. dist'.pc = "assign" /\ dist'.job = j /\ dist'.target = w
    BY <1>4 DEF AtRest
  <2>2. w = ControlPlaneWorker => Taken < MaxConcurrentJobs[ControlPlaneWorker]
    BY DomainAssumed DEF DomainAssumption, Choice, SmartChoice, FirstOf, LocalChoice,
       RemoteChoice, RemoteCandidates, Available, Taken
  <2>3. BeingCounted' = BeingCounted
    BY <1>1, <2>1 DEF BeingCounted, At
  <2>4. CountOK'
    BY <1>1, <1>2, <2>3, CountStays
  <2>5. AssignmentOK'
    BY <1>1, <1>2, <2>1, <2>2 DEF AssignmentOK, At, Unassigned
  <2>6. CountedInTime' /\ ~At("boot")'
    BY <2>1 DEF CountedInTime, At
  <2> QED BY <1>2, <2>4, <2>5, <2>6 DEF SlotsOK
<1> QED BY <1>3, <1>4 DEF PickWorker, GetNextUnassignedJob, Oldest

LEMMA ReadKeepsSlots ==
    ASSUME ControlPlaneAsWorker, IInv, SlotsOK, NEW done \in BOOLEAN,
           ReadDeployment(done), FaultsGrow, UNCHANGED <<local, api>>
    PROVE  SlotsOK'
<1>1. dist.pc = "read" /\ UNCHANGED <<jobs, workers, deployments>>
  BY DEF ReadDeployment, At
<1>2. Taken' = Taken /\ LocalJobs' = LocalJobs /\ (SlotsUndisturbed' => RowsKnown')
  BY <1>1, RowsStayKnown DEF Taken, LocalJobs, Stored
<1>3. CASE dist' = AtRest
  BY <1>1, <1>2, <1>3, SlotsStay DEF At, SlotsOK, AtRest
<1>4. CASE dist' # AtRest
  <2>1. dist'.pc = "record" /\ dist'.seen # "absent"
    BY <1>4 DEF ReadDeployment, Stored, IInv, TypeOK, DistRecord
  <2>2. BeingCounted' = BeingCounted
    BY <1>1, <2>1 DEF BeingCounted, At
  <2>3. CountOK'
    BY <1>2, <2>2, CountStays
  <2>4. AssignmentOK' /\ CountedInTime' /\ ~At("boot")'
    BY <2>1 DEF AssignmentOK, CountedInTime, At
  <2> QED BY <1>2, <2>3, <2>4 DEF SlotsOK
<1> QED BY <1>3, <1>4

LEMMA AssignKeepsSlots ==
    ASSUME ControlPlaneAsWorker, IInv, SlotsOK, NEW done \in BOOLEAN,
           AssignJob(done), FaultsGrow, UNCHANGED <<local, api>>
    PROVE  SlotsOK'
<1>1. dist.pc = "assign" /\ UNCHANGED <<workers, deployments>>
  BY DEF AssignJob, At
<1>2. Taken' = Taken /\ (SlotsUndisturbed' => RowsKnown')
  BY <1>1, RowsStayKnown DEF Taken, Stored
<1>3. CASE ~done
  <2>1. dist' = AtRest /\ jobs' = jobs
    BY <1>3 DEF AssignJob
  <2>2. LocalJobs' = LocalJobs
    BY <2>1 DEF LocalJobs
  <2> QED BY <1>1, <1>2, <2>1, <2>2, SlotsStay DEF At, SlotsOK, AtRest
<1>4. CASE done
  <2>1. PICK j \in Jobs, w \in Workers : j = dist.job /\ w = dist.target
    BY <1>1 DEF IInv, DistOK
  <2>2. /\ dist'.pc = "count" /\ dist'.job = j /\ dist'.target = w
        /\ jobs' = [jobs EXCEPT ![j].worker = w]
    BY <1>4, <2>1 DEF AssignJob, AssignToWorker, IInv, TypeOK, DistRecord
  <2>3. jobs[j].status = "queued" /\ jobs[j].worker = NoWorker
    BY <1>1, <2>1 DEF SlotsOK, AssignmentOK, At
  <2>4. jobs'[j].worker = w /\ jobs'[j].status = "queued"
    BY <2>2, <2>3, JobsAreRecords DEF JobRecord
  <2>5. \A k \in Jobs \ {j} : jobs'[k] = jobs[k]
    BY <2>2, JobsAreRecords
  <2>6. j \notin LocalJobs
    BY <2>1, <2>3, SlotTypes, DomainAssumed
    DEF DomainAssumption, LocalJobs, IInv, HoldersOK, SlotsOK
  <2>7. local.job # j
    BY <2>6, SlotTypes DEF LocalJobs
  <2>8. CASE w = ControlPlaneWorker
    <3>1. LocalJobs' = LocalJobs \cup {j}
      BY <2>4, <2>5, <2>8 DEF LocalJobs
    <3>2. IsFiniteSet(LocalJobs') /\ Cardinality(LocalJobs') = Cardinality(LocalJobs) + 1
      BY <3>1, <2>6, FS_AddElement DEF SlotsOK, CountOK
    <3>3. /\ Held' = Held + 1 /\ BeingCounted' = 1 /\ BeingCounted = 0
          /\ Held \in Nat /\ Taken \in Nat
          /\ MaxConcurrentJobs[ControlPlaneWorker] \in Nat
          /\ Taken < MaxConcurrentJobs[ControlPlaneWorker]
      BY <3>2, <1>1, <2>1, <2>2, <2>8, HeldNat, SlotTypes
      DEF Held, BeingCounted, At, SlotsOK, AssignmentOK
    <3>4. CountOK'
      <4>1. /\ faults \in Nat /\ faults' \in Nat /\ faults <= faults'
            /\ SlotsUndisturbed' => SlotsUndisturbed
        BY FaultsCount
      <4>2. PICK t \in Nat, h \in Nat, f \in Nat, g \in Nat,
                 max \in Nat :
                /\ t = Taken /\ t = Taken' /\ h = Held /\ h + 1 = Held'
                /\ f = faults /\ g = faults' /\ max = MaxConcurrentJobs[ControlPlaneWorker]
        BY <4>1, <1>2, <3>3
      <4>3. t + 0 <= h + f /\ t < max /\ f <= g /\ (SlotsUndisturbed' => t + 0 = h)
        BY <4>1, <4>2, <3>3 DEF SlotsOK, CountOK
      <4>4. t + 1 <= (h + 1) + g /\ (SlotsUndisturbed' => t + 1 = h + 1 /\ h + 1 <= max)
        BY <4>3
      <4>5. /\ Taken' + BeingCounted' <= Held' + faults'
            /\ SlotsUndisturbed' =>
                   (/\ Taken + BeingCounted = Held
                    /\ Held <= MaxConcurrentJobs[ControlPlaneWorker])'
        BY <4>2, <4>4, <3>3
      <4> QED BY <3>2, <4>5 DEF CountOK
    <3>5. AssignmentOK'
      BY <2>2, <2>4 DEF AssignmentOK, At
    <3>6. CountedInTime'
      BY <2>2, <2>6, <2>7, <3>1 DEF CountedInTime
    <3> QED BY <1>2, <2>2, <3>4, <3>5, <3>6 DEF SlotsOK, At
  <2>9. CASE w # ControlPlaneWorker
    <3>1. LocalJobs' = LocalJobs
      BY <2>3, <2>4, <2>5, <2>9, DomainAssumed DEF DomainAssumption, LocalJobs
    <3>2. BeingCounted' = BeingCounted
      BY <1>1, <2>2, <2>9 DEF BeingCounted, At
    <3>3. CountOK'
      BY <1>2, <3>1, <3>2, CountStays
    <3>4. AssignmentOK' /\ CountedInTime' /\ ~At("boot")'
      BY <2>2, <2>4, <2>9 DEF AssignmentOK, CountedInTime, At
    <3> QED BY <1>2, <3>3, <3>4 DEF SlotsOK
  <2> QED BY <2>8, <2>9
<1> QED BY <1>3, <1>4

LEMMA CountKeepsSlots ==
    ASSUME ControlPlaneAsWorker, IInv, SlotsOK, NEW done \in BOOLEAN,
           CountJob(done), Outcome(done, "sql"), UNCHANGED <<local, api>>
    PROVE  SlotsOK'
<1>1. dist.pc = "count" /\ UNCHANGED <<jobs, deployments>>
  BY DEF CountJob, At
<1>2. FaultsGrow /\ (~done => faults' = faults + 1 /\ ~SlotsUndisturbed')
  BY Disturbs DEF SlotFaults
<1>3. LocalJobs' = LocalJobs /\ (SlotsUndisturbed' => RowsKnown')
  BY <1>1, <1>2, RowsStayKnown DEF LocalJobs, Stored
<1>4. /\ faults \in Nat /\ faults' \in Nat /\ faults <= faults'
      /\ SlotsUndisturbed' => SlotsUndisturbed
  BY <1>2, FaultsCount
<1>5. PICK t \in Nat, h \in Nat, f \in Nat, g \in Nat, max \in Nat, b \in {0, 1} :
          /\ t = Taken /\ h = Held /\ h = Held' /\ b = BeingCounted
          /\ f = faults /\ g = faults' /\ max = MaxConcurrentJobs[ControlPlaneWorker]
  BY <1>3, <1>4, SlotTypes, HeldNat DEF Held
<1>6. /\ t + b <= h + f /\ f <= g /\ (SlotsUndisturbed' => t + b = h /\ h <= max)
      /\ b = IF dist.target = ControlPlaneWorker THEN 1 ELSE 0
  BY <1>1, <1>4, <1>5 DEF SlotsOK, CountOK, BeingCounted, At
<1>7. /\ dist'.job = dist.job /\ dist'.target = dist.target
      /\ dist'.pc = IF done THEN "read" ELSE "release"
  BY DEF CountJob, IInv, TypeOK, DistRecord
<1>8. BeingCounted' = 0
  BY <1>7 DEF BeingCounted, At
<1>9. Taken' = IF done /\ dist.target = ControlPlaneWorker THEN t + 1 ELSE t
  <2>1. CASE done /\ dist.target = ControlPlaneWorker
    BY <1>5, <2>1, SlotTypes DEF CountJob, IncrementJobCount, Taken, IInv, TypeOK, WorkerRecord
  <2>2. CASE done /\ dist.target # ControlPlaneWorker
    BY <1>5, <2>2, SlotTypes DEF CountJob, IncrementJobCount, Taken, IInv, TypeOK
  <2>3. CASE ~done
    BY <1>5, <2>3 DEF CountJob, Taken
  <2> QED BY <2>1, <2>2, <2>3
<1>10. CountOK'
  <2>1. IsFiniteSet(LocalJobs)'
    BY <1>3 DEF SlotsOK, CountOK
  <2>2. PICK u \in Nat : u = Taken' /\ u <= t + b /\ (done => u = t + b)
    BY <1>6, <1>9
  <2>3. u + 0 <= h + g /\ (SlotsUndisturbed' => u + 0 = h /\ h <= max)
    <3>1. u <= h + g
      BY <1>6, <2>2
    <3>2. ASSUME SlotsUndisturbed'
          PROVE  u = h /\ h <= max
      <4>1. done
        BY <1>2, <3>2
      <4> QED BY <1>6, <2>2, <3>2, <4>1
    <3> QED BY <3>1, <3>2
  <2>4. /\ Taken' + BeingCounted' <= Held' + faults'
        /\ SlotsUndisturbed' =>
               (/\ Taken + BeingCounted = Held
                /\ Held <= MaxConcurrentJobs[ControlPlaneWorker])'
    BY <1>5, <1>8, <2>2, <2>3
  <2> QED BY <2>1, <2>4 DEF CountOK
<1>11. AssignmentOK'
  <2>1. CASE done
    BY <2>1, <1>7 DEF AssignmentOK, At
  <2>2. CASE ~done
    <3>1. jobs'[dist'.job].worker = dist'.target
      BY <1>1, <1>7 DEF SlotsOK, AssignmentOK
    <3>2. dist.target = ControlPlaneWorker => t + 1 <= h + g
      BY <1>6
    <3>3. dist'.target = ControlPlaneWorker => Taken' + 1 <= Held' + faults'
      BY <2>2, <3>2, <1>5, <1>7, <1>9
    <3> QED BY <2>2, <3>1, <3>3, <1>2, <1>7 DEF AssignmentOK, At
  <2> QED BY <2>1, <2>2
<1>12. CountedInTime' /\ ~At("boot")'
  BY <1>7 DEF CountedInTime, At
<1> QED BY <1>3, <1>10, <1>11, <1>12 DEF SlotsOK

\* The worker is given back only after a failure, which makes up for its slot.
LEMMA ReleaseKeepsSlots ==
    ASSUME ControlPlaneAsWorker, IInv, SlotsOK, NEW done \in BOOLEAN,
           ReleaseJob(done), Outcome(done, "sql"), UNCHANGED <<local, api>>
    PROVE  SlotsOK'
<1>1. /\ dist.pc = "release" /\ dist'.pc = "health"
      /\ UNCHANGED <<workers, deployments>> /\ Taken' = Taken
  BY DEF ReleaseJob, At, AtRest, Taken
<1>2. FaultsGrow
  BY Disturbs DEF SlotFaults
<1>3. /\ faults \in Nat /\ faults' \in Nat /\ faults <= faults'
      /\ ~SlotsUndisturbed'
  BY <1>1, <1>2, FaultsCount DEF SlotsOK, AssignmentOK, At
<1>4. BeingCounted' = 0
  BY <1>1 DEF BeingCounted, At
<1>5. PICK j \in Jobs : j = dist.job /\ jobs[j].worker = dist.target
  BY <1>1 DEF IInv, DistOK, SlotsOK, AssignmentOK
<1>6. CASE done /\ dist.target = ControlPlaneWorker
  <2>1. jobs' = [jobs EXCEPT ![j].worker = NoWorker]
    BY <1>5, <1>6 DEF ReleaseJob, ReleaseFromWorker
  <2>2. \A k \in Jobs \ {j} : jobs'[k] = jobs[k]
    BY <2>1, JobsAreRecords
  <2>3. LocalJobs' \subseteq LocalJobs /\ LocalJobs \ {j} \subseteq LocalJobs'
    <3>1. jobs'[j].worker = NoWorker /\ NoWorker # ControlPlaneWorker
      BY <2>1, JobsAreRecords, DomainAssumed DEF DomainAssumption, JobRecord
    <3> QED BY <2>2, <3>1 DEF LocalJobs
  <2>4. /\ IsFiniteSet(LocalJobs') /\ Cardinality(LocalJobs') \in Nat
        /\ Cardinality(LocalJobs) \in Nat
        /\ Cardinality(LocalJobs) <= Cardinality(LocalJobs') + 1
    <3>1. IsFiniteSet(LocalJobs)
      BY DEF SlotsOK, CountOK
    <3>2. IsFiniteSet(LocalJobs')
      BY <2>3, <3>1, FS_Subset
    <3>3. /\ Cardinality(LocalJobs \ {j}) <= Cardinality(LocalJobs')
          /\ Cardinality(LocalJobs \ {j}) \in Nat
      BY <2>3, <3>1, <3>2, FS_Subset, FS_RemoveElement, FS_CardinalityType
    <3>4. Cardinality(LocalJobs) <= Cardinality(LocalJobs \ {j}) + 1
      <4>1. Cardinality(LocalJobs) \in Nat
        BY <3>1, FS_CardinalityType
      <4>2. Cardinality(LocalJobs \ {j}) =
                IF j \in LocalJobs THEN Cardinality(LocalJobs) - 1 ELSE Cardinality(LocalJobs)
        BY <3>1, FS_RemoveElement
      <4> QED BY <4>1, <4>2
    <3> QED BY <3>1, <3>2, <3>3, <3>4, FS_CardinalityType
  <2>5. PICK t \in Nat, h \in Nat, k \in Nat, f \in Nat, g \in Nat :
            /\ t = Taken /\ t = Taken' /\ h = Held /\ k = Held' /\ f = faults /\ g = faults'
    BY <1>1, <1>3, <2>4, SlotTypes DEF Held
  <2>6. t + 1 <= h + f /\ f <= g /\ h <= k + 1
    BY <1>1, <1>3, <1>6, <2>4, <2>5 DEF SlotsOK, AssignmentOK, At, Held
  <2>7. t + 0 <= k + g
    BY <2>6
  <2>8. CountOK'
    BY <1>3, <1>4, <2>4, <2>5, <2>7 DEF CountOK
  <2> QED BY <1>1, <1>3, <2>8 DEF SlotsOK, AssignmentOK, CountedInTime, At
<1>7. CASE ~(done /\ dist.target = ControlPlaneWorker)
  <2>1. LocalJobs' = LocalJobs
    <3>1. CASE ~done
      BY <3>1 DEF ReleaseJob, LocalJobs
    <3>2. CASE done
      <4>1. /\ jobs' = [jobs EXCEPT ![j].worker = NoWorker]
            /\ jobs[j].worker # ControlPlaneWorker
        BY <1>5, <1>7, <3>2 DEF ReleaseJob, ReleaseFromWorker
      <4>2. /\ jobs'[j].worker # ControlPlaneWorker
            /\ \A k \in Jobs \ {j} : jobs'[k] = jobs[k]
        BY <4>1, JobsAreRecords, DomainAssumed DEF DomainAssumption, JobRecord
      <4> QED BY <4>1, <4>2 DEF LocalJobs
    <3> QED BY <3>1, <3>2
  <2>2. BeingCounted' = BeingCounted
    BY <1>1 DEF BeingCounted, At
  <2>3. CountOK'
    BY <1>1, <1>2, <2>1, <2>2, CountStays
  <2> QED BY <1>1, <1>3, <2>3 DEF SlotsOK, AssignmentOK, CountedInTime, At
<1> QED BY <1>6, <1>7

LEMMA DistributorKeepsSlots ==
    ASSUME ControlPlaneAsWorker, IInv, SlotsOK, DistributorNext
    PROVE  SlotsOK'
<1>1. UNCHANGED <<local, api>>
  BY DEF DistributorNext
<1>2. FaultsGrow
  BY ControlPlaneAssumed
  DEF ControlPlaneAssumption, IInv, TypeOK, FaultsGrow, DistributorNext, DistributorStep,
      Outcome, Fault
<1> QED
  BY <1>1, <1>2, DistributorReadsKeepSlots, RegisterKeepsSlots, PickKeepsSlots,
     ReadKeepsSlots, AssignKeepsSlots, CountKeepsSlots, ReleaseKeepsSlots
  DEF DistributorNext, DistributorStep

-----------------------------------------------------------------------------
(* The embedded worker *)

LEMMA LocalFaults ==
    ASSUME IInv, LocalNext \/ LocalLogsNext
    PROVE  FaultsGrow
BY ControlPlaneAssumed
DEF ControlPlaneAssumption, IInv, TypeOK, FaultsGrow, LocalNext, LocalStep, LocalLogsNext,
    LocalLogs, Outcome, Fault

LEMMA ClaimKeepsSlots ==
    ASSUME ControlPlaneAsWorker, IInv, SlotsOK, LocalClaim, FaultsGrow,
           UNCHANGED <<dist, api>>
    PROVE  SlotsOK'
<1>1. PICK k \in Jobs :
          /\ jobs[k].status = "queued" /\ jobs[k].worker = ControlPlaneWorker
          /\ jobs' = [jobs EXCEPT ![k].status = "running", ![k].attempts = @ + 1]
          /\ local' = [LocalIdle EXCEPT !.pc = "claimed", !.job = k]
  BY DEF LocalClaim, ClaimForWorker, Oldest, AssignedQueued
<1>2. /\ jobs'[k].status = "running" /\ jobs'[k].worker = ControlPlaneWorker
      /\ \A j \in Jobs \ {k} : jobs'[j] = jobs[j]
      /\ local'.pc = "claimed" /\ local'.job = k
  BY <1>1, JobsAreRecords DEF JobRecord, LocalIdle
<1>3. local.job = NoJob /\ UNCHANGED <<workers, deployments>>
  BY DEF LocalClaim, SlotsOK
<1>4. LocalJobs' = LocalJobs
  BY <1>1, <1>2, <1>3, SlotTypes DEF LocalJobs
<1>5. Taken' = Taken /\ (SlotsUndisturbed' => RowsKnown')
  BY <1>3, RowsStayKnown DEF Taken, Stored
<1>6. At("assign") \/ dist.pc \in {"count", "release"} =>
          /\ jobs'[dist.job].worker = jobs[dist.job].worker
          /\ At("assign") => jobs'[dist.job].status = jobs[dist.job].status
  BY <1>1, <1>2, DomainAssumed
  DEF DomainAssumption, SlotsOK, AssignmentOK, IInv, DistOK, At
<1> QED BY <1>2, <1>4, <1>5, <1>6, SlotsStay

\* The job stays in hand; while it is being counted, the build has not ended.
LEMMA WorkKeepsSlots ==
    ASSUME ControlPlaneAsWorker, BuildOutlastsPlacement, IInv, SlotsOK,
           NEW done \in BOOLEAN, NEW kind \in SlotFaults, Outcome(done, kind),
           \/ LocalFetch(done) \/ LocalBegin(done) \/ LocalProgress(done)
           \/ MayEnd(local.job) /\ \E ok \in BOOLEAN : LocalBuilt(ok, done)
           \/ LocalSettle(done) \/ LocalMark(done),
           UNCHANGED <<dist, api>>
    PROVE  SlotsOK'
<1>1. /\ FaultsGrow
      /\ SlotsUndisturbed' => done /\ SlotsUndisturbed
  BY Disturbs, FaultsCount
<1>2. /\ local.pc # "idle" /\ local'.pc # "idle" /\ local'.job = local.job
      /\ workers' = workers
  BY DEF LocalFetch, LocalBegin, LocalProgress, LocalBuilt, PersistLiveLogs, LocalSettle,
         LocalMark, IInv, TypeOK, LocalRecord
<1>3. local.job \in Jobs /\ jobs[local.job].status \notin {"absent", "queued"}
  BY <1>2 DEF IInv, HoldersOK
<1>4. \A j \in Jobs :
          /\ jobs'[j].worker = jobs[j].worker
          /\ \/ jobs'[j].status = jobs[j].status
             \/ j = local.job /\ jobs'[j].status # "queued"
  <2>1. \/ jobs' = jobs
        \/ \E status \in {"done", "failed"} :
              jobs' = [jobs EXCEPT ![local.job].status = status]
    BY DEF LocalFetch, LocalBegin, LocalProgress, LocalBuilt, PersistLiveLogs, LocalSettle,
         LocalMark, MarkDone, MarkFailed
  <2> QED BY <2>1, <1>3, JobsAreRecords DEF JobRecord
<1>5. LocalJobs' = LocalJobs /\ Taken' = Taken
  BY <1>2, <1>3, <1>4 DEF LocalJobs, Taken
<1>6. \A d \in Deployments : Stored(d) => Stored(d)'
  <2>1. CASE deployments' = deployments
    BY <2>1 DEF Stored
  <2>2. ASSUME NEW d, NEW status \in {"deploying", "running", "failed"}, NEW owner,
               UpdateDeployment(d, status, owner, done)
        PROVE  \A e \in Deployments : Stored(e) => Stored(e)'
    BY <2>2, RowKept
  <2> QED BY <2>1, <2>2 DEF LocalFetch, LocalBegin, LocalProgress, LocalBuilt,
             PersistLiveLogs, LocalSettle, LocalMark
<1>7. At("assign") \/ dist.pc \in {"count", "release"} =>
          /\ jobs'[dist.job].worker = jobs[dist.job].worker
          /\ At("assign") => jobs'[dist.job].status = jobs[dist.job].status
  BY <1>3, <1>4 DEF SlotsOK, AssignmentOK, IInv, DistOK, At
<1>8. SlotsUndisturbed' /\ BeingCounted = 1 /\ local'.job = dist.job =>
          local'.pc \in {"claimed", "fetched", "building"}
  <2> SUFFICES ASSUME SlotsUndisturbed', BeingCounted = 1, local.job = dist.job
               PROVE  local'.pc \in {"claimed", "fetched", "building"}
    BY <1>2
  <2>1. done /\ RowsKnown /\ SlotsUndisturbed
    BY <1>1 DEF SlotsOK
  <2>2. At("count") /\ local.pc \in {"claimed", "fetched", "building"}
    BY <2>1 DEF SlotsOK, CountedInTime, BeingCounted
  <2>3. CASE LocalFetch(done)
    <3>1. LocalDeployment \in Deployments /\ api[LocalDeployment] # "new"
      BY <1>3 DEF LocalDeployment, IInv, TypeOK, JobRecord, DeploymentOrNone, RowsOK, NewOK
    <3> QED BY <2>1, <2>3, <3>1 DEF LocalFetch, RowsKnown, IInv, TypeOK, LocalRecord
  <2>4. CASE LocalBegin(done) \/ LocalProgress(done)
    BY <2>2, <2>4 DEF LocalBegin, LocalProgress, IInv, TypeOK, LocalRecord
  <2>5. ~MayEnd(local.job)
    BY <2>2 DEF MayEnd, Placing, At
  <2> QED BY <2>2, <2>3, <2>4, <2>5 DEF LocalSettle, LocalMark
<1> QED BY <1>1, <1>2, <1>5, <1>6, <1>7, <1>8, RowsStayKnown, SlotsStay

\* The slot is given back with the job; a count that is already 0 is not exact.
LEMMA GiveBackKeepsSlots ==
    ASSUME ControlPlaneAsWorker, IInv, SlotsOK, NEW done \in BOOLEAN,
           LocalRelease(done), Outcome(done, "sql"), UNCHANGED <<dist, api>>
    PROVE  SlotsOK'
<1>1. /\ local.pc = "release" /\ local' = LocalIdle
      /\ UNCHANGED <<jobs, deployments>>
  BY DEF LocalRelease
<1>2. /\ FaultsGrow
      /\ ~done => faults' = faults + 1 /\ ~SlotsUndisturbed'
  BY Disturbs DEF SlotFaults
<1>3. /\ faults \in Nat /\ faults' \in Nat /\ faults <= faults'
      /\ SlotsUndisturbed' => SlotsUndisturbed
      /\ faults = 0 => SlotsUndisturbed
  BY <1>2, FaultsCount DEF SlotsUndisturbed
<1>4. local.job \in Jobs /\ jobs[local.job].status # "queued" /\ local.job # NoJob
  BY <1>1, SlotTypes DEF IInv, HoldersOK
<1>5. local.job \in LocalJobs /\ LocalJobs' = LocalJobs \ {local.job}
  BY <1>1, <1>4 DEF LocalJobs, LocalIdle
<1>6. IsFiniteSet(LocalJobs') /\ Held \in Nat /\ Held' \in Nat /\ Held = Held' + 1
  <2>1. IsFiniteSet(LocalJobs) /\ Cardinality(LocalJobs) \in Nat
    BY FS_CardinalityType DEF SlotsOK, CountOK
  <2>2. IsFiniteSet(LocalJobs') /\ Cardinality(LocalJobs') = Cardinality(LocalJobs) - 1
    BY <2>1, <1>5, FS_RemoveElement
  <2>3. Cardinality(LocalJobs') \in Nat
    BY <2>2, FS_CardinalityType
  <2> QED BY <2>1, <2>2, <2>3 DEF Held
<1>7. BeingCounted' = BeingCounted
  BY DEF BeingCounted, At
<1>8. PICK t \in Nat, b \in {0, 1}, h \in Nat, f \in Nat, g \in Nat, max \in Nat :
          /\ t = Taken /\ b = BeingCounted /\ b = BeingCounted' /\ h = Held'
          /\ f = faults /\ g = faults' /\ max = MaxConcurrentJobs[ControlPlaneWorker]
  BY <1>3, <1>6, <1>7, SlotTypes
<1>9. /\ t + b <= (h + 1) + f /\ f <= g /\ (f = 0 => SlotsUndisturbed)
      /\ ~done => g = f + 1 /\ ~SlotsUndisturbed'
      /\ SlotsUndisturbed => t + b = h + 1 /\ h + 1 <= max
  BY <1>2, <1>3, <1>6, <1>8 DEF SlotsOK, CountOK
\* Had nothing been taken, the one job held would be the one being counted.
<1>10. SlotsUndisturbed => t > 0
  <2> SUFFICES ASSUME SlotsUndisturbed, t = 0 PROVE FALSE
    BY <1>8
  <2>1. b = 1 /\ h = 0
    BY <1>8, <1>9
  <2>2. At("count") /\ dist.target = ControlPlaneWorker
    BY <1>8, <2>1 DEF BeingCounted
  <2>3. dist.job \in LocalJobs /\ dist.job # local.job
    BY <1>1, <2>2 DEF SlotsOK, CountedInTime
  <2>4. LocalJobs' = {}
    BY <1>6, <1>8, <2>1, FS_EmptySet DEF Held
  <2> QED BY <1>5, <2>3, <2>4
<1>11. Taken' = IF done /\ t > 0 THEN t - 1 ELSE t
  BY <1>8, SlotTypes DEF LocalRelease, DecrementJobCount, Taken, IInv, TypeOK, WorkerRecord
<1>12. PICK u \in Nat : /\ u = Taken' /\ u <= t
                        /\ done /\ t > 0 => u = t - 1
                        /\ ~(done /\ t > 0) => u = t
  BY <1>8, <1>11
<1>13. /\ u + b <= h + g
       /\ SlotsUndisturbed' => u + b = h /\ h <= max
  <2>1. CASE done /\ t > 0
    <3>1. u = t - 1
      BY <1>12, <2>1
    <3>2. u + b <= h + g
      BY <1>9, <3>1
    <3>3. SlotsUndisturbed => u + b = h /\ h <= max
      BY <1>9, <3>1
    <3> QED BY <1>3, <3>2, <3>3
  <2>2. CASE done /\ t = 0
    <3>1. ~SlotsUndisturbed /\ u = 0
      BY <1>10, <1>12, <2>2
    <3>2. f # 0
      BY <1>9, <3>1
    <3>3. u + b <= h + g
      BY <1>9, <3>1, <3>2
    <3> QED BY <1>3, <3>1, <3>3
  <2>3. CASE ~done
    <3>1. u = t /\ g = f + 1 /\ ~SlotsUndisturbed'
      BY <1>9, <1>12, <2>3
    <3>2. u + b <= h + g
      BY <1>9, <3>1
    <3> QED BY <3>1, <3>2
  <2> QED BY <2>1, <2>2, <2>3
<1>14. CountOK'
  <2>1. /\ Taken' + BeingCounted' <= Held' + faults'
        /\ SlotsUndisturbed' =>
               (/\ Taken + BeingCounted = Held
                /\ Held <= MaxConcurrentJobs[ControlPlaneWorker])'
    BY <1>8, <1>12, <1>13
  <2> QED BY <1>6, <2>1 DEF CountOK
<1>15. AssignmentOK'
  <2>1. ASSUME At("assign"), dist.target = ControlPlaneWorker
        PROVE  Taken' < MaxConcurrentJobs[ControlPlaneWorker]
    BY <2>1, <1>8, <1>12 DEF SlotsOK, AssignmentOK
  <2>2. At("release") => ~SlotsUndisturbed'
    BY <1>3 DEF SlotsOK, AssignmentOK
  <2>3. ASSUME At("release"), dist.target = ControlPlaneWorker
        PROVE  Taken' + 1 <= Held' + faults'
    <3>1. t + 1 <= (h + 1) + f /\ f # 0 /\ f <= g
      BY <2>3, <1>6, <1>8, <1>9 DEF SlotsOK, AssignmentOK
    <3>2. u + 1 <= h + g
      <4>1. CASE t = 0
        BY <3>1, <1>12, <4>1
      <4>2. CASE done /\ t > 0
        BY <3>1, <1>12, <4>2
      <4>3. CASE ~done
        <5>1. u = t /\ g = f + 1
          BY <1>9, <1>12, <4>3
        <5> QED BY <3>1, <5>1
      <4> QED BY <4>1, <4>2, <4>3
    <3> QED BY <3>2, <1>8, <1>12
  <2> QED BY <1>1, <2>1, <2>2, <2>3 DEF SlotsOK, AssignmentOK, At
<1>16. CountedInTime'
  <2> SUFFICES ASSUME SlotsUndisturbed', At("count"), dist.target = ControlPlaneWorker
               PROVE  dist.job \in LocalJobs' /\ local'.job # dist.job
    BY DEF CountedInTime, At
  <2>1. dist.job \in LocalJobs /\ dist.job # local.job
    BY <1>1, <1>3 DEF SlotsOK, CountedInTime
  <2>2. dist.job # NoJob
    BY SlotTypes, <2>1, <1>4 DEF LocalJobs
  <2> QED BY <1>1, <1>5, <2>1, <2>2 DEF LocalIdle
<1>17. /\ local'.pc = "idle" => local'.job = NoJob
       /\ (At("boot") /\ SlotsUndisturbed)' => LocalJobs' = {}
       /\ (SlotsUndisturbed => RowsKnown)'
  BY <1>1, <1>3, <1>5 DEF LocalIdle, SlotsOK, RowsKnown, Stored, At
<1> QED BY <1>14, <1>15, <1>16, <1>17 DEF SlotsOK

LEMMA LocalKeepsSlots ==
    ASSUME ControlPlaneAsWorker, BuildOutlastsPlacement, IInv, SlotsOK,
           LocalNext \/ LocalLogsNext
    PROVE  SlotsOK'
<1>1. FaultsGrow /\ UNCHANGED <<dist, api>>
  BY LocalFaults DEF LocalNext, LocalLogsNext, distVars
<1>2. "sql" \in SlotFaults /\ "swallowed" \in SlotFaults
  BY DEF SlotFaults
<1>3. CASE LocalClaim
  BY <1>1, <1>3, ClaimKeepsSlots
<1>4. ASSUME NEW done \in BOOLEAN, NEW kind \in SlotFaults, Outcome(done, kind),
             \/ LocalFetch(done) \/ LocalBegin(done) \/ LocalProgress(done)
             \/ MayEnd(local.job) /\ \E ok \in BOOLEAN : LocalBuilt(ok, done)
             \/ LocalSettle(done) \/ LocalMark(done)
      PROVE  SlotsOK'
  BY <1>1, <1>4, WorkKeepsSlots
<1>5. ASSUME NEW done \in BOOLEAN, LocalRelease(done), Outcome(done, "sql")
      PROVE  SlotsOK'
  BY <1>1, <1>5, GiveBackKeepsSlots
<1> QED BY <1>2, <1>3, <1>4, <1>5 DEF LocalNext, LocalStep, LocalLogsNext, LocalLogs

-----------------------------------------------------------------------------
\* The jobs that still wait for the worker stay assigned to it.
LEMMA RestartKeepsSlots ==
    ASSUME ControlPlaneAsWorker, IInv, SlotsOK, Restart
    PROVE  SlotsOK'
<1>1. /\ dist' = Boot /\ local' = LocalIdle /\ UNCHANGED <<jobs, workers>>
      /\ "restart" \in FaultKinds /\ faults' = faults + 1
      /\ dist'.pc = "boot"
  BY DEF Restart, Fault, Boot, AtRest
<1>2. faults \in Nat /\ ~SlotsUndisturbed'
  BY <1>1, ControlPlaneAssumed
  DEF ControlPlaneAssumption, IInv, TypeOK, SlotsUndisturbed, SlotFaults
<1>3. /\ IsFiniteSet(LocalJobs') /\ Held \in Nat /\ Held' \in Nat /\ Held <= Held' + 1
  <2>1. LocalJobs' \subseteq LocalJobs /\ LocalJobs \ {local.job} \subseteq LocalJobs'
    BY <1>1 DEF LocalJobs, LocalIdle
  <2>2. IsFiniteSet(LocalJobs) /\ Cardinality(LocalJobs) \in Nat
    BY FS_CardinalityType DEF SlotsOK, CountOK
  <2>3. IsFiniteSet(LocalJobs') /\ Cardinality(LocalJobs') \in Nat
    BY <2>1, <2>2, FS_Subset, FS_CardinalityType
  <2>4. /\ Cardinality(LocalJobs \ {local.job}) <= Cardinality(LocalJobs')
        /\ Cardinality(LocalJobs \ {local.job}) \in Nat
    BY <2>1, <2>2, <2>3, FS_Subset, FS_RemoveElement, FS_CardinalityType
  <2>5. Cardinality(LocalJobs \ {local.job}) =
            IF local.job \in LocalJobs THEN Cardinality(LocalJobs) - 1
            ELSE Cardinality(LocalJobs)
    BY <2>2, FS_RemoveElement
  <2> QED BY <2>2, <2>3, <2>4, <2>5 DEF Held
<1>4. CountOK'
  <2>1. PICK t \in Nat, b \in {0, 1}, h \in Nat, k \in Nat, f \in Nat :
            /\ t = Taken /\ t = Taken' /\ b = BeingCounted /\ h = Held /\ k = Held'
            /\ f = faults /\ f + 1 = faults'
    BY <1>1, <1>2, <1>3, SlotTypes DEF Taken
  <2>2. t + b <= h + f /\ h <= k + 1
    BY <1>3, <2>1 DEF SlotsOK, CountOK
  <2>3. t + 0 <= k + (f + 1)
    BY <2>2
  <2>4. BeingCounted' = 0
    BY <1>1 DEF BeingCounted, At
  <2> QED BY <1>2, <1>3, <2>1, <2>3, <2>4 DEF CountOK
<1> QED BY <1>1, <1>2, <1>4 DEF SlotsOK, AssignmentOK, CountedInTime, At, LocalIdle

LEMMA InitSlots == ControlPlaneAsWorker /\ Init => SlotsOK
<1> SUFFICES ASSUME ControlPlaneAsWorker, Init PROVE SlotsOK
  OBVIOUS
<1>1. IInv
  BY InitIInv
<1>2. LocalJobs = {} /\ Taken = 0 /\ BeingCounted = 0
  BY SlotTypes, <1>1
  DEF Init, JobsInit, NoRow, LocalInit, LocalIdle, LocalJobs, WorkersInit, Taken, DistInit,
      Boot, AtRest, BeingCounted, At
<1>3. CountOK
  BY <1>1, <1>2, SlotTypes, FS_EmptySet DEF CountOK, Held, Init
<1>4. AssignmentOK /\ CountedInTime
  BY DEF Init, DistInit, Boot, AtRest, AssignmentOK, CountedInTime, At
<1> QED BY <1>2, <1>3, <1>4 DEF Init, SlotsOK, LocalInit, LocalIdle, RowsKnown

LEMMA StepKeepsSlots ==
    ASSUME ControlPlaneAsWorker, BuildOutlastsPlacement
    PROVE  IInv /\ SlotsOK /\ [Next]_vars => SlotsOK'
<1> SUFFICES ASSUME IInv, SlotsOK, [Next]_vars PROVE SlotsOK'
  OBVIOUS
<1>1. CASE UNCHANGED vars
  <2>1. FaultsGrow /\ Taken' = Taken /\ (SlotsUndisturbed' => RowsKnown')
    BY <1>1 DEF vars, FaultsGrow, Taken, SlotsOK, SlotsUndisturbed, RowsKnown, Stored
  <2> QED BY <1>1, <2>1, SlotsElsewhere DEF vars
<1> QED
  BY <1>1, ApiKeepsSlots, DistributorKeepsSlots, CooldownKeepsSlots, WorkerKeepsSlots,
     ReportKeepsSlots, LocalKeepsSlots, RestartKeepsSlots DEF Next

\* Until a statement fails the embedded worker's count is exact and within its
\* slots, whatever the interleaving; every failure takes at most one slot away.
THEOREM SlotsAccounted ==
    ASSUME NoLostRequeue, ControlPlaneAsWorker, BuildOutlastsPlacement
    PROVE  Spec => []LocalSlotsAccounted
<1>1. SlotsOK => LocalSlotsAccounted
  BY DEF SlotsOK, CountOK, LocalSlotsAccounted, Taken, Held
<1> QED
  BY <1>1, InitSlots, StepKeepsSlots, SpecKeepsIInv, PTL DEF Spec

=============================================================================
