--------------------------- MODULE LifecycleProofs ---------------------------
(***************************************************************************)
(* The control plane implements Lifecycle, for any number of deployments,  *)
(* jobs, workers and failures.                                             *)
(***************************************************************************)
EXTENDS ControlPlaneProofs

-----------------------------------------------------------------------------
(* What decides the phase of a deployment *)

\* Worker w, or the handler of its report, is at job j.
Holds(w, j) ==
    \/ w \in RemoteWorkers /\ Executing(w, j)
    \/ ReportPending(j) /\ report[j].worker = w
    \/ LocalBusyWith(j) /\ w = ControlPlaneWorker

Failed(d) == deployments[d].status = "failed"

Unsettled(d) == ~Running(d) /\ ~Failed(d)

\* Nobody has a job for d, nor is one about to be stored.
LeftAlone(d) == ~Promised(d) /\ \A j \in JobsOf(d) : ~Carrying(j)

Is(d, p, w) == PhaseOf(d) = p /\ HostOf(d) = w

PhaseFacts(d) ==
    /\ api[d] = "new" => Is(d, "new", NoWorker)
    /\ Promised(d) => Is(d, "promised", NoWorker)
    /\ \A j \in JobsOf(d) : jobs[j].status = "queued" => Is(d, "waiting", NoWorker)
    /\ \A j \in JobsOf(d) : \A w \in Workers : Holds(w, j) => Is(d, "executing", w)
    /\ api[d] # "new" /\ LeftAlone(d) =>
           /\ Running(d) => Is(d, "up", deployments[d].owner)
           /\ Failed(d) => Is(d, "down", NoWorker)
           /\ Unsettled(d) => Is(d, "stranded", NoWorker)

LEMMA CarryingIs ==
    ASSUME IInv, NEW j \in Jobs
    PROVE  Carrying(j) <=> jobs[j].status = "queued" \/ \E w \in Workers : Holds(w, j)
<1>1. ReportPending(j) => report[j].worker \in Workers
  BY RemoteIsWorker DEF IInv, HoldersOK, ReportPending
<1>2. LocalBusyWith(j) => ControlPlaneWorker \in Workers
  BY DEF IInv, HoldersOK, LocalBusyWith, Workers
<1> QED BY <1>1, <1>2, RemoteIsWorker DEF Carrying, Holds

LEMMA CustodiansAre ==
    ASSUME IInv, NEW d \in Deployments
    PROVE  /\ \A c \in Custodians(d) : \E j \in JobsOf(d) : Carrying(j)
           /\ \A j \in JobsOf(d) : jobs[j].status = "queued" => Custodians(d) # {}
           /\ \A j \in JobsOf(d) : \A w \in Workers :
                 Holds(w, j) => \E c \in Custodians(d) : c[2] = w
<1>1. ASSUME NEW c \in Custodians(d) PROVE \E j \in JobsOf(d) : Carrying(j)
  BY <1>1 DEF Custodians, Carrying
<1>2. ASSUME NEW j \in JobsOf(d), jobs[j].status = "queued" PROVE Custodians(d) # {}
  BY <1>2 DEF Custodians
<1>3. ASSUME NEW j \in JobsOf(d), NEW w \in Workers, Holds(w, j)
      PROVE  \E c \in Custodians(d) : c[2] = w
  <2>1. CASE w \in RemoteWorkers /\ Executing(w, j)
    <3>1. <<w, j>> \in {x \in RemoteWorkers \X JobsOf(d) : Executing(x[1], x[2])}
      BY <2>1
    <3>2. <<"agent", w, j>> \in Custodians(d)
      BY <3>1 DEF Custodians
    <3> QED BY <3>2
  <2>2. CASE ReportPending(j) /\ report[j].worker = w
    <3>1. <<"handler", w, j>> \in Custodians(d)
      BY <2>2 DEF Custodians
    <3> QED BY <3>1
  <2>3. CASE LocalBusyWith(j) /\ w = ControlPlaneWorker
    <3>1. <<"local", w, j>> \in Custodians(d)
      BY <2>3 DEF Custodians
    <3> QED BY <3>1
  <2> QED BY <1>3, <2>1, <2>2, <2>3 DEF Holds
<1> QED BY <1>1, <1>2, <1>3

LEMMA Phases == IInv => \A d \in Deployments : PhaseFacts(d)
<1> SUFFICES ASSUME IInv, NEW d \in Deployments PROVE PhaseFacts(d)
  OBVIOUS
<1>1. api[d] = "new" => ~Promised(d) /\ Is(d, "new", NoWorker)
  BY DEF IInv, NewOK, JobsOf, Is, PhaseOf, HostOf
<1>2. ASSUME NEW j \in JobsOf(d), Carrying(j) PROVE api[d] # "new" /\ ~Promised(d)
  BY <1>2 DEF IInv, NewOK, Unshared, JobsOf
<1>3. Promised(d) => Is(d, "promised", NoWorker)
  BY <1>1, <1>2 DEF Carrying, Is, PhaseOf, HostOf
<1>4. ASSUME NEW j \in JobsOf(d), jobs[j].status = "queued"
      PROVE  Is(d, "waiting", NoWorker)
  <2>1. Carrying(j)
    BY <1>4 DEF Carrying
  <2> QED BY <1>2, <1>4, <2>1 DEF Is, PhaseOf, HostOf
<1>5. ASSUME NEW j \in JobsOf(d), NEW w \in Workers, Holds(w, j)
      PROVE  Is(d, "executing", w)
  <2>1. j \in Jobs /\ jobs[j].deployment = d /\ Carrying(j) /\ jobs[j].status # "queued"
    BY <1>5 DEF JobsOf, Holds, Carrying, IInv, HoldersOK, ReportPending
  <2>2. ASSUME NEW k \in JobsOf(d), jobs[k].status = "queued" PROVE FALSE
    BY <2>1, <2>2 DEF IInv, Exclusive, Carrying, JobsOf
  <2>3. PICK c \in Custodians(d) : c[2] = w
    BY <1>5, CustodiansAre
  <2>4. Executor(d) = w
    BY <2>3, CustodyFollows DEF SingleCustody, NoDuplicateOwnership, Executor
  <2>5. PhaseOf(d) = "executing"
    BY <1>2, <2>1, <2>2, <2>3 DEF PhaseOf
  <2> QED BY <2>4, <2>5 DEF Is, HostOf
<1>6. ASSUME api[d] # "new", LeftAlone(d)
      PROVE  /\ Running(d) => Is(d, "up", deployments[d].owner)
             /\ Failed(d) => Is(d, "down", NoWorker)
             /\ Unsettled(d) => Is(d, "stranded", NoWorker)
  <2>1. Custodians(d) = {} /\ ~Promised(d)
        /\ \A j \in JobsOf(d) : jobs[j].status # "queued"
    BY <1>6, CustodiansAre DEF LeftAlone, Carrying
  <2> QED BY <1>6, <2>1 DEF Is, PhaseOf, HostOf, Unsettled, Failed, Running
<1> QED BY <1>1, <1>3, <1>4, <1>5, <1>6 DEF PhaseFacts

LEMMA PhasesNext == IInv' => (\A d \in Deployments : PhaseFacts(d))'
BY Phases, PTL

LEMMA CarryingNext ==
    IInv' => (\A j \in Jobs :
                 Carrying(j) <=> jobs[j].status = "queued" \/ \E w \in Workers : Holds(w, j))'
<1>1. IInv => \A j \in Jobs :
                 Carrying(j) <=> jobs[j].status = "queued" \/ \E w \in Workers : Holds(w, j)
  BY CarryingIs
<1> QED BY <1>1, PTL

-----------------------------------------------------------------------------
(* Steps of Lifecycle *)

Same(d) == PhaseOf(d)' = PhaseOf(d) /\ HostOf(d)' = HostOf(d)

Moves == [Life!LifeNext]_(Life!lifeVars)

LEMMA MoveIs ==
    ASSUME NEW d \in Deployments, NEW from, NEW to, NEW w,
           PhaseOf(d) = from, Is(d, to, w)', \A e \in Deployments \ {d} : Same(e)
    PROVE  Life!Move(d, from, to, w)
<1>1. [e \in Deployments |-> PhaseOf(e)]'
          = [[e \in Deployments |-> PhaseOf(e)] EXCEPT ![d] = to]
  BY DEF Same, Is
<1>2. [e \in Deployments |-> HostOf(e)]'
          = [[e \in Deployments |-> HostOf(e)] EXCEPT ![d] = w]
  BY DEF Same, Is
<1>3. [e \in Deployments |-> PhaseOf(e)][d] = from
  OBVIOUS
<1> QED BY <1>1, <1>2, <1>3 DEF Life!Move

LEMMA SubmitIs ==
    ASSUME NEW d \in Deployments, Is(d, "new", NoWorker), Is(d, "promised", NoWorker)',
           \A e \in Deployments \ {d} : Same(e)
    PROVE  Moves
<1>1. Life!Move(d, "new", "promised", NoWorker)
  BY MoveIs DEF Is
<1> QED BY <1>1 DEF Moves, Life!LifeNext, Life!Submit

LEMMA QueueIs ==
    ASSUME NEW d \in Deployments, Is(d, "promised", NoWorker), Is(d, "waiting", NoWorker)',
           \A e \in Deployments \ {d} : Same(e)
    PROVE  Moves
<1>1. Life!Move(d, "promised", "waiting", NoWorker)
  BY MoveIs DEF Is
<1> QED BY <1>1 DEF Moves, Life!LifeNext, Life!Queue

LEMMA TakeIs ==
    ASSUME NEW d \in Deployments, NEW w \in Workers, Is(d, "waiting", NoWorker),
           Is(d, "executing", w)', \A e \in Deployments \ {d} : Same(e)
    PROVE  Moves
<1>1. Life!Move(d, "waiting", "executing", w)
  BY MoveIs DEF Is
<1> QED BY <1>1 DEF Moves, Life!LifeNext, Life!Take

LEMMA SucceedIs ==
    ASSUME NEW d \in Deployments, NEW w, Is(d, "executing", w), Is(d, "up", w)',
           \A e \in Deployments \ {d} : Same(e)
    PROVE  Moves
<1>1. Life!Move(d, "executing", "up", w)
  BY MoveIs DEF Is
<1>2. [e \in Deployments |-> HostOf(e)][d] = w
  BY DEF Is
<1> QED BY <1>1, <1>2 DEF Moves, Life!LifeNext, Life!Succeed

LEMMA FailIs ==
    ASSUME NEW d \in Deployments, NEW w, Is(d, "executing", w), Is(d, "down", NoWorker)',
           \A e \in Deployments \ {d} : Same(e)
    PROVE  Moves
<1>1. Life!Move(d, "executing", "down", NoWorker)
  BY MoveIs DEF Is
<1> QED BY <1>1 DEF Moves, Life!LifeNext, Life!Fail

LEMMA RelocateIs ==
    ASSUME NEW d \in Deployments, NEW w, Is(d, "up", w), Is(d, "promised", NoWorker)',
           \A e \in Deployments \ {d} : Same(e)
    PROVE  Moves
<1>1. Life!Move(d, "up", "promised", NoWorker)
  BY MoveIs DEF Is
<1> QED BY <1>1 DEF Moves, Life!LifeNext, Life!Relocate

LEMMA StrandIs ==
    ASSUME \A e \in Deployments :
               Same(e) \/ /\ PhaseOf(e) \in {"promised", "waiting", "executing"}
                          /\ Is(e, "stranded", NoWorker)'
    PROVE  Moves
<1> DEFINE S == {e \in Deployments : ~Same(e)}
<1>1. \A e \in S : [f \in Deployments |-> PhaseOf(f)][e]
                       \in {"promised", "waiting", "executing"}
  OBVIOUS
<1>2. [e \in Deployments |-> PhaseOf(e)]'
          = [e \in Deployments |-> IF e \in S THEN "stranded"
                                   ELSE [f \in Deployments |-> PhaseOf(f)][e]]
  BY DEF Same, Is
<1>3. [e \in Deployments |-> HostOf(e)]'
          = [e \in Deployments |-> IF e \in S THEN NoWorker
                                   ELSE [f \in Deployments |-> HostOf(f)][e]]
  BY DEF Same, Is
<1>4. S \in SUBSET Deployments
  OBVIOUS
<1> HIDE DEF S
<1>5. Life!Strand(S)
  BY <1>1, <1>2, <1>3 DEF Life!Strand
<1> QED BY <1>4, <1>5 DEF Moves, Life!LifeNext

LEMMA StutterIs ==
    ASSUME \A e \in Deployments : Same(e)
    PROVE  Moves
BY DEF Same, Moves, Life!lifeVars

-----------------------------------------------------------------------------
(* What the refinement needs beyond IInv *)

\* Before its first job is stored a deployment has none, and no outcome.
StoredOK ==
    \A d \in Deployments :
        api[d] \in {"new", "stored"} => Unsettled(d) /\ JobsOf(d) = {}

\* Between the two statements of a re-queue the row says so.
RequeuedOK == At("enqueue") => deployments[dist.dep].status = "queued"

\* No outcome before a job is over.
CarryingOK == \A j \in Jobs : Carrying(j) => Unsettled(jobs[j].deployment)

\* While the distributor is placing a job nobody settles it, its deployment
\* has no other, and what the distributor will write back is no outcome.
PlacingOK ==
    \A j \in Jobs :
        Placing(j) =>
            /\ report[j].pc = "none"
            /\ local.job = j => local.pc # "built"
            /\ Unsettled(jobs[j].deployment)
            /\ \A k \in Jobs : Carrying(k) /\ jobs[k].deployment = jobs[j].deployment => k = j
            /\ At("record") => dist.seen \notin {"running", "failed"}

LifeOK == StoredOK /\ RequeuedOK /\ CarryingOK /\ PlacingOK

\* A step of anyone but the deploy API, apart from the distributor's steps
\* that store a job, take one in hand or re-queue a deployment. It writes at
\* most one row: of the deployment it carries a job for, or of the one whose
\* job is being placed.
Writes(j) ==
    /\ \A d \in Deployments \ {jobs[j].deployment} : deployments'[d] = deployments[d]
    /\ \/ /\ Carrying(j)
          /\ Unsettled(jobs[j].deployment)' \/ (~Carrying(j)' /\ ~Placing(j))
       \/ Unsettled(jobs[j].deployment)' /\ dist'.pc # "enqueue"

LEMMA JobsHaveDeployments ==
    ASSUME IInv, NEW j \in Jobs, Carrying(j) \/ Placing(j)
    PROVE  jobs[j].deployment \in Deployments
<1>1. jobs[j].status # "absent"
  BY DEF Carrying, Placing, IInv, HoldersOK, DistOK, LocalBusyWith, Executing, ReportPending
<1> QED BY <1>1 DEF IInv, TypeOK, RowsOK, JobRecord, DeploymentOrNone

LEMMA KeepsLifeOK ==
    ASSUME IInv, LifeOK,
           \A d \in Deployments : api'[d] \in {"new", "stored"} => api'[d] = api[d],
           \A j \in Jobs : /\ jobs'[j].deployment = jobs[j].deployment
                           /\ Carrying(j)' => Carrying(j)
                           /\ Placing(j)' => /\ Placing(j) /\ report'[j].pc = "none"
                                             /\ local'.job = j => local'.pc # "built",
           dist'.pc = "enqueue" => dist' = dist,
           dist'.pc = "record" =>
               \/ dist' = dist
               \/ dist'.seen = deployments[jobs[dist'.job].deployment].status,
           deployments' = deployments \/ \E j \in Jobs : Writes(j)
    PROVE  LifeOK'
<1>1. PICK j \in Jobs \cup {NoJob} :
          \/ deployments' = deployments
          \/ j \in Jobs /\ Writes(j)
  OBVIOUS
<1>2. StoredOK'
  <2> SUFFICES ASSUME NEW d \in Deployments, api'[d] \in {"new", "stored"}
               PROVE  Unsettled(d)' /\ JobsOf(d)' = {}
    BY DEF StoredOK
  <2>1. Unsettled(d) /\ JobsOf(d) = {}
    BY DEF LifeOK, StoredOK
  <2>2. deployments'[d] = deployments[d]
    BY <1>1, <2>1 DEF Writes, JobsOf
  <2> QED BY <2>1, <2>2 DEF JobsOf, Unsettled, Running, Failed
<1>3. RequeuedOK'
  <2> SUFFICES ASSUME dist'.pc = "enqueue" PROVE deployments'[dist'.dep].status = "queued"
    BY DEF RequeuedOK, At
  <2>1. dist' = dist /\ dist.dep \in Deployments /\ Promised(dist.dep)
        /\ deployments[dist.dep].status = "queued"
    BY DEF IInv, DistOK, LifeOK, RequeuedOK, At, Promised
  <2>2. j \in Jobs /\ Carrying(j) => jobs[j].deployment # dist.dep
    BY <2>1 DEF IInv, Unshared
  <2> QED BY <1>1, <2>1, <2>2 DEF Writes
<1>4. CarryingOK'
  <2> SUFFICES ASSUME NEW k \in Jobs, Carrying(k)' PROVE Unsettled(jobs[k].deployment)'
    BY DEF CarryingOK
  <2>1. Carrying(k) /\ jobs'[k].deployment = jobs[k].deployment
        /\ Unsettled(jobs[k].deployment)
        /\ jobs[k].deployment \in Deployments
    BY JobsHaveDeployments DEF LifeOK, CarryingOK
  <2>2. j \in Jobs /\ Carrying(j) /\ jobs[j].deployment = jobs[k].deployment => j = k
    BY <2>1 DEF IInv, Exclusive
  <2>3. CASE j \in Jobs /\ Writes(j) /\ jobs[j].deployment = jobs[k].deployment
    BY <2>1, <2>2, <2>3 DEF Writes
  <2> QED BY <1>1, <2>1, <2>3 DEF Writes, Unsettled, Running, Failed
<1>5. PlacingOK'
  <2> SUFFICES ASSUME NEW k \in Jobs, Placing(k)'
               PROVE  /\ report'[k].pc = "none"
                      /\ local'.job = k => local'.pc # "built"
                      /\ Unsettled(jobs[k].deployment)'
                      /\ \A l \in Jobs : Carrying(l)' /\ jobs'[l].deployment = jobs'[k].deployment => l = k
                      /\ dist'.pc = "record" => dist'.seen \notin {"running", "failed"}
    BY DEF PlacingOK, At
  <2>1. Placing(k) /\ jobs'[k].deployment = jobs[k].deployment
        /\ Unsettled(jobs[k].deployment) /\ jobs[k].deployment \in Deployments
    BY JobsHaveDeployments DEF LifeOK, PlacingOK
  <2>2. \A l \in Jobs : Carrying(l)' /\ jobs'[l].deployment = jobs'[k].deployment => l = k
    BY <2>1 DEF LifeOK, PlacingOK
  <2>3. Unsettled(jobs[k].deployment)'
    <3>1. j \in Jobs /\ Carrying(j) /\ jobs[j].deployment = jobs[k].deployment => j = k
      BY <2>1 DEF LifeOK, PlacingOK
    <3>2. CASE j \in Jobs /\ Writes(j) /\ jobs[j].deployment = jobs[k].deployment
      BY <2>1, <3>1, <3>2 DEF Writes
    <3> QED BY <1>1, <2>1, <3>2 DEF Writes, Unsettled, Running, Failed
  <2>4. dist'.pc = "record" => dist'.seen \notin {"running", "failed"}
    BY <2>1 DEF LifeOK, PlacingOK, Placing, At, Unsettled, Running, Failed
  <2> QED BY <2>2, <2>3, <2>4
<1> QED BY <1>2, <1>3, <1>4, <1>5 DEF LifeOK

-----------------------------------------------------------------------------
(* Steps of the control plane, by what they do to a deployment's phase *)

SameJobs(d) ==
    \A j \in Jobs :
        jobs[j].deployment = d \/ jobs'[j].deployment = d =>
            /\ jobs'[j].deployment = jobs[j].deployment
            /\ jobs'[j].status = "queued" <=> jobs[j].status = "queued"
            /\ \A w \in Workers : Holds(w, j)' <=> Holds(w, j)

SameRow(d) ==
    /\ Running(d)' <=> Running(d)
    /\ Failed(d)' <=> Failed(d)
    /\ Running(d) => deployments'[d].owner = deployments[d].owner

SameRequest(d) ==
    /\ api'[d] = "new" <=> api[d] = "new"
    /\ Promised(d)' <=> Promised(d)

Untouched(d) == SameJobs(d) /\ SameRow(d) /\ SameRequest(d)

LEMMA Facts ==
    ASSUME IInv, IInv', NEW d \in Deployments
    PROVE  PhaseFacts(d) /\ PhaseFacts(d)'
BY Phases, PhasesNext

LEMMA LeftAloneNext ==
    ASSUME IInv', NEW d \in Deployments, ~Promised(d)',
           \A j \in Jobs : jobs'[j].deployment = d =>
               jobs'[j].status # "queued" /\ \A w \in Workers : ~Holds(w, j)'
    PROVE  LeftAlone(d)'
BY CarryingNext DEF LeftAlone, JobsOf

LEMMA UntouchedStays ==
    ASSUME IInv, IInv', NEW d \in Deployments, Untouched(d)
    PROVE  Same(d)
<1> USE DEF Is, Same
<1>1. PhaseFacts(d) /\ PhaseFacts(d)'
  BY Facts
<1>2. CASE api[d] = "new"
  BY <1>1, <1>2 DEF PhaseFacts, Untouched, SameRequest
<1>3. CASE Promised(d)
  BY <1>1, <1>3 DEF PhaseFacts, Untouched, SameRequest
<1>4. ASSUME NEW j \in JobsOf(d), jobs[j].status = "queued" PROVE Same(d)
  <2>1. j \in JobsOf(d)' /\ jobs'[j].status = "queued"
    BY <1>4 DEF Untouched, SameJobs, JobsOf
  <2> QED BY <1>1, <1>4, <2>1 DEF PhaseFacts
<1>5. ASSUME NEW j \in JobsOf(d), NEW w \in Workers, Holds(w, j) PROVE Same(d)
  <2>1. j \in JobsOf(d)' /\ Holds(w, j)'
    BY <1>5 DEF Untouched, SameJobs, JobsOf
  <2> QED BY <1>1, <1>5, <2>1 DEF PhaseFacts
<1>6. CASE /\ api[d] # "new" /\ ~Promised(d)
           /\ \A j \in JobsOf(d) : /\ jobs[j].status # "queued"
                                   /\ \A w \in Workers : ~Holds(w, j)
  <2>1. LeftAlone(d)
    BY <1>6, CarryingIs DEF LeftAlone, JobsOf
  <2>2. LeftAlone(d)'
    BY <1>6, LeftAloneNext DEF Untouched, SameJobs, SameRequest, JobsOf
  <2> QED BY <1>1, <1>6, <2>1, <2>2 DEF PhaseFacts, Untouched, SameRow, SameRequest, Unsettled
<1> QED BY <1>2, <1>3, <1>4, <1>5, <1>6

\* A promised job is stored.
LEMMA JobStored ==
    ASSUME IInv, IInv', NEW d \in Deployments, NEW j \in Jobs, Promised(d), Enqueue(j, d),
           UNCHANGED <<deployments, agent, report, local>>,
           \A e \in Deployments \ {d} : SameRequest(e)
    PROVE  Moves
<1>1. /\ jobs[j].deployment = NoDeployment
      /\ jobs'[j].deployment = d /\ jobs'[j].status = "queued"
      /\ \A k \in Jobs \ {j} : jobs'[k] = jobs[k]
  BY DEF Enqueue, NewJob, IInv, RowsOK, TypeOK
<1>2. ASSUME NEW e \in Deployments \ {d} PROVE Same(e)
  <2>1. SameJobs(e) /\ SameRow(e)
    BY <1>1, DomainAssumed DEF DomainAssumption, SameJobs, SameRow, Holds, Executing,
       ReportPending, LocalBusyWith, Running, Failed
  <2> QED BY <2>1, UntouchedStays DEF Untouched
<1>3. Is(d, "promised", NoWorker) /\ Is(d, "waiting", NoWorker)'
  BY <1>1, Facts DEF PhaseFacts, JobsOf
<1> QED BY <1>2, <1>3, QueueIs

\* A promise is given up.
LEMMA PromiseLost ==
    ASSUME IInv, IInv', NEW d \in Deployments, Promised(d), Unsettled(d),
           ~Promised(d)', api'[d] # "new",
           UNCHANGED <<jobs, deployments, agent, report, local>>,
           \A e \in Deployments \ {d} : SameRequest(e)
    PROVE  Moves
<1>1. \A e \in Deployments : SameJobs(e) /\ SameRow(e)
  BY DEF SameJobs, SameRow, Holds, Executing, ReportPending, LocalBusyWith, Running, Failed
<1>2. \A e \in Deployments \ {d} : Same(e)
  BY <1>1, UntouchedStays DEF Untouched
<1>3. \A k \in Jobs : jobs[k].deployment = d => ~Carrying(k)
  BY DEF IInv, Unshared
<1>4. LeftAlone(d)'
  BY <1>1, <1>3, CarryingIs, LeftAloneNext DEF SameJobs
<1>5. Unsettled(d)'
  BY DEF Unsettled, Running, Failed
<1>6. Is(d, "promised", NoWorker) /\ Is(d, "stranded", NoWorker)'
  BY <1>4, <1>5, Facts DEF PhaseFacts
<1> QED BY <1>2, <1>6, StrandIs DEF Is

\* A queued job is claimed by a worker that learns of it.
LEMMA JobTaken ==
    ASSUME IInv, IInv', NEW j \in Jobs, NEW w \in Workers,
           jobs[j].status = "queued", Holds(w, j)',
           \A k \in Jobs : jobs'[k].deployment = jobs[k].deployment,
           \A k \in Jobs \ {j} : /\ jobs'[k].status = "queued" <=> jobs[k].status = "queued"
                                 /\ \A v \in Workers : Holds(v, k)' <=> Holds(v, k),
           UNCHANGED <<deployments, api, dist>>
    PROVE  Moves
<1> DEFINE d == jobs[j].deployment
<1>1. d \in Deployments
  BY JobsHaveDeployments DEF Carrying
<1>2. \A e \in Deployments \ {d} : Untouched(e)
  BY DEF Untouched, SameJobs, SameRow, SameRequest, Running, Failed, Promised, At
<1>3. Is(d, "waiting", NoWorker) /\ Is(d, "executing", w)'
  BY <1>1, Facts DEF PhaseFacts, JobsOf
<1> QED BY <1>1, <1>2, <1>3, UntouchedStays, TakeIs

\* A job under way ends, with an outcome for its deployment or without.
LEMMA CarrierEnds ==
    ASSUME IInv, IInv', LifeOK, NEW j \in Jobs, Carrying(j), ~Carrying(j)',
           \A k \in Jobs : jobs'[k].deployment = jobs[k].deployment,
           \A k \in Jobs \ {j} : /\ jobs'[k].status = "queued" <=> jobs[k].status = "queued"
                                 /\ \A v \in Workers : Holds(v, k)' <=> Holds(v, k),
           \A e \in Deployments \ {jobs[j].deployment} : deployments'[e] = deployments[e],
           \/ deployments' = deployments
           \/ \E w \in Workers :
                 /\ Holds(w, j)
                 /\ \/ /\ Running(jobs[j].deployment)'
                       /\ deployments'[jobs[j].deployment].owner = w
                    \/ Failed(jobs[j].deployment)',
           UNCHANGED <<api, dist>>
    PROVE  Moves
<1> DEFINE d == jobs[j].deployment
<1>1. d \in Deployments /\ Unsettled(d) /\ j \in JobsOf(d)
  BY JobsHaveDeployments DEF LifeOK, CarryingOK, JobsOf
<1>2. \A e \in Deployments : SameRequest(e)
  BY DEF SameRequest, Promised, At
<1>3. \A e \in Deployments \ {d} : Same(e)
  <2>1. \A e \in Deployments \ {d} : Untouched(e)
    BY <1>2 DEF Untouched, SameJobs, SameRow, Running, Failed
  <2> QED BY <2>1, UntouchedStays
<1>4. api'[d] # "new" /\ LeftAlone(d)'
  <2>1. api[d] # "new" /\ ~Promised(d)
    BY <1>1 DEF IInv, NewOK, Unshared
  <2>2. ASSUME NEW k \in Jobs \ {j}, jobs[k].deployment = d PROVE ~Carrying(k)
    BY <2>2 DEF IInv, Exclusive
  <2>3. ASSUME NEW k \in Jobs, jobs'[k].deployment = d
        PROVE  jobs'[k].status # "queued" /\ \A w \in Workers : ~Holds(w, k)'
    <3>1. CASE k = j
      BY <3>1, CarryingNext
    <3>2. CASE k # j
      BY <2>2, <2>3, <3>2, CarryingIs
    <3> QED BY <3>1, <3>2
  <2>4. ~Promised(d)'
    BY <1>1, <1>2, <2>1 DEF SameRequest
  <2> QED BY <1>1, <2>1, <2>3, <2>4, LeftAloneNext
<1>5. PhaseFacts(d) /\ PhaseFacts(d)'
  BY <1>1, Facts
<1>6. CASE deployments' = deployments
  <2>1. Unsettled(d)'
    BY <1>1, <1>6 DEF Unsettled, Running, Failed
  <2>2. Is(d, "stranded", NoWorker)'
    BY <1>4, <1>5, <2>1 DEF PhaseFacts
  <2>3. PhaseOf(d) \in {"waiting", "executing"}
    BY <1>1, <1>5, CarryingIs DEF PhaseFacts, Is
  <2> QED BY <1>3, <2>2, <2>3, StrandIs
<1>7. ASSUME NEW w \in Workers, Holds(w, j),
             (Running(d)' /\ deployments'[d].owner = w) \/ Failed(d)'
      PROVE  Moves
  <2>1. Is(d, "executing", w)
    BY <1>1, <1>5, <1>7 DEF PhaseFacts
  <2>2. CASE Running(d)' /\ deployments'[d].owner = w
    BY <1>1, <1>3, <1>4, <1>5, <2>1, <2>2, SucceedIs DEF PhaseFacts
  <2>3. CASE Failed(d)'
    BY <1>1, <1>3, <1>4, <1>5, <2>1, <2>3, FailIs DEF PhaseFacts
  <2> QED BY <1>7, <2>2, <2>3
<1> QED BY <1>6, <1>7

\* Nobody starts or stops having a job, no row changes.
LEMMA Unnoticed ==
    ASSUME IInv, IInv', LifeOK, UNCHANGED <<deployments, api, local>>,
           \A j \in Jobs :
               /\ jobs'[j].deployment = jobs[j].deployment
               /\ jobs'[j].status = "queued" <=> jobs[j].status = "queued"
               /\ report'[j].worker = report[j].worker
               /\ report'[j].pc = report[j].pc \/ (ReportPending(j) /\ ReportPending(j)')
               /\ \A w \in RemoteWorkers : Executing(w, j)' <=> Executing(w, j)
               /\ Placing(j)' => Placing(j),
           dist' = dist \/ (~At("enqueue") /\ ~At("enqueue")'),
           dist'.pc = "record" =>
               \/ dist' = dist
               \/ dist'.seen = deployments[jobs[dist'.job].deployment].status
    PROVE  LifeOK' /\ Moves
<1>1. \A j \in Jobs :
          /\ ReportPending(j)' <=> ReportPending(j)
          /\ LocalBusyWith(j)' <=> LocalBusyWith(j)
          /\ Placing(j)' => report'[j].pc = "none" /\ (local.job = j => local.pc # "built")
  BY DEF ReportPending, LocalBusyWith, LifeOK, PlacingOK
<1>2. \A d \in Deployments : Promised(d)' <=> Promised(d)
  BY DEF Promised, At
<1>3. \A j \in Jobs : Carrying(j)' => Carrying(j)
  BY <1>1 DEF Carrying
<1>4. LifeOK'
  BY <1>1, <1>3, KeepsLifeOK DEF At
<1>5. \A d \in Deployments : SameJobs(d)
  BY <1>1 DEF SameJobs, Holds
<1>6. \A d \in Deployments : SameRow(d) /\ SameRequest(d)
  BY <1>2 DEF SameRow, SameRequest, Running, Failed
<1>7. Moves
  BY <1>5, <1>6, UntouchedStays, StutterIs DEF Untouched
<1> QED BY <1>4, <1>7

-----------------------------------------------------------------------------
(* The deploy API *)

LEMMA StoreLives ==
    ASSUME IInv, IInv', LifeOK, NEW d \in Deployments, NEW stored \in BOOLEAN,
           StoreDeployment(d, stored), UNCHANGED <<distVars, agentVars, local>>
    PROVE  LifeOK' /\ Moves
<1>1. /\ api[d] = "new" /\ api' = [api EXCEPT ![d] = "stored"]
      /\ UNCHANGED <<jobs, dist, agent, report, local>>
      /\ \A e \in Deployments \ {d} : deployments'[e] = deployments[e]
      /\ deployments' = deployments \/ deployments'[d].status = "queued"
  BY DEF StoreDeployment, StartDeployment, UpdateDeployment, distVars, agentVars, IInv, TypeOK
<1>2. JobsOf(d) = {} /\ Unsettled(d)' /\ ~Promised(d)
  BY <1>1 DEF LifeOK, StoredOK, Unsettled, Running, Failed, IInv, NewOK
<1>3. \A j \in Jobs : /\ jobs[j].deployment # d
                      /\ Carrying(j)' <=> Carrying(j)
                      /\ Placing(j)' <=> Placing(j)
                      /\ Carrying(j) \/ Placing(j) => jobs[j].deployment \in Deployments
  BY <1>1, <1>2, JobsHaveDeployments
  DEF JobsOf, Carrying, Placing, ReportPending, LocalBusyWith, Executing
<1>4. \A e \in Deployments \ {d} : Unsettled(e)' <=> Unsettled(e)
  BY <1>1 DEF Unsettled, Running, Failed
<1>5. StoredOK'
  BY <1>1, <1>2, <1>4 DEF LifeOK, StoredOK, JobsOf, IInv, TypeOK
<1>6. RequeuedOK'
  BY <1>1, <1>2 DEF LifeOK, RequeuedOK, Promised, At, IInv, DistOK
<1>7. CarryingOK'
  BY <1>1, <1>3, <1>4 DEF LifeOK, CarryingOK
<1>8. PlacingOK'
  BY <1>1, <1>3, <1>4 DEF LifeOK, PlacingOK, At
<1>9. Is(d, "new", NoWorker) /\ Is(d, "promised", NoWorker)'
  BY <1>1, Facts DEF PhaseFacts, Promised, IInv, TypeOK
<1>10. ASSUME NEW e \in Deployments \ {d} PROVE Same(e)
  <2>1. SameJobs(e) /\ SameRow(e) /\ SameRequest(e)
    BY <1>1 DEF SameJobs, SameRow, SameRequest, Holds, Executing, ReportPending,
       LocalBusyWith, Running, Failed, Promised, At, IInv, TypeOK
  <2> QED BY <2>1, UntouchedStays DEF Untouched
<1>11. Moves
  BY <1>9, <1>10, SubmitIs
<1> QED BY <1>5, <1>6, <1>7, <1>8, <1>11 DEF LifeOK

\* A new job is carried, for a deployment without an outcome.
LEMMA NewJobLives ==
    ASSUME IInv, LifeOK, NEW d \in Deployments, NEW j \in Jobs, Promised(d), Unsettled(d),
           Enqueue(j, d), UNCHANGED <<deployments, agent, report, local>>,
           \A e \in Deployments : api'[e] \in {"new", "stored"} => api'[e] = api[e] /\ e # d,
           dist' = dist \/ dist'.pc = "requeue",
           dist'.pc = "enqueue" => dist'.dep # d
    PROVE  LifeOK'
<1>1. /\ jobs[j].deployment = NoDeployment /\ jobs[j].status = "absent"
      /\ jobs'[j].deployment = d
      /\ \A k \in Jobs \ {j} : jobs'[k] = jobs[k]
  BY DEF Enqueue, NewJob, IInv, RowsOK, TypeOK
<1>2. \A k \in Jobs \ {j} : Carrying(k)' <=> Carrying(k)
  BY <1>1 DEF Carrying, Executing, ReportPending, LocalBusyWith
<1>3. \A e \in Deployments : Unsettled(e)' <=> Unsettled(e)
  BY DEF Unsettled, Running, Failed
<1>4. \A k \in Jobs : Placing(k)' => Placing(k) /\ k # j /\ dist' = dist
  BY <1>1 DEF Placing, IInv, DistOK
<1>5. \A k \in Jobs : Carrying(k) \/ Placing(k) => jobs[k].deployment \in Deployments
  BY JobsHaveDeployments
<1>6. StoredOK'
  BY <1>1, <1>3 DEF LifeOK, StoredOK, JobsOf
<1>7. RequeuedOK'
  BY DEF LifeOK, RequeuedOK, At
<1>8. CarryingOK'
  BY <1>1, <1>2, <1>3, <1>5 DEF LifeOK, CarryingOK
<1>9. PlacingOK'
  <2> SUFFICES ASSUME NEW k \in Jobs, Placing(k)'
               PROVE  /\ report'[k].pc = "none"
                      /\ local'.job = k => local'.pc # "built"
                      /\ Unsettled(jobs[k].deployment)'
                      /\ \A l \in Jobs :
                            Carrying(l)' /\ jobs'[l].deployment = jobs'[k].deployment => l = k
                      /\ dist'.pc = "record" => dist'.seen \notin {"running", "failed"}
    BY DEF PlacingOK, At
  <2>1. Placing(k) /\ k # j /\ dist' = dist /\ jobs'[k] = jobs[k]
    BY <1>1, <1>4
  <2>2. jobs[k].deployment # d
    BY <2>1 DEF Promised, Placing, At, LifeOK, StoredOK, JobsOf
  <2> QED BY <1>1, <1>2, <1>3, <1>5, <2>1, <2>2 DEF LifeOK, PlacingOK, At
<1> QED BY <1>6, <1>7, <1>8, <1>9 DEF LifeOK

LEMMA EnqueueLives ==
    ASSUME IInv, IInv', LifeOK, NEW d \in Deployments, NEW done \in BOOLEAN,
           EnqueueDeployment(d, done), UNCHANGED <<distVars, agentVars, local>>
    PROVE  LifeOK' /\ Moves
<1>1. /\ api[d] = "stored" /\ api' = [api EXCEPT ![d] = "answered"]
      /\ UNCHANGED <<deployments, dist, agent, report, local>>
  BY DEF EnqueueDeployment, distVars, agentVars
<1>2. Promised(d) /\ Unsettled(d) /\ (At("enqueue") => dist.dep # d)
  BY <1>1 DEF Promised, LifeOK, StoredOK, IInv, PromisesOK
<1>3. \A e \in Deployments :
          /\ api'[e] \in {"new", "stored"} => api'[e] = api[e] /\ e # d
          /\ e # d => SameRequest(e)
  BY <1>1 DEF SameRequest, Promised, At, IInv, TypeOK
<1>4. ASSUME NEW j \in Jobs, Enqueue(j, d) PROVE LifeOK' /\ Moves
  <2>1. LifeOK'
    BY <1>1, <1>2, <1>3, <1>4, NewJobLives DEF At
  <2>2. Moves
    BY <1>1, <1>2, <1>3, <1>4, JobStored
  <2> QED BY <2>1, <2>2
<1>5. CASE jobs' = jobs
  <2>1. \A j \in Jobs : /\ Carrying(j)' => Carrying(j)
                        /\ Placing(j)' => /\ Placing(j) /\ report'[j].pc = "none"
                                          /\ local'.job = j => local'.pc # "built"
    BY <1>1, <1>5 DEF Carrying, Executing, ReportPending, LocalBusyWith, Placing, LifeOK,
       PlacingOK
  <2>2. LifeOK'
    BY <1>1, <1>3, <1>5, <2>1, KeepsLifeOK
  <2>3. ~Promised(d)' /\ api'[d] # "new"
    BY <1>1, <1>2 DEF Promised, At, IInv, TypeOK
  <2>4. Moves
    BY <1>1, <1>2, <1>3, <1>5, <2>3, PromiseLost
  <2> QED BY <2>2, <2>4
<1> QED BY <1>4, <1>5 DEF EnqueueDeployment

LEMMA ApiLives ==
    ASSUME IInv, IInv', LifeOK, NEW d \in Deployments, ApiNext(d)
    PROVE  LifeOK' /\ Moves
BY StoreLives, EnqueueLives DEF ApiNext, ApiStep

-----------------------------------------------------------------------------
(* The distributor *)

\* The steps that only read, count, or change whom a job is assigned to.
LEMMA DistributorReadsLive ==
    ASSUME IInv, IInv', LifeOK, UNCHANGED <<agentVars, local, api>>,
           \/ HealthScan \/ ListOffline \/ ListFailover \/ ListScores
           \/ ListRebalance \/ PickWorker
           \/ \E done \in BOOLEAN :
                 \/ RegisterControlPlane(done)
                 \/ \E w \in RemoteWorkers : MarkStaleOffline(w, done)
                 \/ ReadDeployment(done) \/ CountJob(done) \/ ReleaseJob(done)
    PROVE  LifeOK' /\ Moves
<1>1. UNCHANGED <<deployments, api, agent, report, local>>
  BY DEF HealthScan, ListOffline, ListFailover, ListScores, ListRebalance, PickWorker,
     RegisterControlPlane, MarkStaleOffline, ReadDeployment, CountJob, ReleaseJob, agentVars
<1>2. \A j \in Jobs : /\ jobs'[j].deployment = jobs[j].deployment
                      /\ jobs'[j].status = jobs[j].status
  <2>1. jobs' = jobs \/ ReleaseFromWorker(dist.job)
    BY DEF HealthScan, ListOffline, ListFailover, ListScores, ListRebalance, PickWorker,
       RegisterControlPlane, MarkStaleOffline, ReadDeployment, CountJob, ReleaseJob
  <2> QED BY <2>1 DEF ReleaseFromWorker, IInv, TypeOK, JobRecord
<1>3. dist \in DistRecord
  BY DEF IInv, TypeOK
<1>4. /\ ~At("enqueue") /\ ~At("enqueue")'
      /\ \A j \in Jobs : Placing(j)' => Placing(j)
      /\ dist'.pc = "record" =>
             dist'.seen = deployments[jobs[dist'.job].deployment].status
  <2>1. ASSUME HealthScan \/ ListOffline \/ ListFailover \/ ListScores \/ ListRebalance
        PROVE  ~At("enqueue") /\ dist'.pc \in {"mark", "failover", "requeue", "rebalance"}
    BY <1>3, <2>1 DEF HealthScan, ListOffline, ListFailover, ListScores, ListRebalance, At,
       DistRecord
  <2>2. ASSUME PickWorker
        PROVE  ~At("enqueue") /\ dist'.pc \in {"assign", "health"}
    <3>1. /\ ~At("enqueue")
          /\ \/ dist' = AtRest
             \/ \E j \in Jobs : \E w \in Choice(jobs[j].deployment) :
                   dist' = [AtRest EXCEPT !.pc = "assign", !.job = j, !.target = w]
      BY <2>2 DEF PickWorker, At
    <3>2. ASSUME NEW j, NEW w,
                 dist' = [AtRest EXCEPT !.pc = "assign", !.job = j, !.target = w]
          PROVE  dist'.pc = "assign"
      BY <3>2 DEF AtRest
    <3>3. CASE dist' = AtRest
      BY <3>1, <3>3 DEF AtRest
    <3> QED BY <3>1, <3>2, <3>3
  <2>3. ASSUME NEW done \in BOOLEAN,
               \/ RegisterControlPlane(done)
               \/ \E w \in RemoteWorkers : MarkStaleOffline(w, done)
               \/ ReleaseJob(done)
        PROVE  ~At("enqueue") /\ dist'.pc \in {"health", "mark"}
    BY <1>3, <2>3 DEF RegisterControlPlane, MarkStaleOffline, ReleaseJob, At, AtRest, DistRecord
  <2>4. ASSUME NEW done \in BOOLEAN, CountJob(done)
        PROVE  /\ ~At("enqueue") /\ dist'.pc \in {"read", "release"}
               /\ dist'.job = dist.job /\ dist.pc = "count"
    BY <1>3, <2>4 DEF CountJob, At, DistRecord
  <2>5. ASSUME NEW done \in BOOLEAN, ReadDeployment(done)
        PROVE  /\ ~At("enqueue") /\ dist.pc = "read"
               /\ \/ dist'.pc = "health"
                  \/ /\ dist'.job = dist.job /\ dist'.pc = "record"
                     /\ dist'.seen = deployments[jobs[dist.job].deployment].status
    BY <1>3, <2>5 DEF ReadDeployment, At, AtRest, DistRecord
  <2> QED BY <2>1, <2>2, <2>3, <2>4, <2>5 DEF Placing, At
<1>5. \A j \in Jobs :
          /\ jobs'[j].deployment = jobs[j].deployment
          /\ jobs'[j].status = "queued" <=> jobs[j].status = "queued"
          /\ report'[j].worker = report[j].worker
          /\ report'[j].pc = report[j].pc \/ (ReportPending(j) /\ ReportPending(j)')
          /\ \A w \in RemoteWorkers : Executing(w, j)' <=> Executing(w, j)
          /\ Placing(j)' => Placing(j)
  BY <1>1, <1>2, <1>4 DEF Executing
<1> QED BY <1>1, <1>4, <1>5, Unnoticed

LEMMA RequeueDeploymentLives ==
    ASSUME IInv, IInv', LifeOK, NoLostRequeue,
           NEW d \in Deployments, NEW stored \in BOOLEAN,
           RequeueDeployment(d, stored), Outcome(stored, "requeue"),
           UNCHANGED <<agentVars, local, api>>
    PROVE  LifeOK' /\ Moves
<1>1. /\ UNCHANGED <<jobs, agent, report, local, api>>
      /\ \A e \in Deployments \ {d} : deployments'[e] = deployments[e]
      /\ deployments'[d].status = "queued"
  <2>1. stored
    BY DEF Outcome, Fault, NoLostRequeue
  <2> QED BY <2>1 DEF RequeueDeployment, UpdateDeployment, agentVars, IInv, TypeOK
<1>2. /\ dist.pc = "requeue" /\ d \in dist.dset
      /\ dist'.pc = "enqueue" /\ dist'.dep = d
  BY DEF RequeueDeployment, At, IInv, TypeOK, DistRecord
<1>3. /\ Running(d) /\ ~Promised(d) /\ api[d] # "new"
      /\ \A j \in Jobs : Carrying(j) => jobs[j].deployment # d
  BY <1>2 DEF IInv, DistOK, PromisesOK, NewOK, Unshared, Running
<1>4. Unsettled(d)' /\ \A e \in Deployments \ {d} : Unsettled(e)' <=> Unsettled(e)
  BY <1>1 DEF Unsettled, Running, Failed
<1>5. StoredOK'
  BY <1>1, <1>4 DEF LifeOK, StoredOK, JobsOf
<1>6. RequeuedOK'
  BY <1>1, <1>2 DEF RequeuedOK, At
<1>7. CarryingOK'
  <2>1. \A j \in Jobs : Carrying(j)' => Carrying(j)
    BY <1>1 DEF Carrying, Executing, ReportPending, LocalBusyWith
  <2> QED BY <1>1, <1>4, <2>1, JobsHaveDeployments DEF LifeOK, CarryingOK
<1>8. PlacingOK'
  BY <1>2 DEF PlacingOK, Placing
<1>9. Moves
  <2>1. LeftAlone(d)
    BY <1>3 DEF LeftAlone, JobsOf
  <2>2. Is(d, "up", deployments[d].owner)
    BY <1>3, <2>1, Facts DEF PhaseFacts
  <2>3. Promised(d)'
    BY <1>2 DEF Promised, At
  <2>4. Is(d, "promised", NoWorker)'
    BY <2>3, Facts DEF PhaseFacts
  <2>5. ASSUME NEW e \in Deployments \ {d} PROVE Untouched(e)
    BY <1>1, <1>2 DEF Untouched, SameJobs, SameRow, SameRequest, Holds, Executing,
       ReportPending, LocalBusyWith, Running, Failed, Promised, At
  <2> QED BY <2>2, <2>4, <2>5, UntouchedStays, RelocateIs
<1> QED BY <1>5, <1>6, <1>7, <1>8, <1>9 DEF LifeOK

LEMMA RequeueJobLives ==
    ASSUME IInv, IInv', LifeOK, NEW done \in BOOLEAN, RequeueJob(done),
           UNCHANGED <<agentVars, local, api>>
    PROVE  LifeOK' /\ Moves
<1>1. PICK d \in Deployments : At("enqueue") /\ d = dist.dep
  BY DEF RequeueJob, IInv, DistOK
<1>2. /\ UNCHANGED <<deployments, agent, report, local, api>>
      /\ dist'.pc = "requeue"
  BY DEF RequeueJob, agentVars, At, IInv, TypeOK, DistRecord
<1>3. Promised(d) /\ Unsettled(d) /\ api[d] \notin {"new", "stored"}
  BY <1>1 DEF Promised, LifeOK, RequeuedOK, Unsettled, Running, Failed, IInv, PromisesOK,
     NewOK
<1>4. \A e \in Deployments : /\ api'[e] \in {"new", "stored"} => api'[e] = api[e] /\ e # d
                             /\ e # d => SameRequest(e)
  BY <1>1, <1>2, <1>3 DEF SameRequest, Promised, At
<1>5. ASSUME NEW j \in Jobs, Enqueue(j, d) PROVE LifeOK' /\ Moves
  <2>1. LifeOK'
    BY <1>2, <1>3, <1>4, <1>5, NewJobLives
  <2>2. Moves
    BY <1>2, <1>3, <1>4, <1>5, JobStored
  <2> QED BY <2>1, <2>2
<1>6. CASE jobs' = jobs
  <2>1. \A j \in Jobs : (Carrying(j)' => Carrying(j)) /\ ~Placing(j)'
    BY <1>2, <1>6 DEF Carrying, Executing, ReportPending, LocalBusyWith, Placing
  <2>2. LifeOK'
    BY <1>2, <1>4, <1>6, <2>1, KeepsLifeOK
  <2>3. ~Promised(d)'
    BY <1>2, <1>3 DEF Promised, At
  <2>4. Moves
    BY <1>2, <1>3, <1>4, <1>6, <2>3, PromiseLost
  <2> QED BY <2>2, <2>4
<1> QED BY <1>1, <1>5, <1>6 DEF RequeueJob

LEMMA AssignLives ==
    ASSUME IInv, IInv', LifeOK, NEW done \in BOOLEAN, AssignJob(done),
           UNCHANGED <<agentVars, local, api>>
    PROVE  LifeOK' /\ Moves
<1>1. UNCHANGED <<deployments, agent, report, local, api>> /\ dist.pc = "assign"
  BY DEF AssignJob, agentVars, At
<1>2. CASE jobs' = jobs /\ dist' = AtRest
  <2>1. ~At("enqueue") /\ dist'.pc = "health" /\ \A j \in Jobs : ~Placing(j)'
    BY <1>1, <1>2 DEF At, AtRest, Placing
  <2>2. \A j \in Jobs : \A w \in RemoteWorkers : Executing(w, j)' <=> Executing(w, j)
    BY <1>1 DEF Executing
  <2>3. ~At("enqueue")'
    BY <2>1 DEF At
  <2> QED BY <1>1, <1>2, <2>1, <2>2, <2>3, Unnoticed
<1>3. CASE AssignToWorker(dist.job, dist.target) /\ dist' = [dist EXCEPT !.pc = "count"]
  <2> DEFINE j == dist.job
  <2>1. /\ j \in Jobs /\ jobs[j].status = "queued"
        /\ \A k \in Jobs : /\ jobs'[k].deployment = jobs[k].deployment
                           /\ jobs'[k].status = jobs[k].status
        /\ dist'.pc = "count" /\ dist'.job = j
    BY <1>1, <1>3 DEF AssignToWorker, IInv, DistOK, TypeOK, JobRecord, DistRecord
  <2>2. \A k \in Jobs :
            /\ Carrying(k)' <=> Carrying(k)
            /\ \A w \in Workers : Holds(w, k)' <=> Holds(w, k)
    BY <1>1, <2>1 DEF Carrying, Holds, Executing, ReportPending, LocalBusyWith
  <2>3. \A d \in Deployments : /\ Unsettled(d)' <=> Unsettled(d)
                               /\ JobsOf(d)' = JobsOf(d)
    BY <1>1, <2>1 DEF Unsettled, Running, Failed, JobsOf
  <2>4. StoredOK' /\ RequeuedOK'
    BY <1>1, <2>1, <2>3 DEF LifeOK, StoredOK, RequeuedOK, At
  <2>5. CarryingOK'
    BY <2>1, <2>2, <2>3, JobsHaveDeployments DEF LifeOK, CarryingOK
  <2>6. PlacingOK'
    <3>1. Carrying(j) /\ report[j].pc = "none" /\ (local.job = j => local.pc # "built")
      BY <2>1 DEF Carrying, IInv, HoldersOK
    <3>2. \A k \in Jobs : Placing(k)' => k = j
      BY <2>1 DEF Placing
    <3>3. Unsettled(jobs[j].deployment)'
      BY <2>1, <2>3, <3>1, JobsHaveDeployments DEF LifeOK, CarryingOK
    <3>4. \A k \in Jobs :
              Carrying(k)' /\ jobs'[k].deployment = jobs'[j].deployment => k = j
      BY <2>1, <2>2, <3>1 DEF IInv, Exclusive
    <3> QED BY <1>1, <2>1, <3>1, <3>2, <3>3, <3>4 DEF PlacingOK, At
  <2>7. \A d \in Deployments : Untouched(d)
    <3>1. \A d \in Deployments : Promised(d)' <=> Promised(d)
      BY <1>1, <2>1 DEF Promised, At
    <3> QED BY <1>1, <2>1, <2>2, <3>1
        DEF Untouched, SameJobs, SameRow, SameRequest, Running, Failed
  <2>8. Moves
    BY <2>7, UntouchedStays, StutterIs
  <2> QED BY <2>4, <2>5, <2>6, <2>8 DEF LifeOK
<1> QED BY <1>2, <1>3 DEF AssignJob

\* What is written back is no outcome, and the row has none yet.
LEMMA RecordLives ==
    ASSUME IInv, IInv', LifeOK, NEW stored \in BOOLEAN, RecordAssignment(stored),
           UNCHANGED <<agentVars, local, api>>
    PROVE  LifeOK' /\ Moves
<1>1. PICK j \in Jobs : j = dist.job
  BY DEF RecordAssignment, At, IInv, DistOK
<1>2. /\ UNCHANGED <<jobs, agent, report, local, api>>
      /\ dist.pc = "record" /\ dist'.pc = "health" /\ Placing(j)
      /\ UpdateDeployment(jobs[j].deployment,
                          IF dist.seen = "queued" THEN "deploying" ELSE dist.seen,
                          dist.target, stored)
  BY <1>1 DEF RecordAssignment, agentVars, At, AtRest, Placing
<1>3. PICK d \in Deployments : d = jobs[j].deployment
  BY <1>2, JobsHaveDeployments
<1>4. Unsettled(d) /\ dist.seen \notin {"running", "failed"}
  BY <1>2, <1>3 DEF LifeOK, PlacingOK, At
<1>5. /\ \A e \in Deployments \ {d} : deployments'[e] = deployments[e]
      /\ Unsettled(d)'
  <2> DEFINE status == IF dist.seen = "queued" THEN "deploying" ELSE dist.seen
  <2>1. status \notin {"running", "failed"}
    BY <1>4
  <2>2. UpdateDeployment(d, status, dist.target, stored)
    BY <1>2, <1>3
  <2> HIDE DEF status
  <2>3. /\ \A e \in Deployments \ {d} : deployments'[e] = deployments[e]
        /\ deployments'[d].status \in {status, deployments[d].status}
    BY <2>2 DEF UpdateDeployment, IInv, TypeOK
  <2> QED BY <1>4, <2>1, <2>3 DEF Unsettled, Running, Failed
<1>6. \A k \in Jobs : /\ Carrying(k)' <=> Carrying(k)
                      /\ ~Placing(k)'
                      /\ \A w \in Workers : Holds(w, k)' <=> Holds(w, k)
  BY <1>2 DEF Carrying, Holds, Executing, ReportPending, LocalBusyWith, Placing
<1>7. Writes(j)
  BY <1>2, <1>3, <1>5 DEF Writes, Unsettled, Running, Failed
<1>8. LifeOK'
  BY <1>2, <1>6, <1>7, KeepsLifeOK
<1>9. \A e \in Deployments : Untouched(e)
  <2>1. ASSUME NEW e \in Deployments PROVE SameRow(e)
    BY <1>4, <1>5 DEF SameRow, Unsettled, Running, Failed
  <2>2. \A e \in Deployments : SameRequest(e)
    BY <1>2 DEF SameRequest, Promised, At
  <2>3. \A e \in Deployments : SameJobs(e)
    BY <1>2, <1>6 DEF SameJobs
  <2> QED BY <2>1, <2>2, <2>3 DEF Untouched
<1>10. Moves
  BY <1>9, UntouchedStays, StutterIs
<1> QED BY <1>8, <1>10

LEMMA DistributorLives ==
    ASSUME NoLostRequeue, IInv, IInv', LifeOK, DistributorNext
    PROVE  LifeOK' /\ Moves
<1>1. UNCHANGED <<agentVars, local, api>>
  BY DEF DistributorNext
<1> QED
  BY <1>1, DistributorReadsLive, RequeueDeploymentLives, RequeueJobLives, AssignLives,
     RecordLives DEF DistributorNext, DistributorStep

\* The end of a cooldown.
LEMMA CooldownLives ==
    ASSUME IInv, IInv', LifeOK, CooldownNext
    PROVE  LifeOK' /\ Moves
<1>1. UNCHANGED <<jobs, deployments, dist, agent, report, local, api>>
  BY DEF CooldownNext, CooldownElapses, agentVars
<1>2. \A j \in Jobs : /\ Placing(j)' <=> Placing(j)
                      /\ \A w \in RemoteWorkers : Executing(w, j)' <=> Executing(w, j)
  BY <1>1 DEF Placing, Executing
<1> QED BY <1>1, <1>2, Unnoticed

-----------------------------------------------------------------------------
(* The agents and their handlers *)

\* A step of an agent or of a handler that changes no row. Placing is as before.
LEMMA OthersKeepLifeOK ==
    ASSUME IInv, LifeOK, UNCHANGED <<deployments, api, dist>>,
           \A j \in Jobs : /\ jobs'[j].deployment = jobs[j].deployment
                           /\ Carrying(j)' => Carrying(j)
                           /\ Placing(j) => /\ report'[j].pc = "none"
                                            /\ local'.job = j => local'.pc # "built"
    PROVE  LifeOK'
<1>1. \A j \in Jobs : Placing(j)' <=> Placing(j)
  BY DEF Placing
<1> QED BY <1>1, KeepsLifeOK

\* An agent stops executing its job without reporting it.
LEMMA AgentStops ==
    ASSUME IInv, IInv', LifeOK, NEW w \in RemoteWorkers, NEW r,
           agent[w].pc = "executing", agent' = [agent EXCEPT ![w] = r], r.pc # "executing",
           UNCHANGED <<jobs, deployments, report, local, api, dist>>
    PROVE  LifeOK' /\ Moves
<1>1. PICK j \in Jobs : j = agent[w].job
  BY DEF IInv, HoldersOK
<1>2. /\ agent'[w] = r
      /\ \A v \in RemoteWorkers \ {w} : agent'[v] = agent[v]
  BY DEF IInv, TypeOK
<1>3. Executing(w, j) /\ ~ReportPending(j) /\ ~LocalBusyWith(j) /\ jobs[j].status = "running"
      /\ \A v \in RemoteWorkers : Executing(v, j) => v = w
  BY <1>1 DEF Executing, IInv, HoldersOK, ReportPending, LocalBusyWith
<1>4. Carrying(j) /\ ~Carrying(j)'
  BY <1>2, <1>3 DEF Carrying, Executing, ReportPending, LocalBusyWith
<1>5. \A k \in Jobs \ {j} : \A v \in Workers : Holds(v, k)' <=> Holds(v, k)
  BY <1>1, <1>2 DEF Holds, Executing, ReportPending, LocalBusyWith
<1>6. \A k \in Jobs : Carrying(k)' => Carrying(k)
  BY <1>2 DEF Carrying, Executing, ReportPending, LocalBusyWith
<1>7. LifeOK'
  BY <1>6, OthersKeepLifeOK DEF LifeOK, PlacingOK
<1>8. Moves
  BY <1>4, <1>5, CarrierEnds
<1> QED BY <1>7, <1>8

LEMMA ClaimLives ==
    ASSUME IInv, IInv', LifeOK, NEW w \in RemoteWorkers, NEW delivered \in BOOLEAN,
           Claim(w, delivered), UNCHANGED <<distVars, local, api>>
    PROVE  LifeOK' /\ Moves
<1>1. PICK j \in Jobs :
          /\ ClaimForWorker(j, w)
          /\ agent' = IF delivered
                      THEN [agent EXCEPT ![w] = [pc |-> "executing", job |-> j]]
                      ELSE agent
  BY DEF Claim
<1>2. UNCHANGED <<deployments, report, local, api, dist>> /\ agent[w].pc = "idle"
      /\ w \in Workers
  BY RemoteIsWorker DEF Claim, distVars
<1>3. /\ jobs[j].status = "queued" /\ jobs'[j].status = "running"
      /\ jobs'[j].deployment = jobs[j].deployment
      /\ \A k \in Jobs \ {j} : jobs'[k] = jobs[k]
  BY <1>1 DEF ClaimForWorker, Oldest, AssignedQueued, IInv, TypeOK, JobRecord
<1>4. Carrying(j) /\ ~ReportPending(j) /\ ~LocalBusyWith(j)
      /\ \A v \in RemoteWorkers : ~Executing(v, j)
  BY <1>3 DEF Carrying, IInv, HoldersOK, ReportPending, LocalBusyWith
<1>5. /\ \A v \in RemoteWorkers \ {w} : agent'[v] = agent[v]
      /\ \A k \in Jobs \ {j} : ~Executing(w, k)' /\ ~Executing(w, k)
  BY <1>1, <1>2 DEF IInv, TypeOK, Executing
<1>6. \A k \in Jobs \ {j} : /\ Carrying(k)' <=> Carrying(k)
                            /\ \A v \in Workers : Holds(v, k)' <=> Holds(v, k)
  BY <1>2, <1>3, <1>5 DEF Carrying, Holds, Executing, ReportPending, LocalBusyWith
<1>7. LifeOK'
  BY <1>2, <1>3, <1>4, <1>6, OthersKeepLifeOK DEF LifeOK, PlacingOK
<1>8. CASE delivered
  <2>1. Holds(w, j)'
    BY <1>1, <1>8 DEF Holds, Executing, IInv, TypeOK
  <2>2. Moves
    BY <1>2, <1>3, <1>6, <2>1, JobTaken
  <2> QED BY <1>7, <2>2
<1>9. CASE ~delivered
  <2>1. ~Carrying(j)'
    BY <1>1, <1>2, <1>3, <1>4, <1>9 DEF Carrying, Executing, ReportPending, LocalBusyWith
  <2>2. Moves
    BY <1>2, <1>3, <1>4, <1>6, <2>1, CarrierEnds
  <2> QED BY <1>7, <2>2
<1> QED BY <1>8, <1>9

\* The report takes over from the agent, and the job is not being placed.
LEMMA ReportStarts ==
    ASSUME IInv, IInv', LifeOK, BuildOutlastsPlacement,
           NEW w \in RemoteWorkers, NEW ok \in BOOLEAN,
           MayEnd(agent[w].job), agent[w].pc = "executing",
           agent' = [agent EXCEPT ![w].pc = "reporting"],
           report' = [report EXCEPT ![agent[w].job] = [pc |-> "mark", worker |-> w, ok |-> ok]],
           UNCHANGED <<jobs, deployments, local, api, dist>>
    PROVE  LifeOK' /\ Moves
<1>1. PICK j \in Jobs : j = agent[w].job
  BY DEF IInv, HoldersOK
<1>2. /\ Executing(w, j) /\ ~ReportPending(j) /\ ~LocalBusyWith(j) /\ ~Placing(j)
      /\ \A v \in RemoteWorkers : Executing(v, j) => v = w
  BY <1>1 DEF Executing, IInv, HoldersOK, ReportPending, LocalBusyWith, MayEnd
<1>3. /\ agent'[w].pc = "reporting"
      /\ \A v \in RemoteWorkers \ {w} : agent'[v] = agent[v]
      /\ report'[j].pc = "mark" /\ report'[j].worker = w
      /\ \A k \in Jobs \ {j} : report'[k] = report[k]
  BY <1>1 DEF IInv, TypeOK, AgentRecord
<1>4. \A v \in Workers : Holds(v, j)' <=> Holds(v, j)
  BY <1>2, <1>3 DEF Holds, Executing, ReportPending, LocalBusyWith
<1>5. \A k \in Jobs \ {j} : \A v \in Workers : Holds(v, k)' <=> Holds(v, k)
  BY <1>1, <1>3 DEF Holds, Executing, ReportPending, LocalBusyWith
<1>6. \A k \in Jobs : Carrying(k)' => Carrying(k)
  BY <1>4, <1>5, CarryingIs, CarryingNext
<1>7. LifeOK'
  BY <1>2, <1>3, <1>6, OthersKeepLifeOK DEF LifeOK, PlacingOK
<1>8. \A d \in Deployments : Untouched(d)
  BY <1>4, <1>5 DEF Untouched, SameJobs, SameRow, SameRequest, Running, Failed, Promised, At
<1>9. Moves
  BY <1>8, UntouchedStays, StutterIs
<1> QED BY <1>7, <1>9

LEMMA WorkerLives ==
    ASSUME BuildOutlastsPlacement, IInv, IInv', LifeOK, NEW w \in RemoteWorkers,
           \/ AgentNext(w) \/ HeartbeatNext(w) \/ SilenceNext(w) \/ CrashNext(w)
           \/ TimeoutNext(w)
    PROVE  LifeOK' /\ Moves
<1>1. UNCHANGED <<deployments, dist, local, api>>
  BY DEF AgentNext, AgentStep, HeartbeatNext, HeartbeatStep, SilenceNext, Silence,
         CrashNext, Crash, TimeoutNext, Timeout, AgentStart, ReceiveResponse,
         ResponseTimeout, StopWaiting, SendHeartbeat, ApplyHeartbeat, HeartbeatExpires,
         AgentCrash, Claim, FinishJob, distVars
<1>2. \/ UNCHANGED <<jobs, report, agent>>
      \/ /\ UNCHANGED <<jobs, report>> /\ agent[w].pc # "executing"
         /\ agent' = [agent EXCEPT ![w] = Polling] \/ agent' = [agent EXCEPT ![w] = Down]
      \/ /\ UNCHANGED <<jobs, report>> /\ agent[w].pc = "executing"
         /\ agent' = [agent EXCEPT ![w] = Polling] \/ agent' = [agent EXCEPT ![w] = Down]
      \/ \E delivered \in BOOLEAN : Claim(w, delivered) /\ UNCHANGED <<distVars, local, api>>
      \/ \E ok \in BOOLEAN :
            /\ MayEnd(agent[w].job) /\ agent[w].pc = "executing" /\ jobs' = jobs
            /\ agent' = [agent EXCEPT ![w].pc = "reporting"]
            /\ report' = [report EXCEPT
                   ![agent[w].job] = [pc |-> "mark", worker |-> w, ok |-> ok]]
  <2>1. CASE AgentNext(w)
    BY <2>1 DEF AgentNext, AgentStep, AgentStart, ReceiveResponse, StopWaiting, Waiting,
       FinishJob
  <2>2. CASE HeartbeatNext(w) \/ SilenceNext(w)
    BY <2>2 DEF HeartbeatNext, HeartbeatStep, SilenceNext, Silence, SendHeartbeat,
       ApplyHeartbeat, HeartbeatExpires, agentVars
  <2>3. CASE CrashNext(w) \/ TimeoutNext(w)
    BY <2>3 DEF CrashNext, Crash, TimeoutNext, Timeout, ResponseTimeout, StopWaiting,
       Waiting, AgentCrash
  <2> QED BY <2>1, <2>2, <2>3
<1>3. ASSUME UNCHANGED <<jobs, report>>,
             \A v \in RemoteWorkers : \A j \in Jobs : Executing(v, j)' <=> Executing(v, j)
      PROVE  LifeOK' /\ Moves
  <2>1. \A j \in Jobs : Placing(j)' => Placing(j)
    BY <1>1 DEF Placing
  <2> QED BY <1>1, <1>3, <2>1, Unnoticed
<1>4. CASE UNCHANGED <<jobs, report, agent>>
  BY <1>3, <1>4 DEF Executing
<1>5. CASE /\ UNCHANGED <<jobs, report>> /\ agent[w].pc # "executing"
           /\ agent' = [agent EXCEPT ![w] = Polling] \/ agent' = [agent EXCEPT ![w] = Down]
  <2>1. /\ agent'[w].pc # "executing"
        /\ \A v \in RemoteWorkers \ {w} : agent'[v] = agent[v]
    BY <1>5 DEF Polling, Down, IInv, TypeOK
  <2>2. \A v \in RemoteWorkers : \A j \in Jobs : Executing(v, j)' <=> Executing(v, j)
    BY <1>5, <2>1 DEF Executing
  <2> QED BY <1>3, <1>5, <2>2
<1>6. CASE /\ UNCHANGED <<jobs, report>> /\ agent[w].pc = "executing"
           /\ agent' = [agent EXCEPT ![w] = Polling] \/ agent' = [agent EXCEPT ![w] = Down]
  <2>1. Polling.pc # "executing" /\ Down.pc # "executing"
    BY DEF Polling, Down
  <2> QED BY <1>1, <1>6, <2>1, AgentStops
<1> QED BY <1>1, <1>2, <1>4, <1>5, <1>6, ClaimLives, ReportStarts

\* A handler gives up, or settles the row for the worker that reported.
LEMMA ReportEnds ==
    ASSUME IInv, IInv', LifeOK, NEW j \in Jobs, ReportPending(j),
           report' = [report EXCEPT ![j].pc = "over"],
           UNCHANGED <<jobs, agent, local, api, dist>>,
           \A e \in Deployments \ {jobs[j].deployment} : deployments'[e] = deployments[e],
           \/ deployments' = deployments
           \/ /\ Running(jobs[j].deployment)'
              /\ deployments'[jobs[j].deployment].owner = report[j].worker
           \/ Failed(jobs[j].deployment)'
    PROVE  LifeOK' /\ Moves
<1>1. /\ ~LocalBusyWith(j) /\ jobs[j].status # "queued" /\ ~Placing(j)
      /\ \A v \in RemoteWorkers : ~Executing(v, j)
      /\ report[j].worker \in Workers
  BY RemoteIsWorker DEF IInv, HoldersOK, ReportPending, LocalBusyWith, LifeOK, PlacingOK
<1>2. /\ report'[j].pc = "over"
      /\ \A k \in Jobs \ {j} : report'[k] = report[k]
  BY DEF IInv, TypeOK, ReportRecord
<1>3. Carrying(j) /\ ~Carrying(j)' /\ Holds(report[j].worker, j)
  BY <1>1, <1>2 DEF Carrying, Executing, ReportPending, LocalBusyWith, Holds
<1>4. \A k \in Jobs \ {j} : /\ Carrying(k)' <=> Carrying(k)
                            /\ \A v \in Workers : Holds(v, k)' <=> Holds(v, k)
  BY <1>2 DEF Carrying, Holds, Executing, ReportPending, LocalBusyWith
<1>5. \A k \in Jobs : Placing(k)' =>
          /\ Placing(k) /\ report'[k].pc = "none"
          /\ local'.job = k => local'.pc # "built"
  BY <1>1, <1>2 DEF LifeOK, PlacingOK, Placing
<1>6. LifeOK'
  BY <1>1, <1>3, <1>4, <1>5, KeepsLifeOK DEF Writes
<1>7. Moves
  BY <1>1, <1>3, <1>4, CarrierEnds
<1> QED BY <1>6, <1>7

LEMMA ReportLives ==
    ASSUME IInv, IInv', LifeOK, NEW j \in Jobs, ReportNext(j)
    PROVE  LifeOK' /\ Moves
<1>1. UNCHANGED <<dist, local, api>>
  BY DEF ReportNext, distVars
<1>2. PICK done \in BOOLEAN :
          MarkReported(j, done) \/ DecrementReported(j, done) \/ SettleReported(j, done)
  BY DEF ReportNext, ReportStep
<1>3. agent' = agent /\ ReportPending(j)
  BY <1>2 DEF MarkReported, DecrementReported, SettleReported, ReportPending
<1>4. jobs[j].status # "queued"
  BY <1>3 DEF IInv, HoldersOK, ReportPending
<1>5. ASSUME UNCHANGED deployments,
             \/ jobs' = jobs
             \/ \E status \in {"done", "failed"} : jobs' = [jobs EXCEPT ![j].status = status],
             \E pc \in {"decrement", "settle"} : report' = [report EXCEPT ![j].pc = pc]
      PROVE  LifeOK' /\ Moves
  <2>1. \A k \in Jobs : /\ jobs'[k].deployment = jobs[k].deployment
                        /\ jobs'[k].status = "queued" <=> jobs[k].status = "queued"
    BY <1>4, <1>5 DEF IInv, TypeOK, JobRecord
  <2>2. /\ \A k \in Jobs : report'[k].worker = report[k].worker
        /\ \A k \in Jobs \ {j} : report'[k].pc = report[k].pc
        /\ ReportPending(j)'
    BY <1>5 DEF IInv, TypeOK, ReportRecord, ReportPending
  <2>3. \A k \in Jobs : /\ Placing(k)' => Placing(k)
                        /\ \A w \in RemoteWorkers : Executing(w, k)' <=> Executing(w, k)
    BY <1>1, <1>3 DEF Placing, Executing
  <2>4. \A k \in Jobs : report'[k].pc = report[k].pc \/ (ReportPending(k) /\ ReportPending(k)')
    BY <1>3, <2>2
  <2> QED BY <1>1, <1>5, <2>1, <2>2, <2>3, <2>4, Unnoticed
<1>6. CASE MarkReported(j, done) \/ DecrementReported(j, done)
  <2>1. CASE report' = [report EXCEPT ![j].pc = "over"]
    <3>1. UNCHANGED <<jobs, deployments>>
      <4>1. report'[j].pc = "over"
        BY <2>1 DEF IInv, TypeOK, ReportRecord
      <4>2. report' # [report EXCEPT ![j].pc = "decrement"]
            /\ report' # [report EXCEPT ![j].pc = "settle"]
        BY <4>1 DEF IInv, TypeOK, ReportRecord
      <4> QED BY <1>6, <4>2 DEF MarkReported, DecrementReported
    <3> QED BY <1>1, <1>3, <2>1, <3>1, ReportEnds
  <2>2. CASE \E pc \in {"decrement", "settle"} : report' = [report EXCEPT ![j].pc = pc]
    <3>1. /\ UNCHANGED deployments
          /\ \/ jobs' = jobs
             \/ \E status \in {"done", "failed"} : jobs' = [jobs EXCEPT ![j].status = status]
      BY <1>6 DEF MarkReported, DecrementReported, MarkDone, MarkFailed
    <3> QED BY <1>5, <2>2, <3>1
  <2> QED BY <1>6, <2>1, <2>2 DEF MarkReported, DecrementReported
<1>7. CASE SettleReported(j, done)
  <2> DEFINE status == IF report[j].ok THEN "running" ELSE "failed"
             stored == done /\ Stored(jobs[j].deployment)
  <2>1. PICK d \in Deployments : d = jobs[j].deployment
    BY <1>3, JobsHaveDeployments DEF Carrying
  <2>2. /\ report' = [report EXCEPT ![j].pc = "over"] /\ jobs' = jobs
        /\ UpdateDeployment(d, status, report[j].worker, stored)
    BY <1>7, <2>1 DEF SettleReported
  <2>3. status \in {"running", "failed"}
    OBVIOUS
  <2> HIDE DEF status, stored
  <2>4. /\ \A e \in Deployments \ {d} : deployments'[e] = deployments[e]
        /\ \/ deployments' = deployments
           \/ deployments'[d] = [status |-> status, owner |-> report[j].worker]
    BY <2>2 DEF UpdateDeployment, IInv, TypeOK
  <2>5. \/ deployments' = deployments
        \/ Running(jobs[j].deployment)'
           /\ deployments'[jobs[j].deployment].owner = report[j].worker
        \/ Failed(jobs[j].deployment)'
    BY <2>1, <2>2, <2>3, <2>4 DEF Running, Failed
  <2> QED BY <1>1, <1>3, <2>1, <2>2, <2>4, <2>5, ReportEnds
<1> QED BY <1>2, <1>6, <1>7

-----------------------------------------------------------------------------
(* The embedded worker *)

\* It goes on with its job, or has none; what it writes is no outcome.
LEMMA LocalGoesOn ==
    ASSUME IInv, IInv', LifeOK, UNCHANGED <<dist, agent, report, api>>,
           \A j \in Jobs : /\ jobs'[j].deployment = jobs[j].deployment
                           /\ jobs'[j].status = "queued" <=> jobs[j].status = "queued"
                           /\ LocalBusyWith(j)' <=> LocalBusyWith(j)
                           /\ Placing(j) /\ local'.job = j => local'.pc # "built",
           \/ deployments' = deployments
           \/ \E j \in Jobs :
                 /\ LocalBusyWith(j)
                 /\ \A e \in Deployments \ {jobs[j].deployment} :
                       deployments'[e] = deployments[e]
                 /\ Unsettled(jobs[j].deployment)'
    PROVE  LifeOK' /\ Moves
<1>1. \A k \in Jobs : /\ Carrying(k)' <=> Carrying(k)
                      /\ Placing(k)' <=> Placing(k)
                      /\ \A w \in Workers : Holds(w, k)' <=> Holds(w, k)
  BY DEF Carrying, Holds, Executing, ReportPending, Placing
<1>2. \A j \in Jobs : LocalBusyWith(j) => Carrying(j)
  BY DEF Carrying
<1>3. deployments' = deployments \/ \E j \in Jobs : Writes(j)
  BY <1>2 DEF Writes
<1>4. \A k \in Jobs : Placing(k)' =>
          /\ Placing(k) /\ report'[k].pc = "none"
          /\ local'.job = k => local'.pc # "built"
  BY <1>1 DEF LifeOK, PlacingOK
<1>5. LifeOK'
  BY <1>1, <1>3, <1>4, KeepsLifeOK
<1>6. ASSUME NEW e \in Deployments PROVE SameRow(e)
  <2>1. CASE deployments' = deployments
    BY <2>1 DEF SameRow, Running, Failed
  <2>2. ASSUME NEW j \in Jobs, LocalBusyWith(j),
               \A f \in Deployments \ {jobs[j].deployment} : deployments'[f] = deployments[f],
               Unsettled(jobs[j].deployment)'
        PROVE  SameRow(e)
    <3>1. Unsettled(jobs[j].deployment)
      BY <1>2, <2>2 DEF LifeOK, CarryingOK
    <3> QED BY <2>2, <3>1 DEF SameRow, Unsettled, Running, Failed
  <2> QED BY <2>1, <2>2
<1>7. \A e \in Deployments : Untouched(e)
  <2>1. \A e \in Deployments : SameJobs(e) /\ SameRequest(e)
    BY <1>1 DEF SameJobs, SameRequest, Promised, At
  <2> QED BY <1>6, <2>1 DEF Untouched
<1>8. Moves
  BY <1>7, UntouchedStays, StutterIs
<1> QED BY <1>5, <1>8

\* It gives up, or settles the row in its own name.
LEMMA LocalEnds ==
    ASSUME IInv, IInv', LifeOK, NEW j \in Jobs, LocalBusyWith(j),
           local' = [local EXCEPT !.pc = "settled"],
           UNCHANGED <<jobs, agent, report, api, dist>>,
           \A e \in Deployments \ {jobs[j].deployment} : deployments'[e] = deployments[e],
           \/ deployments' = deployments
           \/ /\ local.pc = "built"
              /\ \/ /\ Running(jobs[j].deployment)'
                    /\ deployments'[jobs[j].deployment].owner = ControlPlaneWorker
                 \/ Failed(jobs[j].deployment)'
    PROVE  LifeOK' /\ Moves
<1>1. /\ ~ReportPending(j) /\ jobs[j].status # "queued"
      /\ local.pc = "built" => ~Placing(j)
      /\ \A v \in RemoteWorkers : ~Executing(v, j)
      /\ ControlPlaneWorker \in Workers
      /\ local.job = j
  BY DEF IInv, HoldersOK, ReportPending, LocalBusyWith, LifeOK, PlacingOK, Workers
<1>2. local'.pc = "settled"
  BY DEF IInv, TypeOK, LocalRecord
<1>3. Carrying(j) /\ ~Carrying(j)' /\ Holds(ControlPlaneWorker, j)
  BY <1>1, <1>2 DEF Carrying, Executing, ReportPending, LocalBusyWith, Holds
<1>4. \A k \in Jobs \ {j} : /\ Carrying(k)' <=> Carrying(k)
                            /\ \A v \in Workers : Holds(v, k)' <=> Holds(v, k)
  BY <1>1, <1>2 DEF Carrying, Holds, Executing, ReportPending, LocalBusyWith
<1>5. \A k \in Jobs : Placing(k)' =>
          /\ Placing(k) /\ report'[k].pc = "none"
          /\ local'.job = k => local'.pc # "built"
  BY <1>2 DEF LifeOK, PlacingOK, Placing
<1>6. deployments' = deployments \/ Writes(j)
  BY <1>1, <1>3 DEF Writes
<1>7. LifeOK'
  BY <1>3, <1>4, <1>5, <1>6, KeepsLifeOK
<1>8. Moves
  BY <1>1, <1>3, <1>4, CarrierEnds
<1> QED BY <1>7, <1>8

LEMMA LocalClaimLives ==
    ASSUME IInv, IInv', LifeOK, LocalClaim, UNCHANGED <<distVars, agentVars, api>>
    PROVE  LifeOK' /\ Moves
<1>1. PICK j \in Jobs :
          /\ ClaimForWorker(j, ControlPlaneWorker)
          /\ local' = [LocalIdle EXCEPT !.pc = "claimed", !.job = j]
  BY DEF LocalClaim
<1>2. /\ UNCHANGED <<deployments, dist, agent, report, api>>
      /\ local.pc = "idle" /\ local'.pc = "claimed" /\ local'.job = j
      /\ ControlPlaneWorker \in Workers
  BY <1>1 DEF LocalClaim, distVars, agentVars, Workers, LocalIdle
<1>3. /\ jobs[j].status = "queued" /\ jobs'[j].status = "running"
      /\ jobs'[j].deployment = jobs[j].deployment
      /\ \A k \in Jobs \ {j} : jobs'[k] = jobs[k]
  BY <1>1 DEF ClaimForWorker, Oldest, AssignedQueued, IInv, TypeOK, JobRecord
<1>4. Carrying(j) /\ Holds(ControlPlaneWorker, j)'
  BY <1>2, <1>3 DEF Carrying, Holds, LocalBusyWith
<1>5. \A k \in Jobs \ {j} : /\ Carrying(k)' <=> Carrying(k)
                            /\ \A v \in Workers : Holds(v, k)' <=> Holds(v, k)
  BY <1>2, <1>3 DEF Carrying, Holds, Executing, ReportPending, LocalBusyWith
<1>6. LifeOK'
  BY <1>2, <1>3, <1>4, <1>5, OthersKeepLifeOK DEF LifeOK, PlacingOK
<1>7. Moves
  BY <1>2, <1>3, <1>4, <1>5, JobTaken
<1> QED BY <1>6, <1>7

LEMMA LocalStepsLive ==
    ASSUME BuildOutlastsPlacement, IInv, IInv', LifeOK, NEW done \in BOOLEAN,
           UNCHANGED <<distVars, agentVars, api>>,
           \/ LocalFetch(done) \/ LocalBegin(done) \/ LocalProgress(done)
           \/ MayEnd(local.job) /\ \E ok \in BOOLEAN : LocalBuilt(ok, done)
           \/ LocalSettle(done) \/ LocalMark(done) \/ LocalRelease(done)
    PROVE  LifeOK' /\ Moves
<1>1. UNCHANGED <<dist, agent, report, api>>
  BY DEF distVars, agentVars
<1>2. PICK j \in Jobs : j = local.job
  BY DEF IInv, HoldersOK, LocalFetch, LocalBegin, LocalProgress, PersistLiveLogs,
     LocalBuilt, LocalSettle, LocalMark, LocalRelease
<1>3. local \in LocalRecord /\ jobs[j].status \notin {"absent", "queued"}
      /\ \A k \in Jobs : LocalBusyWith(k) => k = j
  BY <1>2 DEF IInv, TypeOK, HoldersOK, LocalBusyWith, LocalFetch, LocalBegin, LocalProgress,
     PersistLiveLogs, LocalBuilt, LocalSettle, LocalMark, LocalRelease
<1>4. CASE LocalFetch(done)
  <2>1. LocalBusyWith(j) /\ UNCHANGED <<jobs, deployments>> /\ local.pc = "claimed"
    BY <1>2, <1>4 DEF LocalFetch, LocalBusyWith
  <2>2. CASE local' = [local EXCEPT !.pc = "settled"]
    BY <1>1, <2>1, <2>2, LocalEnds
  <2>3. CASE local' = [local EXCEPT !.pc = "fetched",
                                    !.owner = deployments[LocalDeployment].owner]
    <3>1. local'.pc = "fetched" /\ local'.job = local.job
      BY <1>3, <2>3 DEF LocalRecord
    <3>2. \A k \in Jobs : LocalBusyWith(k)' <=> LocalBusyWith(k)
      BY <2>1, <3>1 DEF LocalBusyWith
    <3> QED BY <1>1, <2>1, <3>1, <3>2, LocalGoesOn
  <2> QED BY <1>4, <2>2, <2>3 DEF LocalFetch
<1>5. CASE LocalBegin(done) \/ LocalProgress(done)
           \/ (MayEnd(local.job) /\ \E ok \in BOOLEAN : LocalBuilt(ok, done))
  <2>1. /\ LocalBusyWith(j) /\ jobs' = jobs
        /\ \E owner : UpdateDeployment(jobs[j].deployment, "deploying", owner, done)
        /\ local'.job = local.job /\ local'.pc \in {"building", "built"}
        /\ local'.pc = "built" => ~Placing(j)
    <3>1. CASE LocalBegin(done)
      BY <1>2, <1>3, <3>1 DEF LocalBegin, LocalBusyWith, LocalDeployment, LocalRecord
    <3>2. CASE LocalProgress(done)
      BY <1>2, <1>3, <3>2 DEF LocalProgress, PersistLiveLogs, LocalBusyWith, LocalDeployment
    <3>3. CASE MayEnd(local.job) /\ \E ok \in BOOLEAN : LocalBuilt(ok, done)
      BY <1>2, <1>3, <3>3 DEF MayEnd, LocalBuilt, PersistLiveLogs, LocalBusyWith,
         LocalDeployment, LocalRecord
    <3> QED BY <1>5, <3>1, <3>2, <3>3
  <2>2. PICK d \in Deployments : d = jobs[j].deployment
    BY <2>1, JobsHaveDeployments DEF Carrying
  <2>3. Unsettled(d)
    BY <2>1, <2>2 DEF LifeOK, CarryingOK, Carrying
  <2>4. /\ \A e \in Deployments \ {d} : deployments'[e] = deployments[e]
        /\ Unsettled(d)'
    <3>1. PICK owner : UpdateDeployment(d, "deploying", owner, done)
      BY <2>1, <2>2
    <3>2. /\ \A e \in Deployments \ {d} : deployments'[e] = deployments[e]
          /\ deployments'[d].status \in {"deploying", deployments[d].status}
      BY <3>1 DEF UpdateDeployment, IInv, TypeOK
    <3> QED BY <2>3, <3>2 DEF Unsettled, Running, Failed
  <2>5. Unsettled(jobs[j].deployment)'
    BY <2>1, <2>2, <2>4 DEF Unsettled, Running, Failed
  <2>6. \A k \in Jobs : /\ LocalBusyWith(k)' <=> LocalBusyWith(k)
                        /\ Placing(k) /\ local'.job = k => local'.pc # "built"
    BY <1>2, <2>1 DEF LocalBusyWith
  <2> QED BY <1>1, <2>1, <2>2, <2>4, <2>5, <2>6, LocalGoesOn
<1>6. CASE LocalSettle(done)
  <2> DEFINE status == IF local.ok THEN "running" ELSE "failed"
  <2>1. LocalBusyWith(j) /\ jobs' = jobs /\ local' = [local EXCEPT !.pc = "settled"]
        /\ local.pc = "built"
    BY <1>2, <1>6 DEF LocalSettle, LocalBusyWith
  <2>2. PICK d \in Deployments : d = jobs[j].deployment
    BY <2>1, JobsHaveDeployments DEF Carrying
  <2>3. UpdateDeployment(d, status, ControlPlaneWorker, done) /\ status \in {"running", "failed"}
    BY <1>2, <1>6, <2>2 DEF LocalSettle, LocalDeployment
  <2> HIDE DEF status
  <2>4. /\ \A e \in Deployments \ {d} : deployments'[e] = deployments[e]
        /\ \/ deployments' = deployments
           \/ deployments'[d] = [status |-> status, owner |-> ControlPlaneWorker]
    BY <2>3 DEF UpdateDeployment, IInv, TypeOK
  <2>5. \/ deployments' = deployments
        \/ /\ Running(jobs[j].deployment)'
           /\ deployments'[jobs[j].deployment].owner = ControlPlaneWorker
        \/ Failed(jobs[j].deployment)'
    BY <2>1, <2>2, <2>3, <2>4 DEF Running, Failed
  <2> QED BY <1>1, <2>1, <2>2, <2>4, <2>5, LocalEnds
<1>7. CASE LocalMark(done) \/ LocalRelease(done)
  <2>1. /\ local.pc \in {"settled", "release"} /\ local'.pc \in {"release", "idle"}
        /\ deployments' = deployments
    BY <1>3, <1>7 DEF LocalMark, LocalRelease, LocalIdle, LocalRecord
  <2>2. \/ jobs' = jobs
        \/ \E status \in {"done", "failed"} : jobs' = [jobs EXCEPT ![j].status = status]
    BY <1>2, <1>7 DEF LocalMark, LocalRelease, MarkDone, MarkFailed
  <2>3. \A k \in Jobs : /\ jobs'[k].deployment = jobs[k].deployment
                        /\ jobs'[k].status = "queued" <=> jobs[k].status = "queued"
    BY <1>3, <2>2 DEF IInv, TypeOK, JobRecord
  <2>4. \A k \in Jobs : LocalBusyWith(k)' <=> LocalBusyWith(k)
    BY <2>1 DEF LocalBusyWith
  <2> QED BY <1>1, <2>1, <2>3, <2>4, LocalGoesOn
<1> QED BY <1>4, <1>5, <1>6, <1>7

LEMMA LocalLives ==
    ASSUME BuildOutlastsPlacement, IInv, IInv', LifeOK, LocalNext \/ LocalLogsNext
    PROVE  LifeOK' /\ Moves
<1>1. UNCHANGED <<distVars, agentVars, api>>
  BY DEF LocalNext, LocalLogsNext
<1> QED
  BY <1>1, LocalClaimLives, LocalStepsLive DEF LocalNext, LocalStep, LocalLogsNext, LocalLogs

-----------------------------------------------------------------------------
(* The whole system *)

\* A restart strands whatever was in the hands of the process.
LEMMA RestartLives ==
    ASSUME IInv, IInv', LifeOK, Restart
    PROVE  LifeOK' /\ Moves
<1>1. UNCHANGED <<jobs, deployments, agent>>
      /\ \A j \in Jobs : ~ReportPending(j)' /\ ~LocalBusyWith(j)'
  BY DEF Restart, ReportPending, LocalBusyWith, LocalIdle, IInv, TypeOK, ReportRecord
<1>2. /\ dist'.pc \notin {"enqueue", "record"}
      /\ \A j \in Jobs : ~Placing(j)'
      /\ \A d \in Deployments : /\ api'[d] = "new" <=> api[d] = "new"
                                /\ api'[d] # "stored" /\ ~Promised(d)'
  BY DEF Restart, Boot, AtRest, Placing, Promised, At, IInv, TypeOK
<1>3. \A j \in Jobs : Carrying(j)' => Carrying(j)
  BY <1>1 DEF Carrying, Executing
<1>4. LifeOK'
  <2>1. \A d \in Deployments : api'[d] \in {"new", "stored"} => api'[d] = api[d]
    BY <1>2
  <2> QED BY <1>1, <1>2, <1>3, <2>1, KeepsLifeOK
<1>5. \A d \in Deployments : SameRow(d) /\ (Unsettled(d)' <=> Unsettled(d))
  BY <1>1 DEF SameRow, Unsettled, Running, Failed
<1>6. ASSUME NEW d \in Deployments, ~Promised(d),
             \A j \in JobsOf(d) : ~ReportPending(j) /\ ~LocalBusyWith(j)
      PROVE  Same(d)
  <2>1. SameJobs(d)
    BY <1>1, <1>6 DEF SameJobs, JobsOf, Holds, Executing
  <2>2. SameRequest(d)
    BY <1>2, <1>6 DEF SameRequest
  <2> QED BY <1>5, <2>1, <2>2, UntouchedStays DEF Untouched
<1>7. ASSUME NEW d \in Deployments, \A j \in JobsOf(d) : ~Carrying(j)', Unsettled(d),
             api[d] # "new"
      PROVE  Is(d, "stranded", NoWorker)'
  <2>1. LeftAlone(d)'
    BY <1>1, <1>2, <1>7 DEF LeftAlone, JobsOf
  <2> QED BY <1>2, <1>5, <1>7, <2>1, Facts DEF PhaseFacts
<1>8. ASSUME NEW d \in Deployments, Promised(d)
      PROVE  PhaseOf(d) = "promised" /\ Is(d, "stranded", NoWorker)'
  <2>1. PhaseOf(d) = "promised"
    BY <1>8, Facts DEF PhaseFacts, Is
  <2>2. \A j \in JobsOf(d) : ~Carrying(j)'
    BY <1>3, <1>8 DEF IInv, Unshared, JobsOf
  <2>3. Unsettled(d) /\ api[d] # "new"
    BY <1>8 DEF Promised, LifeOK, StoredOK, RequeuedOK, At, Unsettled, Running, Failed,
       IInv, NewOK
  <2> QED BY <1>7, <2>1, <2>2, <2>3
<1>9. ASSUME NEW d \in Deployments, NEW j \in JobsOf(d), ReportPending(j) \/ LocalBusyWith(j)
      PROVE  PhaseOf(d) = "executing" /\ Is(d, "stranded", NoWorker)'
  <2>1. /\ j \in Jobs /\ jobs[j].deployment = d /\ Carrying(j)
        /\ jobs[j].status # "queued" /\ \A w \in RemoteWorkers : ~Executing(w, j)
        /\ \E w \in Workers : Holds(w, j)
    BY <1>9, RemoteIsWorker DEF JobsOf, Carrying, IInv, HoldersOK, ReportPending,
       LocalBusyWith, Holds, Workers
  <2>2. PhaseOf(d) = "executing"
    BY <2>1, Facts DEF PhaseFacts, Is, JobsOf
  <2>3. ASSUME NEW k \in JobsOf(d) PROVE ~Carrying(k)'
    <3>1. k \in Jobs /\ jobs[k].deployment = d
      BY DEF JobsOf
    <3>2. CASE k = j
      BY <1>1, <2>1, <3>2 DEF Carrying, Executing
    <3>3. CASE k # j
      BY <1>3, <2>1, <3>1, <3>3 DEF IInv, Exclusive
    <3> QED BY <3>2, <3>3
  <2>4. Unsettled(d) /\ api[d] # "new"
    BY <2>1 DEF LifeOK, CarryingOK, IInv, NewOK
  <2> QED BY <1>7, <2>2, <2>3, <2>4
<1>10. Moves
  BY <1>6, <1>8, <1>9, StrandIs
<1> QED BY <1>4, <1>10

LEMMA StepLives ==
    ASSUME NoLostRequeue, BuildOutlastsPlacement
    PROVE  IInv /\ IInv' /\ LifeOK /\ [Next]_vars => LifeOK' /\ Moves
<1> SUFFICES ASSUME IInv, IInv', LifeOK, [Next]_vars PROVE LifeOK' /\ Moves
  OBVIOUS
<1>1. CASE UNCHANGED vars
  <2>1. UNCHANGED <<jobs, deployments, dist, agent, report, local, api>>
    BY <1>1 DEF vars
  <2>2. \A j \in Jobs : /\ Placing(j)' <=> Placing(j)
                        /\ \A w \in RemoteWorkers : Executing(w, j)' <=> Executing(w, j)
    BY <2>1 DEF Placing, Executing
  <2> QED BY <2>1, <2>2, Unnoticed
<1> QED
  BY <1>1, ApiLives, DistributorLives, CooldownLives, WorkerLives, ReportLives, LocalLives,
     RestartLives DEF Next

LEMMA InitLives == Init => LifeOK /\ Life!LifeInit
<1> SUFFICES ASSUME Init PROVE LifeOK /\ Life!LifeInit
  OBVIOUS
<1>1. IInv
  BY InitIInv
<1>2. \A j \in Jobs : ~Carrying(j) /\ ~Placing(j)
  BY DEF Init, JobsInit, NoRow, AgentsInit, Down, NoReport, LocalInit, LocalIdle, DistInit,
     Boot, AtRest, Carrying, Executing, ReportPending, LocalBusyWith, Placing
<1>3. StoredOK /\ RequeuedOK
  BY DomainAssumed
  DEF DomainAssumption, Init, JobsInit, NoRow, DeploymentsInit, DistInit, Boot, AtRest, At,
      StoredOK, RequeuedOK, JobsOf, Unsettled, Running, Failed
<1>4. LifeOK
  BY <1>2, <1>3 DEF LifeOK, CarryingOK, PlacingOK
<1>5. \A d \in Deployments : api[d] = "new"
  BY DEF Init
<1>6. \A d \in Deployments : Is(d, "new", NoWorker)
  BY <1>1, <1>5, Phases DEF PhaseFacts
<1>7. Life!LifeInit
  BY <1>6 DEF Is, Life!LifeInit
<1> QED BY <1>4, <1>7

\* Whatever fails, except the write that re-queues a deployment, and as long as
\* no build ends while its job is still being recorded: each step of the
\* control plane moves a deployment along its lifecycle or not at all. One
\* worker at a time executes it, it ends up with the outcome and the owner that
\* its executor reported, and only a re-queue takes it down again.
THEOREM ImplementsLifecycle ==
    ASSUME NoLostRequeue, BuildOutlastsPlacement
    PROVE  Spec => LifecycleHolds
<1>1. Init => LifeOK /\ Life!LifeInit
  BY InitLives
<1>2. IInv /\ IInv' /\ LifeOK /\ [Next]_vars
          => LifeOK' /\ [Life!LifeNext]_(Life!lifeVars)
  BY StepLives DEF Moves
<1> QED
  BY <1>1, <1>2, SpecKeepsIInv, PTL DEF Spec, LifecycleHolds, Life!LifeSpec

=============================================================================
