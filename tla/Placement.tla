------------------------------ MODULE Placement ------------------------------
(***************************************************************************)
(* The decisions of JobDistributor that only read the workers table        *)
(* (control-plane/internal/service/distributor.go): which worker gets the  *)
(* next job, and which owners are outscored enough to lose a deployment.   *)
(***************************************************************************)
EXTENDS WorkerStore

RebalanceMinDelta == 200

FreeSlots(w) == MaxConcurrentJobs[w] - workers[w].current

Available(w) == Online(w) /\ workers[w].current < MaxConcurrentJobs[w]

\* The control plane's own row, when it is a worker and has a slot.
LocalChoice == {w \in Workers \ RemoteWorkers : Available(w)}

\* Most free slots, then most CPU, then most memory. The code breaks the
\* remaining ties by worker id; here any of the tied workers may be chosen.
Better(v, w) ==
    \/ FreeSlots(v) > FreeSlots(w)
    \/ /\ FreeSlots(v) = FreeSlots(w)
       /\ \/ CPUCores[v] > CPUCores[w]
          \/ CPUCores[v] = CPUCores[w] /\ MemoryGB[v] > MemoryGB[w]

RemoteCandidates == {w \in RemoteWorkers : Available(w)}

RemoteChoice == {w \in RemoteCandidates : \A v \in RemoteCandidates : ~Better(v, w)}

FirstOf(S, T) == IF S # {} THEN S ELSE T

SmartChoice(d) ==
    IF d \in SmallDeployments
    THEN FirstOf(LocalChoice, RemoteChoice)
    ELSE FirstOf(RemoteChoice, LocalChoice)

Choice(d) ==
    CASE Strategy = "local-first" -> FirstOf(LocalChoice, RemoteChoice)
      [] Strategy = "remote-only" -> RemoteChoice
      [] OTHER -> SmartChoice(d)

Eligible(w) == Online(w) /\ MaxConcurrentJobs[w] > 0 /\ FreeSlots(w) > 0

Score(w) == FreeSlots(w) * 1000 + CPUCores[w] * 100 + MemoryGB[w] * 10

\* Owners the best available worker beats by the minimum delta.
Outscored ==
    {w \in Workers : /\ Eligible(w)
                     /\ \E best \in Workers :
                            /\ Eligible(best)
                            /\ Score(best) - Score(w) >= RebalanceMinDelta}

=============================================================================
