------------------------------ MODULE Lifecycle ------------------------------
(***************************************************************************)
(* What the control plane promises about each deployment, without queue,   *)
(* tables or messages: it is executed by one worker at a time, it ends up  *)
(* on the worker that executed it, and only an up deployment is moved.     *)
(* A deployment may be stranded by a failure; nothing brings it back.      *)
(***************************************************************************)
CONSTANTS Deployments, Workers, NoWorker

VARIABLES
    phase, \* where each deployment is
    host   \* the worker that executes it or, once it is up, serves it

lifeVars == <<phase, host>>

Phases ==
    {"new", "promised", "waiting", "executing", "up", "down", "stranded"}

LifeTypeOK ==
    /\ phase \in [Deployments -> Phases]
    /\ host \in [Deployments -> Workers \cup {NoWorker}]

LifeInit ==
    /\ phase = [d \in Deployments |-> "new"]
    /\ host = [d \in Deployments |-> NoWorker]

Move(d, from, to, w) ==
    /\ phase[d] = from
    /\ phase' = [phase EXCEPT ![d] = to]
    /\ host' = [host EXCEPT ![d] = w]

Submit(d) == Move(d, "new", "promised", NoWorker)

Queue(d) == Move(d, "promised", "waiting", NoWorker)

Take(d, w) == Move(d, "waiting", "executing", w)

Succeed(d) == Move(d, "executing", "up", host[d])

Fail(d) == Move(d, "executing", "down", NoWorker)

Relocate(d) == Move(d, "up", "promised", NoWorker)

\* One failure, a restart for instance, may strand several at once.
Strand(S) ==
    /\ \A d \in S : phase[d] \in {"promised", "waiting", "executing"}
    /\ phase' = [d \in Deployments |-> IF d \in S THEN "stranded" ELSE phase[d]]
    /\ host' = [d \in Deployments |-> IF d \in S THEN NoWorker ELSE host[d]]

LifeNext ==
    \/ \E d \in Deployments :
          \/ Submit(d) \/ Queue(d) \/ Succeed(d) \/ Fail(d) \/ Relocate(d)
          \/ \E w \in Workers : Take(d, w)
    \/ \E S \in SUBSET Deployments : Strand(S)

LifeSpec == LifeInit /\ [][LifeNext]_lifeVars

=============================================================================
