---------------------------- MODULE HostingProofs ----------------------------
(***************************************************************************)
(* Proofs about hosting, for any deployments, names, hosts, payloads and   *)
(* bounds: everything the properties say of a state.                       *)
(***************************************************************************)
EXTENDS HostingProperties, TLAPS

-----------------------------------------------------------------------------
(* The inductive invariant *)

Active(h) == run[h].pc # "idle"

\* A deployment is in the hands of one host at most, which has its job; when
\* it runs or is failed its job is over, and the host has only to say so.
Custody ==
    /\ \A h, k \in Hosts : Active(h) /\ Active(k) /\ run[h].dep = run[k].dep => h = k
    /\ \A h \in Hosts :
          Active(h) => /\ jobs[run[h].dep] = "running"
                       /\ run[h].pc \notin {"claimed", "settled"} => Stored(run[h].dep)
                       /\ deployments[run[h].dep].status \in {"running", "failed"} =>
                               run[h].pc = "settled"
    /\ \A d \in Deployments :
          /\ jobs[d] # "none" => request[d].pc = "answered"
          /\ Stored(d) => request[d].pc \in {"stored", "answered", "refused"}
          /\ deployments[d].status \notin {"absent", "queued"} => jobs[d] \notin {"none", "queued"}
    /\ config.mode = "single" => \A h \in AgentHosts : ~Active(h)

\* What a request's name may be, and where it shows up.
OwnNames(d) == Names \cup {NoName} \cup {Suffixed(m, d) : m \in Names}

NamesKept ==
    \A d \in Deployments :
        /\ request[d].name \in OwnNames(d)
        /\ Stored(d) => deployments[d].name = request[d].name \/ Cut(d)
        /\ \A h \in Hosts :
              workload[h][d].route # NoName =>
                  /\ request[d].pc = "answered"
                  /\ workload[h][d].route = request[d].name \/ Cut(d)

\* What was on the list when a name was chosen does not have that name, or it
\* had failed, and then it stays so.
ListsRemembered ==
    \A d \in Deployments : \A e \in request[d].listed :
        /\ request[e].pc \notin {"new", "checked"}
        /\ \/ d = e
           \/ ~Live(e)
           \/ Cut(d) \/ Cut(e)
           \/ request[d].name # request[e].name

\* Nobody has switched an autoscaler on and refused its bounds.
BoundsTaken ==
    \A d \in Deployments :
        request[d].pc \in {"checked", "stored", "answered"} => AutoscalerTakes(request[d].bounds)

Scales(h) ==
    /\ h = ControlPlaneHost /\ config.hpa /\ config.backend = "kubernetes"
    /\ faults["kubectl"] = 0

\* How far a host has got with its deployment.
Done(h) == run[h].pc = "ended" /\ run[h].error = "none"

\* Why an agent's job failed, if it did.
Justified(h) ==
    /\ run[h].error = "unreachable" => faults["kubectl"] >= 3
    /\ run[h].error = "refused" => faults["refused"] > 0 \/ ~RouteValid(h)
    /\ run[h].error = "platform" =>
          /\ namespace[h]
          /\ Current(h).state # "none"
          /\ Current(h).route = HostRoute(h)

ProgressOf(h) ==
    /\ run[h].pc \in {"rollout", "scale"} \/ Done(h) =>
          /\ Current(h).state # "none"
          /\ Current(h).route = HostRoute(h)
          /\ h \in AgentHosts => RouteValid(h)
    /\ run[h].pc = "scale" \/ Done(h) => Current(h).state = "ready"
    /\ Done(h) /\ Scales(h) => Current(h).scaled
    /\ run[h].try - 1 <= faults["kubectl"]
    /\ run[h].pc \notin {"ended", "settled"} => run[h].error = "none"
    /\ h \in AgentHosts /\ run[h].pc \in {"apply", "rollout"} => namespace[h]
    /\ h \in AgentHosts /\ run[h].pc = "ended" => Justified(h)

Progress == \A h \in Hosts : ProgressOf(h)

\* A running deployment is served, wherever it runs.
ServedOf(d) ==
    /\ owner[d] \in Hosts
    /\ workload[owner[d]][d].state = "ready"
    /\ workload[owner[d]][d].route = deployments[d].name
    /\ Scales(owner[d]) => workload[owner[d]][d].scaled

Served == \A d \in Deployments : deployments[d].status = "running" => ServedOf(d)

IInv ==
    /\ TypeOK
    /\ Custody /\ NamesKept /\ ListsRemembered
    /\ BoundsTaken /\ Progress /\ Served

-----------------------------------------------------------------------------
(* Names *)

LEMMA RoutesAreNames ==
    ASSUME NEW n \in AllNames \cup {NoName}
    PROVE  /\ RouteOf(n) \in AllNames \cup {NoName}
           /\ RouteOf(RouteOf(n)) = RouteOf(n)
    BY SubdomainAssumed DEF SubdomainAssumption, RouteOf, AllNames

\* A name comes from what the user wrote, or is that name with a suffix.
LEMMA NamesGenerated ==
    ASSUME NEW d \in Deployments, NEW given \in BOOLEAN, NEW raw \in Raw, NEW listed,
           GeneratedName(d, given, raw, listed) # NoName
    PROVE  /\ GeneratedName(d, given, raw, listed) \in OwnNames(d)
           /\ ~InUse(GeneratedName(d, given, raw, listed), listed)
              \/ \E m \in Names : GeneratedName(d, given, raw, listed) = Suffixed(m, d)
    BY SubdomainAssumed DEF SubdomainAssumption, GeneratedName, OwnNames

\* A suffixed name is nobody else's.
LEMMA SuffixedOwn ==
    ASSUME NEW d \in Deployments, NEW e \in Deployments, d # e, NEW m \in Names,
           NEW n \in OwnNames(e)
    PROVE  n # Suffixed(m, d)
  <1>1. Suffixed(m, d) # NoName
    BY SubdomainAssumed DEF SubdomainAssumption, AllNames
  <1>2. \A k \in Names : Suffixed(k, e) # Suffixed(m, d)
    BY SubdomainAssumed DEF SubdomainAssumption
  <1>3. Suffixed(m, d) \notin Names
    BY SubdomainAssumed DEF SubdomainAssumption
  <1> QED
    BY <1>1, <1>2, <1>3 DEF OwnNames

LEMMA OwnNamesAreNames ==
    ASSUME NEW d \in Deployments
    PROVE  OwnNames(d) \subseteq AllNames \cup {NoName}
    BY DEF OwnNames, AllNames

LEMMA BoundsPass ==
    ASSUME NEW package \in Packages, NEW payload \in Payloads, IsValidPackage(package),
           Accepts(Asked(package, payload))
    PROVE  /\ Defaulted(Asked(package, payload)) \in Bounds
           /\ AutoscalerTakes(Defaulted(Asked(package, payload)))
  <1>1. PackageMaxReplicas[package] \in Nat /\ PackageMaxReplicas[package] > 0
    BY DEF IsValidPackage, PackageMaxReplicas
  <1>2. payload \in Bounds
    BY SubdomainAssumed DEF SubdomainAssumption
  <1>3. Asked(package, payload) \in Bounds
    BY <1>1, <1>2 DEF Asked, Bounds
  <1> QED
    BY <1>3 DEF Bounds, Defaulted, Accepts, AutoscalerTakes

LEMMA HostsFacts ==
    ControlPlaneHost \in Hosts /\ ControlPlaneHost \notin AgentHosts /\ AgentHosts \subseteq Hosts
    BY RuntimeAssumed DEF RuntimeAssumption, Hosts

-----------------------------------------------------------------------------
LEMMA InitIInv == Init => IInv
  <1> SUFFICES ASSUME Init PROVE IInv
    OBVIOUS
  <1> USE DEF Init, ApiInit, RuntimeInit
  <1>1. TypeOK
    <2>1. (CHOOSE d \in Deployments : TRUE) \in Deployments
      BY SubdomainAssumed DEF SubdomainAssumption
    <2>2. run \in [Hosts -> RunRecord]
      BY <2>1 DEF RunRecord, Stages, Errors
    <2>3. request \in [Deployments -> Request]
      BY DEF Untouched, Request, Bounds
    <2>4. moves \in 0..MaxMoves
      BY HostingAssumed DEF HostingAssumption
    <2> QED
      BY <2>2, <2>3, <2>4 DEF TypeOK, Row, NoDeploymentRow, Workload, NoWorkload, FaultKinds
  <1>2. Custody
    BY SubdomainAssumed DEF Custody, Active, Stored, NoDeploymentRow, Hosts
  <1>3. NamesKept /\ ListsRemembered /\ BoundsTaken
    BY DEF NamesKept, OwnNames, ListsRemembered, BoundsTaken, Untouched, Stored,
           NoDeploymentRow, NoWorkload
  <1>4. Progress
    BY DEF Progress, ProgressOf, Done, FaultKinds
  <1>5. Served
    BY DEF Served, NoDeploymentRow
  <1> QED
    BY <1>1, <1>2, <1>3, <1>4, <1>5 DEF IInv

-----------------------------------------------------------------------------
(* What most steps have in common *)

\* Failures are only ever counted up.
Counts ==
    /\ faults' \in [FaultKinds -> Nat]
    /\ faults'["kubectl"] >= faults["kubectl"] /\ faults'["refused"] >= faults["refused"]

\* Nobody removes a namespace.
NamespacesStay ==
    /\ namespace' \in [Hosts -> BOOLEAN]
    /\ \A h \in Hosts : namespace[h] => namespace'[h]

\* A request gets on.
LEMMA RequestMoves ==
    ASSUME request \in [Deployments -> Request], NEW d \in Deployments,
           NEW pc \in {"stored", "answered", "refused"}
    PROVE  [request EXCEPT ![d].pc = pc] \in [Deployments -> Request]
  <1>1. [request[d] EXCEPT !.pc = pc] \in Request
    BY DEF Request
  <1> QED
    BY <1>1

LEMMA FaultsCounted ==
    ASSUME TypeOK, NEW kind \in FaultKinds, NEW ok \in BOOLEAN, Outcome(ok, kind)
    PROVE  /\ Counts
           /\ ~ok /\ kind = "kubectl" => faults'["kubectl"] = faults["kubectl"] + 1
    BY DEF Outcome, Fault, TypeOK, FaultKinds, Counts

LEMMA StatementsCounted ==
    ASSUME TypeOK, NEW kind \in FaultKinds, NEW ok \in BOOLEAN, DatabaseOutcome(ok, kind)
    PROVE  Counts
    BY FaultsCounted DEF DatabaseOutcome

\* Nothing happens to what a host builds.
LEMMA ProgressOfKept ==
    ASSUME IInv, Counts, NEW h \in Hosts, config' = config, namespace[h] => namespace'[h],
           run'[h] = run[h], workload'[h][run[h].dep] = workload[h][run[h].dep],
           Active(h) /\ run[h].pc # "settled" =>
               deployments'[run[h].dep].name = deployments[run[h].dep].name
    PROVE  ProgressOf(h)'
  <1>1. ProgressOf(h)
    BY DEF IInv, Progress
  <1>2. Current(h)' = Current(h) /\ Done(h)' = Done(h) /\ (Scales(h)' => Scales(h))
    BY DEF Current, Done, Scales, IInv, TypeOK, FaultKinds, Counts
  <1>3. run[h].pc \in {"rollout", "scale", "ended"} =>
           HostRoute(h)' = HostRoute(h) /\ RouteValid(h)' = RouteValid(h)
    BY DEF HostRoute, RouteValid, NameOf, Active
  <1>4. run[h].try \in 1..3
    BY DEF IInv, TypeOK, RunRecord
  <1>5. /\ faults["kubectl"] \in Nat /\ faults'["kubectl"] \in Nat
        /\ faults'["kubectl"] >= faults["kubectl"]
        /\ faults["refused"] \in Nat /\ faults'["refused"] \in Nat
        /\ faults'["refused"] >= faults["refused"]
    BY DEF Counts, IInv, TypeOK, FaultKinds
  <1> HIDE DEF IInv, Counts
  <1>6. run[h].pc = "ended" /\ Justified(h) => Justified(h)'
    BY <1>2, <1>3, <1>5 DEF Justified
  <1> QED
    BY <1>1, <1>2, <1>3, <1>4, <1>5, <1>6 DEF ProgressOf, Done

LEMMA ProgressKept ==
    ASSUME IInv, Counts, UNCHANGED <<config, runtimeVars>>,
           \A h \in Hosts : Active(h) /\ run[h].pc # "settled" =>
               deployments'[run[h].dep].name = deployments[run[h].dep].name
    PROVE  Progress'
  <1>1. \A h \in Hosts : ProgressOf(h)'
    BY ProgressOfKept DEF runtimeVars
  <1> QED
    BY <1>1 DEF Progress

\* Nothing happens to what runs, but for one deployment.
LEMMA ServedButOne ==
    ASSUME IInv, Counts, UNCHANGED config, NEW d \in Deployments,
           \A e \in Deployments : e # d /\ deployments'[e].status = "running" =>
               /\ deployments'[e] = deployments[e] /\ owner'[e] = owner[e]
               /\ \A h \in Hosts : workload'[h][e] = workload[h][e],
           deployments'[d].status = "running" => ServedOf(d)'
    PROVE  Served'
  <1>1. \A h \in Hosts : Scales(h)' => Scales(h)
    BY DEF Scales, IInv, TypeOK, FaultKinds, Counts
  <1> QED
    BY <1>1 DEF Served, ServedOf, IInv

LEMMA ServedKept ==
    ASSUME IInv, Counts, UNCHANGED <<config, workload, owner>>,
           \A d \in Deployments :
               deployments'[d].status = "running" => deployments'[d] = deployments[d]
    PROVE  Served'
  <1>1. \A h \in Hosts : Scales(h)' => Scales(h)
    BY DEF Scales, IInv, TypeOK, FaultKinds, Counts
  <1> QED
    BY <1>1 DEF Served, ServedOf, IInv

-----------------------------------------------------------------------------
(* The deploy API *)

LEMMA CheckKeeps ==
    ASSUME IInv, NEW d \in Deployments, NEW package \in Packages, NEW payload \in Payloads,
           NEW given \in BOOLEAN, NEW raw \in Raw, NEW envValid \in BOOLEAN, NEW ok \in BOOLEAN,
           Check(d, package, payload, given, raw, envValid, ok), Counts,
           UNCHANGED <<config, runtimeVars, owner, moves>>
    PROVE  IInv'
  <1> USE DEF IInv, runtimeVars
  <1>1. UNCHANGED <<deployments, jobs, line>> /\ request[d].pc = "new"
    BY DEF Check, Refuse
  <1>2. jobs[d] = "none" /\ ~Stored(d)
    BY <1>1 DEF Custody
  <1>3. \/ request' = [request EXCEPT ![d].pc = "refused"]
        \/ \E n \in OwnNames(d), bounds \in Bounds, listed \in SUBSET {e \in Deployments : Stored(e)} :
              /\ request' = [request EXCEPT ![d] =
                     [pc |-> "checked", name |-> n, bounds |-> bounds, listed |-> listed]]
              /\ AutoscalerTakes(bounds)
              /\ ~InUse(n, listed) \/ \E m \in Names : n = Suffixed(m, d)
    <2>1. Listing(ok) \subseteq SUBSET {e \in Deployments : Stored(e)}
      BY DEF Listing
    <2>2. CASE request' = [request EXCEPT ![d].pc = "refused"]
      BY <2>2
    <2>3. CASE request' # [request EXCEPT ![d].pc = "refused"]
      <3>1. IsValidPackage(package) /\ Accepts(Asked(package, payload))
        BY <2>3 DEF Check, Refuse
      <3>2. PICK listed \in Listing(ok) :
               /\ GeneratedName(d, given, raw, listed) # NoName
               /\ request' = [request EXCEPT ![d] =
                     [pc |-> "checked", name |-> GeneratedName(d, given, raw, listed),
                      bounds |-> Defaulted(Asked(package, payload)), listed |-> listed]]
        BY <2>3, <3>1 DEF Check, Refuse
      <3>3. /\ GeneratedName(d, given, raw, listed) \in OwnNames(d)
            /\ ~InUse(GeneratedName(d, given, raw, listed), listed)
               \/ \E m \in Names : GeneratedName(d, given, raw, listed) = Suffixed(m, d)
        BY <3>2, NamesGenerated
      <3>4. /\ Defaulted(Asked(package, payload)) \in Bounds
            /\ AutoscalerTakes(Defaulted(Asked(package, payload)))
        BY <3>1, BoundsPass
      <3> QED
        BY <2>1, <3>2, <3>3, <3>4
    <2> QED
      BY <2>2, <2>3
  <1>4. CASE request' = [request EXCEPT ![d].pc = "refused"]
    <2>1. TypeOK'
      <3>1. request' \in [Deployments -> Request]
        BY <1>4, RequestMoves DEF TypeOK
      <3> QED
        BY <1>1, <3>1 DEF TypeOK, Counts
    <2>2. Custody'
      BY <1>1, <1>2, <1>4 DEF TypeOK, Custody, Active, Stored
    <2>3. NamesKept' /\ ListsRemembered' /\ BoundsTaken'
      BY <1>1, <1>4 DEF TypeOK, Request, NamesKept, ListsRemembered, BoundsTaken, Stored, Live, Cut
    <2> QED
      BY <1>1, <2>1, <2>2, <2>3, ProgressKept, ServedKept
  <1>5. ASSUME NEW n \in OwnNames(d), NEW bounds \in Bounds,
               NEW listed \in SUBSET {e \in Deployments : Stored(e)},
               request' = [request EXCEPT ![d] =
                   [pc |-> "checked", name |-> n, bounds |-> bounds, listed |-> listed]],
               AutoscalerTakes(bounds),
               ~InUse(n, listed) \/ \E m \in Names : n = Suffixed(m, d)
        PROVE  IInv'
    <2>1. TypeOK'
      BY <1>1, <1>5, OwnNamesAreNames DEF TypeOK, Request, Counts
    <2>2. Custody'
      BY <1>1, <1>2, <1>5 DEF TypeOK, Custody, Active, Stored
    <2>3. NamesKept'
      BY <1>1, <1>2, <1>5 DEF TypeOK, Request, NamesKept, Stored, Cut
    <2>4. ListsRemembered'
      <3> SUFFICES ASSUME NEW b \in Deployments, NEW e \in request'[b].listed
                   PROVE  ListsRemembered!(b)!(e)'
        BY DEF ListsRemembered
      <3>1. CASE b # d
        BY <1>1, <1>5, <3>1 DEF TypeOK, Request, ListsRemembered, Live, Cut
      <3>2. CASE b = d
        <4>1. e \in listed /\ e \in Deployments /\ Stored(e) /\ e # d
          BY <1>2, <1>5, <3>2 DEF TypeOK
        <4>2. request'[e] = request[e] /\ request[e].pc \notin {"new", "checked"}
          BY <1>5, <4>1 DEF TypeOK, Custody
        <4>3. request'[d].name = n
          BY <1>5 DEF TypeOK
        <4>4. CASE ~InUse(n, listed)
          BY <1>1, <3>2, <4>1, <4>2, <4>3, <4>4 DEF InUse, NamesKept, Live, Cut
        <4>5. CASE \E m \in Names : n = Suffixed(m, d)
          <5>1. request[e].name \in OwnNames(e)
            BY <4>1 DEF NamesKept
          <5>2. request[e].name # n
            BY <4>1, <4>5, <5>1, SuffixedOwn
          <5> QED
            BY <3>2, <4>2, <4>3, <5>2
        <4> QED
          BY <1>5, <4>4, <4>5
      <3> QED
        BY <3>1, <3>2
    <2>5. BoundsTaken'
      BY <1>5 DEF TypeOK, BoundsTaken
    <2> QED
      BY <1>1, <2>1, <2>2, <2>3, <2>4, <2>5, ProgressKept, ServedKept
  <1> QED
    BY <1>3, <1>4, <1>5

LEMMA StoreRowKeeps ==
    ASSUME IInv, NEW d \in Deployments, NEW ok \in BOOLEAN, StoreRow(d, ok), Counts,
           UNCHANGED <<config, runtimeVars, owner, moves>>
    PROVE  IInv'
  <1> USE DEF IInv, runtimeVars, StoreRow
  <1>1. jobs[d] = "none" /\ ~Stored(d) /\ \A h \in Hosts : Active(h) => run[h].dep # d
    BY DEF Custody
  <1>2. deployments' = deployments
        \/ deployments' = [deployments EXCEPT ![d] = [status |-> "queued", name |-> request[d].name]]
    OBVIOUS
  <1>3. TypeOK'
    <2>1. line' \in Seq(Deployments)
      BY DEF TypeOK
    <2>2. request[d].name \in AllNames \cup {NoName}
      BY DEF TypeOK, Request
    <2>3. deployments' \in [Deployments -> Row]
      BY <1>2, <2>2 DEF TypeOK, Row, Statuses
    <2>4. request' = [request EXCEPT ![d].pc = "stored"]
      OBVIOUS
    <2> HIDE DEF StoreRow
    <2>5. request' \in [Deployments -> Request]
      BY <2>4, RequestMoves DEF TypeOK
    <2> QED
      BY <2>1, <2>3, <2>5 DEF TypeOK, Counts, StoreRow
  <1>4. Custody'
    BY <1>1, <1>2 DEF TypeOK, Custody, Active, Stored
  <1>5. NamesKept'
    BY <1>2 DEF TypeOK, Request, NamesKept, Stored, Cut
  <1>6. ListsRemembered'
    BY <1>2 DEF TypeOK, Request, ListsRemembered, Live, Cut
  <1>7. BoundsTaken'
    BY DEF TypeOK, Request, BoundsTaken
  <1>8. Progress'
    BY <1>1, <1>2, ProgressKept DEF TypeOK
  <1>9. Served'
    BY <1>2, ServedKept DEF TypeOK
  <1> QED
    BY <1>3, <1>4, <1>5, <1>6, <1>7, <1>8, <1>9

LEMMA StoreJobKeeps ==
    ASSUME IInv, NEW d \in Deployments, NEW ok \in BOOLEAN, StoreJob(d, ok), Counts,
           UNCHANGED <<config, runtimeVars, owner, moves>>
    PROVE  IInv'
  <1> USE DEF IInv, runtimeVars, StoreJob
  <1>1. jobs[d] = "none" /\ deployments[d].status \in {"absent", "queued"}
        /\ \A h \in Hosts : Active(h) => run[h].dep # d
    BY DEF Custody
  <1>2. TypeOK'
    <2>1. line' \in Seq(Deployments)
      BY DEF TypeOK
    <2>2. request' \in [Deployments -> Request]
      BY RequestMoves DEF TypeOK
    <2>3. jobs' \in [Deployments -> {"none", "queued", "running", "done", "failed"}]
      BY DEF TypeOK
    <2> QED
      BY <2>1, <2>2, <2>3 DEF TypeOK, Counts
  <1>3. Custody'
    BY <1>1 DEF TypeOK, Custody, Active, Stored
  <1>4. NamesKept' /\ ListsRemembered' /\ BoundsTaken'
    BY DEF TypeOK, Request, NamesKept, ListsRemembered, BoundsTaken, Stored, Live, Cut
  <1> QED
    BY <1>2, <1>3, <1>4, ProgressKept, ServedKept

LEMMA ApiKeeps ==
    ASSUME IInv, NEW d \in Deployments, ApiStep(d)
    PROVE  IInv'
  <1> USE DEF ApiStep
  <1>1. PICK ok \in BOOLEAN :
           \/ /\ \E package \in Packages, payload \in Payloads, given, envValid \in BOOLEAN,
                    raw \in Raw :
                    Check(d, package, payload, given, raw, envValid, ok)
              /\ DatabaseOutcome(ok, "sql")
           \/ StoreRow(d, ok) /\ DatabaseOutcome(ok, "swallowed")
           \/ StoreJob(d, ok) /\ DatabaseOutcome(ok, "sql")
    OBVIOUS
  <1>2. Counts
    BY <1>1, StatementsCounted DEF IInv, FaultKinds
  <1> QED
    BY <1>1, <1>2, CheckKeeps, StoreRowKeeps, StoreJobKeeps

-----------------------------------------------------------------------------
(* The steps of processNext that write rows and jobs *)

\* Nothing is built or running on another host, or for another deployment,
\* that a step of host h for deployment d could disturb.
LEMMA OthersElsewhere ==
    ASSUME Custody, NEW h \in Hosts, Active(h), NEW k \in Hosts, k # h, Active(k)
    PROVE  run[k].dep # run[h].dep
    BY DEF Custody

LEMMA ClaimKeeps ==
    ASSUME IInv, NEW h \in Hosts, NEW d \in Deployments, Claim(h, d)
    PROVE  IInv'
  <1> USE DEF IInv, Claim, ClaimNext
  <1>1. \A k \in Hosts : Active(k) => run[k].dep # d
    BY DEF Custody
  <1>2. request[d].pc = "answered" /\ deployments[d].status \in {"absent", "queued"}
    BY DEF Custody
  <1>3. TypeOK'
    BY DEF TypeOK, RunRecord, Errors
  <1>4. Custody'
    BY <1>1, <1>2, HostsFacts DEF TypeOK, RunRecord, Custody, Active, Stored, Idle
  <1>5. NamesKept' /\ ListsRemembered' /\ BoundsTaken'
    BY DEF TypeOK, NamesKept, ListsRemembered, BoundsTaken, Stored, Live, Cut
  <1>6. Progress'
    <2>1. ProgressOf(h)'
      BY DEF TypeOK, RunRecord, FaultKinds, ProgressOf, Done
    <2>2. Counts
      BY DEF TypeOK, Counts, FaultKinds
    <2>3. \A k \in Hosts : k # h => ProgressOf(k)'
      BY <2>2, ProgressOfKept DEF TypeOK
    <2> QED
      BY <2>1, <2>3 DEF Progress
  <1>7. Served'
    <2>1. Counts
      BY DEF TypeOK, Counts, FaultKinds
    <2> QED
      BY <2>1, ServedKept
  <1> QED
    BY <1>3, <1>4, <1>5, <1>6, <1>7

\* One host goes on with its deployment.
LEMMA RunMoves ==
    ASSUME TypeOK, NEW h \in Hosts, NEW r \in RunRecord, r.dep = run[h].dep, r.pc # "idle",
           Active(h), run' = [run EXCEPT ![h] = r]
    PROVE  /\ run' \in [Hosts -> RunRecord]
           /\ run'[h] = r
           /\ \A k \in Hosts : k # h => run'[k] = run[k]
           /\ \A k \in Hosts : run'[k].dep = run[k].dep /\ (Active(k)' <=> Active(k))
  <1>1. run \in [Hosts -> RunRecord]
    BY DEF TypeOK
  <1> QED
    BY <1>1 DEF Active

\* A host writes the row of its deployment, and goes on.
LEMMA RowWritten ==
    ASSUME IInv, Counts, NEW h \in Hosts, NEW r \in RunRecord, NEW d \in Deployments, NEW row \in Row,
           Active(h), d = run[h].dep, r.dep = d, r.pc # "idle", run' = [run EXCEPT ![h] = r],
           deployments' = [deployments EXCEPT ![d] = row],
           row.status = "absent" <=> ~Stored(d),
           row.status # "queued" \/ row.status = deployments[d].status,
           row.status \in {"running", "failed"} => r.pc = "settled",
           deployments[d].status = "failed" => row.status = "failed",
           Stored(d) => row.name \in {deployments[d].name, RouteOf(deployments[d].name)},
           r.pc \notin {"claimed", "settled"} => Stored(d),
           owner' \in [Deployments -> Hosts \cup {NoHost}],
           UNCHANGED <<config, jobs, line, request, namespace, workload, moves>>
    PROVE  /\ TypeOK' /\ Custody' /\ NamesKept' /\ ListsRemembered' /\ BoundsTaken'
           /\ \A k \in Hosts : k # h => ProgressOf(k)'
  <1>1. TypeOK /\ Custody /\ NamesKept /\ ListsRemembered /\ BoundsTaken
    BY DEF IInv
  <1>2. /\ run' \in [Hosts -> RunRecord]
        /\ run'[h] = r
        /\ \A k \in Hosts : k # h => run'[k] = run[k]
        /\ \A k \in Hosts : run'[k].dep = run[k].dep /\ (Active(k)' <=> Active(k))
    BY <1>1, RunMoves
  <1>3. /\ deployments' \in [Deployments -> Row]
        /\ deployments'[d] = row
        /\ \A e \in Deployments : e # d => deployments'[e] = deployments[e]
    BY <1>1 DEF TypeOK
  <1>4. \A e \in Deployments : Stored(e)' <=> Stored(e)
    BY <1>3 DEF Stored
  <1>5. \A k \in Hosts : Active(k) /\ k # h => run[k].dep # d
    BY <1>1, OthersElsewhere
  <1>6. jobs[d] = "running" /\ request[d].pc = "answered"
    BY <1>1 DEF Custody
  <1>7. TypeOK'
    BY <1>1, <1>2, <1>3 DEF TypeOK, Counts
  <1>8. Custody'
    <2>1. \A k, l \in Hosts :
             Active(k)' /\ Active(l)' /\ run'[k].dep = run'[l].dep => k = l
      BY <1>1, <1>2 DEF Custody
    <2>2. \A k \in Hosts :
             Active(k)' => /\ jobs'[run'[k].dep] = "running"
                           /\ run'[k].pc \notin {"claimed", "settled"} => Stored(run[k].dep)'
                           /\ deployments'[run'[k].dep].status \in {"running", "failed"} =>
                                  run'[k].pc = "settled"
      <3> TAKE k \in Hosts
      <3>0. run[k].dep \in Deployments
        BY <1>1 DEF TypeOK, RunRecord
      <3>1. CASE k = h
        BY <1>2, <1>3, <1>4, <1>6, <3>1
      <3>2. CASE k # h
        BY <1>1, <1>2, <1>3, <1>4, <1>5, <3>0, <3>2 DEF Custody
      <3> QED
        BY <3>1, <3>2
    <2>3. \A e \in Deployments :
             /\ jobs'[e] # "none" => request'[e].pc = "answered"
             /\ Stored(e)' => request'[e].pc \in {"stored", "answered", "refused"}
             /\ deployments'[e].status \notin {"absent", "queued"} => jobs'[e] \notin {"none", "queued"}
      BY <1>1, <1>3, <1>4, <1>6 DEF Custody
    <2>4. config'.mode = "single" => \A k \in AgentHosts : ~Active(k)'
      BY <1>1, <1>2, HostsFacts DEF Custody
    <2> QED
      BY <2>1, <2>2, <2>3, <2>4 DEF Custody
  <1>9. NamesKept'
    <2>1. Stored(d) => row.name = request[d].name \/ Cut(d)
      BY <1>1 DEF NamesKept, Cut
    <2> QED
      BY <1>1, <1>3, <1>4, <2>1 DEF NamesKept, Cut
  <1>10. ListsRemembered' /\ BoundsTaken'
    <2>1. \A e \in Deployments : Live(e)' => Live(e)
      BY <1>1, <1>3 DEF Live, TypeOK, Row, Statuses, Stored
    <2> QED
      BY <1>1, <2>1 DEF TypeOK, Request, ListsRemembered, BoundsTaken, Cut
  <1>11. ASSUME NEW k \in Hosts, k # h PROVE ProgressOf(k)'
    <2>1. run[k].dep \in Deployments
      BY <1>1 DEF TypeOK, RunRecord
    <2> QED
      BY <1>2, <1>3, <1>5, <1>11, <2>1, ProgressOfKept
  <1> QED
    BY <1>1, <1>7, <1>8, <1>9, <1>10, <1>11

LEMMA LookupKeeps ==
    ASSUME IInv, NEW h \in Hosts, NEW found \in BOOLEAN, LookupFails(h, found)
    PROVE  IInv'
  <1>1. PICK d \in Deployments : d = run[h].dep
    BY DEF IInv, TypeOK, RunRecord
  <1>2. PICK r \in RunRecord : r = [run[h] EXCEPT !.pc = "settled", !.error = "lookup"]
    BY DEF IInv, TypeOK, RunRecord, Errors
  <1>3. /\ run[h].pc = "claimed" /\ Active(h)
        /\ run' = [run EXCEPT ![h] = r]
        /\ deployments' = [deployments EXCEPT ![d] = deployments[d]]
        /\ UNCHANGED <<config, jobs, line, request, namespace, workload, owner, moves>>
    <2>1. run \in [Hosts -> RunRecord] /\ deployments \in [Deployments -> Row]
      BY DEF IInv, TypeOK
    <2> QED
      BY <1>2, <2>1 DEF LookupFails, apiVars, RunRecord, Active
  <1>4. Counts
    <2>1. (UNCHANGED faults) => Counts
      BY DEF IInv, TypeOK, FaultKinds, Counts
    <2> QED
      BY <2>1, StatementsCounted DEF IInv, LookupFails, FaultKinds
  <1>5. r.dep = d /\ r.pc = "settled"
    BY <1>1, <1>2 DEF RunRecord
  <1>6. deployments[d] \in Row /\ owner \in [Deployments -> Hosts \cup {NoHost}]
    BY DEF IInv, TypeOK
  <1>7. /\ TypeOK' /\ Custody' /\ NamesKept' /\ ListsRemembered' /\ BoundsTaken'
        /\ \A k \in Hosts : k # h => ProgressOf(k)'
    BY <1>1, <1>3, <1>4, <1>5, <1>6, RowWritten DEF Stored
  <1>8. ProgressOf(h)'
    <2>1. ProgressOf(h) /\ run'[h] = [run[h] EXCEPT !.pc = "settled", !.error = "lookup"]
          /\ run[h] \in RunRecord
      BY <1>2, <1>3 DEF IInv, Progress, TypeOK
    <2> QED
      BY <1>4, <2>1 DEF RunRecord, ProgressOf, Done, Counts, IInv, TypeOK, FaultKinds
  <1>9. Served'
    <2>1. \A e \in Deployments : deployments'[e] = deployments[e]
      BY <1>3 DEF IInv, TypeOK
    <2> QED
      BY <1>3, <1>4, <2>1, ServedKept
  <1> QED
    BY <1>7, <1>8, <1>9 DEF IInv, Progress

LEMMA BeginKeeps ==
    ASSUME IInv, NEW h \in Hosts, NEW stored \in BOOLEAN, Begin(h, stored)
    PROVE  IInv'
  <1>1. PICK d \in Deployments : d = run[h].dep
    BY DEF IInv, TypeOK, RunRecord
  <1>2. PICK r \in RunRecord : r = [run[h] EXCEPT !.pc = "prepare", !.try = 1]
    <2>1. run[h] \in RunRecord
      BY DEF IInv, TypeOK
    <2>2. [run[h] EXCEPT !.pc = "prepare", !.try = 1] \in RunRecord
      BY <2>1, 1 \in 1..3 DEF RunRecord, Stages
    <2> QED
      BY <2>2
  <1>3. PICK row \in Row :
           /\ row.status \in {deployments[d].status, "deploying"}
           /\ row.name = deployments[d].name
           /\ deployments' = [deployments EXCEPT ![d] = row]
    <2>1. deployments \in [Deployments -> Row] /\ deployments[d] \in Row
          /\ [status |-> "deploying", name |-> deployments[d].name] \in Row
      BY DEF IInv, TypeOK, Row, Statuses
    <2>2. CASE stored
      BY <1>1, <2>1, <2>2 DEF Begin, UpdateRow, NameOf
    <2>3. CASE ~stored
      BY <2>1, <2>3 DEF Begin, UpdateRow
    <2> QED
      BY <2>2, <2>3
  <1>4. /\ run[h].pc = "claimed" /\ Active(h) /\ Stored(d)
        /\ run' = [run EXCEPT ![h] = r]
        /\ UNCHANGED <<config, jobs, line, request, namespace, workload, owner, moves>>
    <2>1. run \in [Hosts -> RunRecord]
      BY DEF IInv, TypeOK
    <2> QED
      BY <1>1, <1>2, <2>1 DEF Begin, Go, Active, RunRecord
  <1>5. Counts
    BY StatementsCounted DEF IInv, Begin, FaultKinds
  <1>6. r.dep = d /\ r.pc = "prepare"
    BY <1>1, <1>2 DEF RunRecord
  <1>7. /\ deployments[d].status \notin {"failed", "running", "absent"}
        /\ owner \in [Deployments -> Hosts \cup {NoHost}]
    BY <1>1, <1>4 DEF IInv, TypeOK, Custody, Stored
  <1>8. /\ TypeOK' /\ Custody' /\ NamesKept' /\ ListsRemembered' /\ BoundsTaken'
        /\ \A k \in Hosts : k # h => ProgressOf(k)'
    BY <1>1, <1>3, <1>4, <1>5, <1>6, <1>7, RowWritten DEF Stored
  <1>9. ProgressOf(h)'
    <2>1. /\ ProgressOf(h) /\ run[h] \in RunRecord
          /\ run'[h] = [run[h] EXCEPT !.pc = "prepare", !.try = 1]
          /\ Current(h)' = Current(h)
      BY <1>2, <1>4, RunMoves DEF IInv, Progress, TypeOK, Current, RunRecord
    <2>2. /\ faults["kubectl"] \in Nat /\ faults'["kubectl"] \in Nat
          /\ faults'["kubectl"] >= faults["kubectl"]
      BY <1>5 DEF IInv, TypeOK, FaultKinds, Counts
    <2>3. /\ run'[h].pc = "prepare" /\ run'[h].try = 1 /\ run'[h].error = run[h].error
          /\ run[h].pc = "claimed"
      BY <1>1, <2>1 DEF RunRecord, Begin
    <2> QED
      BY <2>1, <2>2, <2>3 DEF ProgressOf, Done
  <1>10. Served'
    <2>1. \A e \in Deployments : e # d => deployments'[e] = deployments[e]
      BY <1>3 DEF IInv, TypeOK
    <2>2. deployments'[d] = row /\ row.status # "running"
      BY <1>3, <1>7 DEF IInv, TypeOK
    <2> QED
      BY <1>4, <1>5, <2>1, <2>2, ServedButOne
  <1> QED
    BY <1>8, <1>9, <1>10 DEF IInv, Progress

LEMMA SettleKeeps ==
    ASSUME IInv, NEW h \in Hosts, NEW stored \in BOOLEAN, Settle(h, stored)
    PROVE  IInv'
  <1>1. PICK d \in Deployments : d = run[h].dep
    BY DEF IInv, TypeOK, RunRecord
  <1>2. PICK r \in RunRecord : r = [run[h] EXCEPT !.pc = "settled"]
    BY DEF IInv, TypeOK, RunRecord
  <1>3. /\ run[h].pc = "ended" /\ Active(h)
        /\ run' = [run EXCEPT ![h] = r]
        /\ UNCHANGED <<config, jobs, line, request, namespace, workload, moves>>
    <2>1. run \in [Hosts -> RunRecord]
      BY DEF IInv, TypeOK
    <2> QED
      BY <1>2, <2>1 DEF Settle, Active, RunRecord
  <1>4. Stored(d) /\ deployments[d].status \notin {"running", "failed", "absent"}
    BY <1>1, <1>3 DEF IInv, Custody, Stored
  <1>5. PICK row \in Row :
           /\ deployments' = [deployments EXCEPT ![d] = row]
           /\ IF stored
              THEN /\ row.status = IF run[h].error = "none" THEN "running" ELSE "failed"
                   /\ row.name = IF run[h].error = "none" THEN HostRoute(h) ELSE NameOf(h)
              ELSE row = deployments[d]
    <2>1. deployments \in [Deployments -> Row] /\ deployments[d] \in Row
          /\ NameOf(h) \in AllNames \cup {NoName}
      BY <1>1 DEF IInv, TypeOK, Row, NameOf
    <2>2. RouteOf(NameOf(h)) \in AllNames \cup {NoName}
      BY <2>1, RoutesAreNames
    <2>3. CASE stored /\ run[h].error = "none"
      <3>1. [status |-> "running", name |-> HostRoute(h)] \in Row
        BY <2>1, <2>2 DEF Row, Statuses, HostRoute
      <3> QED
        BY <1>1, <2>1, <2>3, <3>1 DEF Settle, UpdateRow, HostRoute
    <2>4. CASE stored /\ run[h].error # "none"
      <3>1. [status |-> "failed", name |-> NameOf(h)] \in Row
        BY <2>1 DEF Row, Statuses
      <3> QED
        BY <1>1, <2>1, <2>4, <3>1 DEF Settle, UpdateRow
    <2>5. CASE ~stored
      BY <2>1, <2>5 DEF Settle, UpdateRow
    <2> QED
      BY <2>3, <2>4, <2>5
  <1>6. Counts
    BY StatementsCounted DEF IInv, Settle, FaultKinds
  <1>7. r.dep = d /\ r.pc = "settled"
    BY <1>1, <1>2 DEF RunRecord
  <1>8. /\ owner' = IF stored THEN [owner EXCEPT ![d] = h] ELSE owner
        /\ owner \in [Deployments -> Hosts \cup {NoHost}]
    BY <1>1 DEF Settle, IInv, TypeOK
  <1>9. /\ TypeOK' /\ Custody' /\ NamesKept' /\ ListsRemembered' /\ BoundsTaken'
        /\ \A k \in Hosts : k # h => ProgressOf(k)'
    <2>1. row.status # "absent" /\ (row.status # "queued" \/ row.status = deployments[d].status)
      BY <1>4, <1>5
    <2>2. row.name \in {deployments[d].name, RouteOf(deployments[d].name)}
      BY <1>1, <1>5 DEF NameOf, HostRoute
    <2>3. owner' \in [Deployments -> Hosts \cup {NoHost}]
      BY <1>8
    <2> QED
      BY <1>1, <1>3, <1>4, <1>5, <1>6, <1>7, <2>1, <2>2, <2>3, RowWritten
  <1>10. ProgressOf(h)'
    <2>1. /\ ProgressOf(h) /\ run[h] \in RunRecord
          /\ run'[h] = [run[h] EXCEPT !.pc = "settled"]
          /\ Current(h)' = Current(h)
      BY <1>2, <1>3, RunMoves DEF IInv, Progress, TypeOK, Current, RunRecord
    <2> QED
      BY <1>6, <2>1 DEF RunRecord, ProgressOf, Done, Counts, IInv, TypeOK, FaultKinds
  <1>11. Served'
    <2>1. \A e \in Deployments : e # d =>
             deployments'[e] = deployments[e] /\ owner'[e] = owner[e]
      BY <1>5, <1>8 DEF IInv, TypeOK
    <2>2. deployments'[d] = row
      BY <1>5 DEF IInv, TypeOK
    <2>3. ASSUME row.status = "running" PROVE ServedOf(d)'
      <3>1. stored /\ Done(h) /\ row.name = HostRoute(h)
        BY <1>3, <1>4, <1>5, <2>3 DEF Done
      <3>2. owner'[d] = h /\ workload' = workload /\ Current(h) = workload[h][d]
        BY <1>1, <1>3, <1>8, <3>1 DEF Current
      <3>3. ProgressOf(h) /\ (Scales(h)' => Scales(h))
        BY <1>3, <1>6 DEF IInv, Progress, Scales, TypeOK, FaultKinds, Counts
      <3> QED
        BY <2>2, <3>1, <3>2, <3>3 DEF ServedOf, ProgressOf
    <2> QED
      BY <1>3, <1>6, <2>1, <2>2, <2>3, ServedButOne
  <1> QED
    BY <1>9, <1>10, <1>11 DEF IInv, Progress

\* A host is free again, its job over or forgotten.
LEMMA HostFreed ==
    ASSUME IInv, Counts, NEW h \in Hosts, Forgotten(h)
    PROVE  /\ run' \in [Hosts -> RunRecord]
           /\ \A k \in Hosts : k # h => run'[k] = run[k]
           /\ \A k \in Hosts : run'[k].dep = run[k].dep
           /\ \A k \in Hosts : Active(k)' => Active(k) /\ k # h
           /\ ProgressOf(h)'
  <1>1. /\ run \in [Hosts -> RunRecord] /\ run[h] \in RunRecord
        /\ ProgressOf(h) /\ faults["kubectl"] \in Nat
    BY DEF IInv, TypeOK, Progress, FaultKinds
  <1>2. /\ [run[h] EXCEPT !.pc = "idle", !.error = "none"] \in RunRecord
        /\ run' = [run EXCEPT ![h] = [run[h] EXCEPT !.pc = "idle", !.error = "none"]]
    BY <1>1 DEF Forgotten, RunRecord, Errors
  <1>3. run'[h] = [run[h] EXCEPT !.pc = "idle", !.error = "none"]
    BY <1>1, <1>2
  <1>4. ProgressOf(h)'
    <2>1. run'[h].pc = "idle" /\ run'[h].error = "none" /\ run'[h].try = run[h].try
      BY <1>1, <1>3 DEF RunRecord
    <2> QED
      BY <1>1, <2>1 DEF ProgressOf, Done, Counts, RunRecord, FaultKinds
  <1> QED
    BY <1>1, <1>2, <1>3, <1>4 DEF RunRecord, Active

LEMMA MarkKeeps ==
    ASSUME IInv, NEW h \in Hosts, NEW done \in BOOLEAN, Mark(h, done)
    PROVE  IInv'
  <1>1. PICK d \in Deployments : d = run[h].dep
    BY DEF IInv, TypeOK, RunRecord
  <1>2. /\ run[h].pc = "settled" /\ Active(h) /\ Forgotten(h)
        /\ UNCHANGED <<config, deployments, line, request, namespace, workload, owner, moves>>
    BY DEF Mark, Forgotten, Active
  <1>3. /\ jobs' \in [Deployments -> {"none", "queued", "running", "done", "failed"}]
        /\ \A e \in Deployments : jobs'[e] \in {jobs[e], "done", "failed"}
        /\ \A e \in Deployments : e # d => jobs'[e] = jobs[e]
    <2>1. jobs \in [Deployments -> {"none", "queued", "running", "done", "failed"}]
      BY DEF IInv, TypeOK
    <2> QED
      BY <1>1, <2>1 DEF Mark
  <1>4. Counts
    BY StatementsCounted DEF IInv, Mark, FaultKinds
  <1>5. /\ run' \in [Hosts -> RunRecord]
        /\ \A k \in Hosts : k # h => run'[k] = run[k]
        /\ \A k \in Hosts : run'[k].dep = run[k].dep
        /\ \A k \in Hosts : Active(k)' => Active(k) /\ k # h
        /\ ProgressOf(h)'
    BY <1>2, <1>4, HostFreed
  <1>6. jobs[d] = "running" /\ \A k \in Hosts : Active(k) /\ k # h => run[k].dep # d
    BY <1>1, <1>2, OthersElsewhere DEF IInv, Custody
  <1>7. TypeOK'
    BY <1>2, <1>3, <1>4, <1>5 DEF IInv, TypeOK, Counts
  <1>8. Custody'
    <2>1. \A k, l \in Hosts : Active(k)' /\ Active(l)' /\ run'[k].dep = run'[l].dep => k = l
      BY <1>5 DEF IInv, Custody
    <2>2. \A k \in Hosts :
             Active(k)' => /\ jobs'[run'[k].dep] = "running"
                           /\ run'[k].pc \notin {"claimed", "settled"} => Stored(run[k].dep)'
                           /\ deployments'[run'[k].dep].status \in {"running", "failed"} =>
                                  run'[k].pc = "settled"
      <3>1. \A k \in Hosts : run[k].dep \in Deployments
        BY DEF IInv, TypeOK, RunRecord
      <3> QED
        BY <1>2, <1>3, <1>5, <1>6, <3>1 DEF IInv, Custody, Stored
    <2>3. \A e \in Deployments :
             /\ jobs'[e] # "none" => request'[e].pc = "answered"
             /\ Stored(e)' => request'[e].pc \in {"stored", "answered", "refused"}
             /\ deployments'[e].status \notin {"absent", "queued"} => jobs'[e] \notin {"none", "queued"}
      BY <1>1, <1>2, <1>3, <1>6 DEF IInv, Custody, Stored
    <2>4. config'.mode = "single" => \A k \in AgentHosts : ~Active(k)'
      BY <1>2, <1>5, HostsFacts DEF IInv, Custody
    <2> QED
      BY <1>5, <2>1, <2>2, <2>3, <2>4 DEF Custody
  <1>9. NamesKept' /\ ListsRemembered' /\ BoundsTaken'
    BY <1>2 DEF IInv, NamesKept, ListsRemembered, BoundsTaken, Stored, Live, Cut
  <1>10. Progress'
    <2>1. \A k \in Hosts : k # h => ProgressOf(k)'
      BY <1>2, <1>4, <1>5, ProgressOfKept
    <2> QED
      BY <1>5, <2>1 DEF Progress
  <1>11. Served'
    BY <1>2, <1>4, ServedKept
  <1> QED
    BY <1>7, <1>8, <1>9, <1>10, <1>11 DEF IInv

-----------------------------------------------------------------------------
(* The commands of a job *)

Moved(h, pc, try, error) ==
    \E r \in RunRecord :
        /\ r.pc = pc /\ r.dep = run[h].dep /\ r.try = try /\ r.error = error
        /\ run' = [run EXCEPT ![h] = r]

LEMMA JobFacts ==
    ASSUME TypeOK, NEW h \in Hosts
    PROVE  /\ run[h] \in RunRecord /\ run[h].dep \in Deployments
           /\ run[h].try \in 1..3 /\ run[h].error \in Errors
           /\ Current(h) \in Workload
           /\ faults["kubectl"] \in Nat
    BY DEF TypeOK, RunRecord, Current, FaultKinds

LEMMA GoMoves ==
    ASSUME TypeOK, NEW h \in Hosts, NEW stage \in Stages, Go(h, stage)
    PROVE  Moved(h, stage, 1, run[h].error)
  <1> DEFINE r == [run[h] EXCEPT !.pc = stage, !.try = 1]
  <1>1. run \in [Hosts -> RunRecord] /\ run[h] \in RunRecord
    BY DEF TypeOK
  <1>2. r \in RunRecord
    BY <1>1, 1 \in 1..3 DEF RunRecord
  <1>3. r.pc = stage /\ r.dep = run[h].dep /\ r.try = 1 /\ r.error = run[h].error
    BY <1>1 DEF RunRecord
  <1>4. run' = [run EXCEPT ![h] = r]
    BY <1>1 DEF Go, RunRecord
  <1> QED
    BY <1>2, <1>3, <1>4 DEF Moved

LEMMA FailMoves ==
    ASSUME TypeOK, NEW h \in Hosts, NEW error \in Errors, Fail(h, error)
    PROVE  Moved(h, "ended", run[h].try, error)
  <1> DEFINE r == [run[h] EXCEPT !.pc = "ended", !.error = error]
  <1>1. run \in [Hosts -> RunRecord] /\ run[h] \in RunRecord
    BY DEF TypeOK
  <1>2. r \in RunRecord
    BY <1>1 DEF RunRecord, Stages
  <1>3. r.pc = "ended" /\ r.dep = run[h].dep /\ r.try = run[h].try /\ r.error = error
    BY <1>1 DEF RunRecord
  <1>4. run' = [run EXCEPT ![h] = r]
    BY <1>1 DEF Fail, RunRecord
  <1> QED
    BY <1>2, <1>3, <1>4 DEF Moved

LEMMA AgainMoves ==
    ASSUME TypeOK, NEW h \in Hosts, NEW GivesUp, Again(h, GivesUp)
    PROVE  \/ run[h].try < 3 /\ Moved(h, run[h].pc, run[h].try + 1, run[h].error)
           \/ run[h].try = 3 /\ GivesUp
  <1> DEFINE r == [run[h] EXCEPT !.try = run[h].try + 1]
  <1>1. run \in [Hosts -> RunRecord] /\ run[h] \in RunRecord /\ run[h].try \in 1..3
    BY DEF TypeOK, RunRecord
  <1>2. CASE run[h].try < 3
    <2>1. r \in RunRecord
      <3>1. run[h].try + 1 \in 1..3
        BY <1>1, <1>2
      <3> QED
        BY <1>1, <3>1 DEF RunRecord
    <2>2. /\ r.pc = run[h].pc /\ r.dep = run[h].dep
          /\ r.try = run[h].try + 1 /\ r.error = run[h].error
      BY <1>1 DEF RunRecord
    <2>3. run' = [run EXCEPT ![h] = r]
      BY <1>1, <1>2 DEF Again, RunRecord
    <2> QED
      BY <1>2, <2>1, <2>2, <2>3 DEF Moved
  <1>3. CASE ~(run[h].try < 3)
    <2>1. run[h].try = 3
      BY <1>1, <1>3
    <2> QED
      BY <1>3, <2>1 DEF Again
  <1> QED
    BY <1>2, <1>3

LEMMA UnchangedPuts ==
    ASSUME TypeOK, NEW h \in Hosts, UNCHANGED workload
    PROVE  Put(h, Current(h))
    BY JobFacts DEF TypeOK, Put, Current

\* What a command leaves of the deployment's workload.
Leaves(h, w) ==
    /\ w \in Workload /\ Put(h, w)
    /\ w.route \in {NoName, Current(h).route, HostRoute(h)}
    /\ w.state = "none" => Current(h).state = "none"

\* What an agent's job may fail for.
Justifies(h, error, w) ==
    /\ error = "unreachable" => faults'["kubectl"] >= 3
    /\ error = "refused" => faults'["refused"] > 0 \/ ~RouteValid(h)
    /\ error = "platform" => namespace'[h] /\ w.state # "none" /\ w.route = HostRoute(h)

\* How far the job is after it.
Reaches(h, pc, try, error, w) ==
    LET done == pc = "ended" /\ error = "none"
    IN /\ pc \in {"rollout", "scale"} \/ done =>
             /\ w.state # "none"
             /\ w.route = HostRoute(h)
             /\ h \in AgentHosts => RouteValid(h)
       /\ pc = "scale" \/ done => w.state = "ready"
       /\ done /\ Scales(h)' => w.scaled
       /\ try - 1 <= faults'["kubectl"]
       /\ pc # "ended" => error = "none"
       /\ h \in AgentHosts /\ pc \in {"apply", "rollout"} => namespace'[h]
       /\ h \in AgentHosts /\ pc = "ended" => Justifies(h, error, w)

Commands(h) == run[h].pc \in Stages \ {"ended"}

LEMMA CommandKeeps ==
    ASSUME IInv, Counts, NEW h \in Hosts, Commands(h),
           NEW pc \in Stages, NEW try \in 1..3, NEW error \in Errors, NEW w,
           Moved(h, pc, try, error), Leaves(h, w), Reaches(h, pc, try, error, w),
           NamespacesStay,
           UNCHANGED <<config, apiVars, owner, moves>>
    PROVE  IInv'
  <1>1. PICK d \in Deployments : d = run[h].dep
    BY DEF IInv, TypeOK, RunRecord
  <1>2. PICK r \in RunRecord :
           /\ r.pc = pc /\ r.dep = d /\ r.try = try /\ r.error = error
           /\ run' = [run EXCEPT ![h] = r]
    BY <1>1 DEF Moved
  <1>3. /\ run' = [run EXCEPT ![h] = r] /\ r.dep = d
        /\ r.pc \notin {"idle", "claimed", "settled"}
        /\ Active(h) /\ run[h].pc \notin {"claimed", "settled"}
    BY <1>1, <1>2 DEF Commands, Stages, Active
  <1>4. /\ run' \in [Hosts -> RunRecord]
        /\ run'[h] = r
        /\ \A k \in Hosts : k # h => run'[k] = run[k]
        /\ \A k \in Hosts : run'[k].dep = run[k].dep /\ (Active(k)' <=> Active(k))
    BY <1>1, <1>3, RunMoves DEF IInv
  <1>5. /\ workload' \in [Hosts -> [Deployments -> Workload]]
        /\ workload'[h][d] = w
        /\ \A k \in Hosts, e \in Deployments :
              k # h \/ e # d => workload'[k][e] = workload[k][e]
    <2>1. workload \in [Hosts -> [Deployments -> Workload]] /\ w \in Workload
      BY DEF IInv, TypeOK, Leaves
    <2>2. workload' = [workload EXCEPT ![h][d] = w]
      BY <1>1 DEF Leaves, Put
    <2> QED
      BY <2>1, <2>2
  <1>6. /\ jobs[d] = "running" /\ request[d].pc = "answered"
        /\ Stored(d) /\ deployments[d].status # "running"
        /\ \A k \in Hosts : Active(k) /\ k # h => run[k].dep # d
    BY <1>1, <1>3, OthersElsewhere DEF IInv, Custody, Stored
  <1>7. TypeOK'
    BY <1>4, <1>5 DEF IInv, TypeOK, Counts, NamespacesStay, apiVars
  <1>8. Custody'
    <2>0. UNCHANGED <<config, deployments, jobs, request>>
      BY DEF apiVars
    <2>1. \A k, l \in Hosts : Active(k)' /\ Active(l)' /\ run'[k].dep = run'[l].dep => k = l
      BY <1>4 DEF IInv, Custody
    <2>2. ASSUME NEW k \in Hosts, Active(k)'
          PROVE  /\ jobs'[run'[k].dep] = "running"
                 /\ run'[k].pc \notin {"claimed", "settled"} => Stored(run[k].dep)'
                 /\ deployments'[run'[k].dep].status \in {"running", "failed"} =>
                        run'[k].pc = "settled"
      <3>1. CASE k = h
        BY <1>1, <1>3, <1>4, <1>6, <2>0, <3>1 DEF IInv, Custody, Stored
      <3>2. CASE k # h
        BY <1>4, <2>0, <2>2, <3>2 DEF IInv, Custody, Stored
      <3> QED
        BY <3>1, <3>2
    <2>3. \A e \in Deployments :
             /\ jobs'[e] # "none" => request'[e].pc = "answered"
             /\ Stored(e)' => request'[e].pc \in {"stored", "answered", "refused"}
             /\ deployments'[e].status \notin {"absent", "queued"} => jobs'[e] \notin {"none", "queued"}
      BY <2>0 DEF IInv, Custody, Stored
    <2>4. config'.mode = "single" => \A k \in AgentHosts : ~Active(k)'
      BY <1>4, <2>0, HostsFacts DEF IInv, Custody
    <2> QED
      BY <1>4, <2>1, <2>2, <2>3, <2>4 DEF Custody
  <1>9. NamesKept'
    <2>1. w.route # NoName => w.route = request[d].name \/ Cut(d)
      <3>1. deployments[d].name = request[d].name \/ Cut(d)
        BY <1>6 DEF IInv, NamesKept
      <3>2. Current(h).route # NoName => Current(h).route = request[d].name \/ Cut(d)
        BY <1>1 DEF IInv, NamesKept, Current
      <3>3. HostRoute(h) \in {deployments[d].name, RouteOf(deployments[d].name)}
        BY <1>1 DEF HostRoute, NameOf
      <3> QED
        BY <3>1, <3>2, <3>3 DEF Leaves, Cut
    <2> QED
      BY <1>5, <1>6, <2>1 DEF IInv, NamesKept, Stored, Cut, apiVars
  <1>10. ListsRemembered' /\ BoundsTaken'
    BY DEF IInv, ListsRemembered, BoundsTaken, Live, Cut, apiVars
  <1>11. Progress'
    <2>1. ProgressOf(h)'
      <3>1. /\ run'[h].pc = pc /\ run'[h].try = try /\ run'[h].error = error
            /\ Current(h)' = w
        BY <1>1, <1>2, <1>4, <1>5 DEF Current
      <3>2. HostRoute(h)' = HostRoute(h) /\ (RouteValid(h)' <=> RouteValid(h))
        BY <1>4 DEF HostRoute, RouteValid, NameOf, apiVars
      <3> QED
        BY <3>1, <3>2 DEF ProgressOf, Done, Reaches, Justified, Justifies
    <2>2. ASSUME NEW k \in Hosts, k # h PROVE ProgressOf(k)'
      <3>1. run[k].dep \in Deployments
        BY DEF IInv, TypeOK, RunRecord
      <3>2. workload'[k][run[k].dep] = workload[k][run[k].dep]
        BY <1>5, <2>2, <3>1
      <3> QED
        BY <1>4, <2>2, <3>2, ProgressOfKept DEF apiVars, NamespacesStay
    <2> QED
      BY <2>1, <2>2 DEF Progress
  <1>12. Served'
    <2>1. \A e \in Deployments : e # d => \A k \in Hosts : workload'[k][e] = workload[k][e]
      BY <1>5
    <2> QED
      BY <1>6, <2>1, ServedButOne DEF apiVars
  <1> QED
    BY <1>7, <1>8, <1>9, <1>10, <1>11, <1>12 DEF IInv

\* A command of the job got no further: the job has failed.
LEMMA FailKeeps ==
    ASSUME IInv, Counts, NEW h \in Hosts, Commands(h), NEW error \in Errors \ {"none"}, NEW w,
           Fail(h, error), Leaves(h, w),
           h \in AgentHosts => Justifies(h, error, w),
           NamespacesStay, UNCHANGED <<config, apiVars, owner, moves>>
    PROVE  IInv'
  <1>1. Moved(h, "ended", run[h].try, error) /\ run[h].try \in 1..3
    BY FailMoves, JobFacts DEF IInv
  <1>2. Reaches(h, "ended", run[h].try, error, w)
    <2>1. ProgressOf(h) /\ faults["kubectl"] \in Nat /\ faults'["kubectl"] \in Nat
      BY DEF IInv, Progress, TypeOK, FaultKinds, Counts
    <2> QED
      BY <1>1, <2>1 DEF Reaches, ProgressOf, Counts
  <1>3. "ended" \in Stages
    BY DEF Stages
  <1> QED
    BY <1>1, <1>2, <1>3, CommandKeeps

\* The next command of the job.
LEMMA GoKeeps ==
    ASSUME IInv, Counts, NEW h \in Hosts, Commands(h), NEW stage \in Stages, NEW w,
           Go(h, stage), Leaves(h, w),
           stage \in {"rollout", "scale", "ended"} =>
               /\ w.state # "none"
               /\ w.route = HostRoute(h)
               /\ h \in AgentHosts => RouteValid(h),
           stage \in {"scale", "ended"} => w.state = "ready",
           stage = "ended" /\ Scales(h)' => w.scaled,
           h \in AgentHosts /\ stage \in {"apply", "rollout"} => namespace'[h],
           NamespacesStay, UNCHANGED <<config, apiVars, owner, moves>>
    PROVE  IInv'
  <1>1. Moved(h, stage, 1, run[h].error) /\ run[h].error \in Errors /\ 1 \in 1..3
    BY GoMoves, JobFacts DEF IInv
  <1>2. Reaches(h, stage, 1, run[h].error, w)
    <2>1. ProgressOf(h) /\ faults["kubectl"] \in Nat /\ faults'["kubectl"] \in Nat
      BY DEF IInv, Progress, TypeOK, FaultKinds, Counts
    <2> QED
      BY <2>1 DEF Reaches, ProgressOf, Justifies, Counts, Commands, Stages
  <1> QED
    BY <1>1, <1>2, CommandKeeps

\* The executor tries the command again.
LEMMA TryKeeps ==
    ASSUME IInv, Counts, faults'["kubectl"] = faults["kubectl"] + 1,
           NEW h \in Hosts, Commands(h), run[h].pc # "scale", run[h].try < 3,
           Moved(h, run[h].pc, run[h].try + 1, run[h].error), NEW w, Leaves(h, w),
           run[h].pc = "rollout" => w = Current(h),
           NamespacesStay, UNCHANGED <<config, apiVars, owner, moves>>
    PROVE  IInv'
  <1>1. /\ run[h].pc \in Stages \ {"ended"} /\ run[h].error \in Errors
        /\ run[h].try \in 1..3 /\ run[h].try + 1 \in 1..3
    BY JobFacts DEF IInv, Commands
  <1>2. Reaches(h, run[h].pc, run[h].try + 1, run[h].error, w)
    <2>1. ProgressOf(h) /\ faults["kubectl"] \in Nat
      BY DEF IInv, Progress, TypeOK, FaultKinds
    <2> QED
      BY <1>1, <2>1 DEF Reaches, ProgressOf, Leaves, Done, NamespacesStay, Stages
  <1> QED
    BY <1>1, <1>2, CommandKeeps

LEMMA NamespacesLeft ==
    ASSUME TypeOK, UNCHANGED namespace
    PROVE  NamespacesStay
    BY DEF TypeOK, NamespacesStay

LEMMA LeavesCurrent ==
    ASSUME TypeOK, NEW h \in Hosts, UNCHANGED workload
    PROVE  Leaves(h, Current(h))
    BY UnchangedPuts, JobFacts DEF Leaves

LEMMA PrepareKeeps ==
    ASSUME IInv, NEW h \in Hosts, NEW ok \in BOOLEAN, Prepare(h, ok), Counts,
           UNCHANGED <<config, apiVars, owner, moves>>
    PROVE  IInv'
  <1>1. /\ Commands(h) /\ Leaves(h, Current(h))
        /\ NamespacesStay
    BY LeavesCurrent, NamespacesLeft DEF IInv, Prepare, Commands, Stages
  <1>2. CASE ok
    <2>1. PICK stage \in {"apply", "namespace"} : Go(h, stage) /\ (h \in AgentHosts => stage = "namespace")
      BY <1>2, HostsFacts DEF Prepare, OnDocker
    <2> QED
      BY <1>1, <2>1, GoKeeps DEF Stages
  <1>3. CASE ~ok
    BY <1>1, <1>3, FailKeeps DEF Prepare, Errors, Justifies
  <1> QED
    BY <1>2, <1>3

LEMMA DockerRunKeeps ==
    ASSUME IInv, NEW h \in Hosts, NEW ok \in BOOLEAN, DockerRun(h, ok), Counts,
           UNCHANGED <<config, apiVars, owner, moves>>
    PROVE  IInv'
  <1>1. /\ Commands(h) /\ h \notin AgentHosts /\ Current(h) \in Workload
        /\ NamespacesStay
        /\ (UNCHANGED workload) => Leaves(h, Current(h))
    BY LeavesCurrent, NamespacesLeft, JobFacts, HostsFacts DEF IInv, DockerRun, Commands, Stages, OnDocker
  <1>2. CASE Current(h).state # "none"
    BY <1>1, <1>2, FailKeeps DEF DockerRun, Errors
  <1>3. CASE Current(h).state = "none" /\ ok
    <2> DEFINE w == [state |-> "ready", route |-> HostRoute(h), scaled |-> FALSE]
    <2>1. HostRoute(h) \in AllNames \cup {NoName}
      <3>1. NameOf(h) \in AllNames \cup {NoName}
        BY JobFacts DEF IInv, TypeOK, Row, NameOf
      <3> QED
        BY <3>1, RoutesAreNames DEF HostRoute
    <2>2. w \in Workload
      BY <2>1 DEF Workload
    <2>3. Leaves(h, w) /\ Go(h, "scale")
      BY <1>3, <2>2 DEF DockerRun, Leaves
    <2> QED
      BY <1>1, <2>3, GoKeeps DEF Stages
  <1>4. CASE Current(h).state = "none" /\ ~ok
    <2>1. Fail(h, "platform")
      BY <1>4 DEF DockerRun
    <2>2. CASE UNCHANGED workload
      BY <1>1, <2>1, <2>2, FailKeeps DEF Errors
    <2>3. CASE Put(h, [NoWorkload EXCEPT !.state = "created"])
      <3> DEFINE w == [NoWorkload EXCEPT !.state = "created"]
      <3>1. w \in Workload /\ w.state # "none"
        BY DEF NoWorkload, Workload
      <3>2. Leaves(h, w)
        BY <2>3, <3>1 DEF Leaves, NoWorkload
      <3> QED
        BY <1>1, <2>1, <3>1, <3>2, FailKeeps DEF Errors
    <2> QED
      BY <1>4, <2>2, <2>3 DEF DockerRun
  <1> QED
    BY <1>2, <1>3, <1>4

\* What an apply leaves.
LEMMA AppliedFacts ==
    ASSUME TypeOK, NEW h \in Hosts
    PROVE  /\ \A left \in {"nothing", "workload", "route", "all"} :
                 /\ Applied(h)[left] \in Workload
                 /\ Applied(h)[left].route \in {Current(h).route, HostRoute(h)}
                 /\ Applied(h)[left].state = "none" => Current(h).state = "none"
           /\ Applied(h).workload.state # "none"
           /\ Applied(h).all.state # "none" /\ Applied(h).all.route = HostRoute(h)
  <1> DEFINE state == IF Current(h).state = "ready" THEN "ready" ELSE "pending"
  <1>1. Current(h) \in Workload /\ HostRoute(h) \in AllNames \cup {NoName}
    <2>1. NameOf(h) \in AllNames \cup {NoName}
      BY JobFacts DEF TypeOK, Row, NameOf
    <2> QED
      BY <2>1, JobFacts, RoutesAreNames DEF HostRoute
  <1>2. /\ Applied(h).nothing = Current(h)
        /\ Applied(h).workload = [Current(h) EXCEPT !.state = state]
        /\ Applied(h).all = [Current(h) EXCEPT !.state = state, !.route = HostRoute(h)]
        /\ Applied(h)["nothing"] = Applied(h).nothing
        /\ Applied(h).route = [Current(h) EXCEPT !.route = HostRoute(h)]
        /\ Applied(h)["workload"] = Applied(h).workload
        /\ Applied(h)["route"] = Applied(h).route
        /\ Applied(h)["all"] = Applied(h).all
    BY DEF Applied
  <1>3. state \in {"pending", "ready"}
    OBVIOUS
  <1> HIDE DEF state
  <1>4. [Current(h) EXCEPT !.state = state] \in Workload
        /\ [Current(h) EXCEPT !.state = state].state = state
        /\ [Current(h) EXCEPT !.state = state].route = Current(h).route
    BY <1>1, <1>3 DEF Workload
  <1>5. [Current(h) EXCEPT !.state = state, !.route = HostRoute(h)] \in Workload
        /\ [Current(h) EXCEPT !.state = state, !.route = HostRoute(h)].state = state
        /\ [Current(h) EXCEPT !.state = state, !.route = HostRoute(h)].route = HostRoute(h)
    BY <1>1, <1>3 DEF Workload
  <1>6. [Current(h) EXCEPT !.route = HostRoute(h)] \in Workload
        /\ [Current(h) EXCEPT !.route = HostRoute(h)].state = Current(h).state
        /\ [Current(h) EXCEPT !.route = HostRoute(h)].route = HostRoute(h)
    BY <1>1 DEF Workload
  <1> QED
    BY <1>1, <1>2, <1>3, <1>4, <1>5, <1>6

LEMMA LeavesApplied ==
    ASSUME TypeOK, NEW h \in Hosts, NEW left \in {"nothing", "workload", "route", "all"},
           Put(h, Applied(h)[left])
    PROVE  Leaves(h, Applied(h)[left])
    BY AppliedFacts DEF Leaves

LEMMA DriverKeeps ==
    ASSUME IInv, NEW h \in Hosts, NEW ok \in BOOLEAN, Counts,
           EnsureNamespace(h, ok) \/ Apply(h, ok) \/ Rollout(h, ok),
           UNCHANGED <<config, apiVars, owner, moves>>
    PROVE  IInv'
  <1>1. /\ h \notin AgentHosts
        /\ (UNCHANGED workload) => Leaves(h, Current(h))
        /\ \A left \in {"nothing", "workload", "route", "all"} :
              Put(h, Applied(h)[left]) => Leaves(h, Applied(h)[left])
        /\ NamespacesStay
    <2>1. NamespacesStay
      BY NamespacesLeft DEF IInv, TypeOK, NamespacesStay, EnsureNamespace, Apply, Rollout
    <2> QED
      BY <2>1, LeavesCurrent, LeavesApplied, HostsFacts DEF IInv, EnsureNamespace, Apply, Rollout
  <1>2. CASE EnsureNamespace(h, ok)
    <2>1. Commands(h) /\ Leaves(h, Current(h))
      BY <1>1, <1>2 DEF EnsureNamespace, Commands, Stages
    <2>2. Go(h, "apply") \/ Fail(h, "platform")
      BY <1>2 DEF EnsureNamespace
    <2> QED
      BY <1>1, <2>1, <2>2, GoKeeps, FailKeeps DEF Stages, Errors
  <1>3. CASE Apply(h, ok)
    <2>1. Commands(h)
      BY <1>1, <1>3 DEF Apply, Commands, Stages
    <2>2. CASE ok
      <3>1. /\ Go(h, "rollout") /\ Put(h, Applied(h).all)
            /\ Applied(h).all = Applied(h)["all"]
        BY <1>3, <2>2 DEF Apply
      <3>2. Leaves(h, Applied(h).all)
        BY <1>1, <3>1
      <3>3. Applied(h).all.state # "none" /\ Applied(h).all.route = HostRoute(h)
        BY AppliedFacts DEF IInv
      <3> QED
        BY <1>1, <2>1, <3>1, <3>2, <3>3, GoKeeps DEF Stages
    <2>3. CASE ~ok
      <3>1. PICK left \in {"nothing", "workload", "route", "all"} : Put(h, Applied(h)[left])
        BY <1>3, <2>3 DEF Apply
      <3>2. Fail(h, "platform")
        BY <1>3, <2>3 DEF Apply
      <3> QED
        BY <1>1, <2>1, <3>1, <3>2, FailKeeps DEF Errors
    <2> QED
      BY <2>2, <2>3
  <1>4. CASE Rollout(h, ok)
    <2>1. Commands(h) /\ Leaves(h, Current(h))
      BY <1>1, <1>4 DEF Rollout, Commands, Stages
    <2>2. Current(h).state # "none" /\ Current(h).route = HostRoute(h)
      BY <1>4 DEF IInv, Progress, ProgressOf, Rollout
    <2>3. (Current(h).state = "ready" /\ Go(h, "scale")) \/ Fail(h, "platform")
      BY <1>4 DEF Rollout
    <2> QED
      BY <1>1, <2>1, <2>2, <2>3, GoKeeps, FailKeeps DEF Stages, Errors
  <1> QED
    BY <1>2, <1>3, <1>4

LEMMA AutoscaleKeeps ==
    ASSUME IInv, NEW h \in Hosts, NEW ok \in BOOLEAN, Counts, Autoscale(h, ok),
           ~ok => faults'["kubectl"] = faults["kubectl"] + 1,
           UNCHANGED <<config, apiVars, owner, moves>>
    PROVE  IInv'
  <1>1. /\ Commands(h) /\ Active(h) /\ h = ControlPlaneHost /\ h \notin AgentHosts
        /\ NamespacesStay /\ Go(h, "ended")
        /\ Current(h) \in Workload
    BY NamespacesLeft, HostsFacts, JobFacts DEF IInv, Autoscale, Commands, Active, Stages
  <1>2. Current(h).state = "ready" /\ Current(h).route = HostRoute(h)
    BY DEF IInv, Progress, ProgressOf, Autoscale
  <1>3. Scales(h)' => ok /\ config.hpa /\ ~OnDocker(h)
    BY JobFacts DEF IInv, Scales, OnDocker
  <1>4. AutoscalerTakes(request[run[h].dep].bounds)
    <2>1. run[h].dep \in Deployments /\ jobs[run[h].dep] = "running"
      BY <1>1, JobFacts DEF IInv, Custody
    <2> QED
      BY <2>1 DEF IInv, Custody, BoundsTaken
  <1>5. CASE ok /\ config.hpa /\ ~OnDocker(h)
    <2> DEFINE w == [Current(h) EXCEPT !.scaled = TRUE]
    <2>1. Put(h, w)
      BY <1>4, <1>5 DEF Autoscale
    <2>2. /\ w \in Workload /\ w.scaled
          /\ w.state = Current(h).state /\ w.route = Current(h).route
      BY <1>1 DEF Workload
    <2>3. Leaves(h, w)
      BY <2>1, <2>2 DEF Leaves
    <2> QED
      BY <1>1, <1>2, <2>2, <2>3, GoKeeps DEF Stages
  <1>6. CASE ~(ok /\ config.hpa /\ ~OnDocker(h))
    <2>1. Leaves(h, Current(h))
      BY <1>6, LeavesCurrent DEF IInv, Autoscale
    <2> QED
      BY <1>1, <1>2, <1>3, <1>6, <2>1, GoKeeps DEF Stages
  <1> QED
    BY <1>5, <1>6

\* The executor's commands but the rollout. A transient error leads to another
\* try, or after three of them to the end; any other answer leads on or to the end.
LEMMA AgainKeeps ==
    ASSUME IInv, Counts, faults'["kubectl"] = faults["kubectl"] + 1,
           NEW h \in AgentHosts, Commands(h), run[h].pc # "scale",
           Again(h, Fail(h, "unreachable")) \/ Again(h, Go(h, "create")),
           NEW w, Leaves(h, w), run[h].pc = "rollout" => w = Current(h),
           NamespacesStay, UNCHANGED <<config, apiVars, owner, moves>>
    PROVE  IInv'
  <1>1. h \in Hosts
    BY HostsFacts
  <1>2. \/ run[h].try < 3 /\ Moved(h, run[h].pc, run[h].try + 1, run[h].error)
        \/ run[h].try = 3 /\ (Fail(h, "unreachable") \/ Go(h, "create"))
    BY <1>1, AgainMoves DEF IInv
  <1>3. CASE run[h].try < 3 /\ Moved(h, run[h].pc, run[h].try + 1, run[h].error)
    BY <1>1, <1>3, TryKeeps
  <1>4. CASE run[h].try = 3 /\ Fail(h, "unreachable")
    <2>1. ProgressOf(h) /\ faults["kubectl"] \in Nat
      BY <1>1 DEF IInv, Progress, TypeOK, FaultKinds
    <2>2. faults'["kubectl"] >= 3
      BY <1>4, <2>1 DEF ProgressOf
    <2>3. Justifies(h, "unreachable", w)
      BY <2>2 DEF Justifies
    <2> QED
      BY <1>1, <1>4, <2>3, FailKeeps DEF Errors
  <1>5. CASE run[h].try = 3 /\ Go(h, "create")
    BY <1>1, <1>5, GoKeeps DEF Stages
  <1> QED
    BY <1>2, <1>3, <1>4, <1>5

LEMMA NamespaceKeeps ==
    ASSUME IInv, Counts, NEW h \in AgentHosts, NEW answer \in Answers,
           answer = "none" => faults'["kubectl"] = faults["kubectl"] + 1,
           answer = "refused" => faults'["refused"] > 0,
           GetNamespace(h, answer) \/ CreateNamespace(h, answer),
           UNCHANGED <<config, apiVars, owner, moves>>
    PROVE  IInv'
  <1>1. /\ h \in Hosts /\ Commands(h) /\ run[h].pc # "rollout" /\ run[h].pc # "scale"
        /\ Leaves(h, Current(h))
    BY HostsFacts, LeavesCurrent DEF IInv, GetNamespace, CreateNamespace, Commands, Stages
  <1>2. NamespacesStay
    BY NamespacesLeft DEF IInv, TypeOK, NamespacesStay, GetNamespace, CreateNamespace
  <1>3. CASE answer = "none"
    <2>1. Again(h, Fail(h, "unreachable")) \/ Again(h, Go(h, "create"))
      BY <1>3 DEF GetNamespace, CreateNamespace
    <2> QED
      BY <1>1, <1>2, <1>3, <2>1, AgainKeeps
  <1>4. CASE answer # "none" /\ GetNamespace(h, answer)
    <2>1. PICK stage \in {"apply", "create"} : Go(h, stage) /\ (stage = "apply" => namespace[h])
      BY <1>4 DEF GetNamespace
    <2>2. stage = "apply" => namespace'[h]
      BY <1>1, <1>2, <2>1 DEF NamespacesStay
    <2> QED
      BY <1>1, <1>2, <2>1, <2>2, GoKeeps DEF Stages
  <1>5. CASE answer = "refused" /\ CreateNamespace(h, answer)
    <2>1. Fail(h, "refused") /\ Justifies(h, "refused", Current(h))
      BY <1>5 DEF CreateNamespace, Justifies
    <2> QED
      BY <1>1, <1>2, <2>1, FailKeeps DEF Errors
  <1>6. CASE answer = "taken" /\ CreateNamespace(h, answer)
    <2>1. Go(h, "apply") /\ namespace'[h]
      BY <1>1, <1>6 DEF CreateNamespace, IInv, TypeOK
    <2> QED
      BY <1>1, <1>2, <2>1, GoKeeps DEF Stages
  <1> QED
    BY <1>3, <1>4, <1>5, <1>6 DEF Answers

LEMMA AgentApplyKeeps ==
    ASSUME IInv, Counts, NEW h \in AgentHosts, NEW answer \in Answers,
           answer = "none" => faults'["kubectl"] = faults["kubectl"] + 1,
           answer = "refused" => faults'["refused"] > 0,
           AgentApply(h, answer), UNCHANGED <<config, apiVars, owner, moves>>
    PROVE  IInv'
  <1>1. /\ h \in Hosts /\ Commands(h) /\ run[h].pc = "apply"
        /\ NamespacesStay
    BY HostsFacts, NamespacesLeft DEF IInv, AgentApply, Commands, Stages
  <1>2. \A left \in {"nothing", "workload", "route", "all"} :
           Put(h, Applied(h)[left]) => Leaves(h, Applied(h)[left])
    BY <1>1, LeavesApplied DEF IInv
  <1>3. LeavesSome(h) => \E w : Leaves(h, w)
    BY <1>2 DEF LeavesSome
  <1>4. CASE answer = "none"
    <2>1. Again(h, Fail(h, "unreachable")) /\ LeavesSome(h)
      BY <1>4 DEF AgentApply
    <2>2. PICK w : Leaves(h, w)
      BY <1>3, <2>1
    <2> QED
      BY <1>1, <1>4, <2>1, <2>2, AgainKeeps
  <1>5. CASE answer = "refused"
    <2>1. Fail(h, "refused") /\ LeavesSome(h)
      BY <1>5 DEF AgentApply
    <2>2. PICK w : Leaves(h, w)
      BY <1>3, <2>1
    <2>3. Justifies(h, "refused", w)
      BY <1>5 DEF Justifies
    <2> QED
      BY <1>1, <2>1, <2>2, <2>3, FailKeeps DEF Errors
  <1>6. CASE answer = "taken" /\ RouteValid(h)
    <2>1. /\ Go(h, "rollout") /\ Put(h, Applied(h).all)
          /\ Applied(h).all = Applied(h)["all"]
      BY <1>6 DEF AgentApply
    <2>2. Leaves(h, Applied(h).all)
      BY <1>2, <2>1
    <2>3. Applied(h).all.state # "none" /\ Applied(h).all.route = HostRoute(h)
      BY <1>1, AppliedFacts DEF IInv
    <2>4. namespace'[h]
      BY <1>1 DEF IInv, Progress, ProgressOf, NamespacesStay
    <2> QED
      BY <1>1, <1>6, <2>1, <2>2, <2>3, <2>4, GoKeeps DEF Stages
  <1>7. CASE answer = "taken" /\ ~RouteValid(h)
    <2>1. /\ Fail(h, "refused") /\ Put(h, Applied(h).workload)
          /\ Applied(h).workload = Applied(h)["workload"]
      BY <1>7 DEF AgentApply
    <2>2. Leaves(h, Applied(h).workload)
      BY <1>2, <2>1
    <2>3. Justifies(h, "refused", Applied(h).workload)
      BY <1>7 DEF Justifies
    <2> QED
      BY <1>1, <2>1, <2>2, <2>3, FailKeeps DEF Errors
  <1> QED
    BY <1>4, <1>5, <1>6, <1>7 DEF Answers

LEMMA AgentRolloutKeeps ==
    ASSUME IInv, Counts, NEW h \in AgentHosts, NEW reached \in BOOLEAN, NEW ok \in BOOLEAN,
           ~reached => faults'["kubectl"] = faults["kubectl"] + 1,
           AgentRollout(h, reached, ok),
           UNCHANGED <<config, apiVars, owner, moves>>
    PROVE  IInv'
  <1>1. /\ h \in Hosts /\ h # ControlPlaneHost /\ Commands(h) /\ run[h].pc = "rollout"
        /\ NamespacesStay /\ Leaves(h, Current(h))
    BY HostsFacts, NamespacesLeft, LeavesCurrent DEF IInv, AgentRollout, Commands, Stages
  <1>2. /\ Current(h).state # "none" /\ Current(h).route = HostRoute(h) /\ RouteValid(h)
        /\ namespace'[h]
    BY <1>1 DEF IInv, Progress, ProgressOf, NamespacesStay
  <1>3. CASE reached /\ ok
    <2>1. Go(h, "ended") /\ Current(h).state = "ready" /\ ~Scales(h)'
      BY <1>1, <1>3 DEF AgentRollout, Scales
    <2> QED
      BY <1>1, <1>2, <2>1, GoKeeps DEF Stages
  <1>4. CASE reached /\ ~ok
    <2>1. Fail(h, "platform") /\ Justifies(h, "platform", Current(h))
      BY <1>2, <1>4 DEF AgentRollout, Justifies
    <2> QED
      BY <1>1, <2>1, FailKeeps DEF Errors
  <1>5. CASE ~reached
    BY <1>1, <1>5, AgainKeeps DEF AgentRollout
  <1> QED
    BY <1>3, <1>4, <1>5

LEMMA ExecuteKeeps ==
    ASSUME IInv, NEW h \in Hosts, Execute(h)
    PROVE  IInv'
  <1>1. UNCHANGED <<config, apiVars, owner, moves>>
    BY DEF Execute
  <1>2. (UNCHANGED faults) => Counts
    BY DEF IInv, TypeOK, FaultKinds, Counts
  <1>3. \A ok \in BOOLEAN : Outcome(ok, "kubectl") =>
           Counts /\ (~ok => faults'["kubectl"] = faults["kubectl"] + 1)
    BY FaultsCounted DEF IInv, FaultKinds
  <1>4. ASSUME NEW ok \in BOOLEAN, UNCHANGED faults,
               Prepare(h, ok) \/ DockerRun(h, ok) \/ Rollout(h, ok)
        PROVE  IInv'
    BY <1>1, <1>2, <1>4, PrepareKeeps, DockerRunKeeps, DriverKeeps
  <1>5. ASSUME NEW ok \in BOOLEAN, Outcome(ok, "kubectl"),
               EnsureNamespace(h, ok) \/ Apply(h, ok) \/ Autoscale(h, ok)
        PROVE  IInv'
    BY <1>1, <1>3, <1>5, DriverKeeps, AutoscaleKeeps
  <1>6. ASSUME NEW answer \in Answers, Answered(answer),
               GetNamespace(h, answer) \/ CreateNamespace(h, answer) \/ AgentApply(h, answer)
        PROVE  IInv'
    <2>1. h \in AgentHosts
      BY <1>6 DEF GetNamespace, CreateNamespace, AgentApply
    <2>2. /\ Counts
          /\ answer = "none" => faults'["kubectl"] = faults["kubectl"] + 1
          /\ answer = "refused" => faults'["refused"] > 0
      BY <1>6 DEF Answered, Fault, IInv, TypeOK, FaultKinds, Counts
    <2> QED
      BY <1>1, <1>6, <2>1, <2>2, NamespaceKeeps, AgentApplyKeeps
  <1>7. ASSUME NEW reached \in BOOLEAN, NEW ok \in BOOLEAN, Outcome(reached, "kubectl"),
               AgentRollout(h, reached, ok)
        PROVE  IInv'
    <2>1. h \in AgentHosts
      BY <1>7 DEF AgentRollout
    <2> QED
      BY <1>1, <1>3, <1>7, <2>1, AgentRolloutKeeps
  <1> QED
    BY <1>4, <1>5, <1>6, <1>7 DEF Execute, Command

-----------------------------------------------------------------------------
(* Moves, restarts, pods *)

LEMMA RequeueKeeps ==
    ASSUME IInv, NEW d \in Deployments, Requeue(d)
    PROVE  IInv'
  <1>1. /\ config.mode = "multi" /\ moves < MaxMoves /\ deployments[d].status = "running"
        /\ moves' = moves + 1
        /\ UNCHANGED <<config, line, request, run, namespace, workload, faults>>
    BY DEF Requeue, runtimeVars
  <1>2. PICK row \in Row :
           /\ row.status = "queued" /\ row.name = deployments[d].name
           /\ deployments' = [deployments EXCEPT ![d] = row]
    <2>1. [status |-> "queued", name |-> deployments[d].name] \in Row
      BY DEF IInv, TypeOK, Row, Statuses
    <2> QED
      BY <2>1 DEF Requeue, UpdateRow
  <1>3. /\ deployments' \in [Deployments -> Row]
        /\ deployments'[d] = row
        /\ \A e \in Deployments : e # d => deployments'[e] = deployments[e]
    BY <1>2 DEF IInv, TypeOK
  <1>4. /\ jobs' \in [Deployments -> {"none", "queued", "running", "done", "failed"}]
        /\ jobs'[d] = "queued"
        /\ \A e \in Deployments : e # d => jobs'[e] = jobs[e]
    BY DEF IInv, TypeOK, Requeue
  <1>5. /\ owner' \in [Deployments -> Hosts \cup {NoHost}]
        /\ \A e \in Deployments : e # d => owner'[e] = owner[e]
    BY DEF IInv, TypeOK, Requeue
  <1>6. \A h \in Hosts : Active(h) => run[h].dep # d
    BY DEF Requeue, Idle, Active
  <1>7. request[d].pc = "answered"
    BY <1>1 DEF IInv, Custody
  <1>8. Counts
    BY <1>1 DEF IInv, TypeOK, FaultKinds, Counts
  <1>9. TypeOK'
    <2>1. moves' \in 0..MaxMoves
      BY <1>1, HostingAssumed DEF IInv, TypeOK, HostingAssumption
    <2> QED
      BY <1>1, <1>3, <1>4, <1>5, <2>1 DEF IInv, TypeOK
  <1>10. \A e \in Deployments : Stored(e)' <=> Stored(e)
    BY <1>1, <1>2, <1>3 DEF Stored
  <1>11. Custody'
    <2>1. \A h \in Hosts : (Active(h)' <=> Active(h)) /\ run[h].dep \in Deployments
      BY <1>1 DEF Active, IInv, TypeOK, RunRecord
    <2>2. \A k, l \in Hosts : Active(k)' /\ Active(l)' /\ run'[k].dep = run'[l].dep => k = l
      BY <1>1, <2>1 DEF IInv, Custody
    <2>3. \A k \in Hosts :
             Active(k)' => /\ jobs'[run'[k].dep] = "running"
                           /\ run'[k].pc \notin {"claimed", "settled"} => Stored(run[k].dep)'
                           /\ deployments'[run'[k].dep].status \in {"running", "failed"} =>
                                  run'[k].pc = "settled"
      BY <1>1, <1>3, <1>4, <1>6, <1>10, <2>1 DEF IInv, Custody
    <2>4. \A e \in Deployments :
             /\ jobs'[e] # "none" => request'[e].pc = "answered"
             /\ Stored(e)' => request'[e].pc \in {"stored", "answered", "refused"}
             /\ deployments'[e].status \notin {"absent", "queued"} => jobs'[e] \notin {"none", "queued"}
      BY <1>1, <1>2, <1>3, <1>4, <1>7, <1>10 DEF IInv, Custody
    <2> QED
      BY <1>1, <2>2, <2>3, <2>4 DEF Custody
  <1>12. NamesKept'
    BY <1>1, <1>2, <1>3, <1>10 DEF IInv, NamesKept, Cut
  <1>13. ListsRemembered' /\ BoundsTaken'
    <2>1. \A e \in Deployments : Live(e)' => Live(e)
      BY <1>1, <1>3 DEF Live
    <2> QED
      BY <1>1, <2>1 DEF IInv, TypeOK, Request, ListsRemembered, BoundsTaken, Cut
  <1>14. Progress'
    <2>1. \A h \in Hosts : run[h].dep \in Deployments
      BY DEF IInv, TypeOK, RunRecord
    <2> QED
      BY <1>1, <1>3, <1>6, <1>8, <2>1, ProgressKept DEF runtimeVars
  <1>15. Served'
    BY <1>1, <1>2, <1>3, <1>5, <1>8, ServedButOne
  <1> QED
    BY <1>9, <1>11, <1>12, <1>13, <1>14, <1>15 DEF IInv

LEMMA ComeUpKeeps ==
    ASSUME IInv, NEW h \in Hosts, NEW d \in Deployments, ComeUp(h, d)
    PROVE  IInv'
  <1>1. /\ UNCHANGED <<config, deployments, jobs, line, request, run, namespace, owner, moves, faults>>
        /\ workload[h][d].state = "pending"
        /\ workload' = [workload EXCEPT ![h][d].state = "ready"]
    BY DEF ComeUp, PodsReady, apiVars
  <1>2. workload \in [Hosts -> [Deployments -> Workload]]
    BY DEF IInv, TypeOK
  <1>3. /\ workload' \in [Hosts -> [Deployments -> Workload]]
        /\ \A k \in Hosts, e \in Deployments :
              /\ workload'[k][e].route = workload[k][e].route
              /\ workload'[k][e].scaled = workload[k][e].scaled
              /\ workload'[k][e].state \in {workload[k][e].state, "ready"}
    BY <1>1, <1>2 DEF Workload
  <1>4. TypeOK'
    BY <1>1, <1>3 DEF IInv, TypeOK
  <1>5. Custody' /\ NamesKept' /\ ListsRemembered' /\ BoundsTaken'
    BY <1>1, <1>3 DEF IInv, Custody, Active, NamesKept, ListsRemembered, BoundsTaken, Stored, Live, Cut
  <1>6. Progress'
    <2> SUFFICES ASSUME NEW k \in Hosts PROVE ProgressOf(k)'
      BY DEF Progress
    <2>1. /\ ProgressOf(k)
          /\ HostRoute(k)' = HostRoute(k) /\ (RouteValid(k)' <=> RouteValid(k))
          /\ (Done(k)' <=> Done(k)) /\ (Scales(k)' <=> Scales(k))
      BY <1>1 DEF IInv, Progress, HostRoute, RouteValid, NameOf, Done, Scales
    <2>2. /\ Current(k)'.route = Current(k).route
          /\ Current(k)'.scaled = Current(k).scaled
          /\ Current(k)'.state \in {Current(k).state, "ready"}
      BY <1>1, <1>3, JobFacts DEF IInv, Current
    <2>3. UNCHANGED <<faults, namespace>> /\ run' = run
      BY <1>1
    <2>4. Justified(k) => Justified(k)'
      BY <2>1, <2>2, <2>3 DEF Justified
    <2> QED
      BY <2>1, <2>2, <2>3, <2>4 DEF ProgressOf
  <1>7. Served'
    BY <1>1, <1>3 DEF IInv, Served, ServedOf, Scales
  <1> QED
    BY <1>4, <1>5, <1>6, <1>7 DEF IInv

LEMMA AgentDiesKeeps ==
    ASSUME IInv, NEW h \in AgentHosts, AgentDies(h)
    PROVE  IInv'
  <1>1. /\ h \in Hosts /\ Forgotten(h)
        /\ UNCHANGED <<config, deployments, jobs, line, request, namespace, workload, owner, moves>>
    BY HostsFacts DEF AgentDies, apiVars
  <1>2. Counts
    BY DEF AgentDies, Fault, IInv, TypeOK, FaultKinds, Counts
  <1>3. /\ run' \in [Hosts -> RunRecord]
        /\ \A k \in Hosts : k # h => run'[k] = run[k]
        /\ \A k \in Hosts : run'[k].dep = run[k].dep
        /\ \A k \in Hosts : Active(k)' => Active(k) /\ k # h
        /\ ProgressOf(h)'
    BY <1>1, <1>2, HostFreed
  <1>4. TypeOK'
    BY <1>1, <1>2, <1>3 DEF IInv, TypeOK, Counts
  <1>5. Custody'
    BY <1>1, <1>3, HostsFacts DEF IInv, Custody, Stored
  <1>6. NamesKept' /\ ListsRemembered' /\ BoundsTaken'
    BY <1>1 DEF IInv, NamesKept, ListsRemembered, BoundsTaken, Stored, Live, Cut
  <1>7. Progress'
    <2>1. \A k \in Hosts : k # h => ProgressOf(k)'
      BY <1>1, <1>2, <1>3, ProgressOfKept
    <2> QED
      BY <1>3, <2>1 DEF Progress
  <1>8. Served'
    BY <1>1, <1>2, ServedKept
  <1> QED
    BY <1>4, <1>5, <1>6, <1>7, <1>8 DEF IInv

\* A store in memory is empty after a restart, which leaves nothing to keep
\* but the workloads.
LEMMA RestartKeeps ==
    ASSUME IInv, RestartControlPlane
    PROVE  IInv'
  <1> DEFINE h == ControlPlaneHost
  <1>1. h \in Hosts /\ Forgotten(h) /\ UNCHANGED <<config, namespace, workload, moves>>
    BY HostsFacts DEF RestartControlPlane
  <1>2. Counts
    BY DEF RestartControlPlane, Fault, IInv, TypeOK, FaultKinds, Counts
  <1>3. /\ run' \in [Hosts -> RunRecord]
        /\ \A k \in Hosts : k # h => run'[k] = run[k]
        /\ \A k \in Hosts : run'[k].dep = run[k].dep
        /\ \A k \in Hosts : Active(k)' => Active(k) /\ k # h
        /\ ProgressOf(h)'
    BY <1>1, <1>2, HostFreed
  <1>4. /\ request' \in [Deployments -> Request]
        /\ \A d \in Deployments :
              /\ request'[d].name = request[d].name
              /\ request'[d].listed = request[d].listed
              /\ request'[d].bounds = request[d].bounds
              /\ \/ request'[d].pc = request[d].pc
                 \/ request[d].pc \in {"checked", "stored"} /\ request'[d].pc = "refused"
    <2>1. request \in [Deployments -> Request]
      BY DEF IInv, TypeOK
    <2>2. request' = [d \in Deployments |->
                         IF request[d].pc \in {"checked", "stored"}
                         THEN [request[d] EXCEPT !.pc = "refused"] ELSE request[d]]
      BY DEF RestartControlPlane
    <2> HIDE DEF IInv
    <2>3. \A d \in Deployments :
             /\ request[d] \in Request
             /\ request'[d] = IF request[d].pc \in {"checked", "stored"}
                              THEN [request[d] EXCEPT !.pc = "refused"] ELSE request[d]
      BY <2>1, <2>2
    <2>4. \A d \in Deployments : request'[d] \in Request
      BY <2>3 DEF Request
    <2> QED
      BY <2>2, <2>3, <2>4 DEF Request
  <1>5. \/ UNCHANGED <<deployments, jobs, line, owner>>
        \/ /\ InMemory
           /\ deployments' = [d \in Deployments |-> NoDeploymentRow]
           /\ jobs' = [d \in Deployments |-> "none"]
           /\ line' = <<>>
           /\ owner' = [d \in Deployments |-> NoHost]
    BY DEF RestartControlPlane
  <1>6. \A d \in Deployments :
           \/ deployments'[d] = deployments[d] /\ jobs'[d] = jobs[d] /\ owner'[d] = owner[d]
           \/ deployments'[d].status = "absent" /\ jobs'[d] = "none"
    BY <1>5 DEF NoDeploymentRow
  <1>7. InMemory => \A k \in Hosts : ~Active(k)'
    <2>1. InMemory => config.mode = "single"
      BY DEF IInv, TypeOK, Config, InMemory
    <2> QED
      BY <1>3, <2>1 DEF IInv, Custody, Hosts
  <1> HIDE DEF h
  <1>8. TypeOK'
    <2>1. <<>> \in Seq(Deployments) /\ NoDeploymentRow \in Row
      BY DEF NoDeploymentRow, Row
    <2>2. line' \in Seq(Deployments) /\ deployments' \in [Deployments -> Row]
      BY <1>5, <2>1 DEF IInv, TypeOK
    <2>3. /\ jobs' \in [Deployments -> {"none", "queued", "running", "done", "failed"}]
          /\ owner' \in [Deployments -> Hosts \cup {NoHost}]
      BY <1>5 DEF IInv, TypeOK
    <2> QED
      BY <1>1, <1>2, <1>3, <1>4, <2>2, <2>3 DEF IInv, TypeOK, Counts
  <1>9. Custody'
    <2>1. \A k \in Hosts : Active(k)' => deployments' = deployments /\ jobs' = jobs
      BY <1>5, <1>7
    <2>2. \A k, l \in Hosts : Active(k)' /\ Active(l)' /\ run'[k].dep = run'[l].dep => k = l
      BY <1>3 DEF IInv, Custody
    <2>3. \A k \in Hosts :
             Active(k)' => /\ jobs'[run'[k].dep] = "running"
                           /\ run'[k].pc \notin {"claimed", "settled"} => Stored(run[k].dep)'
                           /\ deployments'[run'[k].dep].status \in {"running", "failed"} =>
                                  run'[k].pc = "settled"
      BY <1>3, <2>1 DEF IInv, Custody, Stored
    <2>4. \A e \in Deployments :
             /\ jobs'[e] # "none" => request'[e].pc = "answered"
             /\ Stored(e)' => request'[e].pc \in {"stored", "answered", "refused"}
             /\ deployments'[e].status \notin {"absent", "queued"} => jobs'[e] \notin {"none", "queued"}
      BY <1>4, <1>6 DEF IInv, Custody, Stored
    <2>5. config'.mode = "single" => \A k \in AgentHosts : ~Active(k)'
      BY <1>1, <1>3, HostsFacts DEF IInv, Custody
    <2> QED
      BY <1>3, <2>2, <2>3, <2>4, <2>5 DEF Custody
  <1>10. NamesKept'
    BY <1>1, <1>4, <1>6 DEF IInv, NamesKept, Stored, Cut, OwnNames
  <1>11. ListsRemembered' /\ BoundsTaken'
    <2>1. \A e \in Deployments : Live(e)' => Live(e)
      BY <1>6 DEF Live
    <2>2. \A d \in Deployments : request[d].listed \subseteq Deployments
      BY DEF IInv, TypeOK, Request
    <2> QED
      BY <1>4, <2>1, <2>2 DEF IInv, ListsRemembered, BoundsTaken, Cut
  <1>12. Progress'
    <2>1. ASSUME NEW k \in Hosts, k # h PROVE ProgressOf(k)'
      <3>1. Active(k) => deployments' = deployments
        BY <1>3, <1>5, <1>7, <2>1 DEF Active
      <3> QED
        BY <1>1, <1>2, <1>3, <2>1, <3>1, ProgressOfKept
    <2> QED
      BY <1>3, <2>1 DEF Progress
  <1>13. Served'
    <2>1. \A k \in Hosts : Scales(k)' => Scales(k)
      BY <1>1, <1>2 DEF IInv, Scales, TypeOK, FaultKinds, Counts
    <2> QED
      BY <1>1, <1>6, <2>1 DEF IInv, Served, ServedOf
  <1> QED
    BY <1>8, <1>9, <1>10, <1>11, <1>12, <1>13 DEF IInv

-----------------------------------------------------------------------------
LEMMA NextKeeps == IInv /\ [Next]_vars => IInv'
  <1> SUFFICES ASSUME IInv, [Next]_vars PROVE IInv'
    OBVIOUS
  <1>1. CASE \E d \in Deployments : ApiStep(d)
    BY <1>1, ApiKeeps
  <1>2. CASE \E d \in Deployments : Requeue(d)
    BY <1>2, RequeueKeeps
  <1>3. ASSUME NEW h \in Hosts, HostStep(h) PROVE IInv'
    BY <1>3, ClaimKeeps, LookupKeeps, BeginKeeps, SettleKeeps, MarkKeeps, ExecuteKeeps DEF HostStep
  <1>4. CASE \E h \in Hosts, d \in Deployments : ComeUp(h, d)
    BY <1>4, ComeUpKeeps
  <1>5. CASE RestartControlPlane
    BY <1>5, RestartKeeps
  <1>6. CASE \E h \in AgentHosts : AgentDies(h)
    BY <1>6, AgentDiesKeeps
  <1>7. CASE UNCHANGED vars
    <2> USE <1>7 DEF vars
    <2>1. TypeOK' /\ Custody' /\ NamesKept' /\ ListsRemembered' /\ BoundsTaken'
      BY DEF IInv, TypeOK, Custody, Active, NamesKept, ListsRemembered, BoundsTaken, Stored, Live, Cut
    <2>2. Progress' /\ Served'
      BY DEF IInv, Progress, ProgressOf, Justified, Done, Scales, Current, HostRoute, RouteValid,
             NameOf, Served, ServedOf
    <2> QED
      BY <2>1, <2>2 DEF IInv
  <1> QED
    BY <1>1, <1>2, <1>3, <1>4, <1>5, <1>6, <1>7 DEF Next

LEMMA IInvAlways == Spec => []IInv
    BY InitIInv, NextKeeps, PTL DEF Spec

(***************************************************************************)
(* Rows, requests, jobs and workloads keep their shape.                    *)
(***************************************************************************)
THEOREM TypeCorrect == Spec => []TypeOK
  <1>1. IInv => TypeOK
    BY DEF IInv
  <1> QED
    BY <1>1, IInvAlways, PTL

(***************************************************************************)
(* isSubdomainUnique: two deployments that have not failed share a         *)
(* subdomain only if neither was on the other's list, or a name was cut.   *)
(***************************************************************************)
THEOREM NamesRarelyShared == Spec => []NamesShared
  <1>1. IInv => NamesShared
    <2> SUFFICES ASSUME IInv, NEW d \in Deployments, NEW e \in Deployments, d # e,
                        Live(d), Live(e), deployments[d].name = deployments[e].name,
                        ~Cut(d), ~Cut(e)
                 PROVE  Overlapped(d, e)
      BY DEF NamesShared
    <2>1. request[d].name = request[e].name
      BY DEF IInv, NamesKept, Live, Stored
    <2> QED
      BY <2>1 DEF IInv, ListsRemembered, Overlapped
  <1> QED
    BY <1>1, IInvAlways, PTL

(***************************************************************************)
(* On one platform two workloads claim a host name only for these reasons, *)
(* or when a row has failed or is lost while its workload stays.           *)
(***************************************************************************)
THEOREM RoutesRarelyShared == Spec => []RoutesShared
  <1>1. IInv => RoutesShared
    <2> SUFFICES ASSUME IInv, NEW h \in Hosts, NEW d \in Deployments, NEW e \in Deployments, d # e,
                        workload[h][d].route # NoName,
                        workload[h][d].route = workload[h][e].route,
                        Live(d), Live(e), ~Cut(d), ~Cut(e)
                 PROVE  Overlapped(d, e)
      BY DEF RoutesShared
    <2>1. request[d].name = request[e].name
      BY DEF IInv, NamesKept
    <2> QED
      BY <2>1 DEF IInv, ListsRemembered, Overlapped
  <1> QED
    BY <1>1, IInvAlways, PTL

(***************************************************************************)
(* A running row is served by its owner under the name it shows, whoever   *)
(* deployed it, whatever failed before and however often it moved.         *)
(***************************************************************************)
THEOREM RunningServed == Spec => []OwnerServes
  <1>1. IInv => OwnerServes
    BY HostingAssumed DEF IInv, Served, ServedOf, OwnerServes, HostingAssumption
  <1> QED
    BY <1>1, IInvAlways, PTL

(***************************************************************************)
(* What the package, Deploy and Normalize let pass, ApplyCPUAutoscaling    *)
(* takes: without kubectl failures everything that runs is autoscaled.     *)
(***************************************************************************)
THEOREM RunningScaled == Spec => []RunningIsScaled
  <1>1. IInv => RunningIsScaled
    BY DEF IInv, Served, ServedOf, Scales, RunningIsScaled
  <1> QED
    BY <1>1, IInvAlways, PTL

(***************************************************************************)
(* runKubectlWithRetry: an agent's job gives up after three failures, is   *)
(* refused only what the server refuses, and fails for its rollout only    *)
(* when everything it applied is there.                                    *)
(***************************************************************************)
THEOREM FailuresJustified == Spec => []RetriesSuffice
  <1>1. IInv => RetriesSuffice
    BY HostsFacts DEF IInv, Progress, ProgressOf, Justified, RetriesSuffice
  <1> QED
    BY <1>1, IInvAlways, PTL

=============================================================================
