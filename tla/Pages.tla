-------------------------------- MODULE Pages --------------------------------
(***************************************************************************)
(* The pages that follow one deployment: its build log while it is built,  *)
(* its application log and its details while it runs. They share nothing   *)
(* but the deployment, so a behaviour is about one of them.                *)
(***************************************************************************)
EXTENDS BuildLogs, AppLogs, PodMetrics

CONSTANT MaxFaults \* bound: failures of the environment

VARIABLES
    page,  \* the page of this behaviour
    faults \* failures so far

vars == <<buildVars, appVars, podVars, page, faults>>

PagesAssumption == MaxFaults \in Nat

ASSUME PagesAssumed == PagesAssumption

Init ==
    /\ BuildInit /\ AppInit /\ PodInit
    /\ page \in {"build log", "application log", "details"}
    /\ faults = 0

\* A write is lost, a read fails, kubectl does not answer.
Outcome(ok) == IF ok THEN UNCHANGED faults ELSE faults < MaxFaults /\ faults' = faults + 1

-----------------------------------------------------------------------------
OnBuildLog == page = "build log" /\ UNCHANGED <<page, appVars, podVars>>

Builds ==
    /\ \E stored \in BOOLEAN :
          /\ \/ StartBuild(stored) \/ Flush(stored)
             \/ \E kind \in {"section", "stream"}, due \in BOOLEAN : Emit(kind, due, stored)
             \/ \E ok, scaling \in BOOLEAN : SettleBuild(ok, scaling, stored)
          /\ Outcome(stored)
    /\ OnBuildLog

FollowsBuild(v) ==
    /\ \E found \in BOOLEAN : PollBuildLog(v, found) /\ Outcome(found)
    /\ OnBuildLog

OpensBuildLog(v) == OpenBuildLog(v) /\ UNCHANGED faults /\ OnBuildLog

-----------------------------------------------------------------------------
OnAppLog == page = "application log" /\ UNCHANGED <<page, faults, buildVars, podVars>>

Container == (Renew \/ \E width \in Widths : Prints(width)) /\ OnAppLog

Connection == (OpenAppLog \/ Disconnect) /\ OnAppLog

\* The stream's ticker, or the client's fallback.
FollowsApp == (StreamTick \/ PollAppLog) /\ OnAppLog

-----------------------------------------------------------------------------
OnDetails == page = "details" /\ UNCHANGED <<page, buildVars, appVars>>

Details(r) ==
    /\ \/ UNCHANGED faults /\ (AskDetails(r) \/ LookForPods(r) \/ StorePods(r) \/ AnswerDetails(r))
       \/ \E ok \in BOOLEAN :
             /\ ReadRecord(r, ok) \/ GetPods(r, ok) \/ GetResources(r, ok)
             /\ Outcome(ok)
    /\ OnDetails

Moments == (Turns \/ PodTick) /\ UNCHANGED faults /\ OnDetails

Next ==
    \/ Builds
    \/ \E v \in Viewers : FollowsBuild(v) \/ OpensBuildLog(v)
    \/ Container \/ Connection \/ FollowsApp
    \/ \E r \in Requests : Details(r)
    \/ Moments

Spec == Init /\ [][Next]_vars

\* The worker and the tickers of the streams and of the client go on; that
\* nothing ever fails is not assumed, nor that something does.
Fairness ==
    /\ WF_vars(Builds /\ UNCHANGED faults)
    /\ \A v \in Viewers : WF_vars(FollowsBuild(v) /\ UNCHANGED faults)
    /\ WF_vars(FollowsApp)

FairSpec == Spec /\ Fairness

=============================================================================
