------------------------------ MODULE BuildLogs ------------------------------
(***************************************************************************)
(* The build log of a deployment that the embedded worker builds           *)
(* (service/worker.go processNext), and the viewers of its stream          *)
(* (httpapi/handlers.go StreamBuildLogs).                                  *)
(*                                                                         *)
(* The driver writes sections (runtime/docker_driver.go emitBuildSection)  *)
(* and streams the output of its commands. Both go to the live log, which  *)
(* the worker stores in the row now and then; only the sections are in the *)
(* log that it stores in the end.  A log is a sequence of chunks; offsets  *)
(* count chunks.                                                           *)
(***************************************************************************)
EXTENDS Integers, Sequences

CONSTANTS
    Viewers,  \* those who open the stream
    MaxChunks \* bound: chunks of the live log

VARIABLES
    row,    \* status and log in the store
    live,   \* liveBuildLogs
    driver, \* the driver's own log
    worker, \* the worker's place in processNext
    viewer  \* per viewer: what was received, and the stream's offset

buildVars == <<row, live, driver, worker, viewer>>

BuildAssumption == MaxChunks \in Nat /\ MaxChunks > 1

ASSUME BuildAssumed == BuildAssumption

Kinds == {"header", "section", "stream", "scaling"}

\* The n-th chunk of the live log, or what the autoscaler said.
Chunk(kind, n) == [kind |-> kind, n |-> n]

Logs == Seq([kind : Kinds, n : Nat])

BuildRow == [status : {"queued", "deploying", "running", "failed"}, log : Logs]

Viewer == [pc : {"away", "open", "complete", "error"}, text : Logs, offset : Nat]

BuildInit ==
    /\ row = [status |-> "queued", log |-> <<>>]
    /\ live = <<>>
    /\ driver = <<>>
    /\ worker = "idle"
    /\ viewer = [v \in Viewers |-> [pc |-> "away", text |-> <<>>, offset |-> 0]]

-----------------------------------------------------------------------------
(* The worker *)

\* Update: a write that fails is only logged.
Persist(status, log, stored) ==
    row' = IF stored THEN [status |-> status, log |-> log] ELSE row

StartBuild(stored) ==
    /\ worker = "idle"
    /\ live' = <<Chunk("header", 0)>>
    /\ Persist("deploying", live', stored)
    /\ worker' = "building"
    /\ UNCHANGED <<driver, viewer>>

\* appendLiveLog: when enough came together or a second has passed, the live
\* log is stored. A section comes first ("clone").
Emit(kind, due, stored) ==
    /\ worker = "building" /\ Len(live) < MaxChunks
    /\ driver = <<>> => kind = "section"
    /\ live' = Append(live, Chunk(kind, Len(live)))
    /\ driver' = IF kind = "section" THEN Append(driver, Chunk(kind, Len(live))) ELSE driver
    /\ IF due THEN Persist("deploying", live', stored) ELSE UNCHANGED row
    /\ UNCHANGED <<worker, viewer>>

\* The driver has returned: persistLiveLogs(true).
Flush(stored) ==
    /\ worker = "building" /\ driver # <<>>
    /\ Persist("deploying", live, stored)
    /\ worker' = "built"
    /\ UNCHANGED <<live, driver, viewer>>

\* The driver's log replaces the live log, with what the autoscaler said.
SettleBuild(ok, scaling, stored) ==
    /\ worker = "built"
    /\ driver' = IF ok /\ scaling THEN Append(driver, Chunk("scaling", 0)) ELSE driver
    /\ Persist(IF ok THEN "running" ELSE "failed", driver', stored)
    /\ worker' = "over"
    /\ UNCHANGED <<live, viewer>>

-----------------------------------------------------------------------------
(* A stream *)

\* Mutant: only success is an end.
OnlyRunning(status) == status = "running"

isTerminalBuildStatus(status) == status \in {"running", "failed"}

\* What comes after the first n chunks.
After(log, n) == SubSeq(log, n + 1, Len(log))

\* Mutant: the end is noticed before the rest is sent.
SentUnlessOver(x) ==
    IF Len(row.log) > x.offset /\ ~isTerminalBuildStatus(row.status)
    THEN [x EXCEPT !.text = @ \o After(row.log, x.offset), !.offset = Len(row.log)]
    ELSE x

\* sendDelta: only a longer log has something new.
Sent(x) ==
    IF Len(row.log) > x.offset
    THEN [x EXCEPT !.text = @ \o After(row.log, x.offset), !.offset = Len(row.log)]
    ELSE x

Delta(v) ==
    viewer' = [viewer EXCEPT ![v] =
                  [Sent(@) EXCEPT !.pc = IF isTerminalBuildStatus(row.status)
                                         THEN "complete" ELSE "open"]]

\* Every second; any error of GetDeployment ends the stream.
PollBuildLog(v, found) ==
    /\ viewer[v].pc = "open"
    /\ IF found THEN Delta(v) ELSE viewer' = [viewer EXCEPT ![v].pc = "error"]
    /\ UNCHANGED <<row, live, driver, worker>>

OpenBuildLog(v) ==
    /\ viewer[v].pc = "away"
    /\ Delta(v)
    /\ UNCHANGED <<row, live, driver, worker>>

=============================================================================
