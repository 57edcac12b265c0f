----------------------------- MODULE WorkerStore -----------------------------
(***************************************************************************)
(* The workers table and the statements of PostgresWorkerRepository        *)
(* (control-plane/internal/store/workers.go). The heartbeat timestamp is   *)
(* kept as one bit: whether last_heartbeat is within the timeout.          *)
(***************************************************************************)
EXTENDS Domain

VARIABLE workers

WorkerStatus == {"absent", "idle", "busy", "offline"}

WorkerRecord == [status : WorkerStatus, current : Nat, fresh : BOOLEAN]

WorkersInit ==
    workers = [w \in Workers |-> [status |-> "absent", current |-> 0, fresh |-> FALSE]]

Online(w) == workers[w].status \in {"idle", "busy"}

\* The upsert of a worker that starts: idle, no job, a heartbeat now.
Register(w) ==
    workers' = [workers EXCEPT
        ![w] = [status |-> "idle", current |-> 0, fresh |-> TRUE]]

UpdateHeartbeat(w) == workers' = [workers EXCEPT ![w].fresh = TRUE]

\* Overwrites status and current_jobs with the caller's copy.
UpdateWorker(w, status, current) ==
    workers' = [workers EXCEPT ![w].status = status, ![w].current = current]

IncrementJobCount(w) ==
    workers' = [workers EXCEPT
        ![w].current = @ + 1,
        ![w].status = IF workers[w].current + 1 >= MaxConcurrentJobs[w] THEN "busy" ELSE @]

\* Mutant: without GREATEST.
DecrementBelowZero(w) ==
    workers' = [workers EXCEPT
        ![w].current = @ - 1,
        ![w].status = IF @ = "busy" /\ workers[w].current - 1 < MaxConcurrentJobs[w]
                      THEN "idle" ELSE @]

DecrementJobCount(w) ==
    workers' = [workers EXCEPT
        ![w].current = IF @ > 0 THEN @ - 1 ELSE 0,
        ![w].status = IF @ = "busy" /\ workers[w].current - 1 < MaxConcurrentJobs[w]
                      THEN "idle" ELSE @]

MarkOffline(w) == workers' = [workers EXCEPT ![w].status = "offline"]

=============================================================================
