-------------------------- MODULE TelemetrySender --------------------------
(***************************************************************************)
(* The way of a request's telemetry from Traefik's access log into the     *)
(* database: tools/traffic-forwarder/main.go reads the log, queues one     *)
(* payload per line and posts batches, each tried at most twice; the       *)
(* control plane's batch handler inserts a batch and answers 200 whether   *)
(* or not the insert worked. A payload is the number of its line.          *)
(***************************************************************************)
EXTENDS Integers, Sequences, FiniteSets, SequencesExt

CONSTANTS
    QueueSize,  \* capacity of TelemetrySender.queue
    BatchSize,  \* TelemetrySender.batchSize
    TailLines,  \* lines kubectl logs --tail shows again on every connection
    MaxLines,   \* bound: lines of the access log that are about deployments
    MaxFaults   \* bound: failures of the environment

VARIABLES
    lines,   \* the access log: its number of lines
    stream,  \* streamTraefikLogs: is it connected, and the next line it reads
    queue,   \* TelemetrySender.queue
    batch,   \* Run's batch
    sender,  \* Run's place: selecting, waiting for an answer, 1st or 2nd try
    calls,   \* the calls of Enqueue the counters account for
    dropped, sent, failed, \* the counters Run logs
    late,    \* batches the handler still has, which the sender gave up
    taken,   \* history: how often each line was handed to Enqueue
    rows,    \* deployment_requests: how often each line is in it
    refused, \* history: payloads the handler dropped, or could not insert
    faults

stats == <<calls, dropped, sent, failed>>

vars == <<lines, stream, queue, batch, sender, calls, dropped, sent, failed,
          late, taken, rows, refused, faults>>

\* NewTelemetrySender: a queue has room for a batch.
SenderAssumption ==
    /\ QueueSize \in Nat
    /\ BatchSize \in Nat \ {0}
    /\ QueueSize >= BatchSize
    /\ TailLines \in Nat
    /\ MaxLines \in Nat
    /\ MaxFaults \in Nat

ASSUME SenderAssumed == SenderAssumption

Line == 1..MaxLines

Selecting == [pc |-> "select", try |-> 1]

Init ==
    /\ lines = 0
    /\ stream = [on |-> FALSE, next |-> 1]
    /\ queue = <<>>
    /\ batch = <<>>
    /\ sender = Selecting
    /\ calls = 0 /\ dropped = 0 /\ sent = 0 /\ failed = 0
    /\ late = <<>>
    /\ taken = [n \in Line |-> 0]
    /\ rows = [n \in Line |-> 0]
    /\ refused = 0
    /\ faults = 0

Fault == faults < MaxFaults /\ faults' = faults + 1

-----------------------------------------------------------------------------
(* The reader *)

\* Traefik serves a request.
Serve ==
    /\ lines < MaxLines
    /\ lines' = lines + 1
    /\ UNCHANGED <<stream, queue, batch, sender, stats, late, taken, rows,
                   refused, faults>>

\* kubectl logs -f starts again with the last lines.
Connect ==
    /\ ~stream.on
    /\ stream' = [on |-> TRUE, next |-> IF lines > TailLines THEN lines - TailLines + 1 ELSE 1]
    /\ UNCHANGED <<lines, queue, batch, sender, stats, late, taken, rows,
                   refused, faults>>

Disconnect ==
    /\ Fault
    /\ stream.on
    /\ stream' = [stream EXCEPT !.on = FALSE]
    /\ UNCHANGED <<lines, queue, batch, sender, stats, late, taken, rows, refused>>

\* Mutant: a full queue drops its oldest payload, not the new one.
EnqueueDroppingOldest(n) ==
    /\ queue' = Append(IF Len(queue) < QueueSize THEN queue ELSE Tail(queue), n)
    /\ calls' = calls + 1
    /\ UNCHANGED <<dropped, sent, failed>>

\* Mutant: a queue without a bound.
EnqueueAlways(n) ==
    /\ queue' = Append(queue, n)
    /\ calls' = calls + 1
    /\ UNCHANGED <<dropped, sent, failed>>

\* A payload is never waited with: a full queue drops it.
Enqueue(n) ==
    /\ IF Len(queue) < QueueSize
       THEN queue' = Append(queue, n) /\ UNCHANGED dropped
       ELSE dropped' = dropped + 1 /\ UNCHANGED queue
    /\ calls' = calls + 1
    /\ UNCHANGED <<sent, failed>>

\* processLogLine
ReadLine ==
    /\ stream.on
    /\ stream.next <= lines
    /\ stream' = [stream EXCEPT !.next = @ + 1]
    /\ taken' = [taken EXCEPT ![stream.next] = @ + 1]
    /\ Enqueue(stream.next)
    /\ UNCHANGED <<lines, batch, sender, late, rows, refused, faults>>

-----------------------------------------------------------------------------
(* Run *)

\* The next payload joins the batch, and a full one is posted.
TakePayload ==
    /\ sender.pc = "select"
    /\ queue # <<>>
    /\ queue' = Tail(queue)
    /\ batch' = Append(batch, Head(queue))
    /\ sender' = IF Len(batch') >= BatchSize THEN [pc |-> "post", try |-> 1] ELSE sender
    /\ UNCHANGED <<lines, stream, stats, late, taken, rows, refused, faults>>

\* Mutant: the ticker leaves a batch alone until it is full.
FlushFull ==
    /\ sender.pc = "select"
    /\ Len(batch) >= BatchSize
    /\ sender' = [pc |-> "post", try |-> 1]
    /\ UNCHANGED <<lines, stream, queue, batch, stats, late, taken, rows, refused, faults>>

\* ticker.C: what there is of a batch is posted.
FlushTick ==
    /\ sender.pc = "select"
    /\ batch # <<>>
    /\ sender' = [pc |-> "post", try |-> 1]
    /\ UNCHANGED <<lines, stream, queue, batch, stats, late, taken, rows, refused, faults>>

\* postBatch: the request reaches the handler.
Post ==
    /\ sender.pc = "post"
    /\ sender' = [sender EXCEPT !.pc = "wait"]
    /\ UNCHANGED <<lines, stream, queue, batch, stats, late, taken, rows, refused, faults>>

\* Mutant: a batch that failed twice is kept for the next flush.
TryFailedKeeping ==
    IF sender.try = 1
    THEN /\ sender' = [pc |-> "post", try |-> 2]
         /\ UNCHANGED <<batch, stats>>
    ELSE /\ sender' = Selecting
         /\ failed' = failed + Len(batch)
         /\ UNCHANGED <<calls, dropped, sent>>
         /\ UNCHANGED batch

\* Mutant: flush does not return after the second failure.
TryFailedGoingOn ==
    IF sender.try = 1
    THEN /\ sender' = [pc |-> "post", try |-> 2]
         /\ UNCHANGED <<batch, stats>>
    ELSE /\ sender' = Selecting
         /\ failed' = failed + Len(batch)
         /\ sent' = sent + Len(batch)
         /\ UNCHANGED <<calls, dropped>>
         /\ batch' = <<>>

\* After 200 ms there is one more try, after that the batch is given up.
TryFailed ==
    IF sender.try = 1
    THEN /\ sender' = [pc |-> "post", try |-> 2]
         /\ UNCHANGED <<batch, stats>>
    ELSE /\ sender' = Selecting
         /\ failed' = failed + Len(batch)
         /\ UNCHANGED <<calls, dropped, sent>>
         /\ batch' = <<>>

\* The request never arrives.
PostLost ==
    /\ Fault
    /\ sender.pc = "post"
    /\ TryFailed
    /\ UNCHANGED <<lines, stream, queue, late, taken, rows, refused>>

\* TELEMETRY_HTTP_TIMEOUT passes; the handler goes on.
Timeout ==
    /\ Fault
    /\ sender.pc = "wait"
    /\ late' = Append(late, batch)
    /\ TryFailed
    /\ UNCHANGED <<lines, stream, queue, taken, rows, refused>>

-----------------------------------------------------------------------------
(* RecordDeploymentRequestBatch: one insert for the whole batch *)

Places(b, N) == {i \in 1..Len(b) : b[i] \in N}

\* Payloads whose subdomain resolves are inserted, the others are dropped; a
\* subdomain may resolve at one time and not at another.
Insert(b) ==
    \/ \E known \in SUBSET Line :
          /\ rows' = [n \in Line |-> rows[n] + Cardinality(Places(b, known \cap {n}))]
          /\ refused' = refused + Cardinality(Places(b, Line \ known))
          /\ UNCHANGED faults
    \/ /\ Fault
       /\ refused' = refused + Len(b)
       /\ UNCHANGED rows

\* The handler answers 200 in time, and the batch counts as sent.
Answer ==
    /\ sender.pc = "wait"
    /\ Insert(batch)
    /\ sent' = sent + Len(batch)
    /\ batch' = <<>>
    /\ sender' = Selecting
    /\ UNCHANGED <<lines, stream, queue, calls, dropped, failed, late, taken>>

\* A handler nobody waits for any more comes to its insert.
RecordLate ==
    \E i \in DOMAIN late :
        /\ Insert(late[i])
        /\ late' = RemoveAt(late, i)
        /\ UNCHANGED <<lines, stream, queue, batch, sender, stats, taken>>

\* The forwarder's process is restarted; what the handler has, it keeps.
Restart ==
    /\ Fault
    /\ stream' = [on |-> FALSE, next |-> 1]
    /\ queue' = <<>>
    /\ batch' = <<>>
    /\ sender' = Selecting
    /\ calls' = 0 /\ dropped' = 0 /\ sent' = 0 /\ failed' = 0
    /\ late' = IF sender.pc = "wait" THEN Append(late, batch) ELSE late
    /\ UNCHANGED <<lines, taken, rows, refused>>

-----------------------------------------------------------------------------
Next ==
    \/ Serve \/ Connect \/ Disconnect \/ ReadLine
    \/ TakePayload \/ FlushTick \/ Post \/ PostLost \/ Timeout
    \/ Answer \/ RecordLate \/ Restart

Spec == Init /\ [][Next]_vars

\* kubectl is started again, Run goes on, and the handler or the client's
\* timeout ends every wait.
Fairness ==
    /\ WF_vars(Connect)
    /\ WF_vars(ReadLine)
    /\ WF_vars(TakePayload)
    /\ WF_vars(FlushTick)
    /\ WF_vars(Post \/ PostLost)
    /\ WF_vars(Answer \/ Timeout)

FairSpec == Spec /\ Fairness

-----------------------------------------------------------------------------
(***************************************************************************)
(* The shape of the forwarder's and the handler's state.                   *)
(***************************************************************************)
ReaderTypeOK ==
    /\ lines \in 0..MaxLines
    /\ stream \in [on : BOOLEAN, next : 1..(MaxLines + 1)]
    /\ taken \in [Line -> Nat]

SenderTypeOK ==
    /\ queue \in Seq(Line) /\ Len(queue) <= QueueSize
    /\ batch \in Seq(Line) /\ Len(batch) <= BatchSize
    /\ sender \in [pc : {"select", "post", "wait"}, try : {1, 2}]
    /\ calls \in Nat /\ dropped \in Nat /\ sent \in Nat /\ failed \in Nat

HandlerTypeOK ==
    /\ late \in Seq(Seq(Line))
    /\ rows \in [Line -> Nat]
    /\ refused \in Nat
    /\ faults \in 0..MaxFaults

TypeOK == ReaderTypeOK /\ SenderTypeOK /\ HandlerTypeOK

(***************************************************************************)
(* The counters Run logs tell the truth: every payload handed to Enqueue   *)
(* is queued, in the batch, or counted exactly once as dropped, sent or    *)
(* failed, through every retry.                                            *)
(***************************************************************************)
Accounted ==
    calls = dropped + sent + failed + Len(queue) + Len(batch)

(***************************************************************************)
(* A retry may insert a payload whose first try was only late again, but   *)
(* no more than that: at most two rows for each time its line was read.    *)
(***************************************************************************)
AtMostTwice == \A n \in Line : rows[n] <= 2 * taken[n]

\* The rows of deployment_requests: the k-th one of line n.
Inserted == UNION {{n} \X (1..rows[n]) : n \in Line}

(***************************************************************************)
(* What the forwarder counts as sent has come to the handler: the counter  *)
(* overstates the rows by no more than what the handler did not insert.    *)
(***************************************************************************)
SentIsInserted == sent <= Cardinality(Inserted) + refused

(***************************************************************************)
(* Nothing lingers: whatever fails, the queue and the batch are empty      *)
(* again and again once the traffic stops, without a full last batch.      *)
(***************************************************************************)
Drains == []<>(queue = <<>> /\ batch = <<>>)

=============================================================================
