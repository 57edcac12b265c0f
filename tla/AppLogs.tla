------------------------------- MODULE AppLogs -------------------------------
(***************************************************************************)
(* The output of a deployment's container and a client that follows it     *)
(* (httpapi/handlers.go StreamAppLogs, GetAppLogs; service/deployments.go  *)
(* GetAppLogs).  Each answer is cut from "logs --tail": the last Tail      *)
(* lines, of which a cursor counts the bytes already sent.                 *)
(*                                                                         *)
(* The client keeps a buffer as docs/BACKEND-INTEGRATION.md 7.1 says:      *)
(* chunks in order by next_cursor, the whole buffer replaced on a reset,   *)
(* the polling request with the last cursor while it is disconnected.      *)
(***************************************************************************)
EXTENDS Integers, Sequences, SequencesExt

CONSTANTS
    TailLines, \* tail, 1..5000
    Widths,    \* bound: the lengths of lines
    MaxLines   \* bound: lines a container prints

VARIABLES
    ends,    \* the container's output: for each line, the place of its last byte
    renewed, \* history: the container was replaced by a new one
    stream,  \* the connection: open or not, and lastCursor
    buffer,  \* the client's: a sequence of bytes, each <<container, place>>
    cursor   \* the client's last next_cursor

appVars == <<ends, renewed, stream, buffer, cursor>>

AppAssumption ==
    /\ TailLines \in Nat \ {0} /\ MaxLines \in Nat
    /\ Widths \subseteq Nat \ {0}

ASSUME AppAssumed == AppAssumption

AppInit ==
    /\ ends = <<>>
    /\ renewed = FALSE
    /\ stream = [open |-> FALSE, last |-> 0]
    /\ buffer = <<>>
    /\ cursor = 0

\* Where the k-th line ends.
LineEnd(k) == IF k = 0 THEN 0 ELSE ends[k]

\* The container's output behind its first n bytes.
Text(n) == [j \in 1..(LineEnd(Len(ends)) - n) |-> <<renewed, n + j>>]

\* docker logs --tail, kubectl logs --tail
ContainerLogs == Text(IF Len(ends) > TailLines THEN LineEnd(Len(ends) - TailLines) ELSE 0)

Everything == Text(0)

\* The bytes after the first n.
From(text, n) == SubSeq(text, n + 1, Len(text))

-----------------------------------------------------------------------------
Prints(width) ==
    /\ Len(ends) < MaxLines
    /\ ends' = Append(ends, LineEnd(Len(ends)) + width)
    /\ UNCHANGED <<renewed, stream, buffer, cursor>>

\* A crash, or a new rollout: the logs are the new container's.
Renew ==
    /\ ~renewed
    /\ ends' = <<>> /\ renewed' = TRUE
    /\ UNCHANGED <<stream, buffer, cursor>>

\* A chunk that ends at next goes behind what comes before it.
Appends(chunk, next) ==
    /\ buffer' = SubSeq(buffer, 1, Min({Len(buffer), next - Len(chunk)})) \o chunk
    /\ cursor' = next

\* StreamAppLogs: the tail as it is, if there is any.
OpenAppLog ==
    /\ ~stream.open
    /\ stream' = [open |-> TRUE, last |-> Len(ContainerLogs)]
    /\ IF ContainerLogs # <<>> THEN Appends(ContainerLogs, Len(ContainerLogs))
       ELSE UNCHANGED <<buffer, cursor>>
    /\ UNCHANGED <<ends, renewed>>

Disconnect ==
    /\ stream.open
    /\ stream' = [open |-> FALSE, last |-> 0]
    /\ UNCHANGED <<ends, renewed, buffer, cursor>>

\* Mutant: the cursor is moved before the chunk is cut.
StreamTickMoved ==
    /\ stream.open
    /\ LET text == ContainerLogs
           n == Len(text)
       IN /\ stream' = [stream EXCEPT !.last = n]
          /\ IF n < stream.last THEN buffer' = text /\ cursor' = n
             ELSE IF n > stream.last THEN Appends(From(text, n), n)
             ELSE UNCHANGED <<buffer, cursor>>
    /\ UNCHANGED <<ends, renewed>>

\* Every two seconds: a shorter text is sent as a reset, of a longer one what
\* is behind the cursor; one of the same length goes unnoticed.
StreamTick ==
    /\ stream.open
    /\ LET text == ContainerLogs
           n == Len(text)
       IN /\ stream' = [stream EXCEPT !.last = n]
          /\ IF n < stream.last THEN buffer' = text /\ cursor' = n
             ELSE IF n > stream.last THEN Appends(From(text, stream.last), n)
             ELSE UNCHANGED <<buffer, cursor>>
    /\ UNCHANGED <<ends, renewed>>

\* Mutant: next_cursor is the length of the chunk.
PollAppLogRelative ==
    /\ ~stream.open
    /\ LET text == ContainerLogs
           from == IF cursor > Len(text) THEN 0 ELSE cursor
       IN Appends(From(text, from), Len(text) - from)
    /\ UNCHANGED <<ends, renewed, stream>>

\* GetAppLogs with the client's cursor; one beyond the text counts as 0.
PollAppLog ==
    /\ ~stream.open
    /\ LET text == ContainerLogs
           from == IF cursor > Len(text) THEN 0 ELSE cursor
       IN Appends(From(text, from), Len(text))
    /\ UNCHANGED <<ends, renewed, stream>>

=============================================================================
