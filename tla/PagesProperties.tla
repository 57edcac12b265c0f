--------------------------- MODULE PagesProperties ---------------------------
(***************************************************************************)
(* What somebody sees who follows a deployment.                            *)
(***************************************************************************)
EXTENDS Pages

(***************************************************************************)
(* The shape of the state.                                                 *)
(***************************************************************************)
TypeOK ==
    /\ row \in BuildRow
    /\ live \in Logs /\ driver \in Logs
    /\ worker \in {"idle", "building", "built", "over"}
    /\ viewer \in [Viewers -> Viewer]
    /\ ends \in Seq(Nat) /\ Len(ends) <= MaxLines /\ renewed \in BOOLEAN
    /\ stream \in [open : BOOLEAN, last : Nat]
    /\ buffer \in Seq(BOOLEAN \X Nat) /\ cursor = Len(buffer)
    /\ hosted \in BOOLEAN
    /\ kept \subseteq Kept
    /\ \A k, l \in kept : k = l
    /\ detail \in [Requests -> Detail]
    /\ faults \in 0..MaxFaults

(***************************************************************************)
(* The row's log is replaced when the build is over, while streams keep    *)
(* their offset.  So a viewer has a prefix of the live log, and once the   *)
(* build is over a prefix of the live log followed by what the final log   *)
(* has behind as many chunks: never anything twice or out of order within  *)
(* either, and nothing of the final log's end missing when the stream says *)
(* that it is complete.                                                    *)
(***************************************************************************)
BuildLogSpliced ==
    \A v \in Viewers :
        LET text == viewer[v].text
        IN /\ \/ IsPrefix(text, live)
              \/ /\ isTerminalBuildStatus(row.status)
                 /\ \E n \in 0..Len(live) : text = SubSeq(live, 1, n) \o After(row.log, n)
           /\ viewer[v].pc = "complete" => IsSuffix(After(row.log, Len(live)), text)
                                           /\ Len(text) >= Len(row.log)

(***************************************************************************)
(* Every stream of a build log ends, however the build ends, unless the    *)
(* one write of the outcome was lost: then nothing else ever says that the *)
(* build is over.                                                          *)
(***************************************************************************)
StreamsEnd ==
    \A v \in Viewers :
        viewer[v].pc = "open" ~>
            \/ viewer[v].pc # "open"
            \/ worker = "over" /\ row.status \notin {"running", "failed"}

(***************************************************************************)
(* A client that does what the documentation says has a prefix of the      *)
(* container's output, through disconnections, new streams and requests    *)
(* with a cursor in between, as long as the output fits into the tail and  *)
(* the container is the same.  (Later the cursor, which counts bytes of a  *)
(* window that moves, points anywhere.)                                    *)
(***************************************************************************)
AppLogFollows ==
    ~renewed /\ Len(ends) <= TailLines => IsPrefix(buffer, Everything)

(***************************************************************************)
(* And it comes to have all of it.                                         *)
(***************************************************************************)
AppLogArrives ==
    <>[](~renewed /\ Len(ends) <= TailLines) /\ <>[](page = "application log")
        => <>[](buffer = Everything)

(***************************************************************************)
(* Pods and resources are shown as they were not longer ago than the TTL   *)
(* and the time three requests may take: a request that misses the cache   *)
(* at first may find an entry later and store its halves with a new        *)
(* timestamp, but only requests that began before the first entry was      *)
(* stored can do that, so the data is not renewed for ever.                *)
(***************************************************************************)
PodsRecent ==
    \A r \in Requests :
        /\ detail[r].pods <= PodTTL + 2 * RequestTicks + detail[r].age
        /\ detail[r].resources <= PodTTL + 2 * RequestTicks + detail[r].age

=============================================================================
