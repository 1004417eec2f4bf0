------------------------------- MODULE ChunkRuns -------------------------------
(***************************************************************************)
(* The records of historical work: components report what became of a      *)
(* chunk of ledgers (pkg/component/reporter.go), the control plane merges  *)
(* each report into the record of the chunk (internal/api/control_plane.go)*)
(* and keeps it in a store that outlives it (internal/storage/bolt.go), or *)
(* in memory (internal/storage/memory.go).                                 *)
(*                                                                         *)
(* UpsertChunkRun takes no lock: it reads the record in one transaction    *)
(* and writes it in another, so a call is two steps.  A reporter that      *)
(* gives up on a call does not stop the handler that serves it.            *)
(***************************************************************************)
EXTENDS Naturals

CONSTANTS
  Reporters,     \* the component's goroutines, or its incarnations, that report
  Ranges,        \* ranges of ledgers
  RangeOf,       \* RangeOf[r]: the range reporter r works on
  AttemptSetups, \* the functions considered from a reporter to the attempt it
                 \* is configured with; 0 if it is not
  Passed,        \* what callers pass to the three helpers of the reporter beside
                 \* the times: details, or nothing
  DirectUpdates, \* what components report by themselves, not by one of the helpers:
                 \* any status with any facts
  MaxReports,    \* bound: MaxReports[r] is the number of reports of r
  MaxAttempt     \* bound: attempts of a chunk

ASSUME ChunkAssumption ==
  /\ RangeOf \in [Reporters -> Ranges]
  /\ MaxAttempt \in Nat \ {0} /\ MaxReports \in [Reporters -> Nat]
  /\ AttemptSetups \subseteq [Reporters -> 0 .. MaxAttempt]

Chunks == Ranges \X (1 .. MaxAttempt)

(* What a report or a record tells beside the status: three times, and     *)
(* details (row counts, verification results, a failure class).            *)
Facts == {"started", "completed", "verified", "details"}
Statuses == {"running", "completed", "verified", "failed"}
Record == [status : Statuses, facts : SUBSET Facts]
Blank == [status |-> "running", facts |-> {}]

ASSUME UpdatesAssumption == Passed \subseteq SUBSET {"details"} /\ DirectUpdates \subseteq Record

Calls == UNION {{r} \X (1 .. MaxReports[r]) : r \in Reporters}

VARIABLES
  attempt,     \* attempt[r]: the attempt in the configuration of r
  durable,     \* is the store a database?
  chunks,      \* the stored records
  handler,     \* handler[k]: "none", "sent", "read" (the record), "written",
               \* "failed" or "lost"
  report,      \* report[k]: what call k says
  merged,      \* merged[k]: the record the handler is about to write
  made,        \* made[r]: the reports of r so far
  pending,     \* is r waiting for its last report to be answered?
  acked,       \* the calls that were answered without an error
  raced        \* the chunks on which two handlers have overlapped

handlers == <<handler, report, merged>>
chunkVars == <<attempt, durable, chunks, handlers, made, pending, acked, raced>>

ChunkTypeOK ==
  /\ attempt \in AttemptSetups /\ durable \in BOOLEAN
  /\ chunks \in [DOMAIN chunks -> Record] /\ DOMAIN chunks \subseteq Chunks
  /\ handler \in [Calls -> {"none", "sent", "read", "written", "failed", "lost"}]
  /\ report \in [Calls -> Record] /\ merged \in [Calls -> Record]
  /\ made \in [Reporters -> Nat] /\ \A r \in Reporters : made[r] <= MaxReports[r]
  /\ pending \in [Reporters -> BOOLEAN]
  /\ acked \in SUBSET Calls /\ raced \in SUBSET Chunks

ChunkInit ==
  /\ attempt \in AttemptSetups /\ durable \in BOOLEAN
  /\ chunks = [c \in {} |-> Blank]
  /\ handler = [k \in Calls |-> "none"]
  /\ report = [k \in Calls |-> Blank] /\ merged = [k \in Calls |-> Blank]
  /\ made = [r \in Reporters |-> 0]
  /\ pending = [r \in Reporters |-> FALSE]
  /\ acked = {} /\ raced = {}

-----------------------------------------------------------------------------
(* The reporter.                                                           *)

(* An attempt that nobody configured is the first. *)
ChunkId(r) == <<RangeOf[r], IF attempt[r] = 0 THEN 1 ELSE attempt[r]>>
ChunkOf(k) == ChunkId(k[1])

(* The helpers set the times; the details are what the caller passes: maps *)
(* that may be empty, a class that may be unknown.                         *)
Told(status, times) ==
  {[status |-> status, facts |-> times \cup passed] : passed \in Passed}
ReportChunkProgress == Told("running", {"started"})
ReportChunkCompleted ==
  Told("completed", {"completed"}) \cup Told("verified", {"completed", "verified"})
ReportChunkFailed == Told("failed", {"completed"})
Updates == ReportChunkProgress \cup ReportChunkCompleted \cup ReportChunkFailed \cup DirectUpdates

Serving(k) == handler[k] \in {"sent", "read"}
InFlight(c) == {k \in Calls : ChunkOf(k) = c /\ Serving(k)}

(* ReportChunk: one request, in which an unknown status is "running". *)
ReportChunk(r) ==
  LET k == <<r, made[r] + 1>> IN
  /\ ~pending[r] /\ made[r] < MaxReports[r]
  /\ made' = [made EXCEPT ![r] = @ + 1]
  /\ pending' = [pending EXCEPT ![r] = TRUE]
  /\ \E what \in Updates : report' = [report EXCEPT ![k] = what]
  /\ handler' = [handler EXCEPT ![k] = "sent"]
  /\ raced' = IF InFlight(ChunkId(r)) = {} THEN raced ELSE raced \cup {ChunkId(r)}
  /\ UNCHANGED <<attempt, durable, chunks, merged, acked>>

(* The reply, or an error in its place. *)
Replied(r) ==
  LET k == <<r, made[r]>> IN
  /\ pending[r] /\ handler[k] \in {"written", "failed"}
  /\ pending' = [pending EXCEPT ![r] = FALSE]
  /\ acked' = IF handler[k] = "written" THEN acked \cup {k} ELSE acked
  /\ UNCHANGED <<attempt, durable, chunks, handlers, made, raced>>

(* The context of the call ends, or the connection breaks, before that. *)
GiveUpReport(r) ==
  /\ pending[r]
  /\ pending' = [pending EXCEPT ![r] = FALSE]
  /\ UNCHANGED <<attempt, durable, chunks, handlers, made, acked, raced>>

-----------------------------------------------------------------------------
(* The handler: UpsertChunkRun.                                            *)

(* mergeChunkRun: what the update does not say stays as it was. *)
MergeChunkRun_Replace(existing, update) == update \* mutant: the record is replaced
MergeChunkRun_StatusOnly(existing, update) == \* mutant: only the status is taken over
  [existing EXCEPT !.status = update.status]
MergeChunkRun(existing, update) ==
  [status |-> update.status, facts |-> existing.facts \cup update.facts]

(* The existing record is read; an error other than "not found" ends the   *)
(* call.                                                                   *)
GetExisting(k) ==
  /\ handler[k] = "sent"
  /\ merged' = [merged EXCEPT ![k] =
       IF ChunkOf(k) \in DOMAIN chunks THEN MergeChunkRun(chunks[ChunkOf(k)], report[k])
                                       ELSE report[k]]
  /\ handler' = [handler EXCEPT ![k] = "read"]
  /\ UNCHANGED <<attempt, durable, chunks, report, made, pending, acked, raced>>

(* The store's UpsertChunkRun puts the whole record. *)
PutMerged(k) ==
  /\ handler[k] = "read"
  /\ chunks' = [c \in DOMAIN chunks \cup {ChunkOf(k)} |->
                  IF c = ChunkOf(k) THEN merged[k] ELSE chunks[c]]
  /\ handler' = [handler EXCEPT ![k] = "written"]
  /\ merged' = [merged EXCEPT ![k] = Blank]
  /\ UNCHANGED <<attempt, durable, report, made, pending, acked, raced>>

(* The request is refused (no run or component, a range upside down), or   *)
(* the database refuses a transaction, which leaves no trace.              *)
UpsertFails(k) ==
  /\ handler[k] = "sent" \/ (handler[k] = "read" /\ durable)
  /\ handler' = [handler EXCEPT ![k] = "failed"]
  /\ report' = [report EXCEPT ![k] = Blank] /\ merged' = [merged EXCEPT ![k] = Blank]
  /\ UNCHANGED <<attempt, durable, chunks, made, pending, acked, raced>>

(* The request never arrives. *)
LoseReport(k) ==
  /\ handler[k] = "sent"
  /\ handler' = [handler EXCEPT ![k] = "lost"]
  /\ report' = [report EXCEPT ![k] = Blank]
  /\ UNCHANGED <<attempt, durable, chunks, merged, made, pending, acked, raced>>

(* The control plane ends with its handlers, and another one opens the     *)
(* store: a database, or an empty memory.                                  *)
RestartStore_Empty(stored) == [c \in {} |-> Blank] \* mutant: the bucket is created anew
RestartStore(stored) == IF durable THEN stored ELSE [c \in {} |-> Blank]

RestartControlPlane ==
  /\ chunks' = RestartStore(chunks)
  /\ handler' = [k \in Calls |-> IF Serving(k) THEN "lost" ELSE handler[k]]
  /\ report' = [k \in Calls |-> IF Serving(k) THEN Blank ELSE report[k]]
  /\ merged' = [k \in Calls |-> Blank]
  /\ UNCHANGED <<attempt, durable, made, pending, acked, raced>>

-----------------------------------------------------------------------------
ChunkNext ==
  \/ \E r \in Reporters : ReportChunk(r) \/ Replied(r) \/ GiveUpReport(r)
  \/ \E k \in Calls : GetExisting(k) \/ PutMerged(k) \/ UpsertFails(k) \/ LoseReport(k)
  \/ RestartControlPlane

ChunkSpec == ChunkInit /\ [][ChunkNext]_chunkVars

-----------------------------------------------------------------------------
(* Nothing a component was told is stored gets lost, through refused       *)
(* writes, lost requests, abandoned calls, retries and restarts over a     *)
(* database: as long as the handlers of the chunk did not overlap, which   *)
(* UpsertChunkRun does not prevent (control_plane.go:711), its record      *)
(* tells everything that an acknowledged report told.                      *)
AcknowledgedIsKept ==
  durable =>
    \A k \in acked : ChunkOf(k) \notin raced =>
      ChunkOf(k) \in DOMAIN chunks /\ report[k].facts \subseteq chunks[ChunkOf(k)].facts

(* A record neither gains nor loses by the merging, whatever overlaps and  *)
(* whatever is lost or forgotten: its status comes with every fact of the  *)
(* report that set it, and it tells nothing that no stored report told     *)
(* (control_plane.go:966).                                                 *)
Writers(c) == {k \in Calls : handler[k] = "written" /\ ChunkOf(k) = c}
StatusIsBacked ==
  \A c \in DOMAIN chunks :
    /\ \E k \in Writers(c) : /\ report[k].status = chunks[c].status
                             /\ report[k].facts \subseteq chunks[c].facts
    /\ \A fact \in chunks[c].facts : \E k \in Writers(c) : fact \in report[k].facts
===============================================================================
