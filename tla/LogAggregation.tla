---------------------------- MODULE LogAggregation ----------------------------
(***************************************************************************)
(* The log aggregator of `flowctl run` (internal/runner/log_aggregator.go).*)
(*                                                                         *)
(* One goroutine follows the log of each component and sends its lines on  *)
(* a channel; Run's printer writes them into a buffer; a ticker and Stop   *)
(* flush the buffer.  A component's log is the number of lines in it, not  *)
(* counting empty ones, which are not shown.                               *)
(***************************************************************************)
EXTENDS Naturals, Sequences, FiniteSets, SequencesExt

CONSTANTS
  Order,        \* the components, in the order of the pipeline's specification
  LineCount,    \* bound: the lines each of them writes
  LogCapacity   \* of the channel (100 in the code)

Followed == ToSet(Order)
Entries == Followed \X (1..LineCount)

VARIABLES
  written,     \* the lines each component has logged
  opened,      \* the components StartAggregatedLogging has been through
  follower,    \* streamLogs of each: "none", "scanning", "sending", "gone"
  scanned,     \* the lines it has scanned
  streamOpen,  \* is the stream it reads open?
  registered,  \* the streams AddStream has recorded
  logCh,
  printer,     \* what the printer has received and not printed yet: <<>> or <<entry>>
  writer,      \* the buffered writer
  screen,      \* what has been flushed
  flusher,     \* is periodicFlush running?
  closing      \* the progress of Stop: "no", "quit", "flushed", "done"

sourceVars == <<written, opened, follower, scanned, streamOpen, registered>>
sinkVars == <<logCh, printer, writer, screen, flusher>>
logVars == <<sourceVars, sinkVars, closing>>

LogTypeOK ==
  /\ written \in [Followed -> 0..LineCount] /\ scanned \in [Followed -> 0..LineCount]
  /\ opened \in 0..Len(Order)
  /\ follower \in [Followed -> {"none", "scanning", "sending", "gone"}]
  /\ streamOpen \in [Followed -> BOOLEAN] /\ registered \subseteq Followed
  /\ Len(logCh) <= LogCapacity /\ Len(printer) <= 1
  /\ \A q \in {logCh, printer, writer, screen} : ToSet(q) \subseteq Entries
  /\ flusher \in BOOLEAN
  /\ closing \in {"no", "quit", "flushed", "done"}

(* NewLogAggregator. *)
LogInit ==
  /\ written = [c \in Followed |-> 0] /\ scanned = written
  /\ opened = 0
  /\ follower = [c \in Followed |-> "none"]
  /\ streamOpen = [c \in Followed |-> FALSE]
  /\ registered = {}
  /\ logCh = <<>> /\ printer = <<>> /\ writer = <<>> /\ screen = <<>>
  /\ flusher = TRUE
  /\ closing = "no"

Quit == closing # "no"

WriteLine(c) ==
  /\ written[c] < LineCount
  /\ written' = [written EXCEPT ![c] = @ + 1]
  /\ UNCHANGED <<opened, follower, scanned, streamOpen, registered, sinkVars, closing>>

-----------------------------------------------------------------------------
(* StartAggregatedLogging: the log of each component in turn, whether or   *)
(* not Stop has been called; one that cannot be opened is passed over.     *)
FollowNext ==
  /\ opened < Len(Order)
  /\ opened' = opened + 1
  /\ LET c == Order[opened + 1] IN
       \/ /\ streamOpen' = [streamOpen EXCEPT ![c] = TRUE]
          /\ registered' = registered \cup {c}
          /\ follower' = [follower EXCEPT ![c] = "scanning"]
       \/ UNCHANGED <<streamOpen, registered, follower>>
  /\ UNCHANGED <<written, scanned, sinkVars, closing>>

(* streamLogs looks at quit between two lines, and not while it sends one. *)
ScanLine(c) ==
  /\ follower[c] = "scanning" /\ streamOpen[c] /\ scanned[c] < written[c]
  /\ scanned' = [scanned EXCEPT ![c] = @ + 1]
  /\ IF Quit
       THEN /\ follower' = [follower EXCEPT ![c] = "gone"]
            /\ streamOpen' = [streamOpen EXCEPT ![c] = FALSE]
       ELSE /\ follower' = [follower EXCEPT ![c] = "sending"]
            /\ UNCHANGED streamOpen
  /\ UNCHANGED <<written, opened, registered, sinkVars, closing>>

(* A mutant: a line that finds the channel full is dropped. *)
SendLine_DropsWhenFull(c) ==
  /\ follower[c] = "sending"
  /\ logCh' = IF Len(logCh) < LogCapacity THEN Append(logCh, <<c, scanned[c]>>) ELSE logCh
  /\ follower' = [follower EXCEPT ![c] = "scanning"]
  /\ UNCHANGED <<written, opened, scanned, streamOpen, registered, printer, writer, screen, flusher,
                 closing>>

SendLine(c) ==
  /\ follower[c] = "sending" /\ Len(logCh) < LogCapacity
  /\ logCh' = Append(logCh, <<c, scanned[c]>>)
  /\ follower' = [follower EXCEPT ![c] = "scanning"]
  /\ UNCHANGED <<written, opened, scanned, streamOpen, registered, printer, writer, screen, flusher,
                 closing>>

(* The stream follows its file: it ends when it has been closed, or with   *)
(* an error of the scanner: the file cannot be read, or a line is longer   *)
(* than a megabyte.                                                        *)
ScanEnds(c) ==
  /\ follower[c] = "scanning" /\ ~streamOpen[c]
  /\ follower' = [follower EXCEPT ![c] = "gone"]
  /\ UNCHANGED <<written, opened, scanned, streamOpen, registered, sinkVars, closing>>

ScanFails(c) ==
  /\ follower[c] = "scanning" /\ streamOpen[c]
  /\ follower' = [follower EXCEPT ![c] = "gone"]
  /\ streamOpen' = [streamOpen EXCEPT ![c] = FALSE]
  /\ UNCHANGED <<written, opened, scanned, registered, sinkVars, closing>>

-----------------------------------------------------------------------------
(* A mutant: the printer leaves when quit is closed. *)
Receive_UntilQuit ==
  /\ ~Quit /\ printer = <<>> /\ logCh # <<>>
  /\ printer' = <<Head(logCh)>> /\ logCh' = Tail(logCh)
  /\ UNCHANGED <<sourceVars, writer, screen, flusher, closing>>

Receive ==
  /\ printer = <<>> /\ logCh # <<>>
  /\ printer' = <<Head(logCh)>> /\ logCh' = Tail(logCh)
  /\ UNCHANGED <<sourceVars, writer, screen, flusher, closing>>

PrintLog ==
  /\ printer # <<>>
  /\ writer' = writer \o printer /\ printer' = <<>>
  /\ UNCHANGED <<sourceVars, logCh, screen, flusher, closing>>

Flush == screen' = screen \o writer /\ writer' = <<>>

PeriodicFlush ==
  /\ flusher /\ writer # <<>>
  /\ Flush
  /\ UNCHANGED <<sourceVars, logCh, printer, flusher, closing>>

FlusherEnds ==
  /\ flusher /\ Quit
  /\ flusher' = FALSE
  /\ UNCHANGED <<sourceVars, logCh, printer, writer, screen, closing>>

(* Stop. *)
CloseQuit ==
  /\ closing = "no" /\ closing' = "quit"
  /\ UNCHANGED <<sourceVars, sinkVars>>

FinalFlush ==
  /\ closing = "quit" /\ closing' = "flushed"
  /\ Flush
  /\ UNCHANGED <<sourceVars, logCh, printer, flusher>>

CloseStreams ==
  /\ closing = "flushed" /\ closing' = "done"
  /\ streamOpen' = [c \in Followed |-> streamOpen[c] /\ c \notin registered]
  /\ UNCHANGED <<written, opened, follower, scanned, registered, sinkVars>>

-----------------------------------------------------------------------------
Follow(c) == ScanLine(c) \/ SendLine(c) \/ ScanEnds(c)
PrinterStep == Receive \/ PrintLog
StopStep == FinalFlush \/ CloseStreams

LogNext ==
  \/ \E c \in Followed : WriteLine(c) \/ Follow(c) \/ ScanFails(c)
  \/ FollowNext \/ PrinterStep \/ PeriodicFlush \/ FlusherEnds
  \/ CloseQuit \/ StopStep

LogSpec == LogInit /\ [][LogNext]_logVars

(* Every goroutine runs while it can. *)
LogFairness ==
  /\ \A c \in Followed : WF_logVars(Follow(c))
  /\ WF_logVars(PrinterStep) /\ WF_logVars(PeriodicFlush) /\ WF_logVars(StopStep)

-----------------------------------------------------------------------------
(* Whatever the goroutines do, the lines of a component come out in its    *)
(* order and without a gap, from the screen back to the log file.          *)
OnTheirWay == screen \o writer \o printer \o logCh
PlacesOf(c) == {i \in DOMAIN OnTheirWay : OnTheirWay[i][1] = c}
LinesInOrder ==
  \A c \in Followed :
    /\ \A i, j \in PlacesOf(c) : i < j => OnTheirWay[i][2] < OnTheirWay[j][2]
    /\ \E n \in 0 .. LineCount :
         /\ {OnTheirWay[i][2] : i \in PlacesOf(c)} = 1 .. n
         /\ ~Quit => scanned[c] = n + (IF follower[c] = "sending" THEN 1 ELSE 0)

(* In the end every line of a log that is followed is on the screen,       *)
(* unless the aggregator is stopped; of a log whose scanner has failed,    *)
(* every line before the failure, though none after it.  And once Stop has *)
(* closed the streams it knows, the goroutines that read them end, with    *)
(* room in the channel or not.                                             *)
LogsShown ==
  /\ ~Quit => \A c \in Followed : follower[c] # "none" =>
       Cardinality({i \in DOMAIN screen : screen[i][1] = c})
         = IF follower[c] = "gone" THEN scanned[c] ELSE written[c]
  /\ closing = "done" => \A c \in registered : ~streamOpen[c] => follower[c] = "gone"
LogsReachTheScreen == <>[]LogsShown
===============================================================================
