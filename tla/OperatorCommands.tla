---------------------------- MODULE OperatorCommands ----------------------------
(***************************************************************************)
(* How a command of the operator ends (cmd): it asks the control plane,    *)
(* one RPC after the other, adds what it knows to the error of one that    *)
(* fails (internal/cliout/grpcerr.go), and flowctl exits with the code     *)
(* that internal/exitcode finds in the chain of errors; scripts decide by  *)
(* that code whether to try again.                                         *)
(*                                                                         *)
(* An error is the sequence of its links, the outermost first: <<"text">>, *)
(* <<"code", n>>, <<"signal", n>>, <<"grpc", c>> or <<"cause", e>>; <<>>   *)
(* is no error.  A world is what a command meets: whether it is given what *)
(* it may be given (filters, a run), whether the endpoint is well formed,  *)
(* answers to the RPCs it may make, how many runs the argument is a prefix *)
(* of, what component has the id, whether a program reads the output, and  *)
(* what the file is like.                                                  *)
(***************************************************************************)
EXTENDS Integers, Sequences

(* The codes. *)
OK == 0
Failure == 1
Usage == 2
NotFound == 3
Unauthorized == 4
Conflict == 5
Timeout == 6
Unavailable == 7
DataInvalid == 8
NeverRetry == {Usage, NotFound, Unauthorized, DataInvalid}

-----------------------------------------------------------------------------
(* Of: the first explicit code, a signal, the first status of gRPC, a      *)
(* well-known cause, in this order.                                        *)
CodeOfStatus(c) ==
  CASE c = "OK" -> OK
    [] c = "NotFound" -> NotFound
    [] c \in {"Unauthenticated", "PermissionDenied"} -> Unauthorized
    [] c \in {"AlreadyExists", "FailedPrecondition", "Aborted"} -> Conflict
    [] c = "DeadlineExceeded" -> Timeout
    [] c \in {"refused", "broken"} -> Unavailable
    [] c \in {"InvalidArgument", "OutOfRange"} -> Usage
    [] c = "DataLoss" -> DataInvalid
    [] OTHER -> Failure
CodeOfCause(e) ==
  CASE e = "deadline" -> Timeout
    [] e = "missing" -> NotFound
    [] e = "permission" -> Unauthorized
    [] e = "exist" -> Conflict
    [] OTHER -> Failure

Links(err, kind) == {i \in DOMAIN err : err[i][1] = kind}
FirstOf(err, kind) ==
  err[CHOOSE i \in Links(err, kind) : \A j \in Links(err, kind) : i <= j][2]
Of(err) ==
  IF err = <<>> THEN OK
  ELSE IF Links(err, "code") # {} THEN FirstOf(err, "code")
  ELSE IF Links(err, "signal") # {} THEN FirstOf(err, "signal")
  ELSE IF Links(err, "grpc") # {} THEN CodeOfStatus(FirstOf(err, "grpc"))
  ELSE IF Links(err, "cause") # {} THEN CodeOfCause(FirstOf(err, "cause"))
  ELSE Failure

Plain == <<<<"text">>>>                     \* fmt.Errorf without %w
Wrapped_Text(err) == Plain                  \* mutant: %v in the place of %w
Wrapped(err) == <<<<"text">>>> \o err       \* fmt.Errorf with %w
Errorf(code) == <<<<"code", code>>, <<"text">>>>

(* UnreachableHint: an Unavailable status gets its code and an advice.     *)
(* There are two of them: a connection refused, and one that broke.        *)
Outages == {"refused", "broken"}
UnreachableHint(answer) ==
  CASE answer = "OK" -> <<>>
    [] answer \in Outages -> Errorf(Unavailable)
    [] OTHER -> <<<<"grpc", answer>>>>

-----------------------------------------------------------------------------
(* resolveRunID: the error of the first RPC is forgotten. *)
ResolveRunID(w) ==
  IF UnreachableHint(w.answers[1]) = <<>> THEN <<>>
  ELSE IF UnreachableHint(w.answers[2]) # <<>> THEN Wrapped(UnreachableHint(w.answers[2]))
  ELSE IF w.matches = 1 THEN <<>> ELSE Plain

First(errors) == IF \A i \in DOMAIN errors : errors[i] = <<>> THEN <<>>
                 ELSE errors[CHOOSE i \in DOMAIN errors : errors[i] # <<>> /\
                               \A j \in 1 .. i - 1 : errors[j] = <<>>]
If(condition, err) == IF condition THEN err ELSE <<>>

(* connectToControlPlane, of the run and chunk commands: only a malformed  *)
(* endpoint is an error yet.                                               *)
Connect(w) == If(~w.wellFormed, Wrapped(Plain))
Ask(w, n) == UnreachableHint(w.answers[n])

PipelinesList(w) == First(<<Connect(w), Ask(w, 1)>>)
PipelinesRuns(w) == First(<<Connect(w), Ask(w, 1)>>)
PipelinesActive(w) == First(<<Connect(w), Ask(w, 1)>>)
PipelinesRunInfo(w) ==
  First(<<Connect(w), ResolveRunID(w), If(Ask(w, 3) # <<>>, Errorf(NotFound))>>)
PipelinesStop(w) == First(<<Connect(w), ResolveRunID(w), Ask(w, 3)>>)
ChunksList(w) ==
  First(<<Connect(w), If(w.file = "invalid", Plain),  \* the file stands for --status
          If(w.given, ResolveRunID(w)), Ask(w, 3)>>)
ChunksShow(w) == First(<<Connect(w), If(Ask(w, 1) # <<>>, Errorf(NotFound))>>)

(* The commands with an endpoint of their own. *)
Dial(w) == If(~w.wellFormed, Errorf(Unavailable))
List(w) == First(<<Dial(w), Ask(w, 1)>>)
ProcessorsList(w) == First(<<Dial(w), Ask(w, 1)>>)
ProcessorsFind(w) == First(<<If(~w.given, Errorf(Usage)), Dial(w), Ask(w, 1)>>)
ProcessorsShow(w) ==
  First(<<Dial(w), If(Ask(w, 1) # <<>>, Errorf(NotFound)),
          If(w.component = "missing", Errorf(NotFound)),
          If(w.component = "other", Errorf(Conflict))>>)

(* status waits for the connection, for two seconds, and replaces an error *)
(* whose text is that of an unreachable control plane by an advice without *)
(* a code.  --watch is refused to a program once it is connected.          *)
FormatControlPlaneError(answer) ==
  IF answer \in {"DeadlineExceeded", "refused"} THEN Plain ELSE Wrapped(<<<<"grpc", answer>>>>)
Status(w) ==
  First(<<If(~w.wellFormed \/ w.answers[1] \in {"DeadlineExceeded", "refused"}, Plain),
          If(w.given /\ w.machine, Errorf(Usage)),
          If(w.answers[2] # "OK", FormatControlPlaneError(w.answers[2]))>>)
Dashboard(w) == If(w.machine, Errorf(Usage))

(* validate. *)
ValidateFile(w) ==
  CASE w.file = "missing" -> Errorf(NotFound)
    [] w.file \in {"unreadable", "invalid"} -> Errorf(DataInvalid)
    [] OTHER -> <<>>

Remote == {"pipelines_list", "pipelines_runs", "pipelines_active", "pipelines_run_info",
           "pipelines_stop", "chunks_list", "chunks_show", "list", "processors_list",
           "processors_find", "processors_show", "status"}
CommandNames == Remote \cup {"dashboard", "validate"}

Run(command, w) ==
  CASE command = "pipelines_list" -> PipelinesList(w)
    [] command = "pipelines_runs" -> PipelinesRuns(w)
    [] command = "pipelines_active" -> PipelinesActive(w)
    [] command = "pipelines_run_info" -> PipelinesRunInfo(w)
    [] command = "pipelines_stop" -> PipelinesStop(w)
    [] command = "chunks_list" -> ChunksList(w)
    [] command = "chunks_show" -> ChunksShow(w)
    [] command = "list" -> List(w)
    [] command = "processors_list" -> ProcessorsList(w)
    [] command = "processors_find" -> ProcessorsFind(w)
    [] command = "processors_show" -> ProcessorsShow(w)
    [] command = "status" -> Status(w)
    [] command = "dashboard" -> Dashboard(w)
    [] command = "validate" -> ValidateFile(w)

(* Execute, after setup has read the configuration and the output format.  *)
ExitCode(command, w) == Of(First(<<If(~w.configured, Errorf(Usage)), Run(command, w)>>))

-----------------------------------------------------------------------------
(* The exit code says whether to try again (exitcode.go:25).  When the     *)
(* control plane cannot be reached a command exits with 7, when it does    *)
(* not answer in time with 6, and with neither when every RPC succeeds; a  *)
(* code that says "never retry" has a reason that lasts: a malformed       *)
(* command, file or configuration, or something that is not there.  This   *)
(* holds through the first RPC of resolveRunID, whose error is forgotten,  *)
(* the second, whose error is wrapped, and a control plane that goes or    *)
(* comes back between them.  Three commands do not keep it: chunks show    *)
(* and processors show take every error for "not found", run-info that of  *)
(* its last RPC, and status exits with 1 in an outage.                     *)
TakesAllForNotFound(command, w) ==
  \/ command \in {"chunks_show", "processors_show"}
  \/ command = "pipelines_run_info" /\ w.answers[3] # "OK"
LastingReason(command, w) ==
  \/ ~w.configured
  \/ command = "processors_find" /\ ~w.given
  \/ command = "processors_show" /\ w.component = "missing"
  \/ command = "status" /\ w.given /\ w.machine
  \/ command = "dashboard" /\ w.machine
  \/ command \in {"validate", "chunks_list"} /\ w.file # "fine"
ExitTellsWhy(command, w) ==
  LET code == ExitCode(command, w)
      all(S) == \A i \in DOMAIN w.answers : w.answers[i] \in S IN
  /\ command \in Remote \ {"status"} /\ w.wellFormed /\ ~TakesAllForNotFound(command, w)
     /\ ~LastingReason(command, w)
     => /\ all(Outages) => code = Unavailable
        /\ all({"DeadlineExceeded"}) => code = Timeout
        /\ all({"OK"}) => code \in {OK, Conflict}
  /\ code \in {Timeout, Unavailable} /\ w.wellFormed => ~all({"OK", "Unknown"})
  /\ code \in NeverRetry => LastingReason(command, w) \/ TakesAllForNotFound(command, w)
===============================================================================
