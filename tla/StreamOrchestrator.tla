-------------------------- MODULE StreamOrchestrator --------------------------
(***************************************************************************)
(* The delivery data path of `flowctl run` (internal/runner/               *)
(* stream_orchestrator.go): for every source a chain of gRPC streams       *)
(* through the processors to the sinks, one supervised forwarding loop per *)
(* edge, an errgroup that keeps the first failure and cancels the rest,    *)
(* and Wait, which reaps the loops and gives the verdict.                  *)
(*                                                                         *)
(* Loop k of lane l reads output stream k of the lane: stream 0 is the     *)
(* source, stream k > 0 is processor k.  Loops 0 .. NumProcessors-1 feed   *)
(* the next processor (forwardSource, forward), loop NumProcessors fans    *)
(* out to the sinks.  Components are external: they emit, filter, end      *)
(* early, fail with a gRPC code, or acknowledge wrongly.                   *)
(***************************************************************************)
EXTENDS Naturals, Sequences, FiniteSets

CONSTANTS
  NumSources, NumProcessors, NumSinks,
  Types,       \* event types
  NoEvent,     \* not an event
  Bounded,     \* the lanes whose source declares FLOWCTL_SOURCE_BOUNDED
  Inputs,      \* Inputs[i]: the sources sink i names (used without processors)
  Accepted,    \* Accepted[i]: the event types sink i registered, {} for all
  Faults,      \* may components misbehave?
  Codes,       \* the gRPC codes with which a component's stream may fail
  Window,      \* flow control: messages a stream holds before Send blocks
  MaxEvents    \* bound: events a source emits

Lanes == 1 .. NumSources
Stages == 0 .. NumProcessors
Procs == 1 .. NumProcessors
Sinks == 1 .. NumSinks
FanOut == NumProcessors

ASSUME TopologyAssumption ==
  /\ NumSources \in Nat \ {0} /\ NumSinks \in Nat \ {0} /\ NumProcessors \in Nat
  /\ Bounded \subseteq Lanes
  /\ Inputs \in [Sinks -> SUBSET Lanes]
  /\ Accepted \in [Sinks -> SUBSET Types]
  /\ NoEvent \notin Types

ASSUME ChannelAssumption ==
  /\ Faults \in BOOLEAN
  /\ Codes \subseteq {"canceled", "deadline", "unavailable"}
  /\ Window \in Nat \ {0}
  /\ MaxEvents \in Nat

NoError == "none"

(* The errors the loops make themselves; "cut" is the io.EOF that Send     *)
(* returns because the context was cancelled under it.                     *)
LocalErrors == {"eof", "unexpectedEOF", "mismatch", "canceled", "cut"}
Errors == Codes \cup LocalErrors
StreamEnds == {"open", "eof"} \cup Codes
Open == [code |-> "open", consumed |-> 0, clean |-> TRUE]

VARIABLES
  wire, cancelled, verdict,  \* as in DeliveryPromise
  launched,  \* the number of lanes whose loops have been launched
  loop,      \* loop[l, k]: "recv", "send", "close", "failing" or "exited"
  err,       \* err[l, k]: the error the loop returned
  held,      \* held[l, k]: the event between its Recv and its Send
  todo,      \* todo[l]: the sinks the fan-out still has to send to or close
  first,     \* the failure errgroup kept
  out, fin,  \* the output streams: messages in flight, and how they end
  inq, shut, \* the processors' input streams, and their half-close
  unread, reply,  \* the sink streams: messages in flight, the response
  emitted,   \* events emitted by each source
  taken, handed,  \* events each loop received, and sent to its processor
  due, sent  \* events the fan-out received for each sink, and sent to it

ownerVars == <<wire, cancelled, verdict, launched>>
loopVars == <<loop, err, held, todo, first>>
streamVars == <<out, fin, inq, shut, unread, reply, emitted>>
countVars == <<taken, handed, due, sent>>
vars == <<ownerVars, loopVars, streamVars, countVars>>

TypeOK ==
  /\ wire \in {"idle", "wiring", "open", "refused"}
  /\ cancelled \in BOOLEAN
  /\ verdict \in {"pending", "nil", "error"}
  /\ launched \in 0 .. NumSources
  /\ loop \in [Lanes \X Stages -> {"idle", "recv", "send", "close", "failing", "exited"}]
  /\ err \in [Lanes \X Stages -> Errors \cup {NoError}]
  /\ held \in [Lanes \X Stages -> Types \cup {NoEvent}]
  /\ todo \in [Lanes -> SUBSET Sinks]
  /\ first \in Errors \cup {NoError}
  /\ out \in [Lanes \X Stages -> Seq(Types)]
  /\ fin \in [Lanes \X Stages -> StreamEnds]
  /\ inq \in [Lanes \X Procs -> Seq(Types)]
  /\ shut \in [Lanes \X Procs -> BOOLEAN]
  /\ unread \in [Lanes \X Sinks -> Nat]
  /\ reply \in [Lanes \X Sinks -> [code : StreamEnds \cup {"ok"}, consumed : Nat, clean : BOOLEAN]]
  /\ emitted \in [Lanes -> Nat]
  /\ taken \in [Lanes \X Stages -> Nat]
  /\ handed \in [Lanes \X Stages -> Nat]
  /\ due \in [Lanes \X Sinks -> Nat]
  /\ sent \in [Lanes \X Sinks -> Nat]

Init ==
  /\ wire = "idle"
  /\ cancelled \in BOOLEAN
  /\ verdict = "pending"
  /\ launched = 0
  /\ loop = [w \in Lanes \X Stages |-> "idle"]
  /\ err = [w \in Lanes \X Stages |-> NoError]
  /\ held = [w \in Lanes \X Stages |-> NoEvent]
  /\ todo = [l \in Lanes |-> {}]
  /\ first = NoError
  /\ out = [w \in Lanes \X Stages |-> <<>>]
  /\ fin = [w \in Lanes \X Stages |-> "open"]
  /\ inq = [p \in Lanes \X Procs |-> <<>>]
  /\ shut = [p \in Lanes \X Procs |-> FALSE]
  /\ unread = [s \in Lanes \X Sinks |-> 0]
  /\ reply = [s \in Lanes \X Sinks |-> Open]
  /\ emitted = [l \in Lanes |-> 0]
  /\ taken = [w \in Lanes \X Stages |-> 0]
  /\ handed = [w \in Lanes \X Stages |-> 0]
  /\ due = [s \in Lanes \X Sinks |-> 0]
  /\ sent = [s \in Lanes \X Sinks |-> 0]

-----------------------------------------------------------------------------
(* The context every stream and loop is given: cancelled by the owner, by  *)
(* errgroup on the first failure, and by errgroup when Wait returns.       *)
CtxDone_Local == cancelled \/ verdict # "pending" \* mutant: a failure cancels nothing
CtxDone == cancelled \/ first # NoError \/ verdict # "pending"

(* The sinks lane l delivers to: all of them behind a processor, else the  *)
(* ones whose inputs name the source.                                      *)
SinksOf(l) == {i \in Sinks : NumProcessors = 0 => l \in Inputs[i]}

Accepts(i, e) == Accepted[i] = {} \/ e \in Accepted[i]

-----------------------------------------------------------------------------
(* WireAll, called by the runner.                                          *)

StartWiring ==
  /\ wire = "idle"
  /\ wire' = "wiring"
  /\ UNCHANGED <<cancelled, verdict, launched, loopVars, streamVars, countVars>>

IsLast_Off(l) == l > NumSources \* mutant: one lane too many
IsLast(l) == l = NumSources

(* All streams of the next lane are open: launch its loops. *)
WireLane ==
  LET l == launched + 1 IN
  /\ wire = "wiring"
  /\ SinksOf(l) # {}
  /\ launched' = l
  /\ wire' = IF IsLast(l) THEN "open" ELSE "wiring"
  /\ loop' = [w \in Lanes \X Stages |-> IF w[1] = l THEN "recv" ELSE loop[w]]
  /\ UNCHANGED <<cancelled, verdict, err, held, todo, first, streamVars, countVars>>

(* An endpoint is not registered, a dial or an open fails, or the source   *)
(* has no sink: the lanes already launched are cancelled.                  *)
WireFail_LeavesRunning == \* mutant: the lanes already launched go on
  /\ wire = "wiring"
  /\ Faults \/ CtxDone \/ SinksOf(launched + 1) = {}
  /\ wire' = "refused"
  /\ UNCHANGED <<cancelled, verdict, launched, loopVars, streamVars, countVars>>

WireFail ==
  /\ wire = "wiring"
  /\ Faults \/ CtxDone \/ SinksOf(launched + 1) = {}
  /\ wire' = "refused"
  /\ cancelled' = TRUE
  /\ UNCHANGED <<verdict, launched, loopVars, streamVars, countVars>>

(* The owner cancels: the runner's context, or Stop. *)
Cancel ==
  /\ ~cancelled
  /\ cancelled' = TRUE
  /\ UNCHANGED <<wire, verdict, launched, loopVars, streamVars, countVars>>

-----------------------------------------------------------------------------
(* The forwarding loops.  w = <<l, k>> is loop k of lane l.                *)

Fails(w, e) ==
  /\ loop' = [loop EXCEPT ![w] = "failing"]
  /\ err' = [err EXCEPT ![w] = e]
  /\ UNCHANGED <<held, todo, first>>

(* The events in flight, then how the stream ended. *)
CanRecv(w) == loop[w] = "recv" /\ out[w] # <<>>
AtEOF(w) == loop[w] = "recv" /\ out[w] = <<>> /\ fin[w] = "eof"
AtError(w) == loop[w] = "recv" /\ out[w] = <<>> /\ fin[w] \in Codes

RecvError(w) ==
  /\ AtError(w)
  /\ Fails(w, fin[w])
  /\ UNCHANGED <<ownerVars, streamVars, countVars>>

(* A blocked Recv, Send or CloseAndRecv returns when the context is done:  *)
(* Recv and CloseAndRecv with the code Canceled, Send with a bare io.EOF.  *)
(* Only the fan-out looks behind that io.EOF, with CloseAndRecv.           *)
Interruption_Blind(w) == \* mutant: nobody looks behind the io.EOF
  IF loop[w] = "send" THEN "cut" ELSE "canceled"

Interruption(w) ==
  IF loop[w] = "send" /\ w[2] < FanOut THEN "cut" ELSE "canceled"

Interrupted_SendStays(w) == \* mutant: Send is not given the group's context
  /\ CtxDone
  /\ loop[w] \in {"recv", "close"}
  /\ Fails(w, Interruption(w))
  /\ UNCHANGED <<ownerVars, streamVars, countVars>>

Interrupted(w) ==
  /\ CtxDone
  /\ loop[w] \in {"recv", "send", "close"}
  /\ Fails(w, Interruption(w))
  /\ UNCHANGED <<ownerVars, streamVars, countVars>>

(* forwardSource and forward: Recv, then Send to the next processor. *)
Recv(l, k) ==
  LET w == <<l, k>> IN
  /\ k < FanOut
  /\ CanRecv(w)
  /\ held' = [held EXCEPT ![w] = Head(out[w])]
  /\ out' = [out EXCEPT ![w] = Tail(@)]
  /\ taken' = [taken EXCEPT ![w] = @ + 1]
  /\ loop' = [loop EXCEPT ![w] = "send"]
  /\ UNCHANGED <<ownerVars, err, todo, first, fin, inq, shut, unread, reply, emitted, handed, due, sent>>

Send(l, k) ==
  LET w == <<l, k>>  p == <<l, k + 1>> IN
  /\ k < FanOut
  /\ loop[w] = "send"
  /\ fin[p] = "open" /\ Len(inq[p]) < Window
  /\ inq' = [inq EXCEPT ![p] = Append(@, held[w])]
  /\ handed' = [handed EXCEPT ![w] = @ + 1]
  /\ held' = [held EXCEPT ![w] = NoEvent]
  /\ loop' = [loop EXCEPT ![w] = "recv"]
  /\ UNCHANGED <<ownerVars, err, todo, first, out, fin, shut, unread, reply, emitted, taken, due, sent>>

(* The processor's stream is over: gRPC reports io.EOF to the sender. *)
SendRefused_Drop(l, k) == \* mutant: the event is dropped to survive
  /\ k < FanOut
  /\ loop[<<l, k>>] = "send"
  /\ fin[<<l, k + 1>>] # "open"
  /\ loop' = [loop EXCEPT ![<<l, k>>] = "recv"]
  /\ UNCHANGED <<ownerVars, err, held, todo, first, streamVars, countVars>>

SendRefused(l, k) ==
  /\ k < FanOut
  /\ loop[<<l, k>>] = "send"
  /\ fin[<<l, k + 1>>] # "open"
  /\ Fails(<<l, k>>, "eof")
  /\ UNCHANGED <<ownerVars, streamVars, countVars>>

(* The source or the previous processor is done.  An unbounded source must *)
(* not end while the pipeline is alive.                                    *)
UnexpectedEOF_Never(l, k) == FALSE \* mutant: every EOF is an orderly end
UnexpectedEOF(l, k) == k = 0 /\ l \notin Bounded /\ ~CtxDone

CloseSend_Open(l, k) == \* mutant: the half-close is forgotten
  LET w == <<l, k>> IN
  /\ k < FanOut
  /\ AtEOF(w)
  /\ loop' = [loop EXCEPT ![w] = "exited"]
  /\ UNCHANGED <<ownerVars, err, held, todo, first, streamVars, countVars>>

CloseSend(l, k) ==
  LET w == <<l, k>> IN
  /\ k < FanOut
  /\ AtEOF(w)
  /\ IF UnexpectedEOF(l, k)
     THEN Fails(w, "unexpectedEOF") /\ UNCHANGED shut
     ELSE /\ shut' = [shut EXCEPT ![<<l, k + 1>>] = TRUE]
          /\ loop' = [loop EXCEPT ![w] = "exited"]
          /\ UNCHANGED <<err, held, todo, first>>
  /\ UNCHANGED <<ownerVars, out, fin, inq, unread, reply, emitted, countVars>>

-----------------------------------------------------------------------------
(* fanOut: Recv, then Send to every sink that accepts the event, in order; *)
(* at EOF close the sinks in order and compare their acknowledgements.     *)

Fan(l) == <<l, FanOut>>
Recipients(l, e) == {i \in SinksOf(l) : Accepts(i, e)}
Turn(l, i) == i \in todo[l] /\ \A j \in todo[l] : i <= j

FanRecv(l) ==
  LET w == Fan(l)  e == Head(out[w]) IN
  /\ CanRecv(w)
  /\ out' = [out EXCEPT ![w] = Tail(@)]
  /\ taken' = [taken EXCEPT ![w] = @ + 1]
  /\ due' = [s \in Lanes \X Sinks |->
               IF s[1] = l /\ s[2] \in Recipients(l, e) THEN due[s] + 1 ELSE due[s]]
  /\ todo' = [todo EXCEPT ![l] = Recipients(l, e)]
  /\ loop' = [loop EXCEPT ![w] = IF Recipients(l, e) = {} THEN "recv" ELSE "send"]
  /\ UNCHANGED <<ownerVars, err, held, first, fin, inq, shut, unread, reply, emitted, handed, sent>>

FanSend(l, i) ==
  LET w == Fan(l)  s == <<l, i>> IN
  /\ loop[w] = "send" /\ Turn(l, i)
  /\ reply[s] = Open /\ unread[s] < Window
  /\ unread' = [unread EXCEPT ![s] = @ + 1]
  /\ sent' = [sent EXCEPT ![s] = @ + 1]
  /\ todo' = [todo EXCEPT ![l] = @ \ {i}]
  /\ loop' = [loop EXCEPT ![w] = IF todo[l] = {i} THEN "recv" ELSE "send"]
  /\ UNCHANGED <<ownerVars, err, held, first, out, fin, inq, shut, reply, emitted, taken, handed, due>>

(* Send reports io.EOF; the status behind it comes from CloseAndRecv. *)
FanSendRefused(l, i) ==
  LET s == <<l, i>> IN
  /\ loop[Fan(l)] = "send" /\ Turn(l, i)
  /\ reply[s] # Open
  /\ Fails(Fan(l), IF reply[s].code = "ok" THEN "eof" ELSE reply[s].code)
  /\ UNCHANGED <<ownerVars, streamVars, countVars>>

(* sourceReceiver decides what the end of a source's stream means when the *)
(* fan-out reads the source itself; a processor's EOF is always the end.   *)
FanEOF(l) ==
  LET w == Fan(l)  direct == NumProcessors = 0 IN
  /\ AtEOF(w)
  /\ \/ direct /\ CtxDone /\ Fails(w, "canceled")
     \/ UnexpectedEOF(l, FanOut) /\ Fails(w, "unexpectedEOF")
     \/ /\ direct => ~CtxDone /\ ~UnexpectedEOF(l, FanOut)
        /\ loop' = [loop EXCEPT ![w] = "close"]
        /\ todo' = [todo EXCEPT ![l] = SinksOf(l)]
        /\ UNCHANGED <<err, held, first>>
  /\ UNCHANGED <<ownerVars, streamVars, countVars>>

(* The response must count exactly what was sent, no failure, no error. *)
Acknowledges_AtMost(r, n) == r.clean /\ r.consumed <= n \* mutant
Acknowledges(r, n) == r.clean /\ r.consumed = n

FanAck(l, i) ==
  LET w == Fan(l)  r == reply[<<l, i>>] IN
  /\ loop[w] = "close" /\ Turn(l, i)
  /\ r # Open
  /\ \/ r.code # "ok" /\ Fails(w, r.code)
     \/ r.code = "ok" /\ ~Acknowledges(r, sent[<<l, i>>]) /\ Fails(w, "mismatch")
     \/ /\ r.code = "ok" /\ Acknowledges(r, sent[<<l, i>>])
        /\ todo' = [todo EXCEPT ![l] = @ \ {i}]
        /\ loop' = [loop EXCEPT ![w] = IF todo[l] = {i} THEN "exited" ELSE "close"]
        /\ UNCHANGED <<err, held, first>>
  /\ UNCHANGED <<ownerVars, streamVars, countVars>>

-----------------------------------------------------------------------------
(* launch: errors that only echo a cancellation are dropped; errgroup      *)
(* keeps the first of the others and cancels the context.                  *)
IsEcho_Any(e) == CtxDone \* mutant: any error after a cancellation is an echo
IsEcho(e) == CtxDone /\ e \in {"canceled", "deadline"}

Return(w) ==
  /\ loop[w] = "failing"
  /\ loop' = [loop EXCEPT ![w] = "exited"]
  /\ first' = IF first = NoError /\ ~IsEcho(err[w]) THEN err[w] ELSE first
  /\ UNCHANGED <<ownerVars, err, held, todo, streamVars, countVars>>

(* Wait: all launched loops are gone.  By then errgroup has cancelled the  *)
(* context itself, so a first failure with the code Canceled counts as nil. *)
Reaped == \A w \in Lanes \X Stages : loop[w] \in {"idle", "exited"}
IsCancellation_Deadline(e) == e \in {NoError, "canceled", "deadline"} \* mutant
IsCancellation(e) == e \in {NoError, "canceled"}

Wait ==
  /\ wire \in {"open", "refused"}
  /\ verdict = "pending"
  /\ Reaped
  /\ verdict' = IF IsCancellation(first) THEN "nil" ELSE "error"
  /\ UNCHANGED <<wire, cancelled, launched, loopVars, streamVars, countVars>>

-----------------------------------------------------------------------------
(* The components.  A cancelled stream carries nothing more.               *)

Live(l) == l <= launched /\ ~CtxDone

SourceEmits(l, e) ==
  /\ Live(l)
  /\ fin[<<l, 0>>] = "open" /\ emitted[l] < MaxEvents /\ Len(out[<<l, 0>>]) < Window
  /\ out' = [out EXCEPT ![<<l, 0>>] = Append(@, e)]
  /\ emitted' = [emitted EXCEPT ![l] = @ + 1]
  /\ UNCHANGED <<ownerVars, loopVars, fin, inq, shut, unread, reply, countVars>>

(* A processor turns an event into one of any type, or filters it out. *)
ProcessorTakes(l, k) ==
  /\ Live(l)
  /\ fin[<<l, k>>] = "open" /\ inq[<<l, k>>] # <<>> /\ Len(out[<<l, k>>]) < Window
  /\ inq' = [inq EXCEPT ![<<l, k>>] = Tail(@)]
  /\ \/ \E e \in Types : out' = [out EXCEPT ![<<l, k>>] = Append(@, e)]
     \/ UNCHANGED out
  /\ UNCHANGED <<ownerVars, loopVars, fin, shut, unread, reply, emitted, countVars>>

(* An orderly end: a bounded source's at any time, a processor's after its *)
(* input.                                                                  *)
StreamCompletes(l, k) ==
  /\ Live(l)
  /\ fin[<<l, k>>] = "open"
  /\ k = 0 => l \in Bounded
  /\ k > 0 => shut[<<l, k>>] /\ inq[<<l, k>>] = <<>>
  /\ fin' = [fin EXCEPT ![<<l, k>>] = "eof"]
  /\ UNCHANGED <<ownerVars, loopVars, out, inq, shut, unread, reply, emitted, countVars>>

(* A component's fault: a gRPC status, or an EOF it should not send. *)
StreamFails(l, k) ==
  /\ Faults /\ Live(l)
  /\ fin[<<l, k>>] = "open"
  /\ \E c \in Codes \cup {"eof"} : fin' = [fin EXCEPT ![<<l, k>>] = c]
  /\ UNCHANGED <<ownerVars, loopVars, out, inq, shut, unread, reply, emitted, countVars>>

SinkTakes(l, i) ==
  /\ Live(l)
  /\ reply[<<l, i>>] = Open /\ unread[<<l, i>>] > 0
  /\ unread' = [unread EXCEPT ![<<l, i>>] = @ - 1]
  /\ UNCHANGED <<ownerVars, loopVars, out, fin, inq, shut, reply, emitted, countVars>>

(* The contract: after the half-close, when all handlers have finished. *)
SinkAcknowledges(l, i) ==
  /\ Live(l)
  /\ reply[<<l, i>>] = Open /\ unread[<<l, i>>] = 0
  /\ loop[Fan(l)] = "close" /\ Turn(l, i)
  /\ reply' = [reply EXCEPT ![<<l, i>>] = [code |-> "ok", consumed |-> sent[<<l, i>>], clean |-> TRUE]]
  /\ UNCHANGED <<ownerVars, loopVars, out, fin, inq, shut, unread, emitted, countVars>>

(* A sink's fault: a gRPC status, or an early, short or unclean response. *)
SinkFails(l, i) ==
  /\ Faults /\ Live(l)
  /\ reply[<<l, i>>] = Open
  /\ \/ \E c \in Codes :
          reply' = [reply EXCEPT ![<<l, i>>] = [code |-> c, consumed |-> 0, clean |-> FALSE]]
     \/ \E ok \in BOOLEAN :
          reply' = [reply EXCEPT ![<<l, i>>] =
                      [code |-> "ok", consumed |-> sent[<<l, i>>] - unread[<<l, i>>], clean |-> ok]]
  /\ UNCHANGED <<ownerVars, loopVars, out, fin, inq, shut, unread, emitted, countVars>>

-----------------------------------------------------------------------------
Owner == StartWiring \/ WireLane \/ WireFail \/ Cancel \/ Wait

LoopStep(l, k) ==
  \/ Recv(l, k) \/ Send(l, k) \/ SendRefused(l, k) \/ CloseSend(l, k)
  \/ RecvError(<<l, k>>) \/ Interrupted(<<l, k>>) \/ Return(<<l, k>>)

FanStep(l) ==
  \/ FanRecv(l) \/ FanEOF(l)
  \/ \E i \in Sinks : FanSend(l, i) \/ FanSendRefused(l, i) \/ FanAck(l, i)

Component(l) ==
  \/ \E e \in Types : SourceEmits(l, e)
  \/ \E k \in Procs : ProcessorTakes(l, k)
  \/ \E k \in Stages : StreamCompletes(l, k) \/ StreamFails(l, k)
  \/ \E i \in Sinks : SinkTakes(l, i) \/ SinkAcknowledges(l, i) \/ SinkFails(l, i)

Next ==
  \/ Owner
  \/ \E l \in Lanes : (\E k \in Stages : LoopStep(l, k)) \/ FanStep(l) \/ Component(l)

Spec == Init /\ [][Next]_vars

(* The goroutines run, gRPC interrupts a blocked call, and the runner's    *)
(* calls return.                                                           *)
LoopFairness ==
  /\ WF_vars(WireLane \/ WireFail) /\ WF_vars(Wait)
  /\ \A l \in Lanes :
       /\ \A k \in Stages : WF_vars(LoopStep(l, k))
       /\ WF_vars(FanStep(l))

(* The components keep their contract: they serve what they are sent, end  *)
(* their streams and acknowledge.                                          *)
ComponentFairness ==
  \A l \in Lanes :
    /\ \A k \in Procs : WF_vars(ProcessorTakes(l, k))
    /\ \A k \in Stages : WF_vars(StreamCompletes(l, k))
    /\ \A i \in Sinks : WF_vars(SinkTakes(l, i)) /\ WF_vars(SinkAcknowledges(l, i))

FairSpec == Spec /\ LoopFairness

-----------------------------------------------------------------------------
(* Every stream was read to its end, every event handed on, and every sink *)
(* acknowledged exactly the events the fan-out received for it.            *)
Delivered ==
  \A l \in Lanes :
    /\ \A k \in Stages : fin[<<l, k>>] = "eof" /\ out[<<l, k>>] = <<>>
    /\ \A k \in Stages : k < FanOut => handed[<<l, k>>] = taken[<<l, k>>]
    /\ \A i \in SinksOf(l) : reply[<<l, i>>] = [code |-> "ok", consumed |-> due[<<l, i>>], clean |-> TRUE]

(* A nil verdict that nobody cancelled and no edge disturbed means that    *)
(* every lane was wired and delivered completely (README.md:109, "only     *)
(* after every edge closes and each sink acknowledges exactly the events   *)
(* sent to its stream").                                                   *)
CleanVerdictMeansDelivered ==
  verdict = "nil" /\ first = NoError /\ ~cancelled => launched = NumSources /\ Delivered

(* The same without the escape for a first failure that the component      *)
(* reported with the code Canceled (README.md:113, "A source, processor,   *)
(* or sink delivery failure marks the run failed").                        *)
NilMeansDelivered == verdict = "nil" /\ ~cancelled => Delivered

(* No failure is swallowed: when the verdict is nil and nothing was        *)
(* recorded, every error a loop returned was an echo of a cancellation.    *)
NoFailureSwallowed ==
  verdict = "nil" /\ first = NoError =>
    \A w \in Lanes \X Stages : err[w] \in {NoError, "canceled", "deadline"}

(* A nil verdict says what the runner takes it for, unless somebody        *)
(* cancelled: everything is delivered, and nothing failed on the way.      *)
VerdictIsSound == CleanVerdictMeansDelivered /\ NoFailureSwallowed

(* Cancelling is not a delivery failure (stream_orchestrator.go:374): no   *)
(* verdict rests on an error the cancellation itself caused.               *)
CancellationIsNotAFailure == verdict = "error" => first # "cut"

(* A lane whose source does not declare itself bounded never makes a run   *)
(* complete (README.md:114, "An unexpected EOF from an unbounded source is *)
(* a failure").                                                            *)
EndlessSourceNeverCompletes ==
  verdict = "nil" /\ first = NoError /\ Bounded # Lanes => cancelled

(* With neither processors nor echoes, an interruption is never told as a  *)
(* failure nor an unexpected end as a completion.                          *)
VerdictTellsWhy == CancellationIsNotAFailure /\ EndlessSourceNeverCompletes

(* Every cancellation is followed by a verdict: no loop stays blocked in a *)
(* Recv, in a Send under backpressure or waiting for an acknowledgement.   *)
CancelReapsLoops == cancelled /\ wire # "idle" ~> verdict # "pending"

(* So is every failure of one edge, which must unblock all the others.     *)
FailureReapsLoops == first # NoError ~> verdict # "pending"

(* And when the wiring of a later lane is refused, the loops of the lanes  *)
(* launched before it, whose sources may never end, come to an end too     *)
(* (stream_orchestrator.go:77, "including when wiring fails").             *)
RefusalReapsLoops == wire = "refused" ~> verdict # "pending"

(* Nothing that ends a delivery leaves a loop behind.                      *)
LoopsAreReaped == CancelReapsLoops /\ FailureReapsLoops

(* With bounded sources and components that go on serving, a run that      *)
(* nobody cancels and no edge disturbs completes: the half-closes travel   *)
(* through every stage and every sink acknowledges (README.md:115, bounded *)
(* sources).                                                               *)
BoundedRunCompletes ==
  ComponentFairness =>
    (wire # "idle" ~> (verdict = "nil" /\ Delivered) \/ cancelled \/ first # NoError)

(* The orchestrator keeps its promise to the runner. *)
Promise == INSTANCE DeliveryPromise WITH
  broken <- CASE first = NoError -> "no"
              [] first = "canceled" -> "canceled"
              [] first = "cut" -> "echo"
              [] OTHER -> "error",
  settled <- launched = NumSources /\ \A w \in Lanes \X Stages :
               loop[w] = "exited" /\ err[w] = NoError

ImplementsPromise == Promise!DeliverySpec
==============================================================================
