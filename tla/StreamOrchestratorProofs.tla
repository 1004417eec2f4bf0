----------------------- MODULE StreamOrchestratorProofs -----------------------
(***************************************************************************)
(* Proofs about StreamOrchestrator, for any number of sources, processors  *)
(* and sinks, any routing, window and faults.                              *)
(*                                                                         *)
(* Why a nil verdict can be trusted: a loop that ended without an error    *)
(* has read its stream to the end and handed on every event (Carried); the *)
(* one that fans out has moreover had every sink acknowledge what it was   *)
(* due (Fanned); a loop that ended with an error left it to errgroup, or   *)
(* echoed a cancellation (Recorded); and when the verdict is given, every  *)
(* lane is wired (Wired) and every loop has ended (Reaping).               *)
(***************************************************************************)
EXTENDS StreamOrchestrator, TLAPS

Loops == Lanes \X Stages

(* What the data in hand are. *)
Counted ==
  /\ \A s \in Lanes \X Sinks : unread[s] <= sent[s]
  /\ \A s \in Lanes \X Sinks : reply[s].code = "open" => reply[s] = Open
  /\ \A w \in Loops : w[2] # FanOut /\ loop[w] = "send" => held[w] \in Types

Reaping == verdict # "pending" => wire \in {"open", "refused"} /\ Reaped

Wired ==
  /\ wire = "idle" => launched = 0
  /\ wire \in {"idle", "wiring", "refused"} => launched < NumSources
  /\ wire = "open" => launched = NumSources
  /\ wire = "refused" => cancelled
  /\ \A w \in Loops : w[1] <= launched <=> loop[w] # "idle"

(* The errors of the loops, and what became of them. *)
Recorded ==
  /\ first # NoError => \E w \in Loops : loop[w] = "exited" /\ err[w] # NoError
  /\ \A w \in Loops : err[w] = "cut" => cancelled \/ first # NoError
  /\ \A w \in Loops :
       /\ loop[w] \in {"idle", "recv", "send", "close"} => err[w] = NoError
       /\ loop[w] = "failing" => err[w] # NoError
       /\ loop[w] = "exited" /\ err[w] # NoError =>
            first # NoError \/ (cancelled /\ err[w] \in {"canceled", "deadline"})

EndedCleanly(w) == loop[w] = "exited" /\ err[w] = NoError
ReadToEnd(w) ==
  /\ fin[w] = "eof" /\ out[w] = <<>>
  /\ w[2] = 0 /\ w[1] \notin Bounded => cancelled \/ first # NoError

(* The loops that feed a processor. *)
Carried ==
  \A w \in Loops : w[2] # FanOut =>
    /\ loop[w] \in {"idle", "recv"} => handed[w] = taken[w]
    /\ loop[w] = "send" => taken[w] = handed[w] + 1
    /\ EndedCleanly(w) => handed[w] = taken[w] /\ ReadToEnd(w)

(* The loops that fan out. *)
Ack(s) == [code |-> "ok", consumed |-> due[s], clean |-> TRUE]
Fanned ==
  \A l \in Lanes :
    /\ loop[Fan(l)] \in {"idle", "recv", "close"} \/ EndedCleanly(Fan(l)) =>
         \A i \in Sinks : due[<<l, i>>] = sent[<<l, i>>]
    /\ loop[Fan(l)] = "send" =>
         \A i \in Sinks : due[<<l, i>>] = sent[<<l, i>>] + (IF i \in todo[l] THEN 1 ELSE 0)
    /\ loop[Fan(l)] = "close" =>
         ReadToEnd(Fan(l)) /\ \A i \in SinksOf(l) \ todo[l] : reply[<<l, i>>] = Ack(<<l, i>>)
    /\ EndedCleanly(Fan(l)) =>
         ReadToEnd(Fan(l)) /\ \A i \in SinksOf(l) : reply[<<l, i>>] = Ack(<<l, i>>)

Trustworthy == Counted /\ Reaping /\ Wired /\ Recorded /\ Carried /\ Fanned
StreamInvariant == TypeOK /\ Trustworthy

-----------------------------------------------------------------------------
(* The topology. *)
LEMMA Shape ==
  /\ NumSources \in Nat /\ 0 < NumSources /\ NumProcessors \in Nat /\ FanOut \in Stages /\ 0 \in Stages
  /\ \A w \in Loops : w[1] \in Lanes /\ w[2] \in Stages /\ w = <<w[1], w[2]>>
  /\ \A l \in Lanes, k \in Stages : <<l, k>> \in Loops
  /\ \A l \in Lanes : Fan(l) \in Loops /\ Fan(l)[1] = l /\ Fan(l)[2] = FanOut
  /\ \A k \in Stages : k < FanOut => k + 1 \in Procs
BY TopologyAssumption DEF Loops, Lanes, Stages, Procs, FanOut, Fan

LEMMA ErrorShape ==
  /\ NoError \notin Errors /\ "canceled" \in Errors /\ "cut" \in Errors /\ "eof" \in Errors
  /\ "mismatch" \in Errors /\ "unexpectedEOF" \in Errors /\ Codes \subseteq Errors
  /\ "cut" \notin Codes /\ "open" \notin Codes /\ "ok" \notin Codes /\ "eof" \notin Codes
BY ChannelAssumption DEF Errors, LocalErrors, NoError

-----------------------------------------------------------------------------
(* Initially nothing is wired. *)
LEMMA StreamInitial == Init => StreamInvariant
<1> SUFFICES ASSUME Init PROVE StreamInvariant OBVIOUS
<1>1. TypeOK
  <2>1. <<>> \in Seq(Types) OBVIOUS
  <2>2. 0 \in 0 .. NumSources BY Shape
  <2> QED BY <2>1, <2>2 DEF Init, TypeOK, Open, StreamEnds
<1>2. Counted BY DEF Init, Counted, Loops
<1>3. Reaping BY DEF Init, Reaping
<1>4. Wired
  <2>1. \A w \in Loops : loop[w] = "idle" /\ ~(w[1] <= 0)
    BY Shape DEF Init, Loops, Lanes
  <2> QED BY <2>1, Shape DEF Init, Wired
<1>5. Recorded BY DEF Init, Recorded, Loops, NoError
<1>6. Carried BY DEF Init, Carried, EndedCleanly, Loops
<1>7. Fanned BY Shape DEF Init, Fanned, EndedCleanly, Loops
<1> QED BY <1>1, <1>2, <1>3, <1>4, <1>5, <1>6, <1>7 DEF StreamInvariant, Trustworthy

-----------------------------------------------------------------------------
(* The type of each variable, and of what an operation makes of it.        *)
LEMMA StreamTypes ==
  ASSUME TypeOK
  PROVE /\ \A w \in Loops : out[w] \in Seq(Types) /\ held[w] \in Types \cup {NoEvent}
        /\ \A w \in Loops : out[w] # <<>> => Head(out[w]) \in Types /\ Tail(out[w]) \in Seq(Types)
        /\ \A w \in Loops, e \in Types : Append(out[w], e) \in Seq(Types)
        /\ \A p \in Lanes \X Procs : inq[p] # <<>> => Tail(inq[p]) \in Seq(Types)
        /\ \A p \in Lanes \X Procs, e \in Types : Append(inq[p], e) \in Seq(Types)
BY DEF TypeOK, Loops

(* Every step keeps the types. *)
LEMMA Typed ==
  ASSUME TypeOK, Counted, Wired, [Next]_vars PROVE TypeOK'
<1> USE DEF TypeOK, ownerVars, loopVars, streamVars, countVars, Loops
<1>0. ASSUME NEW w \in Loops, NEW e \in Errors, Fails(w, e), UNCHANGED <<ownerVars, streamVars, countVars>>
      PROVE TypeOK'
  BY <1>0 DEF Fails
<1>1. CASE StartWiring BY <1>1 DEF StartWiring
<1>2. CASE WireLane
  <2>1. launched + 1 \in 0 .. NumSources BY <1>2, Shape DEF WireLane, Wired
  <2>2. loop' \in [Lanes \X Stages -> {"idle", "recv", "send", "close", "failing", "exited"}]
    BY <1>2 DEF WireLane
  <2> QED BY <1>2, <2>1, <2>2 DEF WireLane
<1>3. CASE WireFail BY <1>3 DEF WireFail
<1>4. CASE Cancel BY <1>4 DEF Cancel
<1>5. CASE Wait BY <1>5 DEF Wait
<1>6. ASSUME NEW l \in Lanes, NEW k \in Stages, Recv(l, k) PROVE TypeOK'
  BY SMTT(20), <1>6, StreamTypes, Shape DEF Recv, CanRecv
<1>7. ASSUME NEW l \in Lanes, NEW k \in Stages, Send(l, k) PROVE TypeOK'
  <2>1. <<l, k>> \in Loops /\ <<l, k + 1>> \in Lanes \X Procs /\ k # FanOut
    BY SMTT(20), <1>7, Shape DEF Send, Stages, Procs, FanOut
  <2>2. held[<<l, k>>] \in Types BY <1>7, <2>1 DEF Send, Counted
  <2>3. inq' \in [Lanes \X Procs -> Seq(Types)] BY <1>7, <2>1, <2>2, StreamTypes DEF Send
  <2>4. /\ handed' \in [Lanes \X Stages -> Nat]
        /\ held' \in [Lanes \X Stages -> Types \cup {NoEvent}]
        /\ loop' \in [Lanes \X Stages -> {"idle", "recv", "send", "close", "failing", "exited"}]
    BY SMTT(20), <1>7, <2>1 DEF Send
  <2> QED BY <1>7, <2>3, <2>4 DEF Send
<1>8. ASSUME NEW l \in Lanes, NEW k \in Stages, SendRefused(l, k) PROVE TypeOK'
  BY <1>0, <1>8, Shape, ErrorShape DEF SendRefused
<1>9. ASSUME NEW l \in Lanes, NEW k \in Stages, CloseSend(l, k) PROVE TypeOK'
  <2>1. CASE UnexpectedEOF(l, k)
    BY <1>0, <1>9, <2>1, Shape, ErrorShape DEF CloseSend
  <2>2. CASE ~UnexpectedEOF(l, k)
    BY <1>9, <2>2, Shape DEF CloseSend
  <2> QED BY <2>1, <2>2
<1>10. ASSUME NEW w \in Loops, RecvError(w) \/ Interrupted(w) PROVE TypeOK'
  BY <1>0, <1>10, ErrorShape DEF RecvError, AtError, Interrupted, Interruption
<1>11. ASSUME NEW w \in Loops, Return(w) PROVE TypeOK'
  BY <1>11 DEF Return
<1>12. ASSUME NEW l \in Lanes, FanRecv(l) PROVE TypeOK'
  <2> DEFINE w == Fan(l)
  <2>1. w \in Loops /\ Tail(out[w]) \in Seq(Types) BY <1>12, Shape, StreamTypes DEF FanRecv, CanRecv
  <2>2. due' \in [Lanes \X Sinks -> Nat] BY <1>12 DEF FanRecv
  <2>3. Recipients(l, Head(out[w])) \in SUBSET Sinks BY DEF Recipients, SinksOf
  <2> HIDE DEF w
  <2> QED BY SMTT(20), <1>12, <2>1, <2>2, <2>3 DEF FanRecv, w
<1>13. ASSUME NEW l \in Lanes, NEW i \in Sinks, FanSend(l, i) PROVE TypeOK'
  BY SMTT(20), <1>13, Shape DEF FanSend
<1>14. ASSUME NEW l \in Lanes, NEW i \in Sinks, FanSendRefused(l, i) PROVE TypeOK'
  <2>1. reply[<<l, i>>].code \in StreamEnds \cup {"ok"} /\ Fan(l) \in Loops BY Shape
  <2>2. reply[<<l, i>>].code # "open"
    BY <1>14 DEF FanSendRefused, Counted
  <2> QED BY <1>0, <1>14, <2>1, <2>2, ErrorShape DEF FanSendRefused, StreamEnds
<1>15. ASSUME NEW l \in Lanes, FanEOF(l) PROVE TypeOK'
  <2>1. Fan(l) \in Loops /\ SinksOf(l) \in SUBSET Sinks BY Shape DEF SinksOf
  <2>2. ASSUME NEW e \in Errors, Fails(Fan(l), e) PROVE TypeOK'
    BY <1>0, <1>15, <2>1, <2>2 DEF FanEOF
  <2>3. CASE /\ loop' = [loop EXCEPT ![Fan(l)] = "close"]
             /\ todo' = [todo EXCEPT ![l] = SinksOf(l)]
             /\ UNCHANGED <<err, held, first>>
    BY <1>15, <2>1, <2>3 DEF FanEOF
  <2> QED BY <1>15, <2>2, <2>3, ErrorShape DEF FanEOF
<1>16. ASSUME NEW l \in Lanes, NEW i \in Sinks, FanAck(l, i) PROVE TypeOK'
  <2>1. Fan(l) \in Loops BY Shape
  <2>2. reply[<<l, i>>].code \in Errors \cup {"ok"}
    <3>1. reply[<<l, i>>].code # "open" BY <1>16 DEF FanAck, Counted
    <3> QED BY <3>1, ErrorShape DEF StreamEnds
  <2>3. ASSUME NEW e \in Errors, Fails(Fan(l), e) PROVE TypeOK'
    BY <1>0, <1>16, <2>1, <2>3 DEF FanAck
  <2>4. CASE /\ todo' = [todo EXCEPT ![l] = @ \ {i}]
             /\ loop' = [loop EXCEPT ![Fan(l)] = IF todo[l] = {i} THEN "exited" ELSE "close"]
             /\ UNCHANGED <<err, held, first>>
    BY <1>16, <2>1, <2>4 DEF FanAck
  <2> QED BY <1>16, <2>2, <2>3, <2>4, ErrorShape DEF FanAck
<1>17. ASSUME NEW l \in Lanes, NEW e \in Types, SourceEmits(l, e) PROVE TypeOK'
  <2>1. <<l, 0>> \in Loops BY Shape
  <2>2. out' \in [Lanes \X Stages -> Seq(Types)] BY <1>17, <2>1, StreamTypes DEF SourceEmits
  <2>3. emitted' \in [Lanes -> Nat] BY <1>17 DEF SourceEmits
  <2> QED BY <1>17, <2>2, <2>3 DEF SourceEmits
<1>18. ASSUME NEW l \in Lanes, NEW k \in Procs, ProcessorTakes(l, k) PROVE TypeOK'
  <2>1. <<l, k>> \in Loops BY Shape DEF Procs, Stages
  <2>2. out' \in [Lanes \X Stages -> Seq(Types)]
    <3>1. CASE out' = out BY <3>1
    <3>2. ASSUME NEW e \in Types, out' = [out EXCEPT ![<<l, k>>] = Append(@, e)]
          PROVE out' \in [Lanes \X Stages -> Seq(Types)]
      BY <2>1, <3>2, StreamTypes
    <3> QED BY <1>18, <3>1, <3>2 DEF ProcessorTakes
  <2>3. inq' \in [Lanes \X Procs -> Seq(Types)] BY <1>18, StreamTypes DEF ProcessorTakes
  <2> QED BY <1>18, <2>2, <2>3 DEF ProcessorTakes
<1>19. ASSUME NEW l \in Lanes, NEW k \in Stages, StreamCompletes(l, k) \/ StreamFails(l, k)
       PROVE TypeOK'
  <2>1. PICK e \in StreamEnds : fin' = [fin EXCEPT ![<<l, k>>] = e]
    BY <1>19 DEF StreamCompletes, StreamFails, StreamEnds
  <2>2. fin' \in [Lanes \X Stages -> StreamEnds] BY <2>1, Shape
  <2> QED BY <1>19, <2>2 DEF StreamCompletes, StreamFails
<1>20. ASSUME NEW l \in Lanes, NEW i \in Sinks, SinkTakes(l, i) PROVE TypeOK'
  BY SMTT(30), <1>20 DEF SinkTakes
<1>21. ASSUME NEW l \in Lanes, NEW i \in Sinks, SinkAcknowledges(l, i) PROVE TypeOK'
  BY <1>21 DEF SinkAcknowledges
<1>22. ASSUME NEW l \in Lanes, NEW i \in Sinks, SinkFails(l, i) PROVE TypeOK'
  <2>1. sent[<<l, i>>] - unread[<<l, i>>] \in Nat BY DEF Counted
  <2>2. PICK r \in [code : StreamEnds \cup {"ok"}, consumed : Nat, clean : BOOLEAN] :
          reply' = [reply EXCEPT ![<<l, i>>] = r]
    BY <1>22, <2>1 DEF SinkFails, StreamEnds
  <2> QED BY <1>22, <2>2 DEF SinkFails
<1>23. CASE UNCHANGED vars BY <1>23 DEF vars
<1> QED
  BY <1>1, <1>2, <1>3, <1>4, <1>5, <1>6, <1>7, <1>8, <1>9, <1>10, <1>11, <1>12, <1>13, <1>14,
     <1>15, <1>16, <1>17, <1>18, <1>19, <1>20, <1>21, <1>22, <1>23, Shape
  DEF Next, Owner, LoopStep, FanStep, Component

-----------------------------------------------------------------------------
(* A loop that fails: its error is not recorded yet.                       *)
LEMMA FailStep ==
  ASSUME StreamInvariant, NEW w \in Loops, NEW e \in Errors, loop[w] \in {"recv", "send", "close"},
         e = "cut" => cancelled \/ first # NoError,
         Fails(w, e), UNCHANGED <<ownerVars, streamVars, countVars>>
  PROVE Trustworthy'
<1> USE DEF StreamInvariant, Trustworthy
<1>1. /\ loop'[w] = "failing" /\ \A v \in Loops : v # w => loop'[v] = loop[v]
      /\ err'[w] = e /\ \A v \in Loops : v # w => err'[v] = err[v]
      /\ e # NoError
  BY ErrorShape DEF Fails, TypeOK, Loops
<1>2. /\ UNCHANGED <<wire, cancelled, verdict, launched, held, todo, first>>
      /\ UNCHANGED <<out, fin, inq, shut, unread, reply, emitted, taken, handed, due, sent>>
  BY DEF Fails, ownerVars, streamVars, countVars
<1>3. verdict = "pending" BY DEF Reaping, Reaped, Loops
<1>4. Counted' BY <1>1, <1>2 DEF Counted
<1>5. Reaping' BY <1>2, <1>3 DEF Reaping
<1>6. Wired' BY <1>1, <1>2 DEF Wired
<1>7. Recorded' BY <1>1, <1>2 DEF Recorded
<1>8. Carried' BY <1>1, <1>2 DEF Carried, EndedCleanly, ReadToEnd
<1>9. Fanned'
  <2>1. ASSUME NEW l \in Lanes, Fan(l) # w
        PROVE loop'[Fan(l)] = loop[Fan(l)] /\ err'[Fan(l)] = err[Fan(l)]
    BY <1>1, <2>1, Shape
  <2>2. \A l \in Lanes : SinksOf(l)' = SinksOf(l) BY DEF SinksOf
  <2> QED BY <1>1, <1>2, <2>1, <2>2 DEF Fanned, EndedCleanly, ReadToEnd, Ack
<1> QED BY <1>4, <1>5, <1>6, <1>7, <1>8, <1>9

(* A loop that ends with an error: errgroup keeps it, or has a reason to   *)
(* drop it.                                                                *)
LEMMA ReturnStep ==
  ASSUME StreamInvariant, NEW w \in Loops, Return(w) PROVE Trustworthy'
<1> USE DEF StreamInvariant, Trustworthy
<1>1. /\ loop[w] = "failing" /\ loop'[w] = "exited" /\ err[w] # NoError
      /\ \A v \in Loops : v # w => loop'[v] = loop[v]
  BY DEF Return, TypeOK, Loops, Recorded
<1>2. /\ UNCHANGED <<wire, cancelled, verdict, launched, held, todo, err>>
      /\ UNCHANGED <<out, fin, inq, shut, unread, reply, emitted, taken, handed, due, sent>>
  BY DEF Return, ownerVars, streamVars, countVars
<1>3. verdict = "pending" BY <1>1 DEF Reaping, Reaped, Loops
<1>4. first # NoError => first' # NoError BY DEF Return
<1>5. Counted' BY <1>1, <1>2 DEF Counted
<1>6. Reaping' BY <1>2, <1>3 DEF Reaping
<1>7. Wired' BY <1>1, <1>2 DEF Wired
<1>8. Recorded'
  <2>1. first' # NoError \/ (cancelled /\ err[w] \in {"canceled", "deadline"})
    BY <1>1, <1>3 DEF Return, IsEcho, CtxDone
  <2> QED BY <1>1, <1>2, <1>4, <2>1 DEF Recorded
<1>9. Carried' BY <1>1, <1>2, <1>4 DEF Carried, EndedCleanly, ReadToEnd
<1>10. Fanned'
  <2>1. ASSUME NEW l \in Lanes, Fan(l) # w PROVE loop'[Fan(l)] = loop[Fan(l)]
    BY <1>1, <2>1, Shape
  <2>2. \A l \in Lanes : SinksOf(l)' = SinksOf(l) BY DEF SinksOf
  <2> QED BY <1>1, <1>2, <1>4, <2>1, <2>2 DEF Fanned, EndedCleanly, ReadToEnd, Ack
<1> QED BY <1>5, <1>6, <1>7, <1>8, <1>9, <1>10

(* The components cannot take back that a stream has ended or what a sink  *)
(* has acknowledged.                                                       *)
LEMMA ComponentStep ==
  ASSUME StreamInvariant, Counted', UNCHANGED <<ownerVars, loopVars, countVars>>,
         \A w \in Loops : fin[w] # "open" => fin'[w] = fin[w] /\ out'[w] = out[w],
         \A s \in Lanes \X Sinks : reply[s].code = "ok" => reply'[s] = reply[s]
  PROVE Trustworthy'
<1> USE DEF StreamInvariant, Trustworthy
<1>1. /\ UNCHANGED <<wire, cancelled, verdict, launched, loop, err, held, todo, first>>
      /\ UNCHANGED <<taken, handed, due, sent>>
  BY DEF ownerVars, loopVars, countVars
<1>2. Reaping' /\ Wired' /\ Recorded' BY <1>1 DEF Reaping, Reaped, Wired, Recorded
<1>3. Carried' BY <1>1 DEF Carried, EndedCleanly, ReadToEnd
<1>4. Fanned'
  <2> SUFFICES ASSUME NEW l \in Lanes
               PROVE /\ loop'[Fan(l)] \in {"idle", "recv", "close"} \/ EndedCleanly(Fan(l))' =>
                          \A i \in Sinks : due'[<<l, i>>] = sent'[<<l, i>>]
                     /\ loop'[Fan(l)] = "send" =>
                          \A i \in Sinks : due'[<<l, i>>] = sent'[<<l, i>>] + (IF i \in todo'[l] THEN 1 ELSE 0)
                     /\ loop'[Fan(l)] = "close" =>
                          ReadToEnd(Fan(l))' /\ \A i \in SinksOf(l) \ todo'[l] : reply'[<<l, i>>] = Ack(<<l, i>>)'
                     /\ EndedCleanly(Fan(l))' =>
                          ReadToEnd(Fan(l))' /\ \A i \in SinksOf(l) : reply'[<<l, i>>] = Ack(<<l, i>>)'
    BY DEF Fanned, Fan, SinksOf
  <2>1. Fan(l) \in Loops BY Shape
  <2>2. ReadToEnd(Fan(l)) => ReadToEnd(Fan(l))' BY <1>1, <2>1 DEF ReadToEnd
  <2>3. EndedCleanly(Fan(l))' <=> EndedCleanly(Fan(l)) BY <1>1 DEF EndedCleanly
  <2>4. \A i \in SinksOf(l) : reply[<<l, i>>] = Ack(<<l, i>>) => reply'[<<l, i>>] = Ack(<<l, i>>)'
    BY <1>1 DEF Ack, SinksOf
  <2> QED BY <1>1, <2>2, <2>3, <2>4 DEF Fanned
<1> QED BY <1>2, <1>3, <1>4

-----------------------------------------------------------------------------
(* The owner.                                                              *)
LEMMA OwnerStep ==
  ASSUME StreamInvariant, Owner PROVE Trustworthy'
<1> USE DEF StreamInvariant, Trustworthy
<1>0. /\ UNCHANGED <<err, held, todo, first>>
      /\ UNCHANGED <<out, fin, inq, shut, unread, reply, emitted, taken, handed, due, sent>>
      /\ cancelled => cancelled'
  BY DEF Owner, StartWiring, WireLane, WireFail, Cancel, Wait, loopVars, streamVars, countVars
<1>1. CASE WireLane
  <2> DEFINE l == launched + 1
  <2>1. /\ wire = "wiring" /\ launched \in Nat /\ launched < NumSources /\ l \in Lanes
        /\ launched' = l /\ wire' = IF l = NumSources THEN "open" ELSE "wiring"
        /\ UNCHANGED <<cancelled, verdict>>
    BY <1>1, Shape DEF WireLane, IsLast, Wired, TypeOK, Lanes
  <2>2. \A w \in Loops : loop'[w] = IF w[1] = l THEN "recv" ELSE loop[w]
    BY <1>1 DEF WireLane, Loops
  <2>3. \A w \in Loops : w[1] = l => loop[w] = "idle"
    BY <2>1 DEF Wired
  <2>4. verdict = "pending" BY <2>1 DEF Reaping
  <2>5. Counted' BY <1>0, <2>2, <2>3, <1>1 DEF Counted
  <2>6. Reaping' BY <2>1, <2>4 DEF Reaping
  <2>7. Wired'
    <3>1. launched' < NumSources \/ launched' = NumSources BY <2>1, Shape
    <3>2. \A w \in Loops : w[1] \in Nat BY Shape DEF Lanes
    <3>3. \A w \in Loops : w[1] <= launched' <=> w[1] <= launched \/ w[1] = l
      BY <2>1, <3>2
    <3>4. \A w \in Loops : w[1] <= launched' <=> loop'[w] # "idle"
      BY <2>2, <3>3 DEF Wired
    <3> QED BY <2>1, <3>1, <3>4 DEF Wired
  <2>8. Recorded' BY <1>0, <2>1, <2>2, <2>3 DEF Recorded
  <2>9. Carried' BY <1>0, <2>1, <2>2, <2>3 DEF Carried, EndedCleanly, ReadToEnd
  <2>10. Fanned'
    <3>1. \A m \in Lanes : Fan(m) \in Loops /\ SinksOf(m)' = SinksOf(m) BY Shape DEF SinksOf
    <3>2. \A m \in Lanes : loop'[Fan(m)] = loop[Fan(m)]
                            \/ (loop[Fan(m)] = "idle" /\ loop'[Fan(m)] = "recv")
      BY <2>2, <2>3, <3>1
    <3> QED BY <1>0, <2>1, <3>1, <3>2 DEF Fanned, EndedCleanly, ReadToEnd, Ack
  <2> QED BY <2>5, <2>6, <2>7, <2>8, <2>9, <2>10
<1>2. CASE ~WireLane
  <2>1. loop' = loop /\ launched' = launched
    BY <1>2 DEF Owner, StartWiring, WireFail, Cancel, Wait, loopVars
  <2>2. Counted' BY <1>0, <2>1 DEF Counted
  <2>3. Reaping'
    BY <1>2, <2>1 DEF Reaping, Reaped, Owner, StartWiring, WireFail, Cancel, Wait
  <2>4. Wired'
    BY <1>2, <2>1, Shape DEF Wired, Owner, StartWiring, WireFail, Cancel, Wait
  <2>5. Recorded' BY <1>0, <2>1 DEF Recorded
  <2>6. Carried' BY <1>0, <2>1 DEF Carried, EndedCleanly, ReadToEnd
  <2>7. Fanned'
    <3>1. \A m \in Lanes : SinksOf(m)' = SinksOf(m) BY DEF SinksOf
    <3> QED BY <1>0, <2>1, <3>1 DEF Fanned, EndedCleanly, ReadToEnd, Ack
  <2> QED BY <2>2, <2>3, <2>4, <2>5, <2>6, <2>7
<1> QED BY <1>1, <1>2

-----------------------------------------------------------------------------
(* The loops that feed a processor.                                        *)
LEMMA CarryStep ==
  ASSUME StreamInvariant, NEW l \in Lanes, NEW k \in Stages,
         \/ Recv(l, k) \/ Send(l, k)
         \/ CloseSend(l, k) /\ ~UnexpectedEOF(l, k)
  PROVE Trustworthy'
<1> USE DEF StreamInvariant, Trustworthy
<1> DEFINE w == <<l, k>>
<1>1. w \in Loops /\ w[1] = l /\ w[2] = k /\ k # FanOut
  BY Shape DEF Recv, Send, CloseSend, Stages, FanOut
<1>2. /\ loop[w] \in {"recv", "send"} /\ loop'[w] \in {"recv", "send", "exited"}
      /\ \A v \in Loops : v # w => /\ loop'[v] = loop[v] /\ held'[v] = held[v]
                                    /\ taken'[v] = taken[v] /\ handed'[v] = handed[v]
                                    /\ out'[v] = out[v]
  BY SMTT(30), <1>1 DEF Recv, Send, CloseSend, CanRecv, AtEOF, TypeOK, Loops, countVars
<1>3. UNCHANGED <<wire, cancelled, verdict, launched, err, todo, first, fin, unread, reply, emitted, due, sent>>
  BY DEF Recv, Send, CloseSend, ownerVars, countVars
<1>4. verdict = "pending" BY <1>1, <1>2 DEF Reaping, Reaped, Loops
<1> HIDE DEF w
<1>5. /\ Recv(l, k) => /\ loop[w] = "recv" /\ loop'[w] = "send" /\ held'[w] \in Types
                       /\ taken'[w] = taken[w] + 1 /\ handed'[w] = handed[w]
      /\ Send(l, k) => /\ loop[w] = "send" /\ loop'[w] = "recv"
                       /\ taken'[w] = taken[w] /\ handed'[w] = handed[w] + 1
      /\ CloseSend(l, k) /\ ~UnexpectedEOF(l, k) =>
           /\ loop[w] = "recv" /\ loop'[w] = "exited" /\ taken'[w] = taken[w] /\ handed'[w] = handed[w]
           /\ fin[w] = "eof" /\ out'[w] = <<>> /\ (k = 0 /\ l \notin Bounded => CtxDone)
  <2>1. out[w] # <<>> => Head(out[w]) \in Types BY <1>1, StreamTypes
  <2> QED BY <1>1, <2>1 DEF Recv, Send, CloseSend, CanRecv, AtEOF, UnexpectedEOF, TypeOK, Loops, countVars, w
<1>6. taken[w] \in Nat /\ handed[w] \in Nat BY <1>1 DEF TypeOK, Loops
<1>7. Counted' BY <1>1, <1>2, <1>3, <1>5 DEF Counted
<1>8. Reaping' BY <1>3, <1>4 DEF Reaping
<1>9. Wired' BY <1>1, <1>2, <1>3 DEF Wired
<1>10. Recorded' BY <1>1, <1>2, <1>3 DEF Recorded
<1>11. Carried'
  <2> SUFFICES ASSUME NEW v \in Loops, v[2] # FanOut
               PROVE /\ loop'[v] \in {"idle", "recv"} => handed'[v] = taken'[v]
                     /\ loop'[v] = "send" => taken'[v] = handed'[v] + 1
                     /\ EndedCleanly(v)' => handed'[v] = taken'[v] /\ ReadToEnd(v)'
    BY DEF Carried
  <2>1. CASE v # w BY <1>2, <1>3, <2>1 DEF Carried, EndedCleanly, ReadToEnd
  <2>2. CASE v = w /\ Recv(l, k) BY <1>1, <1>5, <1>6, <2>2 DEF Carried, EndedCleanly
  <2>3. CASE v = w /\ Send(l, k) BY <1>1, <1>5, <1>6, <2>3 DEF Carried, EndedCleanly
  <2>4. CASE v = w /\ CloseSend(l, k) /\ ~UnexpectedEOF(l, k)
    <3>1. ReadToEnd(v)' BY <1>1, <1>3, <1>4, <1>5, <2>4 DEF ReadToEnd, CtxDone
    <3> QED BY <1>1, <1>5, <1>6, <2>4, <3>1 DEF Carried, EndedCleanly
  <2> QED BY <2>1, <2>2, <2>3, <2>4
<1>12. Fanned'
  <2>1. \A m \in Lanes : Fan(m) \in Loops /\ Fan(m) # w /\ SinksOf(m)' = SinksOf(m)
    BY <1>1, Shape DEF SinksOf
  <2> QED BY <1>2, <1>3, <2>1 DEF Fanned, EndedCleanly, ReadToEnd, Ack
<1> QED BY <1>7, <1>8, <1>9, <1>10, <1>11, <1>12

-----------------------------------------------------------------------------
(* The loops that fan out.                                                 *)
FanProgress(l) ==
  \/ FanRecv(l)
  \/ \E i \in Sinks : FanSend(l, i)
  \/ FanEOF(l) /\ loop'[Fan(l)] = "close"
  \/ \E i \in Sinks : FanAck(l, i) /\ loop'[Fan(l)] # "failing"

LEMMA FanStepKeeps ==
  ASSUME StreamInvariant, NEW l \in Lanes, FanProgress(l) PROVE Trustworthy'
<1> USE DEF StreamInvariant, Trustworthy
<1> DEFINE w == Fan(l)
<1>1. w \in Loops /\ w[1] = l /\ w[2] = FanOut BY Shape
<1>2. /\ loop[w] \in {"recv", "send", "close"} /\ loop'[w] \in {"recv", "send", "close", "exited"}
      /\ \A v \in Loops : v # w => /\ loop'[v] = loop[v] /\ err'[v] = err[v]
                                   /\ taken'[v] = taken[v] /\ out'[v] = out[v]
      /\ err'[w] = err[w]
  BY <1>1 DEF FanProgress, FanRecv, FanSend, FanEOF, FanAck, CanRecv, AtEOF, Fails, TypeOK, Loops,
              ownerVars, streamVars, countVars
<1>3. /\ UNCHANGED <<wire, cancelled, verdict, launched, first, fin, reply, held, handed>>
      /\ \A m \in Lanes : m # l => todo'[m] = todo[m]
  BY DEF FanProgress, FanRecv, FanSend, FanEOF, FanAck, Fails, TypeOK, ownerVars, streamVars, countVars
<1>4. verdict = "pending" BY <1>1, <1>2 DEF Reaping, Reaped, Loops
<1>5. \A s \in Lanes \X Sinks : s[1] # l =>
         due'[s] = due[s] /\ sent'[s] = sent[s] /\ unread'[s] = unread[s]
  <2>1. CASE FanRecv(l) BY <2>1 DEF FanRecv
  <2>2. ASSUME NEW i \in Sinks, FanSend(l, i), NEW s \in Lanes \X Sinks, s[1] # l
        PROVE due'[s] = due[s] /\ sent'[s] = sent[s] /\ unread'[s] = unread[s]
    <3>1. s # <<l, i>> BY <2>2
    <3> QED BY <2>2, <3>1 DEF FanSend, TypeOK
  <2>3. CASE FanEOF(l) \/ \E i \in Sinks : FanAck(l, i)
    BY <2>3 DEF FanEOF, FanAck, streamVars, countVars
  <2> QED BY <2>1, <2>2, <2>3 DEF FanProgress
<1>6. \A s \in Lanes \X Sinks : s = <<s[1], s[2]>> /\ due[s] \in Nat /\ sent[s] \in Nat /\ unread[s] \in Nat
  BY DEF TypeOK
<1> HIDE DEF w
<1>7. Counted'
  <2>1. \A s \in Lanes \X Sinks : unread'[s] <= sent'[s]
    <3>1. CASE \E i \in Sinks : FanSend(l, i)
      BY <3>1, <1>6 DEF FanSend, Counted, TypeOK
    <3>2. CASE ~\E i \in Sinks : FanSend(l, i)
      BY <3>2 DEF FanProgress, FanRecv, FanEOF, FanAck, Counted, streamVars, countVars
    <3> QED BY <3>1, <3>2
  <2>2. \A v \in Loops : v[2] # FanOut => v # w BY <1>1
  <2> QED BY <1>2, <1>3, <2>1, <2>2 DEF Counted
<1>8. Reaping' BY <1>3, <1>4 DEF Reaping
<1>9. Wired' BY <1>1, <1>2, <1>3 DEF Wired
<1>10. Recorded'
  <2>1. err[w] = NoError BY <1>1, <1>2 DEF Recorded
  <2> QED BY <1>1, <1>2, <1>3, <2>1 DEF Recorded
<1>11. Carried'
  <2>1. \A v \in Loops : v[2] # FanOut => v # w BY <1>1
  <2> QED BY <1>2, <1>3, <2>1 DEF Carried, EndedCleanly, ReadToEnd
<1>12. Fanned'
  <2> DEFINE Good(m) ==
        /\ loop[Fan(m)] \in {"idle", "recv", "close"} \/ EndedCleanly(Fan(m)) =>
             \A i \in Sinks : due[<<m, i>>] = sent[<<m, i>>]
        /\ loop[Fan(m)] = "send" =>
             \A i \in Sinks : due[<<m, i>>] = sent[<<m, i>>] + (IF i \in todo[m] THEN 1 ELSE 0)
        /\ loop[Fan(m)] = "close" =>
             ReadToEnd(Fan(m)) /\ \A i \in SinksOf(m) \ todo[m] : reply[<<m, i>>] = Ack(<<m, i>>)
        /\ EndedCleanly(Fan(m)) =>
             ReadToEnd(Fan(m)) /\ \A i \in SinksOf(m) : reply[<<m, i>>] = Ack(<<m, i>>)
  <2>1. \A m \in Lanes : Good(m) BY DEF Fanned
  <2>2. \A m \in Lanes : SinksOf(m)' = SinksOf(m) /\ SinksOf(m) \subseteq Sinks BY DEF SinksOf
  <2>3. ASSUME NEW m \in Lanes, m # l PROVE Good(m)'
    <3>1. Fan(m) # w /\ Fan(m) \in Loops BY <2>3, Shape, <1>1
    <3> QED BY <1>2, <1>3, <1>5, <2>1, <2>2, <2>3, <3>1 DEF EndedCleanly, ReadToEnd, Ack
  <2>4. Good(l)'
    <3>1. CASE FanRecv(l)
      <4>1. /\ loop[w] = "recv" /\ loop'[w] = IF Recipients(l, Head(out[w])) = {} THEN "recv" ELSE "send"
            /\ todo'[l] = Recipients(l, Head(out[w])) /\ sent' = sent
            /\ \A i \in Sinks : due'[<<l, i>>] =
                 IF i \in Recipients(l, Head(out[w])) THEN due[<<l, i>>] + 1 ELSE due[<<l, i>>]
        BY <3>1, <1>1 DEF FanRecv, CanRecv, TypeOK, w, Loops
      <4>2. \A i \in Sinks : due[<<l, i>>] = sent[<<l, i>>] BY <2>1, <4>1 DEF w
      <4> QED BY <1>6, <4>1, <4>2 DEF EndedCleanly, w
    <3>2. ASSUME NEW i \in Sinks, FanSend(l, i) PROVE Good(l)'
      <4>1. /\ loop[w] = "send" /\ loop'[w] = (IF todo[l] = {i} THEN "recv" ELSE "send")
            /\ i \in todo[l] /\ todo'[l] = todo[l] \ {i} /\ due' = due
            /\ \A j \in Sinks : sent'[<<l, j>>] = IF j = i THEN sent[<<l, j>>] + 1 ELSE sent[<<l, j>>]
        BY <3>2, <1>1 DEF FanSend, Turn, TypeOK, w, Loops
      <4>2. \A j \in Sinks : due[<<l, j>>] = sent[<<l, j>>] + (IF j \in todo[l] THEN 1 ELSE 0)
        BY <2>1, <4>1 DEF w
      <4>3. \A j \in Sinks : sent[<<l, j>>] \in Nat /\ due[<<l, j>>] \in Nat BY <1>6
      <4>4. \A j \in Sinks : due'[<<l, j>>] = sent'[<<l, j>>] + (IF j \in todo'[l] THEN 1 ELSE 0)
        BY <4>1, <4>2, <4>3
      <4>5. todo[l] = {i} => \A j \in Sinks : due'[<<l, j>>] = sent'[<<l, j>>]
        BY <4>1, <4>2, <4>3
      <4> QED BY <4>1, <4>4, <4>5 DEF EndedCleanly, w
    <3>3. CASE FanEOF(l) /\ loop'[w] = "close"
      <4>1. /\ loop[w] = "recv" /\ out[w] = <<>> /\ fin[w] = "eof" /\ out' = out /\ due' = due /\ sent' = sent
            /\ todo'[l] = SinksOf(l)
            /\ FanOut = 0 /\ l \notin Bounded => CtxDone
        BY <3>3, <1>1 DEF FanEOF, AtEOF, Fails, UnexpectedEOF, TypeOK, w, Loops, streamVars, countVars, FanOut
      <4>2. ReadToEnd(w)' BY <1>1, <1>3, <1>4, <4>1 DEF ReadToEnd, CtxDone
      <4>3. \A i \in Sinks : due'[<<l, i>>] = sent'[<<l, i>>] BY <2>1, <4>1 DEF w
      <4>4. SinksOf(l) \ todo'[l] = {} BY <4>1
      <4> QED BY <3>3, <4>2, <4>3, <4>4, <2>2 DEF EndedCleanly, w
    <3>4. ASSUME NEW i \in Sinks, FanAck(l, i), loop'[w] # "failing" PROVE Good(l)'
      <4>1. /\ loop[w] = "close" /\ loop'[w] = (IF todo[l] = {i} THEN "exited" ELSE "close")
            /\ out' = out /\ due' = due /\ sent' = sent
            /\ todo'[l] = todo[l] \ {i}
            /\ reply[<<l, i>>].code = "ok" /\ Acknowledges(reply[<<l, i>>], sent[<<l, i>>])
        BY <3>4, <1>1 DEF FanAck, Fails, TypeOK, w, Loops, streamVars, countVars
      <4>2. /\ ReadToEnd(w) /\ \A j \in Sinks : due[<<l, j>>] = sent[<<l, j>>]
            /\ \A j \in SinksOf(l) \ todo[l] : reply[<<l, j>>] = Ack(<<l, j>>)
        BY <2>1, <4>1 DEF w
      <4>3. reply[<<l, i>>] = Ack(<<l, i>>)
        <5>1. reply[<<l, i>>] \in [code : StreamEnds \cup {"ok"}, consumed : Nat, clean : BOOLEAN]
          BY DEF TypeOK
        <5> QED BY <4>1, <4>2, <5>1 DEF Acknowledges, Ack
      <4>4. ReadToEnd(w)' BY <1>3, <4>1, <4>2 DEF ReadToEnd
      <4>5. \A j \in SinksOf(l) \ todo'[l] : reply'[<<l, j>>] = Ack(<<l, j>>)'
        BY <1>3, <4>1, <4>2, <4>3 DEF Ack
      <4>6. todo[l] = {i} => \A j \in SinksOf(l) : reply'[<<l, j>>] = Ack(<<l, j>>)'
        BY <4>1, <4>5
      <4> QED BY <4>1, <4>2, <4>4, <4>5, <4>6, <2>2 DEF EndedCleanly, w
    <3> QED BY <3>1, <3>2, <3>3, <3>4 DEF FanProgress, w
  <2>5. \A m \in Lanes : Good(m)' BY <2>3, <2>4
  <2> QED BY <2>5 DEF Fanned
<1> QED BY <1>7, <1>8, <1>9, <1>10, <1>11, <1>12

-----------------------------------------------------------------------------
(* Every step keeps the invariant. *)
LEMMA StreamStep == StreamInvariant /\ [Next]_vars => StreamInvariant'
<1> SUFFICES ASSUME StreamInvariant, [Next]_vars PROVE StreamInvariant' OBVIOUS
<1>1. TypeOK' BY Typed DEF StreamInvariant, Trustworthy
<1> SUFFICES Trustworthy' BY <1>1 DEF StreamInvariant
<1>2. CASE Owner BY <1>2, OwnerStep
<1>3. ASSUME NEW w \in Loops, RecvError(w) \/ Interrupted(w) PROVE Trustworthy'
  <2>1. PICK e \in Errors : /\ Fails(w, e) /\ loop[w] \in {"recv", "send", "close"}
                            /\ e = "cut" => cancelled \/ first # NoError
                            /\ UNCHANGED <<ownerVars, streamVars, countVars>>
    <3>1. CASE RecvError(w) BY <3>1, ErrorShape DEF RecvError, AtError
    <3>2. CASE Interrupted(w)
      <4>1. verdict = "pending"
        BY <3>2 DEF Interrupted, StreamInvariant, Trustworthy, Reaping, Reaped, Loops
      <4> QED BY <3>2, <4>1, ErrorShape DEF Interrupted, Interruption, CtxDone
    <3> QED BY <1>3, <3>1, <3>2
  <2> QED BY <2>1, FailStep
<1>4. ASSUME NEW w \in Loops, Return(w) PROVE Trustworthy' BY <1>4, ReturnStep
<1>5. ASSUME NEW l \in Lanes, NEW k \in Stages,
             Recv(l, k) \/ Send(l, k) \/ SendRefused(l, k) \/ CloseSend(l, k)
      PROVE Trustworthy'
  <2>1. CASE SendRefused(l, k)
    BY <2>1, FailStep, Shape, ErrorShape DEF SendRefused
  <2>2. CASE CloseSend(l, k) /\ UnexpectedEOF(l, k)
    <3>1. /\ loop[<<l, k>>] = "recv" /\ Fails(<<l, k>>, "unexpectedEOF")
          /\ UNCHANGED <<ownerVars, streamVars, countVars>>
      BY <2>2 DEF CloseSend, AtEOF, streamVars
    <3> QED BY <3>1, FailStep, Shape, ErrorShape
  <2>3. CASE Recv(l, k) \/ Send(l, k) \/ (CloseSend(l, k) /\ ~UnexpectedEOF(l, k))
    BY <2>3, CarryStep
  <2> QED BY <1>5, <2>1, <2>2, <2>3
<1>6. ASSUME NEW l \in Lanes, FanStep(l) PROVE Trustworthy'
  <2>1. CASE FanProgress(l) BY <2>1, FanStepKeeps
  <2>2. ASSUME NEW e \in Errors \ {"cut"}, Fails(Fan(l), e), loop[Fan(l)] \in {"recv", "send", "close"},
               UNCHANGED <<ownerVars, streamVars, countVars>>
        PROVE Trustworthy'
    BY <2>2, FailStep, Shape
  <2>3. CASE FanEOF(l)
    <3>1. Fan(l) \in Loops BY Shape
    <3>2. CASE loop'[Fan(l)] = "close" BY <2>1, <2>3, <3>2 DEF FanProgress
    <3>3. CASE loop'[Fan(l)] # "close"
      <4>1. \E e \in Errors \ {"cut"} : Fails(Fan(l), e)
        BY <2>3, <3>1, <3>3, ErrorShape DEF FanEOF, StreamInvariant, TypeOK, Loops
      <4> QED BY <2>2, <2>3, <4>1 DEF FanEOF, AtEOF
    <3> QED BY <3>2, <3>3
  <2>4. ASSUME NEW i \in Sinks, FanSendRefused(l, i) PROVE Trustworthy'
    <3>1. reply[<<l, i>>].code \in (Errors \ {"cut"}) \cup {"ok"}
      BY <2>4, ErrorShape DEF FanSendRefused, StreamInvariant, Trustworthy, Counted, TypeOK, StreamEnds
    <3> QED BY <2>2, <2>4, <3>1, ErrorShape DEF FanSendRefused
  <2>5. ASSUME NEW i \in Sinks, FanAck(l, i) PROVE Trustworthy'
    <3>1. reply[<<l, i>>].code \in (Errors \ {"cut"}) \cup {"ok"}
      BY <2>5, ErrorShape DEF FanAck, StreamInvariant, Trustworthy, Counted, TypeOK, StreamEnds
    <3>2. CASE loop'[Fan(l)] = "failing"
      <4>1. \E e \in Errors \ {"cut"} : Fails(Fan(l), e)
        BY <2>5, <3>1, <3>2, Shape, ErrorShape DEF FanAck, StreamInvariant, TypeOK, Loops
      <4> QED BY <2>2, <2>5, <4>1 DEF FanAck
    <3>3. CASE loop'[Fan(l)] # "failing" BY <2>1, <2>5, <3>3 DEF FanProgress
    <3> QED BY <3>2, <3>3
  <2> QED BY <1>6, <2>1, <2>3, <2>4, <2>5 DEF FanStep, FanProgress
<1>7. ASSUME NEW l \in Lanes, Component(l) PROVE Trustworthy'
  <2>1. UNCHANGED <<ownerVars, loopVars, countVars>>
    BY <1>7 DEF Component, SourceEmits, ProcessorTakes, StreamCompletes, StreamFails, SinkTakes,
                SinkAcknowledges, SinkFails
  <2>2. \A w \in Loops : fin[w] # "open" => fin'[w] = fin[w] /\ out'[w] = out[w]
    BY <1>7 DEF Component, SourceEmits, ProcessorTakes, StreamCompletes, StreamFails, SinkTakes,
                SinkAcknowledges, SinkFails, StreamInvariant, TypeOK, Loops
  <2>3. ASSUME NEW i \in Sinks, SinkAcknowledges(l, i) \/ SinkFails(l, i)
        PROVE \E r : reply[<<l, i>>] = Open /\ r.code # "open" /\ reply' = [reply EXCEPT ![<<l, i>>] = r]
    <3>1. CASE SinkAcknowledges(l, i) BY <3>1 DEF SinkAcknowledges
    <3>2. CASE SinkFails(l, i) BY <3>2, ErrorShape DEF SinkFails
    <3> QED BY <2>3, <3>1, <3>2
  <2>4. \A s \in Lanes \X Sinks :
          /\ reply[s].code = "ok" => reply'[s] = reply[s]
          /\ reply'[s].code = "open" => reply'[s] = Open
    <3>1. \A s \in Lanes \X Sinks : reply[s].code = "open" => reply[s] = Open
      BY DEF StreamInvariant, Trustworthy, Counted
    <3>2. CASE reply' = reply BY <3>1, <3>2
    <3>3. ASSUME NEW i \in Sinks, SinkAcknowledges(l, i) \/ SinkFails(l, i), NEW s \in Lanes \X Sinks
          PROVE /\ reply[s].code = "ok" => reply'[s] = reply[s]
                /\ reply'[s].code = "open" => reply'[s] = Open
      <4>1. PICK r : reply[<<l, i>>] = Open /\ r.code # "open" /\ reply' = [reply EXCEPT ![<<l, i>>] = r]
        BY <2>3, <3>3
      <4>2. Open.code = "open" BY DEF Open
      <4>3. CASE s = <<l, i>>
        BY <4>1, <4>2, <4>3 DEF StreamInvariant, TypeOK
      <4>4. CASE s # <<l, i>> BY <3>1, <4>1, <4>4 DEF StreamInvariant, TypeOK
      <4> QED BY <4>3, <4>4
    <3> QED BY <1>7, <3>2, <3>3
        DEF Component, SourceEmits, ProcessorTakes, StreamCompletes, StreamFails, SinkTakes
  <2>5. Counted'
    <3>1. \A s \in Lanes \X Sinks : unread[s] \in Nat /\ sent[s] \in Nat /\ unread[s] <= sent[s] /\ sent'[s] = sent[s]
      BY <2>1 DEF countVars, StreamInvariant, Trustworthy, TypeOK, Counted
    <3>2. ASSUME NEW s \in Lanes \X Sinks PROVE unread'[s] <= sent'[s]
      <4>1. CASE unread' = unread BY <3>1, <4>1
      <4>2. ASSUME NEW i \in Sinks, SinkTakes(l, i) PROVE unread'[s] <= sent'[s]
        <5>1. unread'[s] = IF s = <<l, i>> THEN unread[s] - 1 ELSE unread[s]
          BY <4>2 DEF SinkTakes, StreamInvariant, TypeOK
        <5> QED BY <3>1, <5>1
      <4> QED BY <1>7, <4>1, <4>2
          DEF Component, SourceEmits, ProcessorTakes, StreamCompletes, StreamFails, SinkAcknowledges,
              SinkFails
    <3> QED BY <2>1, <2>4, <3>2 DEF Counted, loopVars, StreamInvariant, Trustworthy
  <2> QED BY <2>1, <2>2, <2>4, <2>5, ComponentStep
<1>8. CASE UNCHANGED vars
  <2>1. Counted' BY <1>8 DEF vars, loopVars, streamVars, countVars, StreamInvariant, Trustworthy, Counted
  <2> QED BY <1>8, <2>1, ComponentStep DEF vars, streamVars
<1> QED BY <1>2, <1>3, <1>4, <1>5, <1>6, <1>7, <1>8, Shape DEF Next, LoopStep

THEOREM StreamsInvariant == Spec => []StreamInvariant
BY StreamInitial, StreamStep, PTL DEF Spec

-----------------------------------------------------------------------------
(* Every variable keeps its type. *)
THEOREM TypeCorrect == Spec => []TypeOK
<1>1. StreamInvariant => TypeOK BY DEF StreamInvariant
<1> QED BY <1>1, StreamsInvariant, PTL

(* When the verdict is given, and no failure was recorded, every loop that *)
(* nobody cancelled has ended, in every lane, without an error.            *)
LEMMA AllEndedCleanly ==
  ASSUME StreamInvariant, verdict = "nil", first = NoError, ~cancelled
  PROVE launched = NumSources /\ \A w \in Loops : EndedCleanly(w)
<1> USE DEF StreamInvariant, Trustworthy
<1>1. launched = NumSources BY DEF Reaping, Wired
<1>2. \A w \in Loops : w[1] <= launched BY <1>1, Shape DEF Lanes
<1>3. \A w \in Loops : loop[w] = "exited" BY <1>2 DEF Reaping, Reaped, Wired, Loops
<1> QED BY <1>1, <1>3 DEF Recorded, EndedCleanly

(* A nil verdict means that every event was handed on and acknowledged and *)
(* that nothing failed, unless somebody cancelled, whatever the topology,  *)
(* the faults and the order of the calls (stream_orchestrator.go:391).     *)
THEOREM NilVerdictIsSound == Spec => []VerdictIsSound
<1>1. StreamInvariant => CleanVerdictMeansDelivered
  <2> SUFFICES ASSUME StreamInvariant, verdict = "nil", first = NoError, ~cancelled
               PROVE launched = NumSources /\ Delivered
    BY DEF CleanVerdictMeansDelivered
  <2> USE DEF StreamInvariant, Trustworthy
  <2>1. launched = NumSources /\ \A w \in Loops : EndedCleanly(w) BY AllEndedCleanly
  <2>2. \A w \in Loops : w[2] # FanOut => handed[w] = taken[w] /\ ReadToEnd(w)
    BY <2>1 DEF Carried
  <2>3. \A l \in Lanes : ReadToEnd(Fan(l)) /\ \A i \in SinksOf(l) : reply[<<l, i>>] = Ack(<<l, i>>)
    BY <2>1, Shape DEF Fanned
  <2>4. ASSUME NEW l \in Lanes, NEW k \in Stages
        PROVE /\ fin[<<l, k>>] = "eof" /\ out[<<l, k>>] = <<>>
              /\ k < FanOut => handed[<<l, k>>] = taken[<<l, k>>]
    <3>1. <<l, k>> \in Loops BY Shape
    <3>2. CASE k = FanOut BY <2>3, <3>2 DEF ReadToEnd, Fan, Stages, FanOut
    <3>3. CASE k # FanOut BY <2>2, <3>1, <3>3 DEF ReadToEnd
    <3> QED BY <3>2, <3>3
  <2> QED BY <2>1, <2>3, <2>4 DEF Delivered, Ack
<1>2. StreamInvariant => NoFailureSwallowed
  BY DEF StreamInvariant, Trustworthy, Reaping, Reaped, Recorded, NoFailureSwallowed, Loops, NoError
<1>3. StreamInvariant => VerdictIsSound BY <1>1, <1>2 DEF VerdictIsSound
<1> QED BY <1>3, StreamsInvariant, PTL

(* A source that does not declare itself bounded never makes a run         *)
(* complete: its EOF is a failure while the pipeline is alive              *)
(* (stream_orchestrator.go:253).                                           *)
THEOREM EndlessSourcesEndRuns == Spec => []EndlessSourceNeverCompletes
<1>1. StreamInvariant => EndlessSourceNeverCompletes
  <2> SUFFICES ASSUME StreamInvariant, verdict = "nil", first = NoError, Bounded # Lanes, ~cancelled
               PROVE FALSE
    BY DEF EndlessSourceNeverCompletes
  <2> USE DEF StreamInvariant, Trustworthy
  <2>1. \A w \in Loops : EndedCleanly(w) BY AllEndedCleanly
  <2>2. PICK l \in Lanes : l \notin Bounded BY TopologyAssumption
  <2>3. <<l, 0>> \in Loops BY Shape
  <2>4. ReadToEnd(<<l, 0>>)
    <3>1. CASE FanOut = 0 BY <2>1, <2>3, <3>1 DEF Fanned, Fan
    <3>2. CASE FanOut # 0 BY <2>1, <2>3, <3>2 DEF Carried
    <3> QED BY <3>1, <3>2
  <2> QED BY <2>2, <2>4 DEF ReadToEnd
<1> QED BY <1>1, StreamsInvariant, PTL

-----------------------------------------------------------------------------
(* The error errgroup kept is that of a loop that has ended, and only a    *)
(* loop that feeds a processor can be cut off: the fan-out looks behind    *)
(* the io.EOF of its Send.                                                 *)
FirstHasALoop == first # NoError => \E w \in Loops : loop[w] = "exited" /\ err[w] = first
OnlyFeedersAreCut == \A w \in Loops : err[w] = "cut" => w[2] # FanOut
CauseKnown == FirstHasALoop /\ OnlyFeedersAreCut

(* A step that lets a loop fail, with an error a fan-out may have. *)
LEMMA CauseOfFailure ==
  ASSUME CauseKnown, NEW w \in Loops, NEW e, loop[w] # "exited", TypeOK,
         e = "cut" => w[2] # FanOut, Fails(w, e)
  PROVE CauseKnown'
<1>1. \A v \in Loops : v # w => loop'[v] = loop[v] /\ err'[v] = err[v]
  BY DEF Fails, TypeOK, Loops
<1>2. err'[w] = e /\ first' = first BY DEF Fails, TypeOK, Loops
<1> QED BY <1>1, <1>2 DEF CauseKnown, FirstHasALoop, OnlyFeedersAreCut

(* A step that leaves the errors alone, and every loop that has ended. *)
LEMMA CauseStays ==
  ASSUME CauseKnown, UNCHANGED <<err, first>>,
         \A w \in Loops : loop[w] = "exited" => loop'[w] = "exited"
  PROVE CauseKnown'
BY DEF CauseKnown, FirstHasALoop, OnlyFeedersAreCut

LEMMA CauseStep == StreamInvariant /\ CauseKnown /\ [Next]_vars => CauseKnown'
<1> SUFFICES ASSUME StreamInvariant, CauseKnown, [Next]_vars PROVE CauseKnown'
  OBVIOUS
<1> USE DEF StreamInvariant
<1>1. CASE WireLane
  <2>1. ASSUME NEW w \in Loops, loop[w] = "exited" PROVE loop'[w] = "exited"
    <3>1. w[1] <= launched BY <2>1 DEF Trustworthy, Wired
    <3>2. w[1] # launched + 1 BY <3>1, Shape DEF TypeOK
    <3>3. loop'[w] = IF w[1] = launched + 1 THEN "recv" ELSE loop[w]
      BY <1>1 DEF WireLane, Loops
    <3> QED BY <2>1, <3>2, <3>3
  <2> QED BY <1>1, <2>1, CauseStays DEF WireLane
<1>2. CASE StartWiring \/ WireFail \/ Cancel \/ Wait
  BY <1>2, CauseStays DEF StartWiring, WireFail, Cancel, Wait, loopVars
<1>3. ASSUME NEW l \in Lanes, NEW k \in Stages, Recv(l, k) \/ Send(l, k) \/ SendRefused(l, k) \/ CloseSend(l, k)
      PROVE CauseKnown'
  <2> DEFINE w == <<l, k>>
  <2>1. w \in Loops /\ loop[w] \in {"recv", "send"}
    BY <1>3, Shape DEF Recv, Send, SendRefused, CloseSend, CanRecv, AtEOF
  <2>2. CASE \E e \in {"eof", "unexpectedEOF"} : Fails(w, e)
    BY <2>1, <2>2, CauseOfFailure
  <2>3. CASE ~ \E e \in {"eof", "unexpectedEOF"} : Fails(w, e)
    <3>1. UNCHANGED <<err, first>> BY <1>3, <2>3 DEF Recv, Send, SendRefused, CloseSend
    <3>2. \A v \in Loops : v # w => loop'[v] = loop[v]
      BY <1>3, <2>1, <2>3 DEF Recv, Send, SendRefused, CloseSend, TypeOK, Loops
    <3> QED BY <2>1, <3>1, <3>2, CauseStays
  <2> QED BY <2>2, <2>3
<1>4. ASSUME NEW w \in Loops, RecvError(w) PROVE CauseKnown'
  <2>1. fin[w] # "cut" BY <1>4, ErrorShape DEF RecvError, AtError
  <2> QED BY <1>4, <2>1, CauseOfFailure DEF RecvError, AtError
<1>5. ASSUME NEW w \in Loops, Interrupted(w) PROVE CauseKnown'
  <2>1. Interruption(w) = "cut" => w[2] # FanOut BY Shape DEF Interruption, FanOut
  <2> QED BY <1>5, <2>1, CauseOfFailure DEF Interrupted
<1>6. ASSUME NEW w \in Loops, Return(w) PROVE CauseKnown'
  <2>1. /\ loop[w] = "failing" /\ loop'[w] = "exited" /\ err' = err
        /\ \A v \in Loops : v # w => loop'[v] = loop[v]
        /\ first' = first \/ first' = err[w]
    BY <1>6 DEF Return, TypeOK, Loops
  <2> QED BY <2>1 DEF CauseKnown, FirstHasALoop, OnlyFeedersAreCut
<1>7. ASSUME NEW l \in Lanes, FanRecv(l) PROVE CauseKnown'
  <2>1. \A v \in Loops : loop[v] = "exited" => loop'[v] = "exited"
    BY <1>7, Shape DEF FanRecv, CanRecv, TypeOK, Loops
  <2> QED BY <1>7, <2>1, CauseStays DEF FanRecv
<1>8. ASSUME NEW l \in Lanes, NEW i \in Sinks, FanSend(l, i) PROVE CauseKnown'
  <2>1. \A v \in Loops : loop[v] = "exited" => loop'[v] = "exited"
    BY <1>8, Shape DEF FanSend, TypeOK, Loops
  <2> QED BY <1>8, <2>1, CauseStays DEF FanSend
<1>9. ASSUME NEW l \in Lanes, NEW i \in Sinks, FanSendRefused(l, i) PROVE CauseKnown'
  <2>1. reply[<<l, i>>].code # "cut" /\ "eof" # "cut"
    <3>1. reply[<<l, i>>].code \in StreamEnds \cup {"ok"} BY DEF TypeOK
    <3> QED BY <3>1, ErrorShape DEF StreamEnds
  <2> QED BY <1>9, <2>1, CauseOfFailure, Shape DEF FanSendRefused
<1>10. ASSUME NEW l \in Lanes, FanEOF(l) PROVE CauseKnown'
  <2>1. Fan(l) \in Loops /\ loop[Fan(l)] = "recv" BY <1>10, Shape DEF FanEOF, AtEOF
  <2>2. CASE Fails(Fan(l), "canceled") \/ Fails(Fan(l), "unexpectedEOF")
    BY <2>1, <2>2, CauseOfFailure
  <2>3. CASE loop' = [loop EXCEPT ![Fan(l)] = "close"] /\ UNCHANGED <<err, first>>
    <3>1. \A v \in Loops : loop[v] = "exited" => loop'[v] = "exited"
      BY <2>1, <2>3 DEF TypeOK, Loops
    <3> QED BY <2>3, <3>1, CauseStays
  <2> QED BY <1>10, <2>2, <2>3 DEF FanEOF
<1>11. ASSUME NEW l \in Lanes, NEW i \in Sinks, FanAck(l, i) PROVE CauseKnown'
  <2>1. Fan(l) \in Loops /\ loop[Fan(l)] = "close" BY <1>11, Shape DEF FanAck
  <2>2. reply[<<l, i>>].code # "cut"
    <3>1. reply[<<l, i>>].code \in StreamEnds \cup {"ok"} BY DEF TypeOK
    <3> QED BY <3>1, ErrorShape DEF StreamEnds
  <2>3. CASE Fails(Fan(l), reply[<<l, i>>].code) \/ Fails(Fan(l), "mismatch")
    BY <2>1, <2>2, <2>3, CauseOfFailure
  <2>4. CASE loop' = [loop EXCEPT ![Fan(l)] = IF todo[l] = {i} THEN "exited" ELSE "close"]
             /\ UNCHANGED <<err, first>>
    <3>1. \A v \in Loops : loop[v] = "exited" => loop'[v] = "exited"
      BY <2>1, <2>4 DEF TypeOK, Loops
    <3> QED BY <2>4, <3>1, CauseStays
  <2> QED BY <1>11, <2>3, <2>4 DEF FanAck
<1>12. ASSUME NEW l \in Lanes, Component(l) PROVE CauseKnown'
  <2>1. UNCHANGED loopVars
    BY <1>12 DEF Component, SourceEmits, ProcessorTakes, StreamCompletes, StreamFails, SinkTakes,
                 SinkAcknowledges, SinkFails
  <2> QED BY <2>1, CauseStays DEF loopVars
<1>13. CASE UNCHANGED vars BY <1>13, CauseStays DEF vars, loopVars
<1> QED
  BY <1>1, <1>2, <1>3, <1>4, <1>5, <1>6, <1>7, <1>8, <1>9, <1>10, <1>11, <1>12, <1>13, Shape
  DEF Next, Owner, LoopStep, FanStep

(* Where sources feed the sinks themselves, no verdict rests on an error   *)
(* that the cancellation caused, and no endless source makes a run         *)
(* complete (stream_orchestrator.go:253, :374).  With a processor the      *)
(* first of these fails, as the run stream_echo shows.                     *)
THEOREM DirectVerdictTellsWhy == ASSUME NumProcessors = 0 PROVE Spec => []VerdictTellsWhy
<1>1. Init => CauseKnown
  BY ErrorShape DEF Init, CauseKnown, FirstHasALoop, OnlyFeedersAreCut, NoError, Loops
<1>2. CauseKnown => CancellationIsNotAFailure
  <2>1. \A w \in Loops : w[2] = FanOut BY Shape DEF FanOut, Stages
  <2> QED BY <2>1, ErrorShape DEF CauseKnown, FirstHasALoop, OnlyFeedersAreCut, CancellationIsNotAFailure
<1>3. CancellationIsNotAFailure /\ EndlessSourceNeverCompletes => VerdictTellsWhy
  BY DEF VerdictTellsWhy
<1> QED BY <1>1, <1>2, <1>3, CauseStep, StreamsInvariant, EndlessSourcesEndRuns, PTL DEF Spec

-----------------------------------------------------------------------------
(* The orchestrator implements what it promises the runner.                *)
Broken == CASE first = NoError -> "no"
            [] first = "canceled" -> "canceled"
            [] first = "cut" -> "echo"
            [] OTHER -> "error"
Settled == launched = NumSources /\ \A w \in Lanes \X Stages : loop[w] = "exited" /\ err[w] = NoError

LEMMA BrokenShape ==
  /\ Broken = "no" <=> first = NoError
  /\ Broken = "canceled" <=> first = "canceled"
  /\ Broken = "echo" <=> first = "cut"
  /\ Broken \in {"no", "canceled", "echo", "error"}
BY DEF Broken, NoError

(* What is settled stays so, and is never broken.                          *)
LEMMA SettledShape ==
  ASSUME StreamInvariant, Settled
  PROVE first = NoError /\ Reaped /\ wire = "open"
BY Shape DEF Settled, StreamInvariant, Trustworthy, TypeOK, Recorded, Wired, Reaped, Loops

LEMMA SomeLoop == \E w \in Loops : w[1] = NumSources
<1>1. <<NumSources, 0>> \in Loops BY Shape DEF Lanes
<1> QED BY <1>1

LEMMA StepImplements ==
  ASSUME StreamInvariant, StreamInvariant', [Next]_vars
  PROVE [Promise!DeliveryNext]_(Promise!deliveryVars)
<1> SUFFICES \/ Promise!DeliveryNext
             \/ UNCHANGED <<wire, cancelled, Broken, Settled, verdict>>
  BY DEF Promise!deliveryVars, Broken, Settled
<1> USE DEF StreamInvariant, Trustworthy
<1>1. CASE StartWiring
  <2>1. Promise!BeginWiring
    BY <1>1 DEF StartWiring, Promise!BeginWiring, loopVars
  <2> QED BY <2>1 DEF Promise!DeliveryNext
<1>2. CASE Cancel
  <2>1. Promise!CancelDelivery BY <1>2 DEF Cancel, Promise!CancelDelivery, loopVars
  <2> QED BY <2>1 DEF Promise!DeliveryNext
<1>3. CASE WireFail
  <2>1. Promise!Refused BY <1>3 DEF WireFail, Promise!Refused, loopVars
  <2> QED BY <2>1 DEF Promise!DeliveryNext
<1>4. CASE WireLane
  <2>1. wire = "wiring" /\ UNCHANGED <<cancelled, verdict, err, first>> BY <1>4 DEF WireLane
  <2>2. ~Settled BY <2>1, SettledShape
  <2>3. ~Settled'
    <3>1. PICK w \in Loops : w[1] = NumSources BY SomeLoop
    <3>2. launched' = NumSources => loop'[w] = "recv" BY <1>4, <3>1 DEF WireLane, Loops
    <3> QED BY <3>2 DEF Settled, Loops
  <2>4. Broken' = Broken BY <2>1 DEF Broken
  <2>5. wire' \in {"open", "wiring"} BY <1>4 DEF WireLane
  <2>6. CASE wire' = "open"
    <3>1. Promise!Opened BY <2>1, <2>2, <2>3, <2>4, <2>6 DEF Promise!Opened, Broken, Settled
    <3> QED BY <3>1 DEF Promise!DeliveryNext
  <2>7. CASE wire' = "wiring" BY <2>1, <2>2, <2>3, <2>4, <2>7 DEF Settled
  <2> QED BY <2>5, <2>6, <2>7
<1>5. CASE Wait
  <2>1. /\ wire \in {"open", "refused"} /\ verdict = "pending" /\ Reaped
        /\ verdict' = IF IsCancellation(first) THEN "nil" ELSE "error"
        /\ UNCHANGED <<wire, cancelled, launched, loop, err, first>>
    BY <1>5 DEF Wait, loopVars
  <2>2. first # NoError \/ cancelled \/ Settled
    <3> SUFFICES ASSUME first = NoError, ~cancelled PROVE Settled OBVIOUS
    <3>1. launched = NumSources BY <2>1 DEF Wired
    <3>2. \A w \in Loops : w[1] <= launched BY <3>1, Shape DEF Lanes
    <3>3. \A w \in Loops : loop[w] = "exited" BY <2>1, <3>2 DEF Reaped, Wired, Loops
    <3> QED BY <3>1, <3>3 DEF Recorded, Settled, Loops
  <2>3. IsCancellation(first) <=> Broken \in {"no", "canceled"}
    BY BrokenShape DEF IsCancellation
  <2>4. Promise!GiveVerdict
    BY <2>1, <2>2, <2>3, BrokenShape DEF Promise!GiveVerdict, Broken, Settled
  <2> QED BY <2>4 DEF Promise!DeliveryNext
<1>6. ASSUME NEW w \in Loops, Return(w)
      PROVE Promise!DeliveryNext \/ UNCHANGED <<wire, cancelled, Broken, Settled, verdict>>
  <2>1. /\ loop[w] = "failing" /\ err[w] # NoError /\ UNCHANGED <<wire, cancelled, verdict, launched, err>>
    BY <1>6 DEF Return, ownerVars, Recorded
  <2>2. ~Settled /\ ~Settled' BY <2>1 DEF Settled, Loops
  <2>3. CASE first' = first BY <2>1, <2>2, <2>3 DEF Broken, Settled
  <2>4. CASE first' # first
    <3>1. first = NoError /\ first' = err[w] /\ ~IsEcho(err[w]) BY <1>6, <2>4 DEF Return
    <3>2. verdict = "pending" BY <2>1 DEF Reaping, Reaped, Loops
    <3>3. wire \in {"wiring", "open", "refused"}
      <4>1. w[1] \in 1 .. NumSources /\ w[1] <= launched BY <2>1, Shape DEF Wired, Lanes
      <4>2. launched # 0 BY <4>1, Shape
      <4> QED BY <4>2 DEF Wired, TypeOK
    <3>4. first' = "canceled" => ~cancelled BY <3>1 DEF IsEcho, CtxDone
    <3>5. first' = "cut" => cancelled BY <3>1 DEF Recorded
    <3>6. Broken = "no" /\ Broken' \in {"error", "canceled", "echo"}
      BY <2>1, <3>1, BrokenShape DEF Broken, NoError
    <3>7. (Broken' = "canceled" => ~cancelled) /\ (Broken' = "echo" => cancelled)
      BY <3>4, <3>5 DEF Broken, NoError
    <3>8. Promise!Break(Broken')
      BY <2>1, <2>2, <3>2, <3>3, <3>6, <3>7 DEF Promise!Break, Broken, Settled
    <3> QED BY <3>6, <3>8 DEF Promise!DeliveryNext
  <2> QED BY <2>3, <2>4
<1>7. ASSUME UNCHANGED ownerVars, first' = first,
             UNCHANGED <<loop, err>> \/ \E w \in Loops : loop[w] \notin {"idle", "exited"}
      PROVE Promise!DeliveryNext \/ UNCHANGED <<wire, cancelled, Broken, Settled, verdict>>
  <2>1. UNCHANGED <<wire, cancelled, verdict, launched, Broken>> BY <1>7 DEF ownerVars, Broken
  <2>2. CASE UNCHANGED <<loop, err>> BY <2>1, <2>2 DEF Settled
  <2>3. ASSUME NEW w \in Loops, loop[w] \notin {"idle", "exited"}
        PROVE Promise!DeliveryNext \/ UNCHANGED <<wire, cancelled, Broken, Settled, verdict>>
    <3>1. ~Settled /\ verdict = "pending" BY <2>3 DEF Settled, Reaping, Reaped, Loops
    <3>2. CASE Settled'
      <4>1. first' = NoError /\ wire' = "open"
        <5>1. first' = NoError BY <3>2 DEF Settled, Recorded, Loops
        <5>2. ~(launched' < NumSources) BY <3>2, Shape DEF Settled
        <5>3. wire' = "open" BY <5>2 DEF Wired, TypeOK
        <5> QED BY <5>1, <5>3
      <4>2. Broken = "no" BY <1>7, <4>1, BrokenShape
      <4>3. Promise!Settle
        BY <2>1, <3>1, <3>2, <4>1, <4>2 DEF Promise!Settle, Broken, Settled
      <4> QED BY <4>3 DEF Promise!DeliveryNext
    <3>3. CASE ~Settled' BY <2>1, <3>1, <3>3 DEF Settled
    <3> QED BY <3>2, <3>3
  <2> QED BY <1>7, <2>2, <2>3
<1>8. ASSUME NEW w \in Loops, RecvError(w) \/ Interrupted(w)
      PROVE Promise!DeliveryNext \/ UNCHANGED <<wire, cancelled, Broken, Settled, verdict>>
  BY <1>7, <1>8 DEF RecvError, AtError, Interrupted, Fails
<1>9. ASSUME NEW l \in Lanes, NEW k \in Stages,
             Recv(l, k) \/ Send(l, k) \/ SendRefused(l, k) \/ CloseSend(l, k)
      PROVE Promise!DeliveryNext \/ UNCHANGED <<wire, cancelled, Broken, Settled, verdict>>
  <2>1. <<l, k>> \in Loops /\ loop[<<l, k>>] \in {"recv", "send"}
    BY <1>9, Shape DEF Recv, Send, SendRefused, CloseSend, CanRecv, AtEOF
  <2>2. UNCHANGED ownerVars /\ first' = first
    BY <1>9 DEF Recv, Send, SendRefused, CloseSend, Fails
  <2> QED BY <1>7, <2>1, <2>2
<1>10. ASSUME NEW l \in Lanes, FanStep(l)
       PROVE Promise!DeliveryNext \/ UNCHANGED <<wire, cancelled, Broken, Settled, verdict>>
  <2>1. Fan(l) \in Loops /\ loop[Fan(l)] \in {"recv", "send", "close"}
    BY <1>10, Shape DEF FanStep, FanRecv, FanEOF, FanSend, FanSendRefused, FanAck, CanRecv, AtEOF
  <2>2. UNCHANGED ownerVars /\ first' = first
    BY <1>10 DEF FanStep, FanRecv, FanEOF, FanSend, FanSendRefused, FanAck, Fails
  <2> QED BY <1>7, <2>1, <2>2
<1>11. ASSUME NEW l \in Lanes, Component(l)
       PROVE Promise!DeliveryNext \/ UNCHANGED <<wire, cancelled, Broken, Settled, verdict>>
  <2>1. UNCHANGED <<ownerVars, loopVars>>
    BY <1>11 DEF Component, SourceEmits, ProcessorTakes, StreamCompletes, StreamFails, SinkTakes,
                 SinkAcknowledges, SinkFails
  <2> QED BY <1>7, <2>1 DEF loopVars
<1>12. CASE UNCHANGED vars BY <1>7, <1>12 DEF vars, loopVars
<1> QED
  BY <1>1, <1>2, <1>3, <1>4, <1>5, <1>6, <1>8, <1>9, <1>10, <1>11, <1>12, Shape
  DEF Next, Owner, LoopStep

(* What the runner relies on when it supervises a delivery, the actions of *)
(* DeliveryPromise, is what the orchestrator does.                         *)
THEOREM OrchestratorKeepsItsPromise == Spec => ImplementsPromise
<1>1. Init => Promise!DeliveryInit
  <2> SUFFICES ASSUME Init PROVE Promise!DeliveryInit OBVIOUS
  <2>1. launched # NumSources BY Shape DEF Init
  <2>2. Broken = "no" BY BrokenShape DEF Init
  <2>3. ~Settled BY <2>1 DEF Settled
  <2> QED BY <2>2, <2>3 DEF Init, Promise!DeliveryInit, Broken, Settled
<1>2. StreamInvariant /\ StreamInvariant' /\ [Next]_vars => [Promise!DeliveryNext]_(Promise!deliveryVars)
  BY StepImplements
<1> QED BY <1>1, <1>2, StreamsInvariant, PTL DEF Spec, ImplementsPromise, Promise!DeliverySpec
===============================================================================
