---------------------------- MODULE ChunkRunsProofs ----------------------------
(***************************************************************************)
(* Proofs about ChunkRuns, for any reporters, ranges and attempts and any  *)
(* number of reports.  The argument: a call is in one place at a time and  *)
(* was never made before its turn (Turns), what is about to be written or  *)
(* stored comes from a report that was read or written (Evidence), and on  *)
(* a chunk whose handlers never overlapped the one that is being served    *)
(* has read all that is stored (Exclusive).                                *)
(***************************************************************************)
EXTENDS ChunkRuns, TLAPS

(* A call is a reporter's, and is about one chunk.                         *)
LEMMA CallShape ==
  /\ \A k \in Calls : k[1] \in Reporters /\ k[2] \in 1 .. MaxReports[k[1]] /\ k = <<k[1], k[2]>>
  /\ \A r \in Reporters : \A n \in 1 .. MaxReports[r] : <<r, n>> \in Calls
BY DEF Calls

LEMMA ChunkShape ==
  ASSUME attempt \in AttemptSetups PROVE \A r \in Reporters : ChunkId(r) \in Chunks
BY ChunkAssumption DEF ChunkId, Chunks

LEMMA MergeShape ==
  ASSUME NEW existing \in Record, NEW update \in Record
  PROVE /\ MergeChunkRun(existing, update) \in Record
        /\ MergeChunkRun(existing, update).status = update.status
        /\ MergeChunkRun(existing, update).facts = existing.facts \cup update.facts
BY DEF MergeChunkRun, Record

LEMMA BlankShape == Blank \in Record
BY DEF Blank, Record, Statuses

(* The reports a component can make.                                       *)
LEMMA ReportShape == Updates \subseteq Record
<1>1. \A status \in Statuses : \A times \in SUBSET {"started", "completed", "verified"} :
        Told(status, times) \subseteq Record
  <2> SUFFICES ASSUME NEW status \in Statuses, NEW times \in SUBSET {"started", "completed", "verified"},
                      NEW passed \in Passed
               PROVE [status |-> status, facts |-> times \cup passed] \in Record
    BY DEF Told
  <2>1. times \cup passed \in SUBSET Facts BY UpdatesAssumption DEF Facts
  <2> QED BY <2>1 DEF Record
<1>2. /\ Told("running", {"started"}) \subseteq Record
      /\ Told("completed", {"completed"}) \subseteq Record
      /\ Told("verified", {"completed", "verified"}) \subseteq Record
      /\ Told("failed", {"completed"}) \subseteq Record
  BY <1>1 DEF Statuses
<1> QED
  BY <1>2, UpdatesAssumption DEF Updates, ReportChunkProgress, ReportChunkCompleted, ReportChunkFailed

-----------------------------------------------------------------------------
Turns ==
  /\ \A r \in Reporters : pending[r] => made[r] # 0
  /\ \A k \in Calls : k[2] > made[k[1]] => handler[k] = "none"
  /\ \A k \in acked : handler[k] = "written"

Evidence ==
  /\ \A k \in Calls : handler[k] = "read" =>
       /\ merged[k].status = report[k].status /\ report[k].facts \subseteq merged[k].facts
       /\ \A fact \in merged[k].facts :
            fact \in report[k].facts \/ \E j \in Writers(ChunkOf(k)) : fact \in report[j].facts
  /\ StatusIsBacked

Stored(k) == ChunkOf(k) \in DOMAIN chunks /\ report[k].facts \subseteq chunks[ChunkOf(k)].facts
Exclusive ==
  \A k \in Calls : durable /\ ChunkOf(k) \notin raced =>
    /\ handler[k] = "written" => Stored(k)
    /\ handler[k] = "read" =>
         /\ report[k].facts \subseteq merged[k].facts
         /\ ChunkOf(k) \in DOMAIN chunks => chunks[ChunkOf(k)].facts \subseteq merged[k].facts
    /\ \A j \in Calls : ChunkOf(j) = ChunkOf(k) /\ Serving(j) /\ Serving(k) => j = k

ChunkInvariant == ChunkTypeOK /\ Turns /\ Evidence /\ Exclusive

(* Nothing is unwritten: whoever wrote a record keeps what it reported.    *)
LEMMA WritersStay ==
  ASSUME attempt' = attempt,
         \A j \in Calls : handler[j] = "written" => handler'[j] = "written" /\ report'[j] = report[j]
  PROVE /\ \A j \in Calls : ChunkOf(j)' = ChunkOf(j)
        /\ \A c : \A j \in Writers(c) : j \in Writers(c)' /\ report'[j] = report[j]
BY DEF Writers, ChunkOf, ChunkId

(* A step that neither reads nor writes a record keeps the evidence.       *)
LEMMA EvidenceStays ==
  ASSUME Evidence, attempt' = attempt, DOMAIN chunks' \subseteq DOMAIN chunks,
         \A c \in DOMAIN chunks' : chunks'[c] = chunks[c],
         \A j \in Calls : handler[j] = "written" => handler'[j] = "written" /\ report'[j] = report[j],
         \A j \in Calls : handler'[j] = "read" =>
           handler[j] = "read" /\ report'[j] = report[j] /\ merged'[j] = merged[j]
  PROVE Evidence'
<1>1. /\ \A j \in Calls : ChunkOf(j)' = ChunkOf(j)
      /\ \A c : \A j \in Writers(c) : j \in Writers(c)' /\ report'[j] = report[j]
  BY WritersStay
<1>2. StatusIsBacked' BY <1>1 DEF Evidence, StatusIsBacked
<1>3. ASSUME NEW k \in Calls, handler'[k] = "read"
      PROVE /\ merged'[k].status = report'[k].status /\ report'[k].facts \subseteq merged'[k].facts
            /\ \A fact \in merged'[k].facts : fact \in report'[k].facts
                 \/ \E j \in Writers(ChunkOf(k))' : fact \in report'[j].facts
  <2>1. handler[k] = "read" /\ report'[k] = report[k] /\ merged'[k] = merged[k] BY <1>3
  <2> QED BY <2>1, <1>1 DEF Evidence, Writers
<1> QED BY <1>2, <1>3 DEF Evidence

LEMMA ChunkInitial == ChunkInit => ChunkInvariant
<1> SUFFICES ASSUME ChunkInit PROVE ChunkInvariant OBVIOUS
<1> USE DEF ChunkInit
<1>1. ChunkTypeOK BY ChunkAssumption, BlankShape DEF ChunkTypeOK
<1>2. Turns BY CallShape DEF Turns
<1>3. Evidence BY DEF Evidence, StatusIsBacked
<1>4. Exclusive BY DEF Exclusive, Serving
<1> QED BY <1>1, <1>2, <1>3, <1>4 DEF ChunkInvariant

-----------------------------------------------------------------------------
(* Every step keeps the invariant. *)
LEMMA ChunkStep == ChunkInvariant /\ [ChunkNext]_chunkVars => ChunkInvariant'
<1> SUFFICES ASSUME ChunkInvariant, [ChunkNext]_chunkVars PROVE ChunkInvariant'
  OBVIOUS
<1> USE DEF ChunkInvariant
<1>1. ASSUME NEW r \in Reporters, ReportChunk(r) PROVE ChunkInvariant'
  <2> DEFINE k == <<r, made[r] + 1>>
  <2>1. k \in Calls /\ k[1] = r /\ k[2] = made[r] + 1 /\ handler[k] = "none"
    <3>1. made[r] \in Nat /\ MaxReports[r] \in Nat /\ made[r] < MaxReports[r]
      BY <1>1, ChunkAssumption DEF ReportChunk, ChunkTypeOK
    <3>2. made[r] + 1 \in 1 .. MaxReports[r] BY <3>1
    <3>3. k \in Calls BY <3>2, CallShape
    <3>4. k[1] = r /\ k[2] = made[r] + 1 OBVIOUS
    <3>5. k[2] > made[k[1]] BY <3>1, <3>4
    <3> QED BY <3>3, <3>4, <3>5 DEF Turns
  <2>2. PICK what \in Updates : report' = [report EXCEPT ![k] = what]
    BY <1>1 DEF ReportChunk
  <2>3. what \in Record BY ReportShape
  <2> HIDE DEF k
  <2>4. /\ made' = [made EXCEPT ![r] = @ + 1] /\ made[r] < MaxReports[r]
        /\ pending' = [pending EXCEPT ![r] = TRUE]
        /\ handler' = [handler EXCEPT ![k] = "sent"]
        /\ raced' = IF InFlight(ChunkId(r)) = {} THEN raced ELSE raced \cup {ChunkId(r)}
        /\ attempt' = attempt /\ durable' = durable /\ chunks' = chunks /\ merged' = merged
        /\ acked' = acked
    BY <1>1 DEF ReportChunk, k
  <2>5. ChunkId(r) \in Chunks BY ChunkShape DEF ChunkTypeOK
  <2>6. ChunkTypeOK'
    <3>1. made' \in [Reporters -> Nat] /\ \A q \in Reporters : made'[q] <= MaxReports[q]
      <4>1. made \in [Reporters -> Nat] /\ MaxReports \in [Reporters -> Nat]
            /\ \A q \in Reporters : made[q] <= MaxReports[q]
        BY ChunkAssumption DEF ChunkTypeOK
      <4>2. made' = [made EXCEPT ![r] = made[r] + 1] /\ made[r] < MaxReports[r] BY <2>4
      <4>3. made' \in [Reporters -> Nat] BY <4>1, <4>2
      <4>4. \A q \in Reporters : made'[q] = IF q = r THEN made[q] + 1 ELSE made[q]
        BY <4>1, <4>2
      <4>5. \A q \in Reporters : made[q] \in Nat /\ MaxReports[q] \in Nat BY <4>1
      <4>6. ASSUME NEW q \in Reporters PROVE made'[q] <= MaxReports[q]
        BY <4>1, <4>2, <4>4, <4>5
      <4> QED BY <4>3, <4>6
    <3>2. /\ handler' \in [Calls -> {"none", "sent", "read", "written", "failed", "lost"}]
          /\ report' \in [Calls -> Record] /\ merged' \in [Calls -> Record]
      BY <2>2, <2>3, <2>4 DEF ChunkTypeOK
    <3>3. raced' \in SUBSET Chunks BY <2>4, <2>5 DEF ChunkTypeOK
    <3> QED BY <2>4, <3>1, <3>2, <3>3 DEF ChunkTypeOK
  <2>7. Turns'
    <3>1. \A q \in Reporters : made'[q] = IF q = r THEN made[q] + 1 ELSE made[q]
      BY <2>4 DEF ChunkTypeOK
    <3>2. \A j \in Calls : j[2] > made'[j[1]] => handler'[j] = "none"
      <4> SUFFICES ASSUME NEW j \in Calls, j[2] > made'[j[1]] PROVE handler'[j] = "none" OBVIOUS
      <4>1. j[2] > made[j[1]] /\ j # k
        BY <2>1, <3>1, CallShape, ChunkAssumption DEF ChunkTypeOK
      <4> QED BY <4>1, <2>4 DEF Turns, ChunkTypeOK
    <3>3. \A j \in acked' : handler'[j] = "written" BY <2>1, <2>4 DEF Turns, ChunkTypeOK
    <3>4. \A q \in Reporters : pending'[q] => made'[q] # 0 BY <2>4, <3>1 DEF Turns, ChunkTypeOK
    <3> QED BY <3>2, <3>3, <3>4 DEF Turns
  <2>8. Evidence'
    <3>1. /\ handler[k] = "none" /\ handler'[k] = "sent"
          /\ \A j \in Calls : j # k => handler'[j] = handler[j] /\ report'[j] = report[j]
      BY <2>1, <2>2, <2>4 DEF ChunkTypeOK
    <3> QED BY <3>1, <2>4, EvidenceStays
  <2>9. Exclusive'
    <3>1. \A j \in Calls : ChunkOf(j)' = ChunkOf(j) BY <2>4 DEF ChunkOf, ChunkId
    <3>2. ChunkOf(k) = ChunkId(r) BY <2>1 DEF ChunkOf
    <3>3. \A j \in Calls : j # k => handler'[j] = handler[j] /\ report'[j] = report[j]
      BY <2>1, <2>2, <2>4 DEF ChunkTypeOK
    <3>4. handler'[k] = "sent" BY <2>1, <2>4 DEF ChunkTypeOK
    <3>5. raced \subseteq raced' BY <2>4
    <3>6. \A j \in Calls : ChunkOf(j) = ChunkOf(k) /\ ChunkOf(k) \notin raced' => ~Serving(j)
      BY <2>4, <3>2 DEF InFlight
    <3> SUFFICES ASSUME NEW i \in Calls, durable, ChunkOf(i) \notin raced'
                 PROVE /\ handler'[i] = "written" => Stored(i)'
                       /\ handler'[i] = "read" =>
                            /\ report'[i].facts \subseteq merged'[i].facts
                            /\ ChunkOf(i) \in DOMAIN chunks => chunks[ChunkOf(i)].facts \subseteq merged'[i].facts
                       /\ \A j \in Calls : ChunkOf(j) = ChunkOf(i) /\ Serving(j)' /\ Serving(i)' => j = i
      BY <2>4, <3>1 DEF Exclusive
    <3>7. CASE i = k
      <4>1. \A j \in Calls : ChunkOf(j) = ChunkOf(i) /\ Serving(j)' => j = i
        BY <3>3, <3>6, <3>7 DEF Serving
      <4> QED BY <3>4, <3>7, <4>1
    <3>8. CASE i # k
      <4>1. \A j \in Calls : ChunkOf(j) = ChunkOf(i) /\ Serving(j)' /\ Serving(i)' => j = i
        BY <3>3, <3>5, <3>6, <3>8 DEF Serving, Exclusive
      <4>2. Stored(i)' <=> Stored(i) BY <2>4, <3>1, <3>3, <3>8 DEF Stored
      <4> QED BY <2>4, <3>3, <3>5, <3>8, <4>1, <4>2 DEF Exclusive
    <3> QED BY <3>7, <3>8
  <2> QED BY <2>6, <2>7, <2>8, <2>9
<1>2. ASSUME NEW r \in Reporters, Replied(r) PROVE ChunkInvariant'
  <2> USE <1>2 DEF Replied, handlers
  <2>1. <<r, made[r]>> \in Calls BY CallShape, ChunkAssumption DEF ChunkTypeOK, Turns
  <2>2. ChunkTypeOK' BY <2>1 DEF ChunkTypeOK
  <2>3. Turns' BY <2>1 DEF Turns, ChunkTypeOK
  <2>4. Evidence' BY EvidenceStays
  <2>5. Exclusive' BY DEF Exclusive, Serving, Stored, ChunkOf, ChunkId
  <2> QED BY <2>2, <2>3, <2>4, <2>5
<1>3. ASSUME NEW r \in Reporters, GiveUpReport(r) PROVE ChunkInvariant'
  <2> USE <1>3 DEF GiveUpReport, handlers
  <2>1. ChunkTypeOK' BY DEF ChunkTypeOK
  <2>2. Turns' BY DEF Turns, ChunkTypeOK
  <2>3. Evidence' BY EvidenceStays
  <2>4. Exclusive' BY DEF Exclusive, Serving, Stored, ChunkOf, ChunkId
  <2> QED BY <2>1, <2>2, <2>3, <2>4
<1>4. ASSUME NEW k \in Calls, GetExisting(k) PROVE ChunkInvariant'
  <2> USE <1>4 DEF GetExisting
  <2>1. ChunkOf(k) \in DOMAIN chunks => chunks[ChunkOf(k)] \in Record BY DEF ChunkTypeOK
  <2>2. report[k] \in Record BY DEF ChunkTypeOK
  <2>3. /\ merged'[k] \in Record /\ merged'[k].status = report[k].status
        /\ report[k].facts \subseteq merged'[k].facts
        /\ ChunkOf(k) \in DOMAIN chunks =>
             merged'[k].facts = chunks[ChunkOf(k)].facts \cup report[k].facts
        /\ ChunkOf(k) \notin DOMAIN chunks => merged'[k].facts = report[k].facts
    BY <2>1, <2>2, MergeShape DEF ChunkTypeOK
  <2>4. /\ handler'[k] = "read"
        /\ \A j \in Calls : j # k => handler'[j] = handler[j] /\ merged'[j] = merged[j]
    BY DEF ChunkTypeOK
  <2>5. ChunkTypeOK'
    <3>1. merged' \in [Calls -> Record] BY <2>3 DEF ChunkTypeOK
    <3> QED BY <3>1 DEF ChunkTypeOK
  <2>6. Turns' BY <2>4 DEF Turns, ChunkTypeOK
  <2>7. Evidence'
    <3>1. \A j \in Calls : handler[j] = "written" => handler'[j] = "written" /\ report'[j] = report[j]
      BY <2>4
    <3>2. /\ \A j \in Calls : ChunkOf(j)' = ChunkOf(j)
          /\ \A c : \A j \in Writers(c) : j \in Writers(c)' /\ report'[j] = report[j]
      BY <3>1, WritersStay
    <3>3. StatusIsBacked' BY <3>2 DEF Evidence, StatusIsBacked
    <3>4. \A fact \in merged'[k].facts :
            fact \in report[k].facts \/ \E j \in Writers(ChunkOf(k)) : fact \in report[j].facts
      BY <2>3 DEF Evidence, StatusIsBacked
    <3>5. \A j \in Calls : handler'[j] = "read" =>
            /\ merged'[j].status = report[j].status /\ report[j].facts \subseteq merged'[j].facts
            /\ \A fact \in merged'[j].facts :
                 fact \in report[j].facts \/ \E i \in Writers(ChunkOf(j)) : fact \in report[i].facts
      BY <2>3, <2>4, <3>4 DEF Evidence
    <3>6. report' = report OBVIOUS
    <3> QED BY <3>2, <3>3, <3>5, <3>6 DEF Evidence, Writers
  <2>8. Exclusive'
    <3>1. \A j \in Calls : ChunkOf(j)' = ChunkOf(j) /\ (Serving(j)' <=> Serving(j))
      BY <2>4 DEF ChunkOf, ChunkId, Serving
    <3>2. \A j \in Calls : Stored(j)' <=> Stored(j) BY <3>1 DEF Stored
    <3> QED BY <2>3, <2>4, <3>1, <3>2 DEF Exclusive
  <2> QED BY <2>5, <2>6, <2>7, <2>8
<1>5. ASSUME NEW k \in Calls, PutMerged(k) PROVE ChunkInvariant'
  <2> DEFINE c == ChunkOf(k)
  <2>1. /\ handler[k] = "read"
        /\ chunks' = [d \in DOMAIN chunks \cup {c} |-> IF d = c THEN merged[k] ELSE chunks[d]]
        /\ handler' = [handler EXCEPT ![k] = "written"]
        /\ merged' = [merged EXCEPT ![k] = Blank]
        /\ report' = report /\ attempt' = attempt /\ durable' = durable /\ raced' = raced
        /\ made' = made /\ pending' = pending /\ acked' = acked
    BY <1>5 DEF PutMerged
  <2>2. c \in Chunks BY ChunkShape, CallShape DEF ChunkTypeOK, ChunkOf
  <2>3. merged[k] \in Record BY DEF ChunkTypeOK
  <2>4. /\ handler'[k] = "written"
        /\ \A j \in Calls : j # k => handler'[j] = handler[j] /\ merged'[j] = merged[j]
    BY <2>1 DEF ChunkTypeOK
  <2>5. /\ DOMAIN chunks' = DOMAIN chunks \cup {c} /\ chunks'[c] = merged[k]
        /\ \A d \in DOMAIN chunks : d # c => chunks'[d] = chunks[d]
    BY <2>1
  <2>6. \A j \in Calls : ChunkOf(j)' = ChunkOf(j) BY <2>1 DEF ChunkOf, ChunkId
  <2> HIDE DEF c
  <2>7. ChunkTypeOK'
    <3>1. chunks' \in [DOMAIN chunks' -> Record] BY <2>1, <2>3 DEF ChunkTypeOK
    <3>2. DOMAIN chunks' \subseteq Chunks BY <2>2, <2>5 DEF ChunkTypeOK
    <3> QED BY <2>1, <3>1, <3>2, BlankShape DEF ChunkTypeOK
  <2>8. Turns' BY <2>1, <2>4 DEF Turns, ChunkTypeOK
  <2>9. Evidence'
    <3>1. \A j \in Calls : handler[j] = "written" => handler'[j] = "written" /\ report'[j] = report[j]
      BY <2>1, <2>4
    <3>2. \A d : \A j \in Writers(d) : j \in Writers(d)' /\ report'[j] = report[j]
      BY <2>1, <3>1, WritersStay
    <3>3. \A d : d = c => k \in Writers(d)' BY <2>4, <2>6 DEF Writers, c
    <3>4. /\ merged[k].status = report[k].status /\ report[k].facts \subseteq merged[k].facts
          /\ \A fact \in merged[k].facts :
               fact \in report[k].facts \/ \E j \in Writers(c) : fact \in report[j].facts
      BY <2>1 DEF Evidence, c
    <3>5. StatusIsBacked'
      <4> SUFFICES ASSUME NEW d \in DOMAIN chunks'
                   PROVE /\ \E j \in Writers(d)' : /\ report'[j].status = chunks'[d].status
                                                   /\ report'[j].facts \subseteq chunks'[d].facts
                         /\ \A fact \in chunks'[d].facts : \E j \in Writers(d)' : fact \in report'[j].facts
        BY DEF StatusIsBacked
      <4>1. CASE d = c
        <5>1. chunks'[d] = merged[k] /\ report'[k] = report[k] /\ k \in Writers(d)'
          BY <4>1, <2>1, <2>5, <3>3
        <5>2. \A fact \in chunks'[d].facts : \E j \in Writers(d)' : fact \in report'[j].facts
          BY <4>1, <5>1, <3>2, <3>4
        <5> QED BY <5>1, <5>2, <3>4
      <4>2. CASE d # c BY <4>2, <2>5, <3>2 DEF Evidence, StatusIsBacked
      <4> QED BY <4>1, <4>2
    <3>6. \A j \in Calls : handler'[j] = "read" =>
            handler[j] = "read" /\ report'[j] = report[j] /\ merged'[j] = merged[j]
      BY <2>1, <2>4
    <3> QED BY <3>2, <3>5, <3>6, <2>6 DEF Evidence
  <2>10. Exclusive'
    <3> SUFFICES ASSUME NEW i \in Calls, durable, ChunkOf(i) \notin raced
                 PROVE /\ handler'[i] = "written" => Stored(i)'
                       /\ handler'[i] = "read" =>
                            /\ report'[i].facts \subseteq merged'[i].facts
                            /\ ChunkOf(i) \in DOMAIN chunks' => chunks'[ChunkOf(i)].facts \subseteq merged'[i].facts
                       /\ \A j \in Calls : ChunkOf(j) = ChunkOf(i) /\ Serving(j)' /\ Serving(i)' => j = i
      BY <2>1, <2>6 DEF Exclusive
    <3>1. \A j \in Calls : Serving(j)' => Serving(j)
      BY <2>4 DEF Serving
    <3>2. \A j \in Calls : ChunkOf(j) = ChunkOf(i) /\ Serving(j)' /\ Serving(i)' => j = i
      BY <3>1 DEF Exclusive
    <3>3. ASSUME handler'[i] = "written" PROVE Stored(i)'
      <4>1. CASE i = k
        BY <4>1, <2>1, <2>5, <2>6 DEF Exclusive, Stored, c
      <4>2. CASE i # k /\ ChunkOf(i) = c
        <5>1. Stored(i) BY <4>2, <2>4, <3>3 DEF Exclusive
        <5>2. chunks[c].facts \subseteq merged[k].facts
          BY <4>2, <5>1, <2>1 DEF Exclusive, Stored, c
        <5> QED BY <4>2, <5>1, <5>2, <2>1, <2>5, <2>6 DEF Stored
      <4>3. CASE i # k /\ ChunkOf(i) # c
        <5>1. Stored(i) BY <4>3, <2>4, <3>3 DEF Exclusive
        <5> QED BY <4>3, <5>1, <2>1, <2>5, <2>6 DEF Stored
      <4> QED BY <4>1, <4>2, <4>3
    <3>4. ASSUME handler'[i] = "read"
          PROVE /\ report'[i].facts \subseteq merged'[i].facts
                /\ ChunkOf(i) \in DOMAIN chunks' => chunks'[ChunkOf(i)].facts \subseteq merged'[i].facts
      <4>1. i # k /\ handler[i] = "read" BY <2>4, <3>4
      <4>2. ChunkOf(i) # c BY <4>1, <2>1 DEF Exclusive, Serving, c
      <4> QED BY <4>1, <4>2, <2>1, <2>4, <2>5 DEF Exclusive
    <3> QED BY <3>2, <3>3, <3>4
  <2> QED BY <2>7, <2>8, <2>9, <2>10
<1>6. ASSUME NEW k \in Calls, UpsertFails(k) \/ LoseReport(k) PROVE ChunkInvariant'
  <2>1. /\ handler[k] \in {"sent", "read"} /\ handler'[k] \in {"failed", "lost"}
        /\ report'[k] = Blank /\ merged'[k] \in {Blank, merged[k]}
        /\ \A j \in Calls : j # k =>
             handler'[j] = handler[j] /\ report'[j] = report[j] /\ merged'[j] = merged[j]
        /\ attempt' = attempt /\ durable' = durable /\ raced' = raced /\ chunks' = chunks
        /\ made' = made /\ pending' = pending /\ acked' = acked
    BY <1>6 DEF UpsertFails, LoseReport, ChunkTypeOK
  <2>2. ChunkTypeOK'
    <3>1. /\ handler' \in [Calls -> {"none", "sent", "read", "written", "failed", "lost"}]
          /\ report' \in [Calls -> Record] /\ merged' \in [Calls -> Record]
      BY <1>6, BlankShape DEF UpsertFails, LoseReport, ChunkTypeOK
    <3> QED BY <2>1, <3>1 DEF ChunkTypeOK
  <2>3. Turns' BY <2>1 DEF Turns, ChunkTypeOK
  <2>4. Evidence' BY <2>1, EvidenceStays
  <2>5. Exclusive'
    <3>1. \A j \in Calls : ChunkOf(j)' = ChunkOf(j) /\ (Serving(j)' => Serving(j))
      BY <2>1 DEF ChunkOf, ChunkId, Serving
    <3>2. \A j \in Calls : j # k => (Stored(j)' <=> Stored(j)) BY <2>1, <3>1 DEF Stored
    <3> QED BY <2>1, <3>1, <3>2 DEF Exclusive
  <2> QED BY <2>2, <2>3, <2>4, <2>5
<1>7. CASE RestartControlPlane
  <2>1. /\ chunks' = IF durable THEN chunks ELSE [c \in {} |-> Blank]
        /\ attempt' = attempt /\ durable' = durable /\ raced' = raced
        /\ made' = made /\ pending' = pending /\ acked' = acked
    BY <1>7 DEF RestartControlPlane, RestartStore
  <2>2. \A j \in Calls : /\ handler'[j] = IF Serving(j) THEN "lost" ELSE handler[j]
                         /\ report'[j] = IF Serving(j) THEN Blank ELSE report[j]
                         /\ merged'[j] = Blank
    BY <1>7 DEF RestartControlPlane
  <2>3. ChunkTypeOK'
    <3>1. /\ handler' \in [Calls -> {"none", "sent", "read", "written", "failed", "lost"}]
          /\ report' \in [Calls -> Record] /\ merged' \in [Calls -> Record]
      BY <1>7, BlankShape DEF RestartControlPlane, ChunkTypeOK
    <3>2. chunks' \in [DOMAIN chunks' -> Record] /\ DOMAIN chunks' \subseteq Chunks
      BY <2>1, BlankShape DEF ChunkTypeOK
    <3> QED BY <2>1, <3>1, <3>2 DEF ChunkTypeOK
  <2>4. Turns' BY <2>1, <2>2 DEF Turns, ChunkTypeOK, Serving
  <2>5. Evidence' BY <2>1, <2>2, EvidenceStays DEF Serving
  <2>6. Exclusive'
    <3>1. \A j \in Calls : ChunkOf(j)' = ChunkOf(j) /\ ~Serving(j)' /\ handler'[j] # "read"
      BY <2>1, <2>2 DEF ChunkOf, ChunkId, Serving
    <3>2. \A j \in Calls : durable /\ handler'[j] = "written" => handler[j] = "written" /\ (Stored(j)' <=> Stored(j))
      BY <2>1, <2>2, <3>1 DEF Stored, Serving
    <3> QED BY <2>1, <3>1, <3>2 DEF Exclusive
  <2> QED BY <2>3, <2>4, <2>5, <2>6
<1>8. CASE UNCHANGED chunkVars
  <2> USE <1>8 DEF chunkVars, handlers
  <2>1. ChunkTypeOK' /\ Turns' BY DEF ChunkTypeOK, Turns
  <2>2. Evidence' BY EvidenceStays
  <2>3. Exclusive' BY DEF Exclusive, Serving, Stored, ChunkOf, ChunkId
  <2> QED BY <2>1, <2>2, <2>3
<1> QED BY <1>1, <1>2, <1>3, <1>4, <1>5, <1>6, <1>7, <1>8 DEF ChunkNext

THEOREM ChunksInvariant == ChunkSpec => []ChunkInvariant
BY ChunkInitial, ChunkStep, PTL DEF ChunkSpec

-----------------------------------------------------------------------------
(* A stored status comes with every fact of the report that set it, and a  *)
(* record tells nothing that no stored report told, for any number of      *)
(* reporters and any updates, however their handlers overlap               *)
(* (control_plane.go:966).                                                 *)
THEOREM StatusesAreBacked == ChunkSpec => []StatusIsBacked
<1>1. ChunkInvariant => StatusIsBacked BY DEF ChunkInvariant, Evidence
<1> QED BY <1>1, ChunksInvariant, PTL

(* What a component was told is stored stays stored in a database, unless  *)
(* two handlers of its chunk overlapped (control_plane.go:711).            *)
THEOREM AcknowledgedSurvives == ChunkSpec => []AcknowledgedIsKept
<1>1. ChunkInvariant => AcknowledgedIsKept
  BY DEF ChunkInvariant, Turns, Exclusive, Stored, AcknowledgedIsKept, ChunkTypeOK
<1> QED BY <1>1, ChunksInvariant, PTL
===============================================================================
