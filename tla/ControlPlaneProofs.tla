--------------------------- MODULE ControlPlaneProofs ---------------------------
(***************************************************************************)
(* Proofs about the stores of the control plane (ServiceStorage), for any  *)
(* services and any number of writes, and about the commands that look up  *)
(* and stop the runs they hold (RunCommands), for any runs and arguments.  *)
(*                                                                         *)
(* That the database rolls back rests on its single writer: what the copy  *)
(* holds was written by a transaction that is committed or open            *)
(* (CopyIsOpen), and no two are open (OneWriter), so that a commit stores  *)
(* nothing of another transaction.                                         *)
(*                                                                         *)
(* That a stop hits the run it names rests on runs never being deleted:    *)
(* the runs there were when the command began are all in the list that     *)
(* the lookup of a prefix reads later, so a prefix of one of that list is  *)
(* a prefix of no other of them.                                           *)
(***************************************************************************)
EXTENDS ServiceStorage, RunCommands, FiniteSetTheorems, TLAPS

StorageTypeOK ==
  /\ services \in [Ids -> Entry] /\ copy \in [Ids -> Entry]
  /\ outcome \in [Writes -> {"none", "open", "committed", "failed"}]

OneWriter == \A v, w \in Writes : outcome[v] = "open" /\ outcome[w] = "open" => v = w

CopyIsOpen ==
  \A id \in Ids : copy[id].by # 0 => outcome[copy[id].by] \in {"committed", "open"}

StorageInvariant == StorageTypeOK /\ (backend = "bolt" => OneWriter /\ CopyIsOpen /\ CommittedOnly)

(* An operation writes in its own name, or leaves the service as it was.   *)
LEMMA OperationShape ==
  ASSUME NEW table \in [Ids -> Entry], NEW id \in Ids, NEW w \in Writes,
         NEW after \in Operations(table, id, w)
  PROVE /\ after \in [Ids -> Entry]
        /\ \A d \in Ids : after[d].by = w \/ after[d] = table[d]
<1>1. PICK b \in BOOLEAN : after = [table EXCEPT ![id] = [there |-> b, by |-> w]]
  <2>1. \A e \in PutService(table, id, w) : e = [table EXCEPT ![id] = [there |-> TRUE, by |-> w]]
    BY DEF PutService
  <2>2. \A e \in DeleteService(table, id, w) : e = [table EXCEPT ![id] = [there |-> FALSE, by |-> w]]
    BY DEF DeleteService
  <2>3. UpdateService(table, id, w) \subseteq PutService(table, id, w) BY DEF UpdateService
  <2> QED BY <2>1, <2>2, <2>3 DEF Operations
<1>2. [there |-> b, by |-> w] \in Entry BY DEF Entry
<1>3. \A d \in Ids : after[d] = IF d = id THEN [there |-> b, by |-> w] ELSE table[d]
  BY <1>1
<1> QED BY <1>1, <1>2, <1>3

LEMMA WriterShape == \A e \in Entry : e.by # 0 => e.by \in Writes
BY DEF Entry

-----------------------------------------------------------------------------
LEMMA StorageInitial == StorageInit => StorageInvariant
<1> SUFFICES ASSUME StorageInit PROVE StorageInvariant OBVIOUS
<1>1. StorageTypeOK BY DEF StorageInit, StorageTypeOK, Entry
<1>2. OneWriter /\ CopyIsOpen /\ CommittedOnly
  BY DEF StorageInit, OneWriter, CopyIsOpen, CommittedOnly
<1> QED BY <1>1, <1>2 DEF StorageInvariant

LEMMA StorageStep == StorageInvariant /\ [StorageNext]_storageVars => StorageInvariant'
<1> SUFFICES ASSUME StorageInvariant, [StorageNext]_storageVars PROVE StorageInvariant'
  OBVIOUS
<1>1. ASSUME NEW w \in Writes, WriteOne(w) PROVE StorageInvariant'
  <2>1. PICK id \in Ids : services' \in Operations(services, id, w) BY <1>1 DEF WriteOne
  <2>2. /\ services' \in [Ids -> Entry] /\ copy' = services' /\ backend' = backend
        /\ \A d \in Ids : services'[d].by = w \/ services'[d] = services[d]
    BY <1>1, <2>1, OperationShape DEF WriteOne, StorageInvariant, StorageTypeOK
  <2>3. /\ outcome[w] = "none" /\ outcome'[w] = "committed"
        /\ \A v \in Writes : v # w => outcome'[v] = outcome[v]
        /\ outcome' \in [Writes -> {"none", "open", "committed", "failed"}]
    BY <1>1 DEF WriteOne, Fresh, StorageInvariant, StorageTypeOK
  <2>4. StorageTypeOK' BY <2>2, <2>3 DEF StorageTypeOK
  <2>5. ASSUME backend = "bolt" PROVE OneWriter' /\ CopyIsOpen' /\ CommittedOnly'
    <3>1. OneWriter' BY <2>3, <2>5 DEF OneWriter, StorageInvariant
    <3>2. CommittedOnly'
      BY <2>2, <2>3, <2>5, WriterShape DEF CommittedOnly, StorageInvariant, StorageTypeOK
    <3>3. CopyIsOpen' BY <2>2, <3>2 DEF CommittedOnly, CopyIsOpen
    <3> QED BY <3>1, <3>2, <3>3
  <2> QED BY <2>2, <2>4, <2>5 DEF StorageInvariant
<1>2. ASSUME NEW w \in Writes, BeginTransaction(w) PROVE StorageInvariant'
  <2>1. /\ outcome[w] = "none" /\ outcome'[w] = "open"
        /\ \A v \in Writes : v # w => outcome'[v] = outcome[v]
        /\ outcome' \in [Writes -> {"none", "open", "committed", "failed"}]
        /\ services' = services /\ copy' = copy /\ backend' = backend
    BY <1>2 DEF BeginTransaction, Fresh, StorageInvariant, StorageTypeOK
  <2>2. StorageTypeOK' BY <2>1 DEF StorageTypeOK, StorageInvariant
  <2>3. ASSUME backend = "bolt" PROVE OneWriter' /\ CopyIsOpen' /\ CommittedOnly'
    <3>1. \A v \in Writes : outcome[v] # "open"
      BY <1>2, <2>3 DEF BeginTransaction, MayWrite, Open
    <3>2. OneWriter' BY <2>1, <3>1 DEF OneWriter
    <3>3. CommittedOnly'
      BY <2>1, <2>3, WriterShape DEF CommittedOnly, StorageInvariant, StorageTypeOK
    <3>4. CopyIsOpen'
      BY <2>1, <2>3, WriterShape DEF CopyIsOpen, StorageInvariant, StorageTypeOK
    <3> QED BY <3>2, <3>3, <3>4
  <2> QED BY <2>1, <2>2, <2>3 DEF StorageInvariant
<1>3. ASSUME NEW w \in Writes, StepOnCopy(w) PROVE StorageInvariant'
  <2>1. PICK id \in Ids : copy' \in Operations(copy, id, w) BY <1>3 DEF StepOnCopy
  <2>2. /\ copy' \in [Ids -> Entry] /\ services' = services /\ backend' = backend
        /\ outcome' = outcome /\ outcome[w] = "open"
        /\ \A d \in Ids : copy'[d].by = w \/ copy'[d] = copy[d]
    BY <1>3, <2>1, OperationShape DEF StepOnCopy, StorageInvariant, StorageTypeOK
  <2>3. StorageTypeOK' BY <2>2 DEF StorageTypeOK, StorageInvariant
  <2>4. backend = "bolt" => OneWriter' /\ CommittedOnly'
    BY <2>2 DEF OneWriter, CommittedOnly, StorageInvariant
  <2>5. backend = "bolt" => CopyIsOpen'
    BY <2>2 DEF CopyIsOpen, StorageInvariant
  <2> QED BY <2>2, <2>3, <2>4, <2>5 DEF StorageInvariant
<1>4. ASSUME NEW w \in Writes, StepOnMap(w) PROVE StorageInvariant'
  <2>1. PICK id \in Ids : services' \in Operations(services, id, w) BY <1>4 DEF StepOnMap
  <2>2. services' \in [Ids -> Entry]
    BY <2>1, OperationShape DEF StorageInvariant, StorageTypeOK
  <2>3. backend' # "bolt" BY <1>4 DEF StepOnMap
  <2> QED BY <1>4, <2>2, <2>3 DEF StepOnMap, StorageInvariant, StorageTypeOK
<1>5. ASSUME NEW w \in Writes, Commit(w) PROVE StorageInvariant'
  <2>1. /\ outcome[w] = "open" /\ outcome'[w] = "committed"
        /\ \A v \in Writes : v # w => outcome'[v] = outcome[v]
        /\ outcome' \in [Writes -> {"none", "open", "committed", "failed"}]
        /\ services' = (IF backend = "bolt" THEN copy ELSE services)
        /\ copy' = services' /\ backend' = backend
    BY <1>5 DEF Commit, StorageInvariant, StorageTypeOK
  <2>2. StorageTypeOK' BY <2>1 DEF StorageTypeOK, StorageInvariant
  <2>3. ASSUME backend = "bolt" PROVE OneWriter' /\ CopyIsOpen' /\ CommittedOnly'
    <3>1. OneWriter' BY <2>1, <2>3 DEF OneWriter, StorageInvariant
    <3>2. \A v \in Writes : outcome[v] \in {"committed", "open"} => outcome'[v] = "committed"
      BY <2>1, <2>3 DEF OneWriter, StorageInvariant
    <3>3. CommittedOnly'
      BY <2>1, <2>3, <3>2, WriterShape
      DEF CommittedOnly, CopyIsOpen, StorageInvariant, StorageTypeOK
    <3>4. CopyIsOpen' BY <2>1, <3>3 DEF CommittedOnly, CopyIsOpen
    <3> QED BY <3>1, <3>3, <3>4
  <2> QED BY <2>1, <2>2, <2>3 DEF StorageInvariant
<1>6. ASSUME NEW w \in Writes, Rollback(w) PROVE StorageInvariant'
  <2>1. /\ outcome[w] = "open" /\ outcome'[w] = "failed"
        /\ \A v \in Writes : v # w => outcome'[v] = outcome[v]
        /\ outcome' \in [Writes -> {"none", "open", "committed", "failed"}]
        /\ services' = services /\ copy' = services /\ backend' = backend
    BY <1>6 DEF Rollback, RolledBack, StorageInvariant, StorageTypeOK
  <2>2. StorageTypeOK' BY <2>1 DEF StorageTypeOK, StorageInvariant
  <2>3. ASSUME backend = "bolt" PROVE OneWriter' /\ CopyIsOpen' /\ CommittedOnly'
    <3>1. OneWriter' BY <2>1, <2>3 DEF OneWriter, StorageInvariant
    <3>2. CommittedOnly'
      BY <2>1, <2>3, WriterShape DEF CommittedOnly, StorageInvariant, StorageTypeOK
    <3>3. CopyIsOpen' BY <2>1, <3>2 DEF CommittedOnly, CopyIsOpen
    <3> QED BY <3>1, <3>2, <3>3
  <2> QED BY <2>1, <2>2, <2>3 DEF StorageInvariant
<1>7. CASE UNCHANGED storageVars
  BY <1>7 DEF storageVars, StorageInvariant, StorageTypeOK, OneWriter, CopyIsOpen, CommittedOnly
<1> QED BY <1>1, <1>2, <1>3, <1>4, <1>5, <1>6, <1>7 DEF StorageNext

(* Nobody reads, then or later, what a transaction on the database wrote   *)
(* that is open or has failed (interface.go:56, bolt.go:323).              *)
THEOREM DatabaseKeepsItsPromise == StorageSpec => []DatabaseRollsBack
<1>1. StorageInvariant => DatabaseRollsBack BY DEF StorageInvariant, DatabaseRollsBack
<1> QED BY <1>1, StorageInitial, StorageStep, PTL DEF StorageSpec

-----------------------------------------------------------------------------
(* The commands of the operator.                                           *)

RunsInvariant ==
  /\ IsFiniteSet(DOMAIN runs)
  /\ step \in {"idle", "lookup", "missed", "resolved"}
  /\ step # "idle" => known \subseteq DOMAIN runs
  /\ step = "resolved" => target \in DOMAIN runs /\ Names(target)

(* Without a limit the one list there may be is that of all runs.          *)
LEMMA AllRunsAreListed == \A listed \in AllRuns : listed = DOMAIN runs
<1>1. Matching("unknown") = DOMAIN runs BY DEF Matching
<1>2. AllRuns = Listed(Matching("unknown"), -1) BY DEF AllRuns, ListPipelineRuns
<1>3. Listed(Matching("unknown"), -1) = {Matching("unknown")} BY DEF Listed
<1> QED BY <1>1, <1>2, <1>3

(* The run a prefix is resolved to is the only one of the store with that  *)
(* prefix.                                                                 *)
LEMMA PrefixOfOne ==
  ASSUME IsFiniteSet(DOMAIN runs), known \subseteq DOMAIN runs,
         NEW matches, matches = {id \in DOMAIN runs : IsPrefix(asked, id)},
         Cardinality(matches) = 1, NEW id \in matches
  PROVE  id \in DOMAIN runs /\ Names(id)
<1>1. IsFiniteSet(matches) BY FS_Subset
<1>2. matches = {id} BY <1>1, FS_Singleton
<1> QED BY <1>2 DEF Names

LEMMA RunsStep == RunsInvariant /\ [RunNext]_runVars => RunsInvariant'
<1> SUFFICES ASSUME RunsInvariant, [RunNext]_runVars PROVE RunsInvariant'
  OBVIOUS
<1> USE DEF RunsInvariant
<1>1. ASSUME NEW id \in RunIds, CreatePipelineRun(id) PROVE RunsInvariant'
  <2>1. DOMAIN runs' = DOMAIN runs \cup {id} BY <1>1 DEF CreatePipelineRun
  <2>2. IsFiniteSet(DOMAIN runs') BY <2>1, FS_AddElement
  <2> QED BY <1>1, <2>1, <2>2 DEF CreatePipelineRun, operator, Names
<1>2. ASSUME NEW id \in RunIds, NEW status \in {"running", "completed"}, UpdatePipelineRun(id, status)
      PROVE RunsInvariant'
  <2>1. DOMAIN runs' = DOMAIN runs BY <1>2 DEF UpdatePipelineRun
  <2> QED BY <1>2, <2>1 DEF UpdatePipelineRun, operator, Names
<1>3. ASSUME NEW c, Begin(c) PROVE RunsInvariant'
  BY <1>3 DEF Begin
<1>4. CASE LookUp
  BY <1>4 DEF LookUp, Names
<1>5. CASE ResolveByPrefix
  <2>1. PICK listed \in AllRuns :
          LET matches == {id \in listed : IsPrefix(asked, id)} IN
          IF Cardinality(matches) = 1
          THEN step' = "resolved" /\ target' \in matches /\ UNCHANGED <<command, asked, known>>
          ELSE Done
    BY <1>5 DEF ResolveByPrefix
  <2> DEFINE matches == {id \in DOMAIN runs : IsPrefix(asked, id)}
  <2>2. IF Cardinality(matches) = 1
        THEN step' = "resolved" /\ target' \in matches /\ UNCHANGED <<asked, known>>
        ELSE Done
    BY <2>1, AllRunsAreListed
  <2>3. runs' = runs /\ step = "missed" BY <1>5 DEF ResolveByPrefix
  <2>4. CASE Cardinality(matches) = 1
    <3>1. target' \in DOMAIN runs /\ Names(target') BY <2>2, <2>3, <2>4, PrefixOfOne
    <3> HIDE DEF matches
    <3> QED BY <2>2, <2>3, <2>4, <3>1 DEF Names
  <2>5. CASE Cardinality(matches) # 1 BY <2>2, <2>3, <2>5 DEF Done
  <2> QED BY <2>4, <2>5
<1>6. CASE StopResolved
  <2>1. DOMAIN runs' = DOMAIN runs BY <1>6 DEF StopResolved
  <2> QED BY <1>6, <2>1 DEF StopResolved, Done
<1>7. CASE ShowResolved \/ CommandFails \/ \E limit \in 0 .. 2 : ShowRuns(limit)
  BY <1>7 DEF ShowResolved, CommandFails, ShowRuns, Done
<1>8. CASE UNCHANGED runVars
  BY <1>8 DEF runVars, Names
<1> QED BY <1>1, <1>2, <1>3, <1>4, <1>5, <1>6, <1>7, <1>8 DEF RunNext

(* Whatever runs are created and finished between its RPCs, a stop command *)
(* stores its outcome in the run its argument names: that id, or the one   *)
(* run it is a prefix of among those there were (pipelines.go:460).        *)
THEOREM StopsHitTheNamed == RunSpec => StopHitsTheNamed
<1>1. RunInit => RunsInvariant
  <2>1. RunInit => DOMAIN runs = {} BY DEF RunInit
  <2> QED BY <2>1, FS_EmptySet DEF RunInit, RunsInvariant
<1>2. RunsInvariant /\ [RunNext]_runVars => [StopResolved => Names(target)]_runVars
  BY DEF RunsInvariant, StopResolved
<1> QED BY <1>1, <1>2, RunsStep, PTL DEF RunSpec, StopHitsTheNamed
===============================================================================
