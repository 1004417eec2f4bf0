----------------------------- MODULE MachineProofs -----------------------------
(***************************************************************************)
(* Proofs about what happens on the machine of a run: how it comes up      *)
(* (RunStartup), for every pipeline the loader accepts; how a pipeline     *)
(* inside the process is stopped and in which order its events come to the *)
(* sinks (DagPipeline), for a graph of any shape; the order of the lines   *)
(* of its log (LogAggregation); what the expansion makes of a variable     *)
(* (ContainerEnvironment); the order of a sandbox's services (Sandbox);    *)
(* and the cleanup of the generated script (LocalRunnerScript).            *)
(*                                                                         *)
(* RunStartup and DagPipeline's stop are proved as specifications of their *)
(* own.  The others are parts of MachineSpec: while another part runs,     *)
(* theirs stays in its initial state (PartsStep).                          *)
(***************************************************************************)
EXTENDS MCSupervisedRun, FiniteSetTheorems, SequenceTheorems, TLAPS

PipelineIds == Ids(pipeline.pipelines)
Depends(c) == pipeline.depends[calls[c][1]]

(* The runner: what is told from the moment on that it is known.           *)
PhaseKnown ==
  /\ WellFormed(pipeline)
  /\ config.port \in Nat
  /\ phase = "new" => announced = Endpoint(config.port) /\ (config.external => config.port # 0)
  /\ phase = "listening" => config.port # 0
  /\ phase \in {"synced", "ready", "starting"} =>
       announced = Endpoint(config.port) /\ config.port # 0
  /\ phase \in {"new", "listening", "synced", "ready"} => order = <<>> /\ next = 1 /\ calls = <<>>

(* What has been started: the fixed components up to the next, then        *)
(* pipeline components.                                                    *)
OrderKnown ==
  /\ next \in 1 .. Len(All) + 1
  /\ order \in Seq(Ids(All))
  /\ \A i \in DOMAIN order :
       IF i <= Len(Fixed) THEN order[i] = Fixed[i] ELSE order[i] \in PipelineIds
  /\ IF next <= Len(Fixed) THEN Len(order) = next - 1 ELSE Len(order) >= Len(Fixed)

(* The calls under way: each is of a component that is not started, for    *)
(* the dependency its caller has just advanced beyond; what it is beyond   *)
(* is started or called.                                                   *)
CallsKnown ==
  /\ calls \in Seq(PipelineIds \X (Nat \ {0}))
  /\ calls # <<>> => next > Len(Fixed) /\ next <= Len(All)
  /\ \A c \in DOMAIN calls :
       /\ calls[c][1] \notin Started
       /\ calls[c][2] <= Len(Depends(c)) + 1
       /\ c < Len(calls) => calls[c][2] > 1 /\ Depends(c)[calls[c][2] - 1] = calls[c + 1][1]
       /\ \A n \in 1 .. calls[c][2] - 1 : Depends(c)[n] \in PipelineIds =>
            Depends(c)[n] \in Started \/ (c < Len(calls) /\ n = calls[c][2] - 1)

DefaultPort(id) == "HEALTH_PORT" \notin DOMAIN pipeline.env[id]
EnvironmentKnown ==
  /\ IsFiniteSet(Started)
  /\ order # <<>> => announced = Endpoint(config.port) /\ config.port # 0
  /\ DOMAIN environment = Started
  /\ \A id \in Started :
       /\ environment[id]["FLOWCTL_ENDPOINT"] = announced
       /\ environment[id]["FLOWCTL_COMPONENT_ID"] = <<"id", id>>
       /\ DefaultPort(id) => \E n \in 1 .. Cardinality(Started) :
                               environment[id]["HEALTH_PORT"] = <<"port", 18080 + n>>
  /\ \A a, b \in Started : DefaultPort(a) /\ DefaultPort(b) /\ a # b =>
       environment[a]["HEALTH_PORT"] # environment[b]["HEALTH_PORT"]

StartupInvariant == PhaseKnown /\ OrderKnown /\ CallsKnown /\ EnvironmentKnown /\ StartsInOrder

-----------------------------------------------------------------------------
LEMMA Joined ==
  ASSUME NEW a, NEW b, NEW c, a \in Seq(Ids(a)), b \in Seq(Ids(b)), c = a \o b
  PROVE  /\ Len(c) = Len(a) + Len(b)
         /\ DOMAIN c = 1 .. Len(a) + Len(b)
         /\ \A i \in 1 .. Len(a) : c[i] = a[i]
         /\ \A i \in 1 .. Len(b) : c[Len(a) + i] = b[i]
         /\ Ids(c) = Ids(a) \cup Ids(b)
         /\ c \in Seq(Ids(c))
<1> DEFINE C == Ids(a) \cup Ids(b)
<1>0. a \in Seq(C) /\ b \in Seq(C) OBVIOUS
<1> HIDE DEF C
<1>1. /\ c \in Seq(C) /\ Len(c) = Len(a) + Len(b)
      /\ \A i \in 1 .. Len(a) : c[i] = a[i]
      /\ \A i \in 1 .. Len(b) : c[Len(a) + i] = b[i]
  BY <1>0
<1>2. Len(a) \in Nat /\ Len(b) \in Nat /\ DOMAIN c = 1 .. Len(a) + Len(b)
      /\ DOMAIN a = 1 .. Len(a) /\ DOMAIN b = 1 .. Len(b)
  BY <1>0, <1>1
<1>3. \A i \in 1 .. Len(a) + Len(b) : i \in 1 .. Len(a) \/ \E j \in 1 .. Len(b) : i = Len(a) + j
  <2> SUFFICES ASSUME NEW i \in 1 .. Len(a) + Len(b), i \notin 1 .. Len(a)
               PROVE \E j \in 1 .. Len(b) : i = Len(a) + j
    OBVIOUS
  <2>1. i - Len(a) \in 1 .. Len(b) /\ i = Len(a) + (i - Len(a)) BY <1>2
  <2> QED BY <2>1
<1>4. Ids(c) \subseteq Ids(a) \cup Ids(b)
  <2> SUFFICES ASSUME NEW i \in 1 .. Len(a) + Len(b) PROVE c[i] \in Ids(a) \cup Ids(b)
    BY <1>2 DEF Ids
  <2>1. CASE i \in 1 .. Len(a) BY <1>1, <1>2, <2>1 DEF Ids
  <2>2. ASSUME NEW j \in 1 .. Len(b), i = Len(a) + j PROVE c[i] \in Ids(b)
    BY <1>1, <1>2, <2>2 DEF Ids
  <2> QED BY <1>3, <2>1, <2>2
<1>5. \A j \in 1 .. Len(a) : j \in 1 .. Len(a) + Len(b) BY <1>2
<1>6. \A j \in 1 .. Len(b) : Len(a) + j \in 1 .. Len(a) + Len(b) BY <1>2
<1>7. Ids(a) \cup Ids(b) \subseteq Ids(c)
  <2>1. Ids(a) \subseteq Ids(c) BY <1>1, <1>2, <1>5 DEF Ids
  <2>2. ASSUME NEW j \in 1 .. Len(b) PROVE b[j] \in Ids(c)
    <3>1. Len(a) + j \in DOMAIN c /\ c[Len(a) + j] = b[j] BY <1>1, <1>2, <1>6
    <3> QED BY <3>1 DEF Ids
  <2>3. DOMAIN b = 1 .. Len(b) BY <1>2
  <2> QED BY <2>1, <2>2, <2>3 DEF Ids
<1>8. Ids(c) = C BY <1>4, <1>7 DEF C
<1> QED BY <1>1, <1>2, <1>8 DEF C

(* The components of a pipeline, and their ranks.                          *)
LEMMA ListsJoined ==
  ASSUME WellFormed(pipeline)
  PROVE  /\ Fixed \in Seq(Ids(Fixed)) /\ pipeline.pipelines \in Seq(PipelineIds)
         /\ Len(All) = Len(Fixed) + Len(pipeline.pipelines)
         /\ \A i \in 1 .. Len(Fixed) : All[i] = Fixed[i]
         /\ \A i \in Len(Fixed) + 1 .. Len(All) : All[i] \in PipelineIds
         /\ Ids(All) = Ids(Fixed) \cup PipelineIds
         /\ Ids(Fixed) \cap PipelineIds = {}
         /\ \A i, j \in 1 .. Len(Fixed) : Fixed[i] = Fixed[j] => i = j
<1> DEFINE s == pipeline.sources
           p == pipeline.processors
           k == pipeline.sinks
           q == pipeline.pipelines
<1>1. s \in Seq(Ids(s)) /\ p \in Seq(Ids(p)) /\ k \in Seq(Ids(k)) /\ q \in Seq(Ids(q))
  BY DEF WellFormed
<1> HIDE DEF s, p, k, q
<1>2. s \o p \in Seq(Ids(s \o p)) BY <1>1, Joined
<1> DEFINE f == (s \o p) \o k
<1>3. f \in Seq(Ids(f)) BY <1>1, <1>2, Joined
<1>4. Fixed = f BY DEF Fixed, FixedOf, f, s, p, k
<1> HIDE DEF f
<1>5. /\ Len(f \o q) = Len(f) + Len(q) /\ DOMAIN (f \o q) = 1 .. Len(f) + Len(q)
      /\ \A i \in 1 .. Len(f) : (f \o q)[i] = f[i]
      /\ \A i \in 1 .. Len(q) : (f \o q)[Len(f) + i] = q[i]
      /\ Ids(f \o q) = Ids(f) \cup Ids(q)
  <2> DEFINE c == f \o q
  <2> HIDE DEF c
  <2>1. c = f \o q BY DEF c
  <2>2. Len(c) = Len(f) + Len(q) BY <1>1, <1>3, <2>1, Joined
  <2>3. DOMAIN c = 1 .. Len(f) + Len(q) BY <1>1, <1>3, <2>1, Joined
  <2>4. \A i \in 1 .. Len(f) : c[i] = f[i] BY <1>1, <1>3, <2>1, Joined
  <2>5. \A i \in 1 .. Len(q) : c[Len(f) + i] = q[i] BY <1>1, <1>3, <2>1, Joined
  <2>6. Ids(c) = Ids(f) \cup Ids(q) BY <1>1, <1>3, <2>1, Joined
  <2> QED BY <2>2, <2>3, <2>4, <2>5, <2>6 DEF c
<1>6. All = f \o q BY <1>4 DEF All, AllOf, Fixed, q
<1>7. Len(f) \in Nat /\ Len(q) \in Nat /\ DOMAIN f = 1 .. Len(f) /\ DOMAIN q = 1 .. Len(q)
  BY <1>1, <1>3
<1>8. \A i \in Len(f) + 1 .. Len(f \o q) : (f \o q)[i] \in Ids(q)
  <2> TAKE i \in Len(f) + 1 .. Len(f \o q)
  <2>1. i - Len(f) \in 1 .. Len(q) /\ i = Len(f) + (i - Len(f)) BY <1>5, <1>7
  <2>2. (f \o q)[i] = q[i - Len(f)] BY <1>5, <2>1
  <2> QED BY <1>7, <2>1, <2>2 DEF Ids
<1>9. \A i, j \in 1 .. Len(f) + Len(q) : (f \o q)[i] = (f \o q)[j] => i = j
  BY <1>5, <1>6 DEF WellFormed, All
<1>10. Ids(f) \cap Ids(q) = {}
  <2> SUFFICES ASSUME NEW i \in 1 .. Len(f), NEW j \in 1 .. Len(q), f[i] = q[j] PROVE FALSE
    BY <1>7 DEF Ids
  <2>1. (f \o q)[i] = (f \o q)[Len(f) + j] BY <1>5
  <2>2. i \in 1 .. Len(f) + Len(q) /\ Len(f) + j \in 1 .. Len(f) + Len(q) /\ i # Len(f) + j
    BY <1>7
  <2> QED BY <1>9, <2>1, <2>2
<1>11. \A i, j \in 1 .. Len(f) : f[i] = f[j] => i = j
  <2> TAKE i, j \in 1 .. Len(f)
  <2>1. i \in 1 .. Len(f) + Len(q) /\ j \in 1 .. Len(f) + Len(q) BY <1>7
  <2> QED BY <1>5, <1>9, <2>1
<1>12. PipelineIds = Ids(q) BY DEF PipelineIds, q
<1> QED BY <1>1, <1>3, <1>4, <1>5, <1>6, <1>8, <1>10, <1>11, <1>12 DEF q

LEMMA RankOf ==
  ASSUME NEW id, NEW s, s = Ids(pipeline.sources), NEW p, p = Ids(pipeline.processors),
         NEW k, k = Ids(pipeline.sinks)
  PROVE  /\ id \in s => Rank(id) = 1
         /\ id \in p /\ id \notin s => Rank(id) = 2
         /\ id \in k /\ id \notin s /\ id \notin p => Rank(id) = 3
         /\ id \notin s /\ id \notin p /\ id \notin k => Rank(id) = 4
         /\ Rank(id) \in 1 .. 4
  BY DEF Rank

LEMMA RankGrows ==
  ASSUME WellFormed(pipeline)
  PROVE  /\ \A i, j \in 1 .. Len(Fixed) : i <= j => Rank(Fixed[i]) <= Rank(Fixed[j])
         /\ \A id : Rank(id) \in 1 .. 4
         /\ \A id \in PipelineIds : Rank(id) = 4
<1> DEFINE s == pipeline.sources
           p == pipeline.processors
           k == pipeline.sinks
<1>1. s \in Seq(Ids(s)) /\ p \in Seq(Ids(p)) /\ k \in Seq(Ids(k)) BY DEF WellFormed
<1>2. ASSUME NEW id
      PROVE  /\ id \in Ids(s) => Rank(id) = 1
             /\ id \in Ids(p) /\ id \notin Ids(s) => Rank(id) = 2
             /\ id \in Ids(k) /\ id \notin Ids(s) /\ id \notin Ids(p) => Rank(id) = 3
             /\ id \notin Ids(s) /\ id \notin Ids(p) /\ id \notin Ids(k) => Rank(id) = 4
             /\ Rank(id) \in 1 .. 4
  BY RankOf
<1> HIDE DEF s, p, k
<1>a. s \o p \in Seq(Ids(s \o p)) BY <1>1, Joined
<1>c. PICK g : g = s \o p OBVIOUS
<1>0. g \in Seq(Ids(g)) BY <1>a, <1>c
<1>3. /\ Len(g) = Len(s) + Len(p)
      /\ \A i \in 1 .. Len(s) : g[i] = s[i]
      /\ \A i \in 1 .. Len(p) : g[Len(s) + i] = p[i]
      /\ Ids(g) = Ids(s) \cup Ids(p)
  <2>1. Len(g) = Len(s) + Len(p) BY <1>1, <1>c, Joined
  <2>2. \A i \in 1 .. Len(s) : g[i] = s[i] BY <1>1, <1>c, Joined
  <2>3. \A i \in 1 .. Len(p) : g[Len(s) + i] = p[i] BY <1>1, <1>c, Joined
  <2>4. Ids(g) = Ids(s) \cup Ids(p) BY <1>1, <1>c, Joined
  <2> QED BY <2>1, <2>2, <2>3, <2>4
<1>d. Fixed = g \o k BY <1>c DEF Fixed, FixedOf, s, p, k
<1>e. PICK f : f = g \o k OBVIOUS
<1>4. /\ Len(f) = Len(g) + Len(k)
      /\ \A i \in 1 .. Len(g) : f[i] = g[i]
      /\ \A i \in 1 .. Len(k) : f[Len(g) + i] = k[i]
      /\ Ids(f) = Ids(g) \cup Ids(k)
  <2>1. Len(f) = Len(g) + Len(k) BY <1>0, <1>1, <1>e, Joined
  <2>2. \A i \in 1 .. Len(g) : f[i] = g[i] BY <1>0, <1>1, <1>e, Joined
  <2>3. \A i \in 1 .. Len(k) : f[Len(g) + i] = k[i] BY <1>0, <1>1, <1>e, Joined
  <2>4. Ids(f) = Ids(g) \cup Ids(k) BY <1>0, <1>1, <1>e, Joined
  <2> QED BY <2>1, <2>2, <2>3, <2>4
<1>5. Fixed = f BY <1>d, <1>e
<1>6. /\ Len(s) \in Nat /\ Len(p) \in Nat /\ Len(k) \in Nat
      /\ DOMAIN s = 1 .. Len(s) /\ DOMAIN p = 1 .. Len(p) /\ DOMAIN k = 1 .. Len(k)
  BY <1>1
<1>7. \A i \in 1 .. Len(s) : f[i] = s[i] BY <1>3, <1>4, <1>6
<1>8. \A i \in 1 .. Len(p) : f[Len(s) + i] = p[i]
  <2> TAKE i \in 1 .. Len(p)
  <2>1. Len(s) + i \in 1 .. Len(g) BY <1>3, <1>6
  <2> QED BY <1>3, <1>4, <2>1
<1>9. \A i, j \in 1 .. Len(f) : f[i] = f[j] => i = j BY <1>5, ListsJoined
<1>10. \A i \in 1 .. Len(f) : f[i] \in Ids(s) => i <= Len(s)
  <2> SUFFICES ASSUME NEW i \in 1 .. Len(f), NEW j \in 1 .. Len(s), f[i] = s[j] PROVE i <= Len(s)
    BY <1>6 DEF Ids
  <2>1. j \in 1 .. Len(f) /\ f[j] = s[j] BY <1>3, <1>4, <1>6, <1>7
  <2> QED BY <1>9, <2>1
<1>11. \A i \in 1 .. Len(f) : f[i] \in Ids(p) => i <= Len(s) + Len(p)
  <2> SUFFICES ASSUME NEW i \in 1 .. Len(f), NEW j \in 1 .. Len(p), f[i] = p[j]
               PROVE i <= Len(s) + Len(p)
    BY <1>6 DEF Ids
  <2>1. Len(s) + j \in 1 .. Len(f) BY <1>3, <1>4, <1>6
  <2>2. f[Len(s) + j] = p[j] BY <1>8
  <2>3. i = Len(s) + j BY <1>9, <2>1, <2>2
  <2> QED BY <1>6, <2>3
<1>12. \A i \in 1 .. Len(s) : f[i] \in Ids(s) BY <1>6, <1>7 DEF Ids
<1>13. \A i \in Len(s) + 1 .. Len(s) + Len(p) : f[i] \in Ids(p)
  <2> TAKE i \in Len(s) + 1 .. Len(s) + Len(p)
  <2>1. i - Len(s) \in 1 .. Len(p) /\ Len(s) + (i - Len(s)) = i BY <1>6
  <2>2. f[i] = p[i - Len(s)] BY <1>8, <2>1
  <2> QED BY <1>6, <2>1, <2>2 DEF Ids
<1>14. \A i \in Len(s) + Len(p) + 1 .. Len(f) : f[i] \in Ids(k)
  <2> TAKE i \in Len(s) + Len(p) + 1 .. Len(f)
  <2>1. i - Len(g) \in 1 .. Len(k) /\ Len(g) + (i - Len(g)) = i
    BY <1>3, <1>4, <1>6
  <2>2. f[i] = k[i - Len(g)] BY <1>4, <2>1
  <2> QED BY <1>6, <2>1, <2>2 DEF Ids
<1>15. ASSUME NEW i \in 1 .. Len(f)
       PROVE Rank(f[i]) = IF i <= Len(s) THEN 1 ELSE IF i <= Len(s) + Len(p) THEN 2 ELSE 3
  <2>1. CASE i <= Len(s) BY <1>2, <1>12, <2>1
  <2>2. CASE i > Len(s) /\ i <= Len(s) + Len(p)
    <3>1. f[i] \notin Ids(s) /\ f[i] \in Ids(p) BY <1>6, <1>10, <1>13, <2>2
    <3> QED BY <1>2, <1>6, <2>2, <3>1
  <2>3. CASE i > Len(s) + Len(p)
    <3>1. f[i] \notin Ids(s) /\ f[i] \notin Ids(p) /\ f[i] \in Ids(k)
      BY <1>6, <1>10, <1>11, <1>14, <2>3
    <3> QED BY <1>2, <1>6, <2>3, <3>1
  <2> QED BY <1>6, <2>1, <2>2, <2>3
<1>16. \A i, j \in 1 .. Len(f) : i <= j => Rank(f[i]) <= Rank(f[j]) BY <1>6, <1>15
<1>17. \A id : Rank(id) \in 1 .. 4
  <2> TAKE id
  <2> QED BY <1>2
<1>18. Ids(f) = Ids(s) \cup Ids(p) \cup Ids(k) BY <1>3, <1>4
<1>19. \A id \in PipelineIds : Rank(id) = 4
  <2> TAKE id \in PipelineIds
  <2>1. id \notin Ids(f) BY <1>5, ListsJoined
  <2> QED BY <1>2, <1>18, <2>1
<1> QED BY <1>5, <1>16, <1>17, <1>19

-----------------------------------------------------------------------------
LEMMA StartupInitial == StartupInit => StartupInvariant
<1> SUFFICES ASSUME StartupInit PROVE StartupInvariant OBVIOUS
<1>1. WellFormed(pipeline) BY StartupAssumption DEF StartupInit
<1>2. config.port \in Nat BY StartupAssumption DEF StartupInit
<1>3. PhaseKnown BY <1>1, <1>2 DEF StartupInit, PhaseKnown
<1>4. Len(Fixed) \in Nat /\ Len(All) \in Nat
  <2>1. pipeline.pipelines \in Seq(PipelineIds) /\ Fixed \in Seq(Ids(Fixed)) BY <1>1, ListsJoined
  <2>2. Len(All) = Len(Fixed) + Len(pipeline.pipelines) BY <1>1, ListsJoined
  <2> QED BY <2>1, <2>2
<1>5. Started = {} BY DEF StartupInit, Started, Ids
<1>6. OrderKnown BY <1>4 DEF StartupInit, OrderKnown
<1>7. CallsKnown BY DEF StartupInit, CallsKnown
<1>8. EnvironmentKnown BY <1>5, FS_EmptySet DEF StartupInit, EnvironmentKnown
<1>9. StartsInOrder BY DEF StartupInit, StartsInOrder
<1> QED BY <1>3, <1>6, <1>7, <1>8, <1>9 DEF StartupInvariant

(* The runner before it starts components, and when it ends.               *)
LEMMA PhaseStep ==
  ASSUME StartupInvariant, PhaseKnown', UNCHANGED <<pipeline, order, next, calls, environment>>,
         order # <<>> => announced' = Endpoint(config.port)' /\ config'.port # 0 /\ UNCHANGED announced
  PROVE  StartupInvariant'
<1>1. UNCHANGED <<All, Fixed, PipelineIds, Started>>
  BY DEF All, AllOf, Fixed, FixedOf, PipelineIds, Started, Ids
<1>2. OrderKnown' BY <1>1 DEF StartupInvariant, OrderKnown
<1>3. CallsKnown' BY <1>1 DEF StartupInvariant, CallsKnown, Depends
<1>4. EnvironmentKnown'
  <2>1. CASE order = <<>>
    <3>1. Started = {} BY <2>1 DEF Started, Ids
    <3> QED BY <1>1, <2>1, <3>1 DEF StartupInvariant, EnvironmentKnown
  <2>2. CASE order # <<>>
    BY <1>1, <2>2 DEF StartupInvariant, EnvironmentKnown, DefaultPort
  <2> QED BY <2>1, <2>2
<1>5. StartsInOrder' BY DEF StartupInvariant, StartsInOrder, Rank
<1> QED BY <1>2, <1>3, <1>4, <1>5 DEF StartupInvariant

LEMMA SyncStep == StartupInvariant /\ SyncEndpoint => StartupInvariant'
<1> SUFFICES ASSUME StartupInvariant, SyncEndpoint PROVE StartupInvariant' OBVIOUS
<1>1. order = <<>> /\ next = 1 /\ calls = <<>> /\ config.port # 0 /\ config.port \in Nat
  BY DEF StartupInvariant, PhaseKnown, SyncEndpoint
<1>2. WellFormed(pipeline) BY DEF StartupInvariant, PhaseKnown
<1>3. /\ DOMAIN pipeline' = DOMAIN pipeline
      /\ pipeline'.sources = pipeline.sources /\ pipeline'.processors = pipeline.processors
      /\ pipeline'.sinks = pipeline.sinks /\ pipeline'.pipelines = pipeline.pipelines
      /\ pipeline'.depends = pipeline.depends
      /\ DOMAIN pipeline'.env = DOMAIN pipeline.env
  BY <1>2 DEF SyncEndpoint, WellFormed
<1>4. AllOf(pipeline') = AllOf(pipeline) BY <1>3 DEF AllOf, FixedOf
<1>5. WellFormed(pipeline')
  <2>1. \A list \in {"sources", "processors", "sinks", "pipelines"} : pipeline'[list] = pipeline[list]
    BY <1>3
  <2> QED BY <1>2, <1>3, <1>4, <2>1 DEF WellFormed
<1>6. PhaseKnown' BY <1>1, <1>5 DEF SyncEndpoint, PhaseKnown, Endpoint, Retold
<1>7. UNCHANGED <<All, Fixed>> BY <1>3 DEF All, AllOf, Fixed, FixedOf
<1>8. Started' = {} /\ environment' = environment /\ Started = {} /\ order' = <<>>
      /\ next' = 1 /\ calls' = <<>>
  BY <1>1 DEF Started, Ids, SyncEndpoint
<1>9. OrderKnown' BY <1>1, <1>7, <1>8 DEF StartupInvariant, OrderKnown
<1>10. CallsKnown' BY <1>8 DEF CallsKnown
<1>11. EnvironmentKnown' BY <1>8 DEF StartupInvariant, EnvironmentKnown
<1>12. StartsInOrder' BY <1>8 DEF StartsInOrder
<1> QED BY <1>6, <1>9, <1>10, <1>11, <1>12 DEF StartupInvariant

-----------------------------------------------------------------------------
(* The environment of a process: the integration has the last word.        *)
LEMMA SetOver ==
  ASSUME NEW env, NEW changes
  PROVE  /\ DOMAIN Set(env, changes) = DOMAIN env \cup DOMAIN changes
         /\ \A v \in DOMAIN changes : Set(env, changes)[v] = changes[v]
         /\ \A v \in DOMAIN env : v \notin DOMAIN changes => Set(env, changes)[v] = env[v]
  BY DEF Set

LEMMA BuiltEnvironment ==
  ASSUME NEW id, NEW env
  PROVE  LET built == BuildEnvironment(id, ComponentEnvironment(env)) IN
         /\ built["FLOWCTL_ENDPOINT"] = announced
         /\ built["FLOWCTL_COMPONENT_ID"] = <<"id", id>>
         /\ "HEALTH_PORT" \notin DOMAIN env => built["HEALTH_PORT"] = DefaultHealthPort
<1> DEFINE attempt == [v \in {"FLOWCTL_ATTEMPT"} |-> <<"attempt", 1>>]
           runId == [v \in IF run THEN {"FLOWCTL_RUN_ID"} ELSE {} |-> <<"run", "id">>]
           port == [v \in {"HEALTH_PORT"} |-> DefaultHealthPort]
           component == Set(Set(attempt, env), runId)
           base == Set(port, component)
<1>1. DOMAIN attempt = {"FLOWCTL_ATTEMPT"} /\ "HEALTH_PORT" \notin DOMAIN runId
      /\ DOMAIN port = {"HEALTH_PORT"} /\ port["HEALTH_PORT"] = DefaultHealthPort
  OBVIOUS
<1>2. /\ DOMAIN Integration(id) = {"FLOWCTL_ENDPOINT", "FLOWCTL_COMPONENT_ID"}
      /\ Integration(id)["FLOWCTL_ENDPOINT"] = announced
      /\ Integration(id)["FLOWCTL_COMPONENT_ID"] = <<"id", id>>
  BY DEF Integration
<1>3. component = ComponentEnvironment(env) BY DEF ComponentEnvironment
<1>4. Set(base, Integration(id)) = BuildEnvironment(id, ComponentEnvironment(env))
  BY <1>3 DEF BuildEnvironment
<1> HIDE DEF attempt, runId, port
<1>5. DOMAIN component = (DOMAIN attempt \cup DOMAIN env) \cup DOMAIN runId
  <2>1. DOMAIN Set(attempt, env) = DOMAIN attempt \cup DOMAIN env BY SetOver
  <2>2. DOMAIN component = DOMAIN Set(attempt, env) \cup DOMAIN runId BY SetOver
  <2> QED BY <2>1, <2>2
<1> HIDE DEF component
<1>6. "HEALTH_PORT" \notin DOMAIN env => "HEALTH_PORT" \notin DOMAIN component BY <1>1, <1>5
<1>7. DOMAIN base = {"HEALTH_PORT"} \cup DOMAIN component BY <1>1, SetOver
<1>8. "HEALTH_PORT" \notin DOMAIN env => base["HEALTH_PORT"] = DefaultHealthPort
  BY <1>1, <1>6, SetOver
<1> HIDE DEF base
<1>9. \A v \in DOMAIN Integration(id) : Set(base, Integration(id))[v] = Integration(id)[v]
  BY SetOver, Zenon
<1>10. Set(base, Integration(id))["HEALTH_PORT"] = base["HEALTH_PORT"]
  <2> DEFINE ownEnv == Integration(id)
  <2>1. "HEALTH_PORT" \in DOMAIN base /\ "HEALTH_PORT" \notin DOMAIN ownEnv BY <1>2, <1>7
  <2> HIDE DEF ownEnv
  <2>2. Set(base, ownEnv)["HEALTH_PORT"] = base["HEALTH_PORT"] BY <2>1, SetOver
  <2> QED BY <2>2 DEF ownEnv
<1> QED BY <1>2, <1>4, <1>8, <1>9, <1>10

(* A component that is launched is new, and so is the port it is given.    *)
LEMMA LaunchStep ==
  ASSUME StartupInvariant, NEW id \in Ids(All), id \notin Started, phase = "starting",
         Launched(id), UNCHANGED <<pipeline, config, announced>>
  PROVE  /\ EnvironmentKnown'
         /\ Started' = Started \cup {id}
         /\ order' \in Seq(Ids(All)) /\ Len(order') = Len(order) + 1
         /\ \A i \in 1 .. Len(order) : order'[i] = order[i]
         /\ order'[Len(order) + 1] = id
<1>1. order \in Seq(Ids(All)) /\ order' = Append(order, id)
  BY DEF StartupInvariant, OrderKnown, Launched
<1>2. /\ order' \in Seq(Ids(All)) /\ Len(order') = Len(order) + 1
      /\ \A i \in 1 .. Len(order) : order'[i] = order[i]
      /\ order'[Len(order) + 1] = id
      /\ DOMAIN order = 1 .. Len(order) /\ DOMAIN order' = 1 .. Len(order) + 1
      /\ Len(order) \in Nat
  BY <1>1
<1>3. Started' = Started \cup {id}
  <2>1. \A i \in 1 .. Len(order) + 1 : i \in 1 .. Len(order) \/ i = Len(order) + 1 BY <1>2
  <2>2. \A i \in 1 .. Len(order) : i \in 1 .. Len(order) + 1 BY <1>2
  <2>3. Len(order) + 1 \in 1 .. Len(order) + 1 BY <1>2
  <2> QED BY <1>2, <2>1, <2>2, <2>3 DEF Started, Ids
<1>4. /\ IsFiniteSet(Started') /\ Cardinality(Started') = Cardinality(Started) + 1
      /\ Cardinality(Started) \in Nat
  BY <1>3, FS_AddElement, FS_CardinalityType DEF StartupInvariant, EnvironmentKnown
<1> DEFINE built == BuildEnvironment(id, ComponentEnvironment(pipeline.env[id]))
           n == Cardinality(Started)
<1>5. environment' = [e \in Started \cup {id} |-> IF e = id THEN built ELSE environment[e]]
  BY DEF Launched
<1>6. /\ built["FLOWCTL_ENDPOINT"] = announced
      /\ built["FLOWCTL_COMPONENT_ID"] = <<"id", id>>
      /\ DefaultPort(id) => built["HEALTH_PORT"] = <<"port", 18080 + n + 1>>
  BY BuiltEnvironment DEF DefaultPort, DefaultHealthPort
<1> HIDE DEF built
<1>7. announced' = Endpoint(config.port)' /\ config'.port # 0
  BY DEF StartupInvariant, PhaseKnown
<1>8. \A e : DefaultPort(e)' <=> DefaultPort(e) BY DEF DefaultPort
<1>9. \A e \in Started' :
        /\ environment'[e]["FLOWCTL_ENDPOINT"] = announced'
        /\ environment'[e]["FLOWCTL_COMPONENT_ID"] = <<"id", e>>
        /\ DefaultPort(e)' => \E m \in 1 .. n + 1 :
                                environment'[e]["HEALTH_PORT"] = <<"port", 18080 + m>>
  <2> TAKE e \in Started'
  <2>1. CASE e = id
    <3>1. environment'[e] = built BY <1>5, <2>1
    <3>2. n + 1 \in 1 .. n + 1 /\ 18080 + n + 1 = 18080 + (n + 1) BY <1>4
    <3> QED BY <1>6, <1>8, <2>1, <3>1, <3>2
  <2>2. CASE e # id
    <3>1. e \in Started /\ environment'[e] = environment[e] BY <1>3, <1>5, <2>2
    <3>2. \A m \in 1 .. n : m \in 1 .. n + 1 BY <1>4
    <3> QED BY <1>8, <3>1, <3>2 DEF StartupInvariant, EnvironmentKnown
  <2> QED BY <2>1, <2>2
<1>10. \A a, b \in Started' : DefaultPort(a)' /\ DefaultPort(b)' /\ a # b =>
         environment'[a]["HEALTH_PORT"] # environment'[b]["HEALTH_PORT"]
  <2>1. \A a \in Started : environment'[a] = environment[a] BY <1>5
  <2>2. ASSUME NEW a \in Started, DefaultPort(a), DefaultPort(id)
        PROVE environment'[a]["HEALTH_PORT"] # environment'[id]["HEALTH_PORT"]
    <3>1. PICK m \in 1 .. n : environment[a]["HEALTH_PORT"] = <<"port", 18080 + m>>
      BY <2>2 DEF StartupInvariant, EnvironmentKnown
    <3>2. environment'[id]["HEALTH_PORT"] = <<"port", 18080 + n + 1>> BY <1>5, <1>6, <2>2
    <3>3. 18080 + m # 18080 + n + 1 BY <1>4
    <3> QED BY <2>1, <3>1, <3>2, <3>3
  <2>3. \A a, b \in Started : DefaultPort(a) /\ DefaultPort(b) /\ a # b =>
          environment[a]["HEALTH_PORT"] # environment[b]["HEALTH_PORT"]
    BY DEF StartupInvariant, EnvironmentKnown
  <2> QED BY <1>3, <1>8, <2>1, <2>2, <2>3
<1>11. DOMAIN environment' = Started' BY <1>3, <1>5
<1>12. EnvironmentKnown' BY <1>4, <1>7, <1>9, <1>10, <1>11 DEF EnvironmentKnown
<1> QED BY <1>2, <1>3, <1>12

(* The order of the starts, one of which is new.                           *)
LEMMA InOrderStep ==
  ASSUME StartupInvariant, UNCHANGED pipeline, NEW id,
         order' \in Seq(Ids(All)), Len(order') = Len(order) + 1,
         \A i \in 1 .. Len(order) : order'[i] = order[i], order'[Len(order) + 1] = id,
         \A i \in 1 .. Len(order) : Rank(order[i]) <= Rank(id),
         id \in PipelineIds => Ids(pipeline.depends[id]) \cap PipelineIds \subseteq Started
  PROVE  StartsInOrder'
<1>1. order \in Seq(Ids(All)) /\ WellFormed(pipeline)
  BY DEF StartupInvariant, OrderKnown, PhaseKnown
<1>2. Len(order) \in Nat /\ DOMAIN order = 1 .. Len(order) /\ DOMAIN order' = 1 .. Len(order) + 1
  BY <1>1
<1>3. \A e : Rank(e)' = Rank(e) BY DEF Rank
<1>4. ASSUME NEW j \in DOMAIN order'
      PROVE  /\ \A i \in 1 .. j : Rank(order'[i]) <= Rank(order'[j])
             /\ order'[j] \in PipelineIds =>
                  Ids(pipeline.depends[order'[j]]) \cap PipelineIds \subseteq {order'[i] : i \in 1 .. j - 1}
  <2>1. CASE j \in 1 .. Len(order)
    <3>1. \A i \in 1 .. j : order'[i] = order[i] BY <1>2, <2>1
    <3>2. \A i \in 1 .. j - 1 : order'[i] = order[i] BY <1>2, <2>1
    <3>3. order'[j] = order[j] /\ j \in DOMAIN order BY <1>2, <2>1
    <3>4. {order'[i] : i \in 1 .. j - 1} = {order[i] : i \in 1 .. j - 1} BY <3>2
    <3>5. /\ \A i \in 1 .. j : Rank(order[i]) <= Rank(order[j])
          /\ order[j] \in PipelineIds =>
               Ids(pipeline.depends[order[j]]) \cap PipelineIds \subseteq {order[i] : i \in 1 .. j - 1}
      BY <3>3 DEF StartupInvariant, StartsInOrder, PipelineIds
    <3> QED BY <3>1, <3>3, <3>4, <3>5
  <2>2. CASE j = Len(order) + 1
    <3>1. Rank(id) \in 1 .. 4 BY <1>1, RankGrows
    <3>2. \A i \in 1 .. j : i \in 1 .. Len(order) \/ i = j BY <1>2, <2>2
    <3>3. Started \subseteq {order'[i] : i \in 1 .. j - 1} BY <1>2, <2>2 DEF Started, Ids
    <3> QED BY <2>2, <3>1, <3>2, <3>3
  <2> QED BY <1>2, <2>1, <2>2
<1>5. PipelineIds' = PipelineIds /\ pipeline'.depends = pipeline.depends BY DEF PipelineIds, Ids
<1> QED BY <1>3, <1>4, <1>5 DEF StartsInOrder, PipelineIds

LEMMA FixedStep == StartupInvariant /\ StartFixed => StartupInvariant'
<1> SUFFICES ASSUME StartupInvariant, StartFixed PROVE StartupInvariant' OBVIOUS
<1> DEFINE id == Fixed[next]
<1>1. WellFormed(pipeline) BY DEF StartupInvariant, PhaseKnown
<1>2. /\ next \in Nat \ {0} /\ next <= Len(Fixed) /\ Len(order) = next - 1
      /\ order \in Seq(Ids(All)) /\ Len(Fixed) \in Nat /\ Len(All) \in Nat
      /\ DOMAIN Fixed = 1 .. Len(Fixed) /\ Len(Fixed) <= Len(All)
      /\ DOMAIN order = 1 .. Len(order)
  <2>1. Fixed \in Seq(Ids(Fixed)) /\ pipeline.pipelines \in Seq(PipelineIds)
        /\ Len(All) = Len(Fixed) + Len(pipeline.pipelines)
    BY <1>1, ListsJoined
  <2>2. next \in 1 .. Len(All) + 1 /\ order \in Seq(Ids(All)) /\ next <= Len(Fixed)
        /\ Len(order) = next - 1
    BY DEF StartupInvariant, OrderKnown, StartFixed
  <2> QED BY <2>1, <2>2
<1>3. \A i \in 1 .. Len(order) : i \in 1 .. Len(Fixed) /\ order[i] = Fixed[i]
  BY <1>2 DEF StartupInvariant, OrderKnown
<1>4. id \in Ids(Fixed) /\ id \in Ids(All) /\ id \notin PipelineIds
  BY <1>1, <1>2, ListsJoined DEF Ids
<1>5. id \notin Started
  <2> SUFFICES ASSUME NEW i \in 1 .. Len(order), order[i] = id PROVE FALSE
    BY <1>2 DEF Started, Ids
  <2>1. Fixed[i] = Fixed[next] /\ i \in 1 .. Len(Fixed) /\ next \in 1 .. Len(Fixed) /\ i # next
    BY <1>2, <1>3
  <2> QED BY <1>1, <2>1, ListsJoined
<1>6. /\ EnvironmentKnown' /\ Started' = Started \cup {id}
      /\ order' \in Seq(Ids(All)) /\ Len(order') = Len(order) + 1
      /\ \A i \in 1 .. Len(order) : order'[i] = order[i]
      /\ order'[Len(order) + 1] = id
  BY <1>4, <1>5, LaunchStep DEF StartFixed
<1>7. UNCHANGED <<pipeline, config, phase, announced, run, calls>> /\ next' = next + 1
  BY DEF StartFixed
<1>8. UNCHANGED <<All, Fixed, PipelineIds>>
  BY <1>7 DEF All, AllOf, Fixed, FixedOf, PipelineIds, Ids
<1>9. PhaseKnown' BY <1>7 DEF StartFixed, StartupInvariant, PhaseKnown
<1>10. OrderKnown'
  <2>1. \A i \in DOMAIN order' : i <= Len(Fixed) /\ order'[i] = Fixed[i]
    <3> TAKE i \in DOMAIN order'
    <3>1. i \in 1 .. Len(order) \/ i = Len(order) + 1 BY <1>2, <1>6
    <3>2. Len(order) + 1 = next BY <1>2
    <3> QED BY <1>2, <1>3, <1>6, <3>1, <3>2
  <2>2. next' \in 1 .. Len(All) + 1 BY <1>2, <1>7
  <2>3. IF next' <= Len(Fixed) THEN Len(order') = next' - 1 ELSE Len(order') >= Len(Fixed)
    BY <1>2, <1>6, <1>7
  <2> QED BY <1>6, <1>8, <2>1, <2>2, <2>3 DEF OrderKnown
<1>11. CallsKnown'
  <2>1. calls = <<>> BY <1>2 DEF StartupInvariant, CallsKnown
  <2> QED BY <1>7, <2>1 DEF CallsKnown
<1>12. StartsInOrder'
  <2>1. \A i \in 1 .. Len(order) : Rank(order[i]) <= Rank(id)
    <3> TAKE i \in 1 .. Len(order)
    <3>1. i \in 1 .. Len(Fixed) /\ order[i] = Fixed[i] /\ i <= next /\ next \in 1 .. Len(Fixed)
      BY <1>2, <1>3
    <3> QED BY <1>1, <3>1, RankGrows
  <2> QED BY <1>4, <1>6, <1>7, <2>1, InOrderStep
<1> QED BY <1>6, <1>9, <1>10, <1>11, <1>12 DEF StartupInvariant

LEMMA PoppedIs ==
  ASSUME NEW S, NEW s \in Seq(S), s # <<>>
  PROVE  /\ Len(s) \in Nat \ {0} /\ DOMAIN s = 1 .. Len(s)
         /\ Popped(s) \in Seq(S) /\ Len(Popped(s)) = Len(s) - 1
         /\ \A i \in 1 .. Len(s) - 1 : Popped(s)[i] = s[i]
<1>1. Len(s) \in Nat \ {0} /\ DOMAIN s = 1 .. Len(s) /\ \A i \in 1 .. Len(s) : s[i] \in S
  OBVIOUS
<1>2. Popped(s) = [i \in 1 .. Len(s) - 1 |-> s[i]] BY <1>1 DEF Popped
<1>3. Len(s) - 1 \in Nat /\ \A i \in 1 .. Len(s) - 1 : s[i] \in S BY <1>1
<1> QED BY <1>1, <1>2, <1>3

LEMMA PushedIs ==
  ASSUME NEW S, NEW s \in Seq(S), NEW e \in S
  PROVE  /\ Append(s, e) \in Seq(S) /\ Len(Append(s, e)) = Len(s) + 1
         /\ \A i \in 1 .. Len(s) : Append(s, e)[i] = s[i]
         /\ Append(s, e)[Len(s) + 1] = e
  OBVIOUS

(* What the invariant says of the components that are called.              *)
LEMMA CallFacts ==
  ASSUME StartupInvariant
  PROVE  /\ WellFormed(pipeline) /\ Len(Fixed) \in Nat /\ Len(All) \in Nat
         /\ calls \in Seq(PipelineIds \X (Nat \ {0})) /\ order \in Seq(Ids(All))
         /\ next \in 1 .. Len(All) + 1 /\ PipelineIds \subseteq Ids(All)
         /\ \A q \in PipelineIds : /\ Len(pipeline.depends[q]) \in Nat
                                   /\ DOMAIN pipeline.depends[q] = 1 .. Len(pipeline.depends[q])
<1>1. WellFormed(pipeline) BY DEF StartupInvariant, PhaseKnown
<1>2. Fixed \in Seq(Ids(Fixed)) /\ pipeline.pipelines \in Seq(PipelineIds)
      /\ Len(All) = Len(Fixed) + Len(pipeline.pipelines) /\ PipelineIds \subseteq Ids(All)
  BY <1>1, ListsJoined
<1>3. \A q \in PipelineIds : pipeline.depends[q] \in Seq(Ids(pipeline.depends[q]))
  BY <1>1 DEF WellFormed, PipelineIds
<1> QED BY <1>1, <1>2, <1>3 DEF StartupInvariant, OrderKnown, CallsKnown

LEMMA CallStep == StartupInvariant /\ CallPipeline => StartupInvariant'
<1> SUFFICES ASSUME StartupInvariant, CallPipeline PROVE StartupInvariant' OBVIOUS
<1>1. UNCHANGED <<pipeline, config, phase, announced, run, order, environment>> /\ calls = <<>>
      /\ next \in Len(Fixed) + 1 .. Len(All)
  BY DEF CallPipeline
<1>2. UNCHANGED <<All, Fixed, PipelineIds, Started>>
  BY <1>1 DEF All, AllOf, Fixed, FixedOf, PipelineIds, Started, Ids
<1>3. PhaseKnown' BY <1>1 DEF CallPipeline, StartupInvariant, PhaseKnown
<1>4. EnvironmentKnown' BY <1>1, <1>2 DEF StartupInvariant, EnvironmentKnown, DefaultPort
<1>5. StartsInOrder' BY <1>1 DEF StartupInvariant, StartsInOrder, Rank
<1>6. next' \in {next, next + 1} BY DEF CallPipeline
<1>7. next' > Len(Fixed) /\ next' \in 1 .. Len(All) + 1 BY <1>1, <1>6
<1>8. OrderKnown'
  <2>1. ~(next' <= Len(Fixed)) /\ ~(next <= Len(Fixed)) BY <1>1, <1>7
  <2> QED BY <1>1, <1>2, <1>7, <2>1 DEF StartupInvariant, OrderKnown
<1>9. CallsKnown'
  <2>1. CASE All[next] \in Started
    <3>1. calls' = <<>> BY <1>1, <2>1 DEF CallPipeline
    <3> QED BY <3>1 DEF CallsKnown
  <2>2. CASE All[next] \notin Started
    <3>1. calls' = <<<<All[next], 1>>>> /\ next' = next BY <2>2 DEF CallPipeline
    <3>2. All[next] \in PipelineIds BY <1>1, ListsJoined, CallFacts
    <3>3. calls' \in Seq(PipelineIds \X (Nat \ {0})) /\ Len(calls') = 1 /\ DOMAIN calls' = 1 .. 1
          /\ calls'[1][1] = All[next] /\ calls'[1][2] = 1
      BY <3>1, <3>2
    <3>4. Depends(1)' = pipeline.depends[All[next]] BY <1>1, <3>3 DEF Depends
    <3>5. 1 <= Len(Depends(1)') + 1 BY <3>2, <3>4
    <3>6. \A c \in DOMAIN calls' : c = 1 BY <3>3
    <3> QED BY <1>1, <1>2, <2>2, <3>1, <3>3, <3>5, <3>6 DEF CallsKnown
  <2> QED BY <2>1, <2>2
<1> QED BY <1>3, <1>4, <1>5, <1>8, <1>9 DEF StartupInvariant

(* An inner call is for a dependency that has to be started first.         *)
LEMMA DependencyStep == StartupInvariant /\ StartDependency => StartupInvariant'
<1> SUFFICES ASSUME StartupInvariant, StartDependency PROVE StartupInvariant' OBVIOUS
<1> DEFINE L == Len(calls)
           p == calls[L][1]
           i == calls[L][2]
           d == pipeline.depends[p][i]
           advanced == Append(Popped(calls), <<p, i + 1>>)
           S == PipelineIds \X (Nat \ {0})
<1>1. UNCHANGED <<pipeline, config, phase, announced, run, next, order, environment>> /\ calls # <<>>
      /\ i <= Len(pipeline.depends[p])
      /\ calls' = IF CalledFor(d) THEN Append(advanced, <<d, 1>>) ELSE advanced
  BY DEF StartDependency
<1>2. UNCHANGED <<All, Fixed, PipelineIds, Started>>
  BY <1>1 DEF All, AllOf, Fixed, FixedOf, PipelineIds, Started, Ids
<1>3. PhaseKnown' BY <1>1 DEF StartDependency, StartupInvariant, PhaseKnown
<1>4. EnvironmentKnown' BY <1>1, <1>2 DEF StartupInvariant, EnvironmentKnown, DefaultPort
<1>5. StartsInOrder' BY <1>1 DEF StartupInvariant, StartsInOrder, Rank
<1>6. OrderKnown' BY <1>1, <1>2 DEF StartupInvariant, OrderKnown
<1>7. /\ L \in Nat \ {0} /\ DOMAIN calls = 1 .. L
      /\ Popped(calls) \in Seq(S) /\ Len(Popped(calls)) = L - 1
      /\ \A c \in 1 .. L - 1 : Popped(calls)[c] = calls[c]
  BY <1>1, PoppedIs, CallFacts
<1>8. p \in PipelineIds /\ i \in Nat \ {0} /\ calls[L] \in S BY <1>7, CallFacts
<1>9. <<p, i + 1>> \in S BY <1>8
<1> HIDE DEF L, S
<1>10. /\ advanced \in Seq(S) /\ Len(advanced) = L
       /\ \A c \in 1 .. L - 1 : advanced[c] = calls[c]
       /\ advanced[L] = <<p, i + 1>>
  BY <1>7, <1>9, PushedIs
<1>11. \A c \in 1 .. L : advanced[c][1] = calls[c][1]
  <2> TAKE c \in 1 .. L
  <2> HIDE DEF advanced, i, d
  <2>1. c \in 1 .. L - 1 \/ c = L BY <1>7
  <2>2. CASE c \in 1 .. L - 1 BY <1>10, <2>2
  <2>3. CASE c = L
    <3>1. advanced[c][1] = p BY <1>10, <2>3
    <3> QED BY <2>3, <3>1
  <2> QED BY <2>1, <2>2, <2>3
<1>12. CalledFor(d) <=> d \in PipelineIds /\ d \notin Started BY DEF CalledFor, PipelineIds
<1> DEFINE M == IF CalledFor(d) THEN L + 1 ELSE L
<1> HIDE DEF p, i, advanced
<1>13. /\ calls' \in Seq(S) /\ Len(calls') = M
       /\ \A c \in 1 .. L : calls'[c] = advanced[c]
       /\ CalledFor(d) => calls'[L + 1] = <<d, 1>>
  <2>1. CASE CalledFor(d)
    <3>1. <<d, 1>> \in S BY <1>12, <2>1 DEF S
    <3> QED BY <1>1, <1>7, <1>10, <2>1, <3>1, PushedIs
  <2>2. CASE ~CalledFor(d) BY <1>1, <1>7, <1>10, <2>2
  <2> QED BY <2>1, <2>2
<1>14. /\ M = IF CalledFor(d) THEN L + 1 ELSE L
       /\ calls' # <<>> /\ M \in Nat /\ M >= L /\ DOMAIN calls' = 1 .. M
  BY <1>7, <1>13
<1> HIDE DEF M
<1>15. \A c \in 1 .. L : Depends(c)' = Depends(c) BY <1>1, <1>11, <1>13 DEF Depends
<1>16. ASSUME NEW c \in 1 .. L
       PROVE  /\ calls[c][1] \notin Started
              /\ calls[c][2] <= Len(Depends(c)) + 1
              /\ c < L => calls[c][2] > 1 /\ Depends(c)[calls[c][2] - 1] = calls[c + 1][1]
              /\ \A n \in 1 .. calls[c][2] - 1 : Depends(c)[n] \in PipelineIds =>
                   Depends(c)[n] \in Started \/ (c < L /\ n = calls[c][2] - 1)
  BY <1>7 DEF StartupInvariant, CallsKnown, L
<1>17. ASSUME NEW c \in DOMAIN calls'
       PROVE  /\ calls'[c][1] \notin Started
              /\ calls'[c][2] <= Len(Depends(c)') + 1
              /\ c < M => calls'[c][2] > 1 /\ Depends(c)'[calls'[c][2] - 1] = calls'[c + 1][1]
              /\ \A n \in 1 .. calls'[c][2] - 1 : Depends(c)'[n] \in PipelineIds =>
                   Depends(c)'[n] \in Started \/ (c < M /\ n = calls'[c][2] - 1)
  <2>1. CASE c \in 1 .. L - 1
    <3>1. c \in 1 .. L /\ c + 1 \in 1 .. L /\ c < L /\ c < M BY <1>7, <1>14, <2>1
    <3>2. calls'[c] = calls[c] BY <1>10, <1>13, <2>1, <3>1
    <3>3. calls'[c + 1][1] = calls[c + 1][1] BY <1>11, <1>13, <3>1
    <3> QED BY <1>15, <1>16, <3>1, <3>2, <3>3
  <2>2. CASE c = L
    <3>1. c \in 1 .. L BY <1>7, <2>2
    <3>2. calls'[c] = <<p, i + 1>> /\ calls[c][1] = p /\ calls[c][2] = i
      BY <1>10, <1>13, <2>2, <3>1 DEF p, i
    <3>3. Depends(c)' = pipeline.depends[p] /\ Depends(c) = pipeline.depends[p]
      BY <1>15, <3>1, <3>2 DEF Depends
    <3>4. i + 1 <= Len(pipeline.depends[p]) + 1 /\ (i + 1) - 1 = i /\ i + 1 > 1 BY <1>1, <1>8
    <3>5. c < M => CalledFor(d) /\ calls'[c + 1] = <<d, 1>> BY <1>7, <1>13, <1>14, <2>2
    <3>6. \A n \in 1 .. i : n \in 1 .. i - 1 \/ n = i BY <1>8
    <3>7. d \in PipelineIds => d \in Started \/ c < M BY <1>7, <1>12, <1>14, <2>2
    <3>8. \A n \in 1 .. i - 1 : Depends(c)[n] \in PipelineIds => Depends(c)[n] \in Started
      BY <1>7, <1>16, <2>2, <3>1, <3>2
    <3> QED BY <1>16, <3>1, <3>2, <3>3, <3>4, <3>5, <3>6, <3>7, <3>8
  <2>3. CASE c = L + 1
    <3>1. CalledFor(d) /\ c = M BY <1>7, <1>14, <2>3
    <3>2. calls'[c] = <<d, 1>> /\ d \in PipelineIds /\ d \notin Started BY <1>12, <1>13, <2>3, <3>1
    <3>3. Depends(c)' = pipeline.depends[d] BY <1>1, <3>2 DEF Depends
    <3>4. 1 <= Len(pipeline.depends[d]) + 1 BY <3>2
    <3>5. 1 - 1 = 0 /\ 1 .. 0 = {} OBVIOUS
    <3> QED BY <1>14, <3>1, <3>2, <3>3, <3>4, <3>5
  <2> QED BY <1>7, <1>14, <2>1, <2>2, <2>3
<1>18. next' > Len(Fixed) /\ next' <= Len(All) BY <1>1 DEF StartupInvariant, CallsKnown
<1>19. CallsKnown' BY <1>2, <1>13, <1>17, <1>18 DEF CallsKnown, S
<1> QED BY <1>3, <1>4, <1>5, <1>6, <1>19 DEF StartupInvariant

(* A pipeline component is launched when all it depends on has been: its   *)
(* callers, who depend on what they call, are other components.            *)
LEMMA PipelineStep == StartupInvariant /\ StartPipeline => StartupInvariant'
<1> SUFFICES ASSUME StartupInvariant, StartPipeline PROVE StartupInvariant' OBVIOUS
<1> DEFINE L == Len(calls)
           id == calls[L][1]
           S == PipelineIds \X (Nat \ {0})
<1>1. /\ UNCHANGED <<pipeline, config, phase, announced, run>> /\ phase = "starting" /\ calls # <<>>
      /\ calls[L][2] > Len(pipeline.depends[id]) /\ Launched(id)
      /\ calls' = Popped(calls) /\ next' = IF L = 1 THEN next + 1 ELSE next
  BY DEF StartPipeline
<1>2. /\ L \in Nat \ {0} /\ DOMAIN calls = 1 .. L
      /\ calls' \in Seq(S) /\ Len(calls') = L - 1
      /\ \A c \in 1 .. L - 1 : calls'[c] = calls[c]
  BY <1>1, PoppedIs, CallFacts
<1>3. \A c \in 1 .. L : calls[c][1] \in PipelineIds /\ calls[c][2] \in Nat \ {0} BY <1>2, CallFacts
<1> HIDE DEF S
<1>4. ASSUME NEW c \in 1 .. L
      PROVE  /\ calls[c][1] \notin Started
             /\ calls[c][2] <= Len(Depends(c)) + 1
             /\ c < L => calls[c][2] > 1 /\ Depends(c)[calls[c][2] - 1] = calls[c + 1][1]
             /\ \A n \in 1 .. calls[c][2] - 1 : Depends(c)[n] \in PipelineIds =>
                  Depends(c)[n] \in Started \/ (c < L /\ n = calls[c][2] - 1)
  BY <1>2 DEF StartupInvariant, CallsKnown
<1>5. L \in 1 .. L /\ ~(L < L) /\ Depends(L) = pipeline.depends[id] /\ id \in PipelineIds
      /\ Len(pipeline.depends[id]) \in Nat
  BY <1>2, <1>3 DEF Depends
<1> HIDE DEF L
<1>6. id \notin Started /\ id \in Ids(All) BY <1>4, <1>5, CallFacts
<1>7. \A n \in 1 .. Len(pipeline.depends[id]) :
        pipeline.depends[id][n] \in PipelineIds => pipeline.depends[id][n] \in Started
  <2> TAKE n \in 1 .. Len(pipeline.depends[id])
  <2>1. calls[L][2] \in Nat BY <1>3, <1>5
  <2>2. n \in 1 .. calls[L][2] - 1 BY SMTT(30), <1>1, <1>5, <2>1
  <2> QED BY <1>4, <1>5, <2>2
<1>8. Ids(pipeline.depends[id]) \cap PipelineIds \subseteq Started BY <1>5, <1>7 DEF Ids
<1> HIDE DEF id
<1>9. \A c \in 1 .. L - 1 : calls[c][1] # id
  <2> SUFFICES ASSUME NEW c \in 1 .. L - 1, calls[c][1] = id PROVE FALSE OBVIOUS
  <2>1. c \in 1 .. L /\ c + 1 \in 1 .. L /\ c < L BY <1>2
  <2>2. Depends(c) = pipeline.depends[id] BY DEF Depends
  <2>3. calls[c][2] - 1 \in 1 .. Len(pipeline.depends[id])
    <3>1. calls[c][2] \in Nat /\ calls[c][2] > 1 BY <1>3, <1>4, <2>1
    <3>2. calls[c][2] <= Len(pipeline.depends[id]) + 1 BY <1>4, <2>1, <2>2
    <3>3. Len(pipeline.depends[id]) \in Nat BY <1>5
    <3>4. \A m, n \in Nat : m > 1 /\ m <= n + 1 => m - 1 \in 1 .. n OBVIOUS
    <3> QED BY <3>1, <3>2, <3>3, <3>4
  <2>4. calls[c + 1][1] = pipeline.depends[id][calls[c][2] - 1] BY <1>4, <2>1, <2>2
  <2>5. calls[c + 1][1] \in Started BY <1>3, <1>7, <2>1, <2>3, <2>4
  <2> QED BY <1>4, <2>1, <2>5
<1>10. /\ EnvironmentKnown' /\ Started' = Started \cup {id}
       /\ order' \in Seq(Ids(All)) /\ Len(order') = Len(order) + 1
       /\ \A i \in 1 .. Len(order) : order'[i] = order[i]
       /\ order'[Len(order) + 1] = id
  BY <1>1, <1>6, LaunchStep
<1>11. UNCHANGED <<All, Fixed, PipelineIds>>
  BY <1>1 DEF All, AllOf, Fixed, FixedOf, PipelineIds, Ids
<1>12. PhaseKnown' BY <1>1 DEF StartupInvariant, PhaseKnown
<1>13. /\ next > Len(Fixed) /\ next <= Len(All) /\ Len(order) \in Nat /\ Len(order) >= Len(Fixed)
       /\ DOMAIN order = 1 .. Len(order) /\ DOMAIN order' = 1 .. Len(order) + 1
  <2>1. next > Len(Fixed) /\ next <= Len(All) BY <1>1 DEF StartupInvariant, CallsKnown
  <2>2. ~(next <= Len(Fixed)) BY <2>1, CallFacts
  <2>3. Len(order) >= Len(Fixed) BY <2>2 DEF StartupInvariant, OrderKnown
  <2> QED BY <1>10, <2>1, <2>3
<1>14. next' > Len(Fixed) /\ next' \in 1 .. Len(All) + 1 BY SMTT(30), <1>1, <1>13, CallFacts
<1>15. OrderKnown'
  <2>1. \A i \in DOMAIN order' :
          IF i <= Len(Fixed) THEN order'[i] = Fixed[i] ELSE order'[i] \in PipelineIds
    <3> TAKE i \in DOMAIN order'
    <3>1. CASE i \in 1 .. Len(order)
      <4>1. IF i <= Len(Fixed) THEN order[i] = Fixed[i] ELSE order[i] \in PipelineIds
        BY <1>13, <3>1 DEF StartupInvariant, OrderKnown
      <4> QED BY <1>10, <3>1, <4>1
    <3>2. CASE i = Len(order) + 1 BY <1>5, <1>10, <1>13, <3>2 DEF id
    <3> QED BY <1>13, <3>1, <3>2
  <2>2. ~(next' <= Len(Fixed)) /\ Len(order') >= Len(Fixed) BY <1>10, <1>13, <1>14
  <2> QED BY <1>10, <1>11, <1>14, <2>1, <2>2 DEF OrderKnown
<1>16. CallsKnown'
  <2>1. calls' # <<>> => next' > Len(Fixed)' /\ next' <= Len(All)' BY <1>1, <1>2, <1>11, <1>13
  <2>2. ASSUME NEW c \in DOMAIN calls'
        PROVE  /\ calls'[c][1] \notin Started'
               /\ calls'[c][2] <= Len(Depends(c)') + 1
               /\ c < Len(calls') => calls'[c][2] > 1
                                     /\ Depends(c)'[calls'[c][2] - 1] = calls'[c + 1][1]
               /\ \A n \in 1 .. calls'[c][2] - 1 : Depends(c)'[n] \in PipelineIds =>
                    Depends(c)'[n] \in Started' \/ (c < Len(calls') /\ n = calls'[c][2] - 1)
    <3>1. c \in 1 .. L - 1 /\ c \in 1 .. L /\ c < L BY <1>2
    <3>2. calls'[c] = calls[c] /\ Depends(c)' = Depends(c) BY <1>1, <1>2, <3>1 DEF Depends
    <3>3. calls[c][1] \notin Started' BY <1>4, <1>9, <1>10, <3>1
    <3>4. c < Len(calls') => c + 1 \in 1 .. L - 1 BY <1>2, <3>1
    <3>5. c < Len(calls') => calls'[c + 1] = calls[c + 1] BY <1>2, <3>4
    <3>6. CASE c < Len(calls')
      <4>1. /\ calls[c][2] <= Len(Depends(c)) + 1
            /\ calls[c][2] > 1 /\ Depends(c)[calls[c][2] - 1] = calls[c + 1][1]
            /\ \A n \in 1 .. calls[c][2] - 1 : Depends(c)[n] \in PipelineIds =>
                 Depends(c)[n] \in Started \/ n = calls[c][2] - 1
        BY <1>4, <3>1
      <4> QED BY <1>10, <3>2, <3>3, <3>5, <3>6, <4>1
    <3>7. CASE ~(c < Len(calls'))
      <4>1. c + 1 = L BY <1>2, <3>1, <3>7
      <4>2. Depends(c)[calls[c][2] - 1] = id BY <1>4, <3>1, <4>1 DEF id
      <4> QED BY <1>4, <1>10, <3>1, <3>2, <3>3, <3>7, <4>2
    <3> QED BY <3>6, <3>7
  <2> QED BY <1>2, <1>11, <2>1, <2>2 DEF CallsKnown, S
<1>17. StartsInOrder'
  <2>1. WellFormed(pipeline) /\ id \in PipelineIds BY <1>5, CallFacts DEF id
  <2>2. Rank(id) = 4 BY <2>1, RankGrows
  <2>3. \A i \in 1 .. Len(order) : Rank(order[i]) <= Rank(id)
    <3> TAKE i \in 1 .. Len(order)
    <3>1. Rank(order[i]) \in 1 .. 4 BY <2>1, RankGrows
    <3> QED BY <2>2, <3>1
  <2> QED BY <1>1, <1>8, <1>10, <2>3, InOrderStep DEF id
<1> QED BY <1>10, <1>12, <1>15, <1>16, <1>17 DEF StartupInvariant

-----------------------------------------------------------------------------
LEMMA StartupStepKeeps == StartupInvariant /\ [StartupNext]_startupVars => StartupInvariant'
<1> SUFFICES ASSUME StartupInvariant, [StartupNext]_startupVars PROVE StartupInvariant' OBVIOUS
<1>0. /\ PhaseKnown
      /\ order # <<>> => announced = Endpoint(config.port) /\ config.port # 0
  BY DEF StartupInvariant, EnvironmentKnown
<1>1. CASE Listen
  <2>1. config' = [config EXCEPT !.port = IF @ = 0 THEN FreePort ELSE @] /\ order = <<>>
    BY <1>0, <1>1 DEF Listen, PhaseKnown
  <2>2. config'.port \in Nat \ {0}
    BY <1>0, <2>1, StartupAssumption DEF PhaseKnown
  <2>3. PhaseKnown' BY <1>0, <1>1, <2>2 DEF Listen, PhaseKnown
  <2> QED BY <1>1, <2>1, <2>3, PhaseStep DEF Listen
<1>2. CASE SyncEndpoint BY <1>2, SyncStep
<1>3. ASSUME Fail \/ ControlPlaneReady \/ CreateRunRecord \/ StackOverflows \/ ComponentsStarted
             \/ MonitorTicks \/ UNCHANGED startupVars
      PROVE  StartupInvariant'
  <2>1. UNCHANGED <<pipeline, config, announced, next, calls, order, environment>>
    BY <1>3 DEF Fail, ControlPlaneReady, CreateRunRecord, StackOverflows, ComponentsStarted,
                MonitorTicks, startupVars
  <2>2. PhaseKnown'
    BY <1>0, <1>3, <2>1 DEF Fail, ControlPlaneReady, Awaited, CreateRunRecord, StackOverflows,
                            ComponentsStarted, MonitorTicks, startupVars, PhaseKnown
  <2> QED BY <1>0, <2>1, <2>2, PhaseStep
<1>4. CASE StartFixed BY <1>4, FixedStep
<1>5. CASE CallPipeline BY <1>5, CallStep
<1>6. CASE StartDependency BY <1>6, DependencyStep
<1>7. CASE StartPipeline BY <1>7, PipelineStep
<1> QED BY <1>1, <1>2, <1>3, <1>4, <1>5, <1>6, <1>7 DEF StartupNext, StartupStep

(* No component starts before what it consumes or depends on, for any      *)
(* pipeline the loader accepts, dependencies that go in a circle included  *)
(* (pipeline_runner.go:408).                                               *)
THEOREM StartupInOrder == StartupSpec => []StartsInOrder
<1>1. StartupInvariant => StartsInOrder BY DEF StartupInvariant
<1> QED BY <1>1, StartupInitial, StartupStepKeeps, PTL DEF StartupSpec

(* Every process is told where the control plane listens and which         *)
(* component it is, and no two are given the same port, for any pipeline   *)
(* and whatever variables its file sets (process.go:435).                  *)
THEOREM PlacesAreGiven == StartupSpec => []ProcessesHaveTheirPlace
<1>1. StartupInvariant => ProcessesHaveTheirPlace
  <2> SUFFICES ASSUME StartupInvariant PROVE ProcessesHaveTheirPlace OBVIOUS
  <2>1. \A id \in Started : order # <<>> BY DEF Started, Ids
  <2>2. \A id \in Started :
          /\ environment[id]["FLOWCTL_ENDPOINT"] = Endpoint(config.port) /\ config.port # 0
          /\ environment[id]["FLOWCTL_COMPONENT_ID"] = <<"id", id>>
    BY <2>1 DEF StartupInvariant, EnvironmentKnown
  <2>3. \A a, b \in Started :
          /\ environment[a]["HEALTH_PORT"] = environment[b]["HEALTH_PORT"] /\ a # b
          => "HEALTH_PORT" \in DOMAIN pipeline.env[a] \cup DOMAIN pipeline.env[b]
    BY DEF StartupInvariant, EnvironmentKnown, DefaultPort
  <2> QED BY <2>2, <2>3 DEF ProcessesHaveTheirPlace
<1> QED BY <1>1, StartupInitial, StartupStepKeeps, PTL DEF StartupSpec

(* Every component starts when its turn comes and is told what it needs,   *)
(* for any pipeline.                                                       *)
THEOREM StartupGoesWell == StartupSpec => []StartupIsOrderly
<1>1. StartsInOrder /\ ProcessesHaveTheirPlace => StartupIsOrderly
  BY DEF StartupIsOrderly
<1> QED BY StartupInOrder, PlacesAreGiven, <1>1, PTL

-----------------------------------------------------------------------------
StopStages == {"no", "cancelled", "closed", "drained", "waited", "sinksClosed", "done"}

(* A processor's goroutine is there for every channel of the pipeline, and *)
(* from the stage on that comes after the wait for them, none is left.     *)
WorkersGone ==
  /\ stop \in StopStages
  /\ DOMAIN worker = InputChannels
  /\ worker = [w \in InputChannels |-> worker[w]]
  /\ stop \in {"waited", "sinksClosed", "done"} =>
       \A w \in InputChannels : worker[w] = Returned

LEMMA SinksAreClosedLast == stop \in StopStages => (SinksClosed => stop \in {"sinksClosed", "done"})
  BY DEF SinksClosed, Reached, Stages, StopStages

LEMMA StageOrder ==
  ASSUME NEW stage \in StopStages \ {"no", "done"}
  PROVE  /\ StageAfter(stage) \in StopStages
         /\ StageAfter(stage) \in {"waited", "sinksClosed", "done"} =>
              stage \in {"drained", "waited", "sinksClosed"}
<1>1. \A i \in DOMAIN Stages : Stages[i + 1] \in StopStages \/ i = 7
  BY DEF Stages, StopStages
<1>2. \A i, j \in DOMAIN Stages : Stages[i] = Stages[j] => i = j BY DEF Stages
<1>3. PICK i \in DOMAIN Stages : Stages[i] = stage BY DEF Stages, StopStages
<1>4. StageAfter(stage) = Stages[i + 1] BY <1>2, <1>3 DEF StageAfter
<1>5. i \in 2 .. 6 /\ (i + 1 \in 5 .. 7 => i \in 4 .. 6) BY <1>3 DEF Stages
<1> QED BY <1>3, <1>4, <1>5 DEF Stages, StopStages

LEMMA WorkersGoneStep == WorkersGone /\ [DagNext]_dagVars => WorkersGone'
<1> SUFFICES ASSUME WorkersGone, [DagNext]_dagVars PROVE WorkersGone' OBVIOUS
<1>1. UNCHANGED <<topology, stop, worker>> => WorkersGone'
  BY DEF WorkersGone, InputChannels
<1>2. ASSUME NEW w \in InputChannels, NEW to, worker' = [worker EXCEPT ![w] = to],
             UNCHANGED <<topology, stop>>, worker[w] # Returned
      PROVE WorkersGone'
  BY <1>2 DEF WorkersGone, InputChannels
<1>3. ASSUME NEW s \in SourceIds, SourceStep(s) PROVE WorkersGone'
  BY <1>1, <1>3 DEF SourceStep, SourceSends, SourceReturns, SourcePanics
<1>4. ASSUME NEW a \in Adapters, AdapterStep(a) PROVE WorkersGone'
  BY <1>1, <1>4 DEF AdapterStep, AdapterTakes, AdapterSends, AdapterReturns
<1>5. ASSUME NEW w \in InputChannels, WorkerStep(w) PROVE WorkersGone'
  <2>1. CASE WorkerTakes(w) BY <1>2, <2>1 DEF WorkerTakes, Idle, Returned
  <2>2. CASE ProcessFails(w) BY <1>1, <2>2 DEF ProcessFails
  <2>3. CASE WorkerSends(w)
    <3>1. worker[w] # Returned BY <2>3 DEF WorkerSends, Returned
    <3> QED BY <1>2, <2>3, <3>1 DEF WorkerSends
  <2>4. CASE WorkerReturns(w) BY <1>2, <2>4 DEF WorkerReturns
  <2> QED BY <1>5, <2>1, <2>2, <2>3, <2>4 DEF WorkerStep
<1>6. ASSUME NEW k \in SinkIds, SinkStep(k) PROVE WorkersGone'
  BY <1>1, <1>6 DEF SinkStep, SinkWrites, SinkReturns
<1>7. CASE CancelCaller BY <1>1, <1>7 DEF CancelCaller
<1>8. CASE CallStop BY <1>8 DEF CallStop, WorkersGone, StopStages, InputChannels
<1>9. CASE StopAdvances
  <2>1. UNCHANGED <<topology, worker>> /\ stop' = StageAfter(stop) /\ WaitsFor(stop)
    BY <1>9 DEF StopAdvances
  <2>2. stop \in StopStages \ {"no", "done"} BY <1>9 DEF StopAdvances, WorkersGone
  <2>3. stop' \in {"waited", "sinksClosed", "done"} => \A w \in InputChannels : worker[w] = Returned
    BY <2>1, <2>2, StageOrder DEF WaitsFor, WorkersGone
  <2> QED BY <2>1, <2>2, <2>3, StageOrder DEF WorkersGone, InputChannels
<1>10. CASE UNCHANGED dagVars BY <1>1, <1>10 DEF dagVars
<1> QED BY <1>3, <1>4, <1>5, <1>6, <1>7, <1>8, <1>9, <1>10 DEF DagNext

(* Only a source takes the process down, in a pipeline of any shape: when  *)
(* Stop closes the channels of the sinks, no goroutine is left that sends  *)
(* on them (dag.go:343).                                                   *)
THEOREM NobodyElsePanics == DagSpec => OnlySourcesPanic
<1>1. DagInit => WorkersGone
  BY DEF DagInit, WorkersGone, StopStages
<1>2. WorkersGone /\ [DagNext]_dagVars =>
        [panicked' # panicked => \E s \in SourceIds : SourcePanics(s)]_dagVars
  <2> SUFFICES ASSUME WorkersGone, DagNext, panicked' # panicked,
                      ~\E s \in SourceIds : SourcePanics(s)
               PROVE FALSE
    OBVIOUS
  <2>1. ASSUME NEW s \in SourceIds, SourceStep(s) PROVE FALSE
    BY <2>1 DEF SourceStep, SourceSends, SourceReturns, NoPanic
  <2>2. ASSUME NEW a \in Adapters, AdapterStep(a) PROVE FALSE
    BY <2>2 DEF AdapterStep, AdapterTakes, AdapterSends, AdapterReturns, NoPanic
  <2>3. ASSUME NEW w \in InputChannels, WorkerStep(w) PROVE FALSE
    <3>1. WorkerSends(w)
      BY <2>3 DEF WorkerStep, WorkerTakes, ProcessFails, WorkerReturns, NoPanic
    <3>2. SinksClosed /\ worker[w].state = "sending" BY <3>1 DEF WorkerSends
    <3>3. worker[w] = Returned BY <3>2, SinksAreClosedLast DEF WorkersGone
    <3> QED BY <3>2, <3>3 DEF Returned
  <2>4. ASSUME NEW k \in SinkIds, SinkStep(k) PROVE FALSE
    BY <2>4 DEF SinkStep, SinkWrites, SinkReturns, NoPanic
  <2> QED BY <2>1, <2>2, <2>3, <2>4 DEF DagNext, CancelCaller, CallStop, StopAdvances, NoPanic
<1> QED BY <1>1, <1>2, WorkersGoneStep, PTL DEF DagSpec, OnlySourcesPanic

-----------------------------------------------------------------------------
(* Sequences, and the parts of the machine.                                *)
LEMMA AppendAtEnd ==
  ASSUME NEW S, NEW b \in Seq(S), NEW q \in Seq(S), NEW e \in S
  PROVE  b \o Append(q, e) = Append(b \o q, e)
OBVIOUS

LEMMA HeadThenTail ==
  ASSUME NEW S, NEW l \in Seq(S), l # <<>>
  PROVE  /\ Head(l) \in S /\ <<Head(l)>> \in Seq(S) /\ Tail(l) \in Seq(S)
         /\ <<Head(l)>> \o Tail(l) = l
<1>1. Head(l) \in S /\ Tail(l) \in Seq(S) BY HeadTailProperties
<1> DEFINE h == <<Head(l)>>
           t == Tail(l)
<1>2. h \in Seq(S) /\ Len(h) = 1 /\ h[1] = l[1] BY <1>1
<1>3. Len(t) = Len(l) - 1 /\ \A i \in 1 .. Len(t) : t[i] = l[i + 1] BY HeadTailProperties
<1>4. t \in Seq(S) /\ Len(l) \in Nat BY <1>1
<1> HIDE DEF h, t
<1>5. h \o t \in Seq(S) /\ Len(h \o t) = Len(h) + Len(t)
  BY <1>2, <1>4, ConcatProperties
<1>6. \A i \in 1 .. Len(h) + Len(t) : (h \o t)[i] = IF i <= Len(h) THEN h[i] ELSE t[i - Len(h)]
  BY <1>2, <1>4, ConcatProperties
<1>7. Len(t) \in Nat /\ Len(h \o t) = Len(l) BY <1>2, <1>3, <1>4, <1>5
<1>8. ASSUME NEW i \in 1 .. Len(l) PROVE (h \o t)[i] = l[i]
  <2>1. CASE i = 1 BY <1>2, <1>3, <1>4, <1>6, <2>1
  <2>2. CASE i # 1
    <3>1. i - 1 \in 1 .. Len(t) /\ i \in 1 .. Len(h) + Len(t) /\ ~(i <= Len(h))
      BY <1>2, <1>3, <1>4, <2>2
    <3>2. t[i - 1] = l[(i - 1) + 1] BY <1>3, <3>1
    <3>3. (i - 1) + 1 = i OBVIOUS
    <3> QED BY <1>2, <1>6, <3>1, <3>2, <3>3
  <2> QED BY <2>1, <2>2
<1>9. h \o t = l BY <1>5, <1>7, <1>8, SeqEqual
<1> QED BY <1>1, <1>2, <1>9 DEF h, t

(* A step of the machine is a step of each of its parts, or leaves it as   *)
(* it is.                                                                  *)
LEMMA PartsStep ==
  ASSUME [MachineNext]_machineVars
  PROVE  /\ [Variables!EnvironmentNext]_environmentVars
         /\ [Logs!LogNext]_logVars
         /\ [DagNext]_dagVars
         /\ [Box!SandboxNext]_sandboxVars
         /\ [Script!ScriptNext]_scriptVars
BY DEF MachineNext, machineVars

-----------------------------------------------------------------------------
(* The script: a process that runs and that no entry leads to is the one   *)
(* between its launch and the note of its pid, or belongs to a shared id.  *)
(* A start function is called only when no process of an id that is not    *)
(* shared runs: the first time because those launched before are of        *)
(* earlier places in the file.                                             *)
Launches == [of : Script!Ids, state : {"live", "clean", "failed"}]
Live(p) == process[p].state = "live"
Before == {Script!Order[j] : j \in {j \in DOMAIN Script!Order : j \in 1 .. scriptNext - 1}}

LaunchesTyped ==
  /\ process \in Seq(Launches) /\ scriptNext \in Nat
  /\ scriptPhase \in {"waiting", "launched", "recorded"} =>
       /\ current \in Script!Ids
       /\ scriptNext \in DOMAIN Script!Order => current = Script!Order[scriptNext]
  /\ scriptPhase = "looping" => scriptNext \notin DOMAIN Script!Order
  /\ scriptPhase = "launched" => process # <<>> /\ process[Len(process)].of = current
LaunchedInOrder ==
  scriptNext \in DOMAIN Script!Order => \A p \in DOMAIN process :
    \/ process[p].of \in Before
    \/ scriptPhase \in {"launched", "recorded"} /\ process[p].of = Script!Order[scriptNext]
LiveAreNoted ==
  \A p \in DOMAIN process : Live(p) /\ ~Script!Shared(process[p].of) =>
    \/ pids[process[p].of] = p
    \/ scriptPhase = "launched" /\ p = Len(process)
OldHaveEnded ==
  scriptPhase \in {"waiting", "launched"} /\ ~Script!Shared(current) =>
    \A p \in DOMAIN process : process[p].of = current /\ Live(p) =>
      scriptPhase = "launched" /\ p = Len(process)
ScriptInvariant ==
  /\ pids = [c \in Script!Ids |-> pids[c]]
  /\ LaunchesTyped /\ LaunchedInOrder /\ LiveAreNoted /\ OldHaveEnded
  /\ Script!CleanupReachesAll

LEMMA ScriptStep ==
  ASSUME ScriptInvariant, [Script!ScriptNext]_scriptVars
  PROVE  ScriptInvariant'
<1> USE DEF ScriptInvariant
<1>1. UNCHANGED file =>
        UNCHANGED <<Script!Order, Script!Ids, Launches>> /\ \A c : UNCHANGED Script!Shared(c)
  BY DEF Script!Ids, Script!Order, Script!Wired, Script!Shared, Launches
<1>0. \A p \in DOMAIN process : process[p].of \in Script!Ids /\ p \in Nat \ {0}
  <2>1. ASSUME NEW p \in DOMAIN process PROVE process[p] \in Launches /\ p \in Nat \ {0}
    BY <2>1 DEF LaunchesTyped
  <2> QED BY <2>1 DEF Launches
<1>2. ASSUME UNCHANGED <<file, process, pids, scriptPhase, scriptNext, current, killed, ended>>
      PROVE  ScriptInvariant'
  BY <1>1, <1>2
  DEF LaunchesTyped, LaunchedInOrder, LiveAreNoted, OldHaveEnded, Script!CleanupReachesAll,
      Live, Before, Script!Alive
<1>3. CASE Script!SeeDependency BY <1>2, <1>3 DEF Script!SeeDependency
<1>4. CASE Script!NextRound BY <1>2, <1>4 DEF Script!NextRound
<1>5. CASE Script!TouchFails
  BY <1>1, <1>5
  DEF Script!TouchFails, LaunchesTyped, LaunchedInOrder, LiveAreNoted, OldHaveEnded,
      Script!CleanupReachesAll, Live, Before
<1>6. ASSUME NEW why \in {"signal", "health"}, Script!Cleanup(why),
             why = "health" => scriptPhase = "recorded"
      PROVE  ScriptInvariant'
  <2>1. (LaunchesTyped /\ LaunchedInOrder /\ LiveAreNoted /\ OldHaveEnded)'
    BY <1>1, <1>6
    DEF Script!Cleanup, LaunchesTyped, LaunchedInOrder, LiveAreNoted, OldHaveEnded, Live, Before
  <2>2. Script!CleanupReachesAll'
    <3>1. ASSUME NEW p \in DOMAIN process, Script!Alive(p), ~Script!Shared(process[p].of),
                 p \notin killed'
          PROVE  why = "signal" /\ scriptPhase = "launched" /\ p = Len(process)
      <4>1. process[p].of \in Script!Ids BY <1>0
      <4> QED BY <1>6, <3>1, <4>1 DEF LiveAreNoted, Live, Script!Alive, Script!Cleanup
    <3> QED BY <1>1, <1>6, <3>1 DEF Script!Cleanup, Script!CleanupReachesAll, Script!Alive
  <2> QED BY <1>1, <1>6, <2>1, <2>2 DEF Script!Cleanup
<1>7. CASE Script!HealthCheckFails BY <1>6, <1>7 DEF Script!HealthCheckFails
<1>8. CASE Script!Interrupt BY <1>6, <1>8 DEF Script!Interrupt
<1>9. CASE Script!Launch
  <2> DEFINE l == [of |-> current, state |-> "live"]
  <2>1. /\ scriptPhase = "waiting" /\ scriptPhase' = "launched" /\ process' = Append(process, l)
        /\ ended' = "no" /\ UNCHANGED <<file, pids, scriptNext, current, killed>>
    BY <1>9 DEF Script!Launch, Script!Running
  <2>2. l \in Launches /\ process \in Seq(Launches)
    BY <2>1 DEF LaunchesTyped, Launches
  <2>3. /\ Len(process') = Len(process) + 1 /\ process'[Len(process) + 1] = l
        /\ \A p \in DOMAIN process : process'[p] = process[p]
        /\ DOMAIN process' = DOMAIN process \cup {Len(process) + 1}
        /\ process' \in Seq(Launches) /\ process' # <<>>
    <3> HIDE DEF l
    <3> QED BY <2>1, <2>2
  <2>4. LaunchesTyped'
    BY <1>1, <2>1, <2>3 DEF LaunchesTyped
  <2>5. LaunchedInOrder'
    <3>1. l.of = current /\ (scriptNext \in DOMAIN Script!Order => current = Script!Order[scriptNext])
      BY <2>1 DEF LaunchesTyped
    <3> HIDE DEF l
    <3> QED BY <1>1, <2>1, <2>3, <3>1 DEF LaunchedInOrder, Before
  <2>6. LiveAreNoted'
    <3> HIDE DEF l
    <3> QED BY <1>1, <2>1, <2>3 DEF LiveAreNoted, Live
  <2>7. OldHaveEnded'
    <3> HIDE DEF l
    <3> QED BY <1>1, <2>1, <2>3 DEF OldHaveEnded, Live
  <2> QED BY <1>1, <2>1, <2>4, <2>5, <2>6, <2>7 DEF Script!CleanupReachesAll
<1>10. CASE Script!Record
  <2>1. /\ scriptPhase = "launched" /\ scriptPhase' = "recorded" /\ ended' = "no"
        /\ pids' = [pids EXCEPT ![current] = Len(process)]
        /\ UNCHANGED <<file, process, scriptNext, current, killed>>
    BY <1>10 DEF Script!Record, Script!Noted, Script!Running
  <2>2. current \in Script!Ids /\ process \in Seq(Launches) BY <2>1 DEF LaunchesTyped
  <2>3. pids' = [c \in Script!Ids |-> pids'[c]] /\ pids'[current] = Len(process)
        /\ \A c \in Script!Ids : c # current => pids'[c] = pids[c]
    BY <2>1, <2>2
  <2>4. LaunchesTyped' /\ LaunchedInOrder' /\ OldHaveEnded'
    BY <1>1, <2>1 DEF LaunchesTyped, LaunchedInOrder, OldHaveEnded, Before
  <2>5. LiveAreNoted'
    <3>1. ASSUME NEW p \in DOMAIN process, Live(p), ~Script!Shared(process[p].of)
          PROVE  pids'[process[p].of] = p
      <4>1. process[p].of \in Script!Ids BY <1>0
      <4>2. process[Len(process)].of = current BY <2>1 DEF LaunchesTyped
      <4> QED BY <2>1, <2>3, <3>1, <4>1, <4>2 DEF LiveAreNoted, OldHaveEnded
    <3> QED BY <1>1, <2>1, <3>1 DEF LiveAreNoted, Live
  <2> QED BY <1>1, <2>1, <2>3, <2>4, <2>5 DEF Script!CleanupReachesAll
<1>11. CASE Script!Return
  <2>1. /\ scriptPhase = "recorded" /\ scriptPhase' \in {"top", "looping"} /\ ended' = "no"
        /\ UNCHANGED <<file, process, pids, killed>>
        /\ IF scriptNext \in DOMAIN Script!Order
           THEN scriptPhase' = "top" /\ scriptNext' = scriptNext + 1
           ELSE scriptNext' = scriptNext
    BY <1>11 DEF Script!Return, Script!Running
  <2>2. LaunchesTyped' BY <1>1, <2>1 DEF LaunchesTyped
  <2>3. LaunchedInOrder'
    <3>1. CASE scriptNext \in DOMAIN Script!Order
      <4>1. scriptNext \in Nat /\ 0 \notin DOMAIN Script!Order BY DEF LaunchesTyped
      <4> QED BY <1>1, <2>1, <3>1, <4>1 DEF LaunchedInOrder, Before
    <3>2. CASE scriptNext \notin DOMAIN Script!Order
      BY <1>1, <2>1, <3>2 DEF LaunchedInOrder
    <3> QED BY <3>1, <3>2
  <2>4. LiveAreNoted' /\ OldHaveEnded'
    BY <1>1, <2>1 DEF LiveAreNoted, OldHaveEnded, Live
  <2> QED BY <1>1, <2>1, <2>2, <2>3, <2>4 DEF Script!CleanupReachesAll
<1>12. CASE Script!EnterLoop
  BY <1>1, <1>12
  DEF Script!EnterLoop, Script!Running, LaunchesTyped, LaunchedInOrder, LiveAreNoted, OldHaveEnded,
      Live, Before, Script!CleanupReachesAll
<1>13. CASE Script!StartNext
  <2>1. /\ scriptPhase = "top" /\ scriptPhase' = "waiting" /\ current' = Script!Order[scriptNext]
        /\ scriptNext \in DOMAIN Script!Order /\ ended' = "no"
        /\ UNCHANGED <<file, process, pids, scriptNext, killed>>
    BY <1>13 DEF Script!StartNext, Script!CallStart, Script!Running
  <2>2. LaunchesTyped' /\ LaunchedInOrder' /\ LiveAreNoted'
    BY <1>1, <2>1
    DEF LaunchesTyped, LaunchedInOrder, LiveAreNoted, Live, Before, Script!Ids, Script!ToSet
  <2>3. OldHaveEnded'
    <3>1. ASSUME NEW p \in DOMAIN process, process[p].of = Script!Order[scriptNext]
          PROVE  Script!Shared(Script!Order[scriptNext])
      <4>1. PICK j \in DOMAIN Script!Order : j \in 1 .. scriptNext - 1 /\ Script!Order[j] = process[p].of
        BY <2>1 DEF LaunchedInOrder, Before
      <4>2. j # scriptNext BY <4>1 DEF LaunchesTyped
      <4> QED BY <2>1, <3>1, <4>1, <4>2 DEF Script!Shared
    <3> QED BY <1>1, <2>1, <3>1 DEF OldHaveEnded
  <2> QED BY <1>1, <2>1, <2>2, <2>3 DEF Script!CleanupReachesAll
<1>14. ASSUME NEW c \in Script!Ids, Script!Visit(c) PROVE ScriptInvariant'
  <2>1. CASE UNCHANGED <<scriptPhase, current>>
    BY <1>2, <1>14, <2>1 DEF Script!Visit
  <2>2. CASE ~UNCHANGED <<scriptPhase, current>>
    <3>1. /\ scriptPhase = "looping" /\ scriptPhase' = "waiting" /\ current' = c
          /\ ~Script!Alive(pids[c]) /\ ended' = "no"
          /\ UNCHANGED <<file, process, pids, scriptNext, killed>>
      BY <1>14, <2>2 DEF Script!Visit, Script!CallStart, Script!Running
    <3>2. LaunchesTyped' /\ LaunchedInOrder' /\ LiveAreNoted'
      BY <1>1, <3>1 DEF LaunchesTyped, LaunchedInOrder, LiveAreNoted, Live, Before
    <3>3. OldHaveEnded'
      BY <1>0, <1>1, <3>1 DEF OldHaveEnded, LiveAreNoted, Live, Script!Alive
    <3> QED BY <1>1, <3>1, <3>2, <3>3 DEF Script!CleanupReachesAll
  <2> QED BY <2>1, <2>2
<1>15. ASSUME NEW e \in DOMAIN process, NEW how \in {"clean", "failed"}, Script!ComponentEnds(e, how)
       PROVE  ScriptInvariant'
  <2>1. /\ process' = [process EXCEPT ![e].state = how] /\ ended' = "no"
        /\ UNCHANGED <<file, pids, scriptPhase, scriptNext, current, killed>>
    BY <1>15 DEF Script!ComponentEnds, Script!Running
  <2>2. process \in Seq(Launches) BY DEF LaunchesTyped
  <2>3. /\ process' \in Seq(Launches) /\ Len(process') = Len(process)
        /\ DOMAIN process' = DOMAIN process
        /\ \A p \in DOMAIN process :
             process'[p].of = process[p].of /\ (process'[p].state = "live" => process[p].state = "live")
    <3>1. [process[e] EXCEPT !.state = how] \in Launches
          /\ [process[e] EXCEPT !.state = how].of = process[e].of
          /\ [process[e] EXCEPT !.state = how].state # "live"
      <4>1. process[e] \in Launches BY <2>2
      <4> QED BY <4>1 DEF Launches
    <3> DEFINE x == [process[e] EXCEPT !.state = how]
    <3>2. process' = [process EXCEPT ![e] = x] BY <2>1
    <3> HIDE DEF x
    <3> QED BY <2>2, <3>1, <3>2 DEF x
  <2>4. LaunchesTyped' BY <1>1, <2>1, <2>3 DEF LaunchesTyped
  <2>5. LaunchedInOrder' /\ LiveAreNoted' /\ OldHaveEnded'
    BY <1>1, <2>1, <2>3 DEF LaunchedInOrder, LiveAreNoted, OldHaveEnded, Before, Live
  <2> QED BY <1>1, <2>1, <2>4, <2>5 DEF Script!CleanupReachesAll
<1>16. CASE UNCHANGED scriptVars BY <1>2, <1>16 DEF scriptVars
<1> QED
  BY <1>3, <1>4, <1>5, <1>7, <1>8, <1>9, <1>10, <1>11, <1>12, <1>13, <1>14, <1>15, <1>16
  DEF Script!ScriptNext, Script!ScriptGoesOn

(* Nothing the script has launched is left running when it cleans up, for  *)
(* any pipeline file and however its components end: but for one that the  *)
(* signal met before its pid was recorded, and for those of an id to which *)
(* sanitizeID has brought several components (local_legacy.go:69, 355).    *)
THEOREM CleanupLeavesNothing == MachineSpec => []CleanupIsComplete
<1>1. MachineInit => ScriptInvariant
  BY DEF MachineInit, Script!ScriptInit, ScriptInvariant, LaunchesTyped, LaunchedInOrder,
         LiveAreNoted, OldHaveEnded, Script!CleanupReachesAll
<1>2. ScriptInvariant /\ [MachineNext]_machineVars => ScriptInvariant'
  BY PartsStep, ScriptStep
<1>3. ScriptInvariant => CleanupIsComplete BY DEF ScriptInvariant, CleanupIsComplete
<1> QED BY <1>1, <1>2, <1>3, PTL DEF MachineSpec

-----------------------------------------------------------------------------
(* The sandbox: of the dependencies of a service that is being started,    *)
(* those the recursion has been through are started, but for the one whose *)
(* start it is in.                                                         *)
SandboxInvariant ==
  /\ dependsOn \in [Services -> SUBSET Services]
  /\ Box!DependenciesFirst
  /\ sandboxPhase # "services" => stack = <<>>
  /\ stack \in Seq([name : Services, deps : SUBSET Services])
  /\ \A i \in DOMAIN stack : \A d \in dependsOn[stack[i].name] :
       \/ d \in stack[i].deps \cup started
       \/ i < Len(stack) /\ d = stack[i + 1].name

LEMMA SandboxStepKeeps ==
  ASSUME SandboxInvariant, [Box!SandboxNext]_sandboxVars
  PROVE  SandboxInvariant'
<1> DEFINE Frames == [name : Services, deps : SUBSET Services]
           L == Len(stack)
<1>1. stack \in Seq(Frames) /\ L \in Nat /\ DOMAIN stack = 1 .. L
  BY DEF SandboxInvariant
<1>2. ASSUME UNCHANGED <<dependsOn, started>>,
             stack' = <<>> \/ UNCHANGED <<stack, sandboxPhase>>
      PROVE  SandboxInvariant'
  <2>1. CASE UNCHANGED <<stack, sandboxPhase>>
    BY <1>2, <2>1 DEF SandboxInvariant, Box!DependenciesFirst
  <2>2. CASE stack' = <<>> BY <1>2, <2>2 DEF SandboxInvariant, Box!DependenciesFirst
  <2> QED BY <1>2, <2>1, <2>2
<1>3. ASSUME NEW s \in Services, Box!VisitService(s) PROVE SandboxInvariant'
  <2>1. CASE s \in started BY <1>2, <1>3, <2>1 DEF Box!VisitService
  <2>2. CASE s \notin started
    <3>1. /\ stack' = <<[name |-> s, deps |-> dependsOn[s]]>> /\ sandboxPhase' = "services"
          /\ UNCHANGED <<dependsOn, started>>
      BY <1>3, <2>2 DEF Box!VisitService
    <3>2. [name |-> s, deps |-> dependsOn[s]] \in Frames BY DEF SandboxInvariant
    <3>3. stack' \in Seq(Frames) /\ DOMAIN stack' = {1} /\ stack'[1].name = s
          /\ stack'[1].deps = dependsOn[s]
      BY <3>1, <3>2
    <3> QED BY <3>1, <3>3 DEF SandboxInvariant, Box!DependenciesFirst
  <2> QED BY <2>1, <2>2
<1>4. ASSUME NEW d \in Services, Box!StartDependency(d) PROVE SandboxInvariant'
  <2>1. L \in 1 .. L /\ stack # <<>> /\ Box!Top = stack[L] /\ d \in stack[L].deps
        /\ UNCHANGED <<dependsOn, started>> /\ sandboxPhase = "services"
    BY <1>1, <1>4 DEF Box!StartDependency, Box!Waiting, Box!Top, Box!Last, Box!Exit, Box!StartedWith
  <2> DEFINE popped == [stack EXCEPT ![L].deps = stack[L].deps \ {d}]
  <2>2. /\ popped \in Seq(Frames) /\ DOMAIN popped = 1 .. L /\ Len(popped) = L
        /\ \A i \in 1 .. L : popped[i].name = stack[i].name
        /\ \A i \in 1 .. L - 1 : popped[i].deps = stack[i].deps
        /\ popped[L].deps = stack[L].deps \ {d}
    <3>1. stack[L] \in Frames
      <4> HIDE DEF Frames, L
      <4> QED BY <1>1, <2>1
    <3>2. [stack[L] EXCEPT !.deps = stack[L].deps \ {d}] \in Frames BY <3>1
    <3> QED BY <1>1, <2>1, <3>2
  <2>3. Box!PopTo(stack[L].deps \ {d}) = popped BY DEF Box!PopTo
  <2> HIDE DEF popped, L
  <2>4. CASE d \in started
    <3>1. stack' = popped /\ sandboxPhase' = "services"
      BY <1>4, <2>1, <2>3, <2>4 DEF Box!StartDependency
    <3>2. \A i \in 1 .. L : i = L \/ (i \in 1 .. L - 1 /\ i + 1 \in 1 .. L) BY <1>1
    <3>3. ASSUME NEW i \in 1 .. L, NEW e \in dependsOn[popped[i].name]
          PROVE  e \in popped[i].deps \cup started \/ (i < L /\ e = popped[i + 1].name)
      <4>1. e \in stack[i].deps \cup started \/ (i < L /\ e = stack[i + 1].name)
        <5>1. i \in DOMAIN stack /\ e \in dependsOn[stack[i].name] BY <1>1, <2>2
        <5> QED BY <5>1 DEF SandboxInvariant, L
      <4>2. CASE i = L BY <2>2, <2>4, <4>1, <4>2
      <4>3. CASE i \in 1 .. L - 1 /\ i + 1 \in 1 .. L BY <2>2, <4>1, <4>3
      <4> QED BY <3>2, <4>2, <4>3
    <3>4. stack' \in Seq(Frames) /\ Len(stack') = L /\ DOMAIN stack' = 1 .. L
      BY <2>2, <3>1
    <3> QED BY <2>1, <3>1, <3>3, <3>4 DEF SandboxInvariant, Box!DependenciesFirst, Frames
  <2>5. CASE d \notin started /\ L = MaxDepth
    BY <1>2, <1>4, <2>1, <2>5 DEF Box!StartDependency, Box!Exit, L
  <2>6. CASE d \notin started /\ L # MaxDepth
    <3> DEFINE frame == [name |-> d, deps |-> dependsOn[d]]
    <3>1. stack' = Append(popped, frame) /\ sandboxPhase' = "services"
      BY <1>4, <2>1, <2>3, <2>6 DEF Box!StartDependency, L
    <3>2. frame \in Frames BY DEF SandboxInvariant
    <3>3. /\ stack' \in Seq(Frames) /\ DOMAIN stack' = 1 .. L + 1 /\ Len(stack') = L + 1
          /\ \A i \in 1 .. L : stack'[i] = popped[i]
          /\ stack'[L + 1] = frame
      BY <1>1, <2>2, <3>1, <3>2
    <3>4. \A i \in 1 .. L + 1 : i = L + 1 \/ i = L \/ (i \in 1 .. L - 1 /\ i + 1 \in 1 .. L)
      BY <1>1
    <3>5. frame.name = d /\ frame.deps = dependsOn[d] OBVIOUS
    <3> HIDE DEF frame
    <3>6. ASSUME NEW i \in 1 .. L + 1, NEW e \in dependsOn[stack'[i].name]
          PROVE  e \in stack'[i].deps \cup started \/ (i < L + 1 /\ e = stack'[i + 1].name)
      <4>1. CASE i = L + 1 BY <3>3, <3>5, <4>1
      <4>2. CASE i = L
        <5>1. i \in DOMAIN stack /\ e \in dependsOn[stack[i].name] BY <1>1, <2>1, <2>2, <3>3, <4>2
        <5>2. e \in stack[L].deps \cup started BY <5>1, <4>2 DEF SandboxInvariant, L
        <5>3. L < L + 1 /\ stack'[L + 1].name = d /\ stack'[L].deps = stack[L].deps \ {d}
          BY <1>1, <2>1, <2>2, <3>3, <3>5
        <5> QED BY <4>2, <5>2, <5>3
      <4>3. CASE i \in 1 .. L - 1 /\ i + 1 \in 1 .. L
        <5>1. i \in DOMAIN stack /\ e \in dependsOn[stack[i].name]
          BY <1>1, <2>1, <2>2, <3>3, <4>3
        <5>2. e \in stack[i].deps \cup started \/ e = stack[i + 1].name
          BY <5>1 DEF SandboxInvariant
        <5>3. /\ stack'[i].deps = stack[i].deps /\ stack'[i + 1].name = stack[i + 1].name
              /\ i < L + 1
          BY <1>1, <2>1, <2>2, <3>3, <4>3
        <5> QED BY <5>2, <5>3
      <4> QED BY <3>4, <4>1, <4>2, <4>3
    <3> QED BY <2>1, <3>1, <3>3, <3>6 DEF SandboxInvariant, Box!DependenciesFirst, Frames
  <2> QED BY <2>4, <2>5, <2>6
<1>5. CASE Box!StartService
  <2>1. L \in 1 .. L /\ stack # <<>> /\ Box!Top = stack[L] /\ stack[L].deps = {}
        /\ UNCHANGED dependsOn /\ sandboxPhase = "services"
    BY <1>1, <1>5 DEF Box!StartService, Box!Waiting, Box!Top, Box!Last
  <2>2. CASE UNCHANGED started /\ stack' = <<>> BY <1>2, <2>1, <2>2
  <2>3. CASE started' = started \cup {stack[L].name} /\ stack' = Box!Front(stack)
             /\ UNCHANGED sandboxPhase
    <3>1. /\ stack' \in Seq(Frames) /\ DOMAIN stack' = 1 .. L - 1 /\ Len(stack') = L - 1
          /\ \A i \in 1 .. L - 1 : stack'[i] = stack[i]
      <4>1. stack' = SubSeq(stack, 1, L - 1) BY <2>3 DEF Box!Front
      <4> HIDE DEF Frames, L
      <4>2. \A i \in 1 .. L - 1 : i \in 1 .. L /\ stack[i] \in Frames BY <1>1, <2>1
      <4> QED BY <1>1, <2>1, <4>1, <4>2, SubSeqProperties
    <3>2. \A i \in 1 .. L - 1 : i \in 1 .. L /\ (i = L - 1 \/ i + 1 \in 1 .. L - 1)
      <4> HIDE DEF L
      <4> QED BY <1>1
    <3>3. dependsOn[stack[L].name] \subseteq started
      BY <1>1, <2>1 DEF SandboxInvariant
    <3>4. Box!DependenciesFirst' BY <2>1, <2>3, <3>3 DEF SandboxInvariant, Box!DependenciesFirst
    <3> HIDE DEF L
    <3>5. ASSUME NEW i \in 1 .. L - 1, NEW e \in dependsOn[stack[i].name]
          PROVE  e \in stack[i].deps \cup started' \/ (i < L - 1 /\ e = stack'[i + 1].name)
      <4>1. e \in stack[i].deps \cup started \/ e = stack[i + 1].name
        BY <1>1, <3>2 DEF SandboxInvariant, L
      <4>2. CASE i = L - 1
        <5>1. i + 1 = L BY <1>1, <4>2
        <5> QED BY <2>3, <4>1, <5>1
      <4>3. CASE i + 1 \in 1 .. L - 1
        <5>1. i < L - 1 BY <1>1, <4>3
        <5> QED BY <2>3, <3>1, <4>1, <4>3, <5>1
      <4> QED BY SMTT(30), <3>2, <4>2, <4>3
    <3>6. ASSUME NEW i \in DOMAIN stack', NEW e \in dependsOn'[stack'[i].name]
          PROVE  e \in stack'[i].deps \cup started'
                 \/ (i < Len(stack') /\ e = stack'[i + 1].name)
      BY <2>1, <3>1, <3>5
    <3> QED BY <2>1, <2>3, <3>1, <3>4, <3>6 DEF SandboxInvariant, Frames
  <2> QED BY <1>5, <2>1, <2>2, <2>3 DEF Box!StartService, Box!RunFails, Box!Exit
<1>6. ASSUME NEW only \in BOOLEAN, Box!StartSandbox(only) PROVE SandboxInvariant'
  <2>1. UNCHANGED dependsOn BY <1>6 DEF Box!StartSandbox
  <2>2. CASE UNCHANGED started /\ stack' = <<>> BY <1>2, <2>1, <2>2
  <2>3. CASE started' = {} /\ UNCHANGED stack
    <3>1. stack = <<>> BY <1>6 DEF Box!StartSandbox, Box!Command, SandboxInvariant
    <3> QED BY <2>1, <2>3, <3>1 DEF SandboxInvariant, Box!DependenciesFirst
  <2> QED BY <1>6, <2>2, <2>3 DEF Box!StartSandbox, Box!Exit
<1>7. CASE Box!ServicesStarted \/ Box!StartPipeline \/ Box!UseRuntime
  BY <1>2, <1>7 DEF Box!ServicesStarted, Box!StartPipeline, Box!UseRuntime, Box!Exit, Box!RunFails
<1>8. CASE UNCHANGED sandboxVars BY <1>2, <1>8 DEF sandboxVars
<1> QED BY <1>3, <1>4, <1>5, <1>6, <1>7, <1>8 DEF Box!SandboxNext, Box!SandboxStep

(* A service of the sandbox is started after all those it depends on,      *)
(* whatever depends on what, in whatever order the map is ranged over and  *)
(* however the start ends (runtime.go:283).                                *)
THEOREM ServicesInOrder == MachineSpec => []ServicesFollowDependencies
<1>1. MachineInit => SandboxInvariant
  BY DEF MachineInit, Box!SandboxInit, SandboxInvariant, Box!DependenciesFirst
<1>2. SandboxInvariant /\ [MachineNext]_machineVars => SandboxInvariant'
  BY PartsStep, SandboxStepKeeps
<1>3. SandboxInvariant => ServicesFollowDependencies
  BY DEF SandboxInvariant, ServicesFollowDependencies
<1> QED BY <1>1, <1>2, <1>3, PTL DEF MachineSpec

-----------------------------------------------------------------------------
(* The environment: of the value under expansion the first m words have    *)
(* become what they are replaced by, which holds no reference any more;    *)
(* the others are as the component sets them.                              *)
SomeWords ==
  (UNION {{value[i] : i \in DOMAIN value} : value \in EnvValues})
    \cup (UNION {{Host[v][i] : i \in DOMAIN Host[v]} : v \in DOMAIN Host})
    \cup {Variables!Blank}
NoReference(value) == \A i \in DOMAIN value : value[i][1] # "ref"

Expanding(k, value, m, cut) ==
  LET n == Len(setting[k]) IN
  /\ m \in 0 .. n /\ cut \in [0 .. m -> Nat]
  /\ cut[0] = 0 /\ Len(value) = cut[m] + (n - m)
  /\ \A i \in 1 .. m :
       /\ cut[i - 1] <= cut[i] /\ cut[i] <= cut[m]
       /\ Variables!Part(value, cut, i) \in Variables!Replacements(setting[k][i])
  /\ \A p \in 1 .. cut[m] : value[p][1] # "ref"
  /\ \A i \in 1 .. n - m : value[cut[m] + i] = setting[k][m + i]

CutInto(k, value, cut) ==
  /\ cut \in Variables!Cuts(Len(setting[k]), value)
  /\ \A i \in DOMAIN setting[k] :
       Variables!Part(value, cut, i) \in Variables!Replacements(setting[k][i])

(* Of a value that is split into fields, the first m words have become     *)
(* what is joined so far.                                                  *)
Joining(value, result, m, cut) ==
  /\ m \in 0 .. Len(value) /\ cut \in [0 .. m -> Nat]
  /\ cut[0] = 0 /\ cut[m] = Len(result)
  /\ \A i \in 1 .. m :
       /\ cut[i - 1] <= cut[i] /\ cut[i] <= cut[m]
       /\ Variables!Part(result, cut, i) \in Variables!Pieces(value, i)
JoinedInto(value, result) ==
  \E cut \in Variables!Cuts(Len(value), result) :
    \A i \in DOMAIN value : Variables!Part(result, cut, i) \in Variables!Pieces(value, i)

(* The variables the second pass has stored.                               *)
Stored == IF passing = "validate" THEN {} ELSE Keys \ (pending \cup {key})

EnvironmentInvariant ==
  /\ setting \in [Keys -> EnvValues]
  /\ passing \in {"validate", "process", "done"}
  /\ pending \subseteq Keys /\ key \in Keys \cup {"none"} /\ key \notin pending
  /\ passing = "done" => pending = {} /\ key = "none"
  /\ DOMAIN final = DOMAIN Host \cup Stored /\ DOMAIN bare = Stored
  /\ \A v \in DOMAIN final : final[v] \in Seq(SomeWords) /\ NoReference(final[v])
  /\ \A v \in DOMAIN Host \ Stored : final[v] = Host[v]
  /\ \A k \in Stored :
       /\ bare[k] \in Seq(SomeWords) /\ \E cut : CutInto(k, bare[k], cut)
       /\ IF Variables!Splits(k, bare[k]) THEN JoinedInto(bare[k], final[k]) ELSE final[k] = bare[k]
  /\ passing = "process" /\ key # "none" =>
       /\ words \in Seq(SomeWords) /\ \E m, cut : Expanding(key, words, m, cut)
       /\ placed # 0 => NoReference(words)
       /\ joined \in Seq(SomeWords) /\ NoReference(joined)
       /\ \E cut : Joining(words, joined, placed, cut)
  /\ passing # "process" \/ key = "none" => placed = 0 /\ joined = <<>>

LEMMA SettingIs ==
  ASSUME EnvironmentInvariant, NEW k \in Keys
  PROVE  /\ setting[k] \in Seq(SomeWords) /\ Len(setting[k]) \in Nat
         /\ DOMAIN setting[k] = 1 .. Len(setting[k])
<1> DEFINE value == setting[k]
           Own == {value[i] : i \in DOMAIN value}
<1>1. value \in EnvValues BY DEF EnvironmentInvariant
<1>2. value \in Seq(Own) BY <1>1, MachineAssumption
<1>3. Own \subseteq SomeWords BY <1>1 DEF SomeWords
<1> HIDE DEF value, Own
<1>4. value \in Seq(SomeWords) BY <1>2, <1>3, SeqMonotonic
<1> QED BY <1>4, LenProperties DEF value

LEMMA LookupIs ==
  ASSUME EnvironmentInvariant, NEW v
  PROVE  /\ Variables!Lookup(final, v) \in Seq(SomeWords)
         /\ NoReference(Variables!Lookup(final, v))
<1>1. CASE v \in DOMAIN final
  BY <1>1 DEF Variables!Lookup, EnvironmentInvariant
<1>2. CASE v \notin DOMAIN final
  <2>1. v \notin DOMAIN Host BY <1>2 DEF EnvironmentInvariant
  <2>2. Variables!Lookup(final, v) = <<>>
    BY <1>2, <2>1 DEF Variables!Lookup, Variables!HostVariables
  <2> QED BY <2>2 DEF NoReference
<1> QED BY <1>1, <1>2

(* A variable that is not stored yet is looked up as the host's.           *)
LEMMA LookupOfTheHost ==
  ASSUME EnvironmentInvariant, NEW v, v \notin Stored
  PROVE  Variables!Lookup(final, v) = Variables!Lookup(<<>>, v)
<1>1. DOMAIN <<>> = {} OBVIOUS
<1> USE DEF Variables!HostVariables
<1>2. CASE v \in DOMAIN Host
  BY <1>1, <1>2 DEF Variables!Lookup, EnvironmentInvariant
<1>3. CASE v \notin DOMAIN Host
  BY <1>1, <1>3 DEF Variables!Lookup, EnvironmentInvariant
<1> QED BY <1>2, <1>3

LEMMA SameSubSeq ==
  ASSUME NEW s, NEW t, NEW a \in Int, NEW b \in Int, \A i \in a .. b : s[i] = t[i]
  PROVE  SubSeq(s, a, b) = SubSeq(t, a, b)
<1>1. \A i \in 1 .. b - a + 1 : i + a - 1 \in a .. b OBVIOUS
<1>2. \A i \in 1 .. b - a + 1 : s[i + a - 1] = t[i + a - 1] BY <1>1
<1> QED BY SMTT(30), <1>2

LEMMA OneSubSeq ==
  ASSUME NEW s, NEW a \in Int
  PROVE  SubSeq(s, a, a) = <<s[a]>>
<1> DEFINE S == {s[a]}
           part1 == SubSeq(s, a, a)
           one == <<s[a]>>
<1>1. a - a + 1 = 1 /\ a + 1 - 1 = a /\ a .. a = {a} OBVIOUS
<1>2. part1 \in Seq(S) /\ Len(part1) = (IF a <= a THEN a - a + 1 ELSE 0)
      /\ \A i \in 1 .. a - a + 1 : part1[i] = s[a + i - 1]
  BY <1>1, SubSeqProperties
<1>3. one \in Seq(S) /\ Len(one) = 1 /\ one[1] = s[a] OBVIOUS
<1> HIDE DEF part1, one, S
<1>4. Len(part1) = 1 /\ part1[1] = s[a] BY <1>1, <1>2
<1>5. part1 = one BY <1>2, <1>3, <1>4, SeqEqual
<1> QED BY <1>5 DEF part1, one

LEMMA PlaceBeyond ==
  ASSUME NEW a \in Nat, NEW b \in Nat, NEW q \in 1 .. a + b, q \notin 1 .. a
  PROVE  \E e \in 1 .. b : q = a + e
<1>1. q - a \in 1 .. b /\ q = a + (q - a) OBVIOUS
<1> QED BY <1>1

(* Where c words are settled and m of n words are read, the words after the *)
(* next one: their places in the value, before and after it has become w.   *)
LEMMA PlacesAfter ==
  ASSUME NEW c \in Nat, NEW w \in Nat, NEW m \in Nat, NEW n \in Nat, NEW i \in 1 .. n - (m + 1)
  PROVE  /\ 1 + i \in 1 .. n - m /\ m + 1 + i = m + (1 + i)
         /\ c + (1 + i) \in c + 1 + 1 .. c + (n - m)
         /\ c + w + i = (c + (1 + i)) - 1 + w
<1>1. i \in Int /\ 1 <= i /\ i <= n - (m + 1) OBVIOUS
<1>2. 1 + i \in Int /\ 1 <= 1 + i /\ 1 + i <= n - m BY <1>1
<1>3. m + 1 + i = m + (1 + i) BY <1>1
<1>4. c + (1 + i) \in Int /\ c + 1 + 1 <= c + (1 + i) /\ c + (1 + i) <= c + (n - m)
  BY <1>1, <1>2
<1>5. c + w + i = (c + (1 + i)) - 1 + w BY <1>1
<1> QED BY <1>2, <1>3, <1>4, <1>5

(* How long the value is then.                                             *)
LEMMA LengthAfter ==
  ASSUME NEW c \in Nat, NEW w \in Nat, NEW m \in Nat, NEW n \in Nat, m + 1 <= n
  PROVE  /\ c <= c + w /\ c + w <= (c + (n - m)) - 1 + w
         /\ (c + (n - m)) - 1 + w = c + w + (n - (m + 1))
OBVIOUS

LEMMA NoneInEither ==
  ASSUME NEW s \in Seq(SomeWords), NEW t \in Seq(SomeWords), NoReference(s), NoReference(t)
  PROVE  s \o t \in Seq(SomeWords) /\ NoReference(s \o t)
<1> DEFINE u == s \o t
<1>1. /\ u \in Seq(SomeWords) /\ Len(u) = Len(s) + Len(t)
      /\ \A i \in 1 .. Len(u) : u[i] = IF i <= Len(s) THEN s[i] ELSE t[i - Len(s)]
  BY ConcatProperties
<1>2. /\ Len(s) \in Nat /\ Len(t) \in Nat /\ DOMAIN s = 1 .. Len(s) /\ DOMAIN t = 1 .. Len(t)
      /\ DOMAIN u = 1 .. Len(u)
  BY <1>1, LenProperties
<1> HIDE DEF u
<1>3. ASSUME NEW i \in DOMAIN u PROVE u[i][1] # "ref"
  <2>1. i \in 1 .. Len(s) + Len(t) BY <1>1, <1>2
  <2>2. i \in 1 .. Len(s) \/ (~(i <= Len(s)) /\ i - Len(s) \in 1 .. Len(t)) BY <1>2, <2>1
  <2> QED BY <1>1, <1>2, <2>2 DEF NoReference
<1> QED BY <1>1, <1>3 DEF NoReference, u

(* A value in which the first reference, at p, has been replaced.          *)
Replacing(value, p, with) == SubSeq(value, 1, p - 1) \o with \o SubSeq(value, p + 1, Len(value))

ReplacementOf(S, value, p, with, new) ==
  /\ new \in Seq(S) /\ Len(new) = Len(value) - 1 + Len(with)
  /\ \A i \in 1 .. p - 1 : new[i] = value[i]
  /\ \A i \in 1 .. Len(with) : new[p - 1 + i] = with[i]
  /\ \A i \in p + 1 .. Len(value) : new[i - 1 + Len(with)] = value[i]

LEMMA ReplacedIs ==
  ASSUME NEW S, NEW value \in Seq(S), NEW with \in Seq(S), NEW p \in 1 .. Len(value)
  PROVE  ReplacementOf(S, value, p, with, Replacing(value, p, with))
<1> DEFINE a == SubSeq(value, 1, p - 1)
           c == SubSeq(value, p + 1, Len(value))
           ab == a \o with
           new == ab \o c
<1>0. Len(value) \in Nat /\ Len(with) \in Nat /\ \A i \in 1 .. Len(value) : value[i] \in S
      /\ p - 1 \in Int /\ p + 1 \in Int /\ 1 \in Int
  OBVIOUS
<1>1. /\ a \in Seq(S) /\ Len(a) = p - 1 /\ \A i \in 1 .. p - 1 : a[i] = value[i]
  <2>1. \A i \in 1 .. p - 1 : value[i] \in S BY <1>0
  <2>2. /\ a \in Seq(S) /\ Len(a) = (IF 1 <= p - 1 THEN p - 1 - 1 + 1 ELSE 0)
        /\ \A i \in 1 .. p - 1 - 1 + 1 : a[i] = value[1 + i - 1]
    BY <1>0, <2>1, SubSeqProperties
  <2>3. p - 1 - 1 + 1 = p - 1 /\ \A i \in 1 .. p - 1 : 1 + i - 1 = i BY <1>0
  <2> HIDE DEF a
  <2> QED BY <2>2, <2>3
<1>2. /\ c \in Seq(S) /\ Len(c) = Len(value) - p
      /\ \A i \in 1 .. Len(value) - p : c[i] = value[p + i]
  <2>1. \A i \in p + 1 .. Len(value) : value[i] \in S BY <1>0
  <2>2. /\ c \in Seq(S) /\ Len(c) = (IF p + 1 <= Len(value) THEN Len(value) - (p + 1) + 1 ELSE 0)
        /\ \A i \in 1 .. Len(value) - (p + 1) + 1 : c[i] = value[p + 1 + i - 1]
    BY <1>0, <2>1, SubSeqProperties
  <2>3. Len(value) - (p + 1) + 1 = Len(value) - p
        /\ \A i \in 1 .. Len(value) - p : p + 1 + i - 1 = p + i
    BY <1>0
  <2> HIDE DEF c
  <2>4. Len(c) = Len(value) - p BY <1>0, <2>2
  <2>5. ASSUME NEW i \in 1 .. Len(value) - p PROVE c[i] = value[p + i]
    <3>1. i \in 1 .. Len(value) - (p + 1) + 1 BY <2>3
    <3>2. c[i] = value[p + 1 + i - 1] BY <2>2, <3>1
    <3> QED BY <2>3, <3>2
  <2> QED BY <2>2, <2>4, <2>5
<1> HIDE DEF a, c
<1>3. /\ ab \in Seq(S) /\ Len(ab) = p - 1 + Len(with)
      /\ \A i \in 1 .. p - 1 : ab[i] = value[i]
      /\ \A i \in 1 .. Len(with) : ab[p - 1 + i] = with[i]
  <2>1. /\ ab \in Seq(S) /\ Len(ab) = Len(a) + Len(with)
        /\ \A i \in 1 .. Len(a) + Len(with) : ab[i] = IF i <= Len(a) THEN a[i] ELSE with[i - Len(a)]
    BY <1>1, ConcatProperties
  <2> HIDE DEF ab
  <2>2. \A i \in 1 .. Len(with) : /\ p - 1 + i \in 1 .. Len(a) + Len(with)
                                  /\ ~(p - 1 + i <= Len(a)) /\ (p - 1 + i) - Len(a) = i
    BY <1>0, <1>1
  <2>3. \A i \in 1 .. p - 1 : i \in 1 .. Len(a) + Len(with) /\ i <= Len(a) BY <1>0, <1>1
  <2>4. Len(ab) = p - 1 + Len(with) BY <1>1, <2>1
  <2>5. \A i \in 1 .. p - 1 : ab[i] = value[i] BY <1>1, <2>1, <2>3
  <2>6. \A i \in 1 .. Len(with) : ab[p - 1 + i] = with[i] BY <2>1, <2>2
  <2> QED BY <2>1, <2>4, <2>5, <2>6
<1> HIDE DEF ab
<1>4. /\ new \in Seq(S) /\ Len(new) = Len(ab) + Len(c)
      /\ \A i \in 1 .. Len(ab) + Len(c) : new[i] = IF i <= Len(ab) THEN ab[i] ELSE c[i - Len(ab)]
  <2>1. ab \in Seq(S) /\ c \in Seq(S) BY <1>2, <1>3
  <2> QED BY <2>1, ConcatProperties
<1> HIDE DEF new
<1>5. \A i \in p + 1 .. Len(value) :
        /\ i - 1 + Len(with) \in 1 .. Len(ab) + Len(c) /\ ~(i - 1 + Len(with) <= Len(ab))
        /\ (i - 1 + Len(with)) - Len(ab) = i - p /\ i - p \in 1 .. Len(value) - p /\ p + (i - p) = i
  BY <1>0, <1>2, <1>3
<1>6. ASSUME NEW i \in p + 1 .. Len(value) PROVE new[i - 1 + Len(with)] = value[i]
  <2> DEFINE x == i - 1 + Len(with)
  <2>1. x \in 1 .. Len(ab) + Len(c) /\ ~(x <= Len(ab)) /\ x - Len(ab) = i - p BY <1>5
  <2> HIDE DEF x
  <2>2. new[x] = c[i - p] BY <1>4, <2>1
  <2>3. c[i - p] = value[p + (i - p)] BY <1>2, <1>5
  <2>4. p + (i - p) = i BY <1>5
  <2> QED BY <2>2, <2>3, <2>4 DEF x
<1>7. Len(new) = Len(value) - 1 + Len(with) BY <1>0, <1>2, <1>3, <1>4
<1>8. \A i \in 1 .. p - 1 : i \in 1 .. Len(ab) + Len(c) /\ i <= Len(ab) BY <1>0, <1>2, <1>3
<1>9. \A i \in 1 .. Len(with) : p - 1 + i \in 1 .. Len(ab) + Len(c) /\ p - 1 + i <= Len(ab)
  BY <1>0, <1>2, <1>3
<1>10. ReplacementOf(S, value, p, with, new)
  BY <1>3, <1>4, <1>6, <1>7, <1>8, <1>9 DEF ReplacementOf
<1>11. new = Replacing(value, p, with) BY DEF new, ab, a, c, Replacing
<1> QED BY <1>10, <1>11

LEMMA SubSeqIs ==
  ASSUME NEW S, NEW s \in Seq(S), NEW t \in Seq(S), NEW a \in Nat,
         a + Len(t) <= Len(s), \A i \in 1 .. Len(t) : s[a + i] = t[i]
  PROVE  SubSeq(s, a + 1, a + Len(t)) = t
<1> DEFINE u == SubSeq(s, a + 1, a + Len(t))
<1>1. Len(t) \in Nat /\ Len(s) \in Nat /\ \A i \in 1 .. Len(s) : s[i] \in S OBVIOUS
<1> HIDE DEF u
<1>2. a + Len(t) - (a + 1) + 1 = Len(t) /\ (a + 1 <= a + Len(t) <=> Len(t) # 0)
      /\ \A i \in 1 .. Len(t) : a + 1 + i - 1 = a + i
  <2> DEFINE l == Len(t)
  <2>1. l \in Nat BY <1>1
  <2> HIDE DEF l
  <2>2. a + l - (a + 1) + 1 = l BY <2>1
  <2>3. a + 1 <= a + l <=> l # 0 BY <2>1
  <2>4. \A i \in 1 .. l : a + 1 + i - 1 = a + i OBVIOUS
  <2> QED BY <2>2, <2>3, <2>4 DEF l
<1> USE DEF u
<1>3. \A i \in a + 1 .. a + Len(t) : s[i] \in S BY <1>1
<1>4. /\ u \in Seq(S)
      /\ Len(u) = (IF a + 1 <= a + Len(t) THEN a + Len(t) - (a + 1) + 1 ELSE 0)
      /\ \A i \in 1 .. a + Len(t) - (a + 1) + 1 : u[i] = s[a + 1 + i - 1]
  BY <1>1, <1>3, SubSeqProperties
<1> HIDE DEF u
<1>5. Len(u) = Len(t) BY <1>1, <1>2, <1>4
<1>6. ASSUME NEW i \in 1 .. Len(t) PROVE u[i] = t[i]
  <2>1. u[i] = s[a + 1 + i - 1] BY <1>2, <1>4
  <2> QED BY <1>2, <2>1
<1>7. u = t BY <1>4, <1>5, <1>6, SeqEqual
<1> QED BY <1>7 DEF u

(* Words that are no references are what they become.                      *)
LEMMA Settled ==
  ASSUME EnvironmentInvariant, NEW k \in Keys, NEW value \in Seq(SomeWords),
         NEW m, NEW cut, Expanding(k, value, m, cut),
         NEW r \in 0 .. Len(setting[k]) - m,
         \A p \in cut[m] + 1 .. cut[m] + r : value[p][1] # "ref"
  PROVE  LET cut2 == [j \in 0 .. m + r |-> IF j <= m THEN cut[j] ELSE cut[m] + (j - m)] IN
         Expanding(k, value, m + r, cut2) /\ cut2[m + r] = cut[m] + r
<1> DEFINE n == Len(setting[k])
           cut2 == [j \in 0 .. m + r |-> IF j <= m THEN cut[j] ELSE cut[m] + (j - m)]
<1>1. /\ n \in Nat /\ m \in 0 .. n /\ cut \in [0 .. m -> Nat] /\ cut[0] = 0 /\ cut[m] \in Nat
      /\ Len(value) = cut[m] + (n - m) /\ r \in Nat /\ m + r \in 0 .. n /\ r \in 0 .. n - m
      /\ \A p \in 1 .. cut[m] : value[p][1] # "ref"
      /\ \A i \in 1 .. n - m : value[cut[m] + i] = setting[k][m + i]
  <2>1. n \in Nat BY SettingIs
  <2>2. m \in 0 .. n /\ cut \in [0 .. m -> Nat] /\ m \in 0 .. m BY <2>1 DEF Expanding
  <2>3. cut[m] \in Nat BY <2>2
  <2> QED BY <2>1, <2>2, <2>3 DEF Expanding
<1>2. \A i \in 1 .. m :
        /\ cut[i - 1] <= cut[i] /\ cut[i] <= cut[m]
        /\ Variables!Part(value, cut, i) \in Variables!Replacements(setting[k][i])
  BY DEF Expanding
<1> HIDE DEF n
<1>3. /\ cut2 \in [0 .. m + r -> Nat] /\ cut2[0] = 0 /\ cut2[m + r] = cut[m] + r
      /\ \A j \in 0 .. m : cut2[j] = cut[j]
      /\ \A j \in m + 1 .. m + r : cut2[j] = cut[m] + (j - m) /\ cut2[j - 1] = (cut[m] + (j - m)) - 1
  <2>1. \A j \in 0 .. m + r : cut2[j] = IF j <= m THEN cut[j] ELSE cut[m] + (j - m) OBVIOUS
  <2>2. \A j \in 0 .. m + r : cut2[j] \in Nat BY <1>1
  <2>3. cut2 \in [0 .. m + r -> Nat] BY <2>2
  <2> HIDE DEF cut2
  <2>4. cut2[0] = 0 /\ cut2[m + r] = cut[m] + r BY <1>1, <2>1
  <2>5. \A j \in 0 .. m : cut2[j] = cut[j]
    <3>1. m \in Nat /\ r \in Nat BY <1>1
    <3>2. \A j \in 0 .. m : j \in 0 .. m + r /\ j <= m BY <3>1
    <3> QED BY <2>1, <3>2
  <2>6. ASSUME NEW j \in m + 1 .. m + r
        PROVE  cut2[j] = cut[m] + (j - m) /\ cut2[j - 1] = (cut[m] + (j - m)) - 1
    <3>1. j \in 0 .. m + r /\ ~(j <= m) /\ j - 1 \in 0 .. m + r BY <1>1
    <3>2. CASE j - 1 = m BY <1>1, <2>1, <3>1, <3>2
    <3>3. CASE j - 1 # m BY <1>1, <2>1, <3>1, <3>3
    <3> QED BY <3>2, <3>3
  <2> QED BY <2>3, <2>4, <2>5, <2>6
<1> HIDE DEF cut2
<1>4. ASSUME NEW i \in 1 .. m + r
      PROVE  /\ cut2[i - 1] <= cut2[i] /\ cut2[i] <= cut2[m + r]
             /\ Variables!Part(value, cut2, i) \in Variables!Replacements(setting[k][i])
  <2>1. CASE i \in 1 .. m
    <3>1. i - 1 \in 0 .. m /\ i \in 0 .. m
      <4>1. m \in Nat BY <1>1
      <4> QED BY <2>1, <4>1
    <3>2. cut2[i - 1] = cut[i - 1] /\ cut2[i] = cut[i] BY <1>3, <3>1
    <3>3. Variables!Part(value, cut2, i) = Variables!Part(value, cut, i)
      BY <3>2 DEF Variables!Part
    <3>4. cut[i] \in Nat BY <1>1, <3>1
    <3>5. cut2[i - 1] <= cut2[i] BY <1>2, <2>1, <3>2
    <3>6. cut2[i] <= cut2[m + r]
      <4>1. cut[m] \in Nat /\ r \in Nat /\ cut[i] <= cut[m] BY <1>1, <1>2, <2>1
      <4>2. cut[i] <= cut[m] + r BY <3>4, <4>1
      <4> QED BY <1>3, <3>2, <4>2
    <3> QED BY <1>2, <2>1, <3>3, <3>5, <3>6
  <2>2. CASE i \in m + 1 .. m + r
    <3> DEFINE p == cut[m] + (i - m)
    <3>1. cut2[i] = p /\ cut2[i - 1] = p - 1 /\ p \in Nat /\ p - 1 + 1 = p
      <4>1. cut2[i] = p /\ cut2[i - 1] = p - 1 BY <1>3, <2>2
      <4>2. cut[m] \in Nat /\ m \in Nat /\ r \in Nat BY <1>1
      <4>3. i - m \in Nat BY <2>2, <4>2
      <4>4. p \in Nat BY <4>2, <4>3
      <4> HIDE DEF p
      <4> QED BY <4>1, <4>4
    <3>2. i - m \in 1 .. n - m /\ m + (i - m) = i /\ p \in cut[m] + 1 .. cut[m] + r
      <4>1. m \in Nat /\ n \in Nat /\ r \in Nat /\ m + r <= n /\ cut[m] \in Nat BY <1>1
      <4>2. i \in Nat /\ m + 1 <= i /\ i <= m + r BY <2>2, <4>1
      <4>3. i - m \in 1 .. r BY <4>1, <4>2
      <4>4. i - m \in 1 .. n - m BY <4>1, <4>3
      <4>5. m + (i - m) = i BY <4>1, <4>2
      <4>6. p \in cut[m] + 1 .. cut[m] + r BY <4>1, <4>3
      <4> QED BY <4>4, <4>5, <4>6
    <3>3. value[p] = setting[k][i] /\ value[p][1] # "ref" BY <1>1, <3>2
    <3> HIDE DEF p
    <3>4. Variables!Part(value, cut2, i) = SubSeq(value, p, p) BY <3>1 DEF Variables!Part
    <3>5. SubSeq(value, p, p) = <<setting[k][i]>> BY <3>1, <3>3, OneSubSeq
    <3>6. Variables!Replacements(setting[k][i]) = {<<setting[k][i]>>}
      BY <3>3 DEF Variables!Replacements
    <3>7. cut2[i - 1] <= cut2[i] BY <3>1
    <3>8. cut2[i] <= cut2[m + r] BY <1>1, <1>3, <2>2, <3>1 DEF p
    <3> QED BY <3>4, <3>5, <3>6, <3>7, <3>8
  <2> QED BY <1>1, <2>1, <2>2
<1>5. ASSUME NEW p \in 1 .. cut2[m + r] PROVE value[p][1] # "ref"
  <2>1. p \in 1 .. cut[m] \/ p \in cut[m] + 1 .. cut[m] + r BY <1>1, <1>3
  <2> QED BY <1>1, <2>1
<1>6. ASSUME NEW i \in 1 .. n - (m + r)
      PROVE  value[cut2[m + r] + i] = setting[k][m + r + i]
  <2>1. r + i \in 1 .. n - m /\ cut2[m + r] + i = cut[m] + (r + i) /\ m + r + i = m + (r + i)
    BY <1>1, <1>3
  <2> QED BY <1>1, <2>1
<1>7. Len(value) = cut2[m + r] + (n - (m + r)) BY <1>1, <1>3
<1>8. Expanding(k, value, m + r, cut2)
  BY <1>1, <1>3, <1>4, <1>5, <1>6, <1>7 DEF Expanding, n
<1> QED BY <1>3, <1>8 DEF cut2

(* The first reference becomes what its variable is looked up as.          *)
LEMMA Replaced ==
  ASSUME EnvironmentInvariant, NEW k \in Keys, NEW value \in Seq(SomeWords),
         NEW m, NEW cut, Expanding(k, value, m, cut), NEW p \in 1 .. Len(value),
         p = cut[m] + 1, value[p][1] = "ref"
  PROVE  LET with == Variables!Lookup(final, value[p][2])
             new == SubSeq(value, 1, p - 1) \o with \o SubSeq(value, p + 1, Len(value))
         IN  new \in Seq(SomeWords) /\ \E cut2 : Expanding(k, new, m + 1, cut2)
<1> DEFINE n == Len(setting[k])
           with == Variables!Lookup(final, value[p][2])
           new == Replacing(value, p, with)
           cut2 == [j \in 0 .. m + 1 |-> IF j <= m THEN cut[j] ELSE cut[m] + Len(with)]
<1>1. /\ n \in Nat /\ m \in 0 .. n /\ cut \in [0 .. m -> Nat] /\ cut[0] = 0 /\ cut[m] \in Nat
      /\ Len(value) = cut[m] + (n - m) /\ m + 1 \in 0 .. n /\ p - 1 = cut[m]
      /\ \A q \in 1 .. cut[m] : value[q][1] # "ref"
      /\ \A i \in 1 .. n - m : value[cut[m] + i] = setting[k][m + i]
  <2>1. n \in Nat BY SettingIs
  <2>2. m \in 0 .. n /\ cut \in [0 .. m -> Nat] /\ m \in 0 .. m BY <2>1 DEF Expanding
  <2>3. cut[m] \in Nat BY <2>2
  <2>4. /\ Len(value) = cut[m] + (n - m) /\ cut[0] = 0
        /\ \A q \in 1 .. cut[m] : value[q][1] # "ref"
        /\ \A i \in 1 .. n - m : value[cut[m] + i] = setting[k][m + i]
    BY DEF Expanding
  <2> HIDE DEF n, with, new, cut2
  <2>5. Len(value) = cut[m] + (n - m) /\ p \in 1 .. Len(value) /\ p = cut[m] + 1
    BY <2>4
  <2>6. m + 1 \in 0 .. n /\ p - 1 = cut[m] BY <2>1, <2>2, <2>3, <2>5
  <2> QED BY <2>1, <2>2, <2>3, <2>4, <2>6
<1>2. \A i \in 1 .. m :
        /\ cut[i - 1] <= cut[i] /\ cut[i] <= cut[m]
        /\ Variables!Part(value, cut, i) \in Variables!Replacements(setting[k][i])
  BY DEF Expanding
<1>3. /\ with \in Seq(SomeWords) /\ NoReference(with) /\ Len(with) \in Nat
      /\ DOMAIN with = 1 .. Len(with)
  <2>1. with \in Seq(SomeWords) /\ NoReference(with) BY LookupIs
  <2> HIDE DEF with
  <2> QED BY <2>1
<1>4. with \in Variables!Replacements(setting[k][m + 1])
  <2>1. 1 \in 1 .. n - m /\ cut[m] + 1 = p
    <3> HIDE DEF n
    <3> QED BY <1>1
  <2>2. value[p] = setting[k][m + 1] BY <1>1, <2>1
  <2> QED BY <2>2 DEF Variables!Replacements
<1> HIDE DEF n, with
<1>5. /\ new \in Seq(SomeWords) /\ Len(new) = Len(value) - 1 + Len(with)
      /\ \A i \in 1 .. p - 1 : new[i] = value[i]
      /\ \A i \in 1 .. Len(with) : new[p - 1 + i] = with[i]
      /\ \A i \in p + 1 .. Len(value) : new[i - 1 + Len(with)] = value[i]
  <2>1. value \in Seq(SomeWords) /\ with \in Seq(SomeWords) BY <1>3
  <2>2. ReplacementOf(SomeWords, value, p, with, Replacing(value, p, with)) BY <2>1, ReplacedIs
  <2> QED BY <2>2 DEF ReplacementOf
<1> HIDE DEF new
<1>6. /\ cut2 \in [0 .. m + 1 -> Nat] /\ cut2[0] = 0 /\ cut2[m + 1] = cut[m] + Len(with)
      /\ \A j \in 0 .. m : cut2[j] = cut[j]
  <2>1. \A j \in 0 .. m + 1 : cut2[j] = IF j <= m THEN cut[j] ELSE cut[m] + Len(with) OBVIOUS
  <2>2. \A j \in 0 .. m + 1 : cut2[j] \in Nat BY <1>1, <1>3
  <2>3. cut2 \in [0 .. m + 1 -> Nat] BY <2>2
  <2> HIDE DEF cut2
  <2>4. m \in Nat BY <1>1
  <2>5. \A j \in 0 .. m : j \in 0 .. m + 1 /\ j <= m BY <2>4
  <2>6. \A j \in 0 .. m : cut2[j] = cut[j] BY <2>1, <2>5
  <2>7. 0 \in 0 .. m /\ m + 1 \in 0 .. m + 1 /\ ~(m + 1 <= m) BY <2>4
  <2>8. cut2[0] = 0 BY <1>1, <2>6, <2>7
  <2>9. cut2[m + 1] = cut[m] + Len(with) BY <2>1, <2>7
  <2> QED BY <2>3, <2>6, <2>8, <2>9
<1> HIDE DEF cut2
<1>7. m \in Nat /\ n \in Nat /\ m + 1 <= n /\ cut[m] \in Nat /\ p = cut[m] + 1 /\ Len(with) \in Nat
       /\ Len(value) = cut[m] + (n - m)
  BY <1>1, <1>3
<1>8. cut2[m + 1] = cut[m] + Len(with) /\ Len(new) = (cut[m] + (n - m)) - 1 + Len(with)
  BY <1>5, <1>6, <1>7
<1>15. /\ cut[m] <= cut[m] + Len(with)
       /\ cut[m] + Len(with) <= (cut[m] + (n - m)) - 1 + Len(with)
       /\ (cut[m] + (n - m)) - 1 + Len(with) = cut[m] + Len(with) + (n - (m + 1))
  <2> DEFINE c == cut[m]
             w == Len(with)
  <2>1. c \in Nat /\ w \in Nat /\ m \in Nat /\ n \in Nat /\ m + 1 <= n BY <1>7
  <2> HIDE DEF c, w
  <2>2. /\ c <= c + w /\ c + w <= (c + (n - m)) - 1 + w
        /\ (c + (n - m)) - 1 + w = c + w + (n - (m + 1))
    BY <2>1, LengthAfter
  <2> QED BY <2>2 DEF c, w
<1>9. ASSUME NEW i \in 1 .. m + 1
      PROVE  /\ cut2[i - 1] <= cut2[i] /\ cut2[i] <= cut2[m + 1]
             /\ Variables!Part(new, cut2, i) \in Variables!Replacements(setting[k][i])
  <2>1. CASE i \in 1 .. m
    <3>1. i - 1 \in 0 .. m /\ i \in 0 .. m BY <1>1, <2>1
    <3>2. cut2[i - 1] = cut[i - 1] /\ cut2[i] = cut[i] BY <1>6, <3>1
    <3>3. cut[i] \in Nat /\ cut[i - 1] \in Nat /\ cut[i] <= cut[m] BY <1>1, <1>2, <2>1, <3>1
    <3>4. \A j \in cut[i - 1] + 1 .. cut[i] : j \in 1 .. p - 1
      <4> DEFINE a == cut[i - 1]
                 b == cut[i]
                 c == p - 1
      <4>1. a \in Nat /\ b \in Nat /\ c \in Nat /\ b <= c BY <1>1, <3>3
      <4> HIDE DEF a, b, c
      <4>2. \A j \in a + 1 .. b : j \in 1 .. c BY <4>1
      <4> QED BY <4>2 DEF a, b, c
    <3>5. \A j \in cut[i - 1] + 1 .. cut[i] : new[j] = value[j] BY <1>5, <3>4
    <3>6. cut[i - 1] + 1 \in Int /\ cut[i] \in Int BY <3>3
    <3>7. SubSeq(new, cut[i - 1] + 1, cut[i]) = SubSeq(value, cut[i - 1] + 1, cut[i])
      BY ZenonT(60), <3>5, <3>6, SameSubSeq
    <3>8. Variables!Part(new, cut2, i) = Variables!Part(value, cut, i)
      BY <3>2, <3>7 DEF Variables!Part
    <3>9. cut2[i - 1] <= cut2[i] BY <1>2, <2>1, <3>2
    <3>10. cut2[i] <= cut2[m + 1]
      <4>1. cut[m] \in Nat /\ Len(with) \in Nat /\ cut[m] + Len(with) \in Nat BY <1>7
      <4>2. cut[i] <= cut[m] + Len(with) BY <1>15, <3>3, <4>1
      <4> QED BY <1>8, <3>2, <4>2
    <3> QED BY <1>2, <2>1, <3>8, <3>9, <3>10
  <2>2. CASE i = m + 1
    <3>1. cut2[i - 1] = cut[m] /\ cut2[i] = cut[m] + Len(with)
      <4>1. i - 1 = m /\ m \in 0 .. m BY <1>1, <2>2
      <4> QED BY <1>6, <2>2, <4>1
    <3>2. cut[m] + Len(with) <= Len(new) BY <1>8, <1>15
    <3>3. \A j \in 1 .. Len(with) : new[cut[m] + j] = with[j]
      <4>1. p - 1 = cut[m] BY <1>1
      <4> QED BY <1>5, <4>1
    <3>4. SubSeq(new, cut[m] + 1, cut[m] + Len(with)) = with
      <4>1. new \in Seq(SomeWords) /\ with \in Seq(SomeWords) /\ cut[m] \in Nat
        BY <1>3, <1>5, <1>7
      <4> QED BY <3>2, <3>3, <4>1, SubSeqIs
    <3>5. Variables!Part(new, cut2, i) = with BY <3>1, <3>4 DEF Variables!Part
    <3>6. cut2[i - 1] <= cut2[i] BY <1>15, <3>1
    <3>7. cut2[i] <= cut2[m + 1]
      <4>1. cut[m] + Len(with) \in Int BY <1>7
      <4>2. cut[m] + Len(with) <= cut[m] + Len(with) BY <4>1
      <4> QED BY <1>8, <3>1, <4>2
    <3> QED BY <1>4, <2>2, <3>5, <3>6, <3>7
  <2>3. i \in 1 .. m \/ i = m + 1 BY <1>7
  <2> QED BY <2>1, <2>2, <2>3
<1>10. \A q \in 1 .. cut2[m + 1] : new[q][1] # "ref"
  <2> SUFFICES ASSUME NEW q \in 1 .. cut[m] + Len(with) PROVE new[q][1] # "ref" BY <1>8
  <2>1. CASE q \in 1 .. cut[m] BY <1>1, <1>5, <2>1
  <2>2. CASE q \notin 1 .. cut[m]
    <3>1. PICK e \in 1 .. Len(with) : q = cut[m] + e BY <1>1, <1>3, <2>2, PlaceBeyond
    <3>2. new[q] = with[e] BY <1>1, <1>5, <3>1
    <3> QED BY <1>3, <3>1, <3>2 DEF NoReference
  <2> QED BY <2>1, <2>2
<1>11. ASSUME NEW i \in 1 .. n - (m + 1)
      PROVE  new[cut2[m + 1] + i] = setting[k][m + 1 + i]
  <2>1. /\ 1 + i \in 1 .. n - m /\ m + 1 + i = m + (1 + i)
        /\ cut[m] + (1 + i) \in cut[m] + 1 + 1 .. cut[m] + (n - m)
        /\ cut[m] + Len(with) + i = (cut[m] + (1 + i)) - 1 + Len(with)
    <3> DEFINE c == cut[m]
               w == Len(with)
    <3>1. c \in Nat /\ w \in Nat /\ m \in Nat /\ n \in Nat BY <1>7
    <3> HIDE DEF c, w
    <3>2. /\ 1 + i \in 1 .. n - m /\ m + 1 + i = m + (1 + i)
          /\ c + (1 + i) \in c + 1 + 1 .. c + (n - m)
          /\ c + w + i = (c + (1 + i)) - 1 + w
      BY <3>1, PlacesAfter
    <3> QED BY <3>2 DEF c, w
  <2> DEFINE x == cut[m] + (1 + i)
  <2>2. x \in p + 1 .. Len(value)
    <3>1. p = cut[m] + 1 /\ Len(value) = cut[m] + (n - m) BY <1>7
    <3> QED BY <2>1, <3>1
  <2>3. value[x] = setting[k][m + 1 + i] BY <1>1, <2>1
  <2>4. cut2[m + 1] + i = x - 1 + Len(with) BY <1>8, <2>1
  <2> HIDE DEF x
  <2>5. new[x - 1 + Len(with)] = value[x] BY <1>5, <2>2
  <2> QED BY <2>3, <2>4, <2>5
<1>12. Len(new) = cut2[m + 1] + (n - (m + 1)) BY <1>8, <1>15
<1>13. Expanding(k, new, m + 1, cut2)
  BY <1>1, <1>6, <1>9, <1>10, <1>11, <1>12 DEF Expanding, n
<1>14. new \in Seq(SomeWords) /\ \E c : Expanding(k, new, m + 1, c) BY <1>5, <1>13
<1> QED BY <1>14 DEF new, with, Replacing

(* Among places there is a first one.                                     *)
LEMMA FirstPlace ==
  ASSUME NEW n \in Nat, NEW P, P \subseteq 1 .. n, P # {}
  PROVE  \E i \in P : \A j \in P : i <= j
<1> DEFINE D(i) == {j \in P : j < i}
           Lower == {D(i) : i \in P}
           R == StrictSubsetOrdering(P)
<1>1. IsFiniteSet(P)
  <2>1. IsFiniteSet(1 .. n) BY FS_Interval
  <2> QED BY <2>1, FS_Subset
<1>2. Lower \subseteq FiniteSubsetsOf(P)
  <2>1. \A i \in P : D(i) \subseteq P OBVIOUS
  <2>2. \A i \in P : IsFiniteSet(D(i)) BY <1>1, <2>1, FS_Subset
  <2> QED BY <2>1, <2>2 DEF FiniteSubsetsOf
<1>3. IsWellFoundedOn(R, FiniteSubsetsOf(P)) BY FS_StrictSubsetOrderingWellFounded
<1>4. Lower # {} OBVIOUS
<1> HIDE DEF Lower, R
<1>5. PICK x \in Lower : \A y \in Lower : ~(<<y, x>> \in R)
  BY <1>2, <1>3, <1>4, WFMin
<1>6. PICK i \in P : x = D(i) BY DEF Lower
<1>7. SUFFICES ASSUME NEW j \in P, j < i PROVE FALSE
  <2>1. \A j \in P : i \in Nat /\ j \in Nat OBVIOUS
  <2>2. \A j \in P : ~(j < i) => i <= j BY <2>1
  <2> QED BY <2>2
<1>8. D(j) \subseteq D(i) /\ j \in D(i) /\ j \notin D(j) /\ D(i) \subseteq P
  <2>1. \A k \in P : i \in Nat /\ j \in Nat /\ k \in Nat OBVIOUS
  <2>2. \A k \in P : k < j => k < i BY <1>7, <2>1
  <2>3. ~(j < j) BY <2>1
  <2> QED BY <1>7, <2>2, <2>3
<1>9. <<D(j), D(i)>> \in R BY <1>8 DEF R, StrictSubsetOrdering
<1>10. D(j) \in Lower BY DEF Lower
<1> QED BY <1>5, <1>6, <1>9, <1>10

LEMMA FirstReferenceIs ==
  ASSUME NEW S, NEW value \in Seq(S), Variables!References(value) # {}
  PROVE  LET p == Variables!FirstReference(value) IN
         /\ p \in 1 .. Len(value) /\ value[p][1] = "ref"
         /\ \A q \in 1 .. Len(value) : q < p => value[q][1] # "ref"
<1> DEFINE R == Variables!References(value)
           p == Variables!FirstReference(value)
<1>1. Len(value) \in Nat /\ R = {i \in 1 .. Len(value) : value[i][1] = "ref"}
  BY DEF Variables!References
<1>2. R \subseteq 1 .. Len(value) BY <1>1
<1> HIDE DEF R
<1>3. \E i \in R : \A j \in R : i <= j BY <1>1, <1>2, FirstPlace DEF R
<1>4. p \in R /\ \A j \in R : p <= j BY <1>3 DEF R, Variables!FirstReference
<1> HIDE DEF p
<1>5. ASSUME NEW q \in 1 .. Len(value), q < p PROVE value[q][1] # "ref"
  <2>1. q \notin R BY <1>1, <1>2, <1>4, <1>5
  <2> QED BY <1>1, <2>1
<1> QED BY <1>1, <1>4, <1>5 DEF p

LEMMA ExpandStep ==
  ASSUME EnvironmentInvariant, Variables!Expand, passing = "process"
  PROVE  words' \in Seq(SomeWords) /\ \E m, cut : Expanding(key, words', m, cut)
<1> DEFINE p == Variables!FirstReference(words)
           n == Len(setting[key])
           with == Variables!Lookup(final, words[p][2])
           new == SubSeq(words, 1, p - 1) \o with \o SubSeq(words, p + 1, Len(words))
<1>1. key # "none" /\ Variables!References(words) # {} /\ words' = new
  BY DEF Variables!Expand, Variables!Against, Variables!Expanded
<1>2. key \in Keys /\ words \in Seq(SomeWords) /\ \E m, cut : Expanding(key, words, m, cut)
  BY <1>1 DEF EnvironmentInvariant
<1>3. PICK m, cut : Expanding(key, words, m, cut) BY <1>2
<1>4. /\ p \in 1 .. Len(words) /\ words[p][1] = "ref"
      /\ \A q \in 1 .. Len(words) : q < p => words[q][1] # "ref"
  BY <1>1, <1>2, FirstReferenceIs
<1> HIDE DEF p, with, new
<1>5. n \in Nat BY <1>2, SettingIs
<1>6. /\ m \in 0 .. n /\ cut \in [0 .. m -> Nat]
      /\ Len(words) = cut[m] + (n - m)
      /\ \A q \in 1 .. cut[m] : words[q][1] # "ref"
  BY <1>3 DEF Expanding
<1> HIDE DEF n
<1>7. cut[m] \in Nat /\ m \in Nat BY <1>5, <1>6
<1>8. p \in Nat /\ p > cut[m] BY <1>4, <1>6, <1>7
<1> DEFINE r == p - cut[m] - 1
<1>9. r \in 0 .. n - m /\ cut[m] + r = p - 1 BY <1>4, <1>5, <1>6, <1>7, <1>8
<1>10. \A q \in cut[m] + 1 .. cut[m] + r : q \in 1 .. Len(words) /\ q < p
  BY <1>4, <1>6, <1>7, <1>8, <1>9
<1>11. \A q \in cut[m] + 1 .. cut[m] + r : words[q][1] # "ref" BY <1>4, <1>10
<1> HIDE DEF r
<1> DEFINE cut2 == [j \in 0 .. m + r |-> IF j <= m THEN cut[j] ELSE cut[m] + (j - m)]
<1>12. r \in 0 .. Len(setting[key]) - m BY <1>9 DEF n
<1>13. Expanding(key, words, m + r, cut2) /\ cut2[m + r] = cut[m] + r
  BY <1>2, <1>3, <1>11, <1>12, Settled
<1> HIDE DEF cut2
<1>14. p = cut2[m + r] + 1 BY <1>8, <1>9, <1>13
<1>15. new \in Seq(SomeWords) /\ \E c : Expanding(key, new, m + r + 1, c)
  BY <1>2, <1>4, <1>13, <1>14, Replaced DEF new, with
<1> QED BY <1>1, <1>15

(* A value without references has been cut into what its words became.     *)
LEMMA StoredWhole ==
  ASSUME EnvironmentInvariant, NEW k \in Keys, NEW value \in Seq(SomeWords),
         NoReference(value), \E m, cut : Expanding(k, value, m, cut)
  PROVE  \E cut : CutInto(k, value, cut)
<1>1. PICK m, cut : Expanding(k, value, m, cut) OBVIOUS
<1> DEFINE n == Len(setting[k])
           r == n - m
           cut2 == [j \in 0 .. m + r |-> IF j <= m THEN cut[j] ELSE cut[m] + (j - m)]
<1>2. n \in Nat /\ DOMAIN setting[k] = 1 .. n BY SettingIs
<1>3. m \in 0 .. n /\ cut \in [0 .. m -> Nat] /\ Len(value) = cut[m] + (n - m)
  BY <1>1 DEF Expanding
<1>4. cut[m] \in Nat /\ DOMAIN value = 1 .. Len(value)
  <2> HIDE DEF n
  <2> QED BY <1>2, <1>3
<1>5. r \in 0 .. n - m /\ m + r = n /\ \A p \in cut[m] + 1 .. cut[m] + r : p \in 1 .. Len(value)
  <2> HIDE DEF n
  <2> QED BY <1>2, <1>3, <1>4
<1>6. \A p \in cut[m] + 1 .. cut[m] + r : value[p][1] # "ref" BY <1>4, <1>5 DEF NoReference
<1> HIDE DEF r
<1>7. Expanding(k, value, m + r, cut2) BY <1>1, <1>5, <1>6, Settled
<1> HIDE DEF cut2
<1>8. Expanding(k, value, n, cut2) BY <1>5, <1>7
<1>9. /\ cut2 \in [0 .. n -> Nat] /\ cut2[0] = 0 /\ Len(value) = cut2[n] + (n - n)
      /\ \A i \in 1 .. n :
           /\ cut2[i - 1] <= cut2[i] /\ cut2[i] <= cut2[n]
           /\ Variables!Part(value, cut2, i) \in Variables!Replacements(setting[k][i])
  BY <1>8 DEF Expanding
<1> HIDE DEF n
<1>10. cut2[n] \in Nat /\ Len(value) = cut2[n] BY <1>2, <1>9
<1>11. \A i \in 0 .. n : cut2[i] \in 0 .. Len(value)
  <2>1. \A i \in 0 .. n : i = 0 \/ i \in 1 .. n BY <1>2
  <2>2. \A i \in 0 .. n : cut2[i] \in Nat BY <1>9
  <2> QED BY <1>9, <1>10, <2>1, <2>2
<1>12. cut2 \in [0 .. n -> 0 .. Len(value)] BY <1>9, <1>11
<1>13. cut2 \in Variables!Cuts(n, value) BY <1>2, <1>9, <1>10, <1>12 DEF Variables!Cuts
<1>14. CutInto(k, value, cut2) BY <1>2, <1>9, <1>13 DEF CutInto, n
<1> QED BY <1>14

(* One word more is joined.                                                *)
LEMMA AfterTheFirst ==
  ASSUME NEW S, NEW s \in Seq(S), NEW t \in Seq(S)
  PROVE  /\ s \o t \in Seq(S) /\ Len(s \o t) = Len(s) + Len(t)
         /\ \A i \in 1 .. Len(s) : (s \o t)[i] = s[i]
         /\ SubSeq(s \o t, Len(s) + 1, Len(s) + Len(t)) = t
<1> DEFINE u == s \o t
           l == Len(s)
           n == Len(t)
           part2 == SubSeq(u, l + 1, l + n)
<1>1. /\ u \in Seq(S) /\ l \in Nat /\ n \in Nat /\ Len(u) = l + n
      /\ \A i \in 1 .. l : u[i] = s[i]
      /\ \A i \in 1 .. n : u[l + i] = t[i]
      /\ \A i \in 1 .. l + n : u[i] \in S
  BY ConcatProperties, LenProperties
<1> HIDE DEF u, l, n
<1>2. \A i \in l + 1 .. l + n : u[i] \in S
  <2>1. \A i \in l + 1 .. l + n : i \in 1 .. l + n BY <1>1
  <2> QED BY <1>1, <2>1
<1> DEFINE a == l + 1
           b == l + n
<1>7. a \in Int /\ b \in Int /\ part2 = SubSeq(u, a, b) BY <1>1
<1>8. \A i \in a .. b : u[i] \in S BY <1>2
<1>4. b - a + 1 = n /\ (a <= b \/ n = 0) /\ \A i \in 1 .. n : a + i - 1 = l + i BY <1>1
<1> HIDE DEF part2, a, b
<1>9. /\ SubSeq(u, a, b) \in Seq(S) /\ Len(SubSeq(u, a, b)) = (IF a <= b THEN b - a + 1 ELSE 0)
      /\ \A i \in 1 .. b - a + 1 : SubSeq(u, a, b)[i] = u[a + i - 1]
  BY <1>7, <1>8, SubSeqProperties
<1>3. /\ part2 \in Seq(S) /\ Len(part2) = (IF a <= b THEN b - a + 1 ELSE 0)
      /\ \A i \in 1 .. b - a + 1 : part2[i] = u[a + i - 1]
  BY <1>7, <1>9
<1>5. Len(part2) = n /\ \A i \in 1 .. n : part2[i] = t[i] BY <1>1, <1>3, <1>4
<1>6. part2 = t BY <1>3, <1>5, SeqEqual DEF n
<1> QED BY <1>1, <1>6 DEF u, l, n, part2

LEMMA JoiningNothing ==
  ASSUME NEW value \in Seq(SomeWords), NEW result, Len(result) = 0
  PROVE  \E cut : Joining(value, result, 0, cut)
<1> DEFINE cut == [j \in 0 .. 0 |-> 0]
<1>1. cut \in [0 .. 0 -> Nat] /\ cut[0] = 0 OBVIOUS
<1> HIDE DEF cut
<1>2. 1 .. 0 = {} /\ 0 \in 0 .. Len(value) OBVIOUS
<1>3. Joining(value, result, 0, cut) BY <1>1, <1>2 DEF Joining
<1> QED BY <1>3

LEMMA JoinOne ==
  ASSUME NEW value, Len(value) \in Nat, NEW result \in Seq(SomeWords), NEW m, NEW cut,
         Joining(value, result, m, cut), m < Len(value),
         NEW with \in Seq(SomeWords), with \in Variables!Pieces(value, m + 1)
  PROVE  \E cut2 : Joining(value, result \o with, m + 1, cut2)
<1> DEFINE new == result \o with
           w == Len(with)
           c == cut[m]
           cut2 == [j \in 0 .. m + 1 |-> IF j <= m THEN cut[j] ELSE c + w]
<1>1. /\ m \in Nat /\ m + 1 \in 0 .. Len(value) /\ cut \in [0 .. m -> Nat]
      /\ cut[0] = 0 /\ c = Len(result) /\ c \in Nat /\ w \in Nat
  BY DEF Joining
<1>2. /\ Len(new) = c + w /\ \A i \in 1 .. c : new[i] = result[i]
      /\ SubSeq(new, c + 1, c + w) = with
  BY <1>1, AfterTheFirst
<1>3. \A i \in 1 .. m : /\ cut[i - 1] <= cut[i] /\ cut[i] <= c
                        /\ Variables!Part(result, cut, i) \in Variables!Pieces(value, i)
  BY DEF Joining
<1> HIDE DEF new, w, c
<1>4. /\ cut2 \in [0 .. m + 1 -> Nat] /\ cut2[m + 1] = c + w
      /\ \A j \in 0 .. m : cut2[j] = cut[j]
  BY <1>1
<1> HIDE DEF cut2
<1>5. ASSUME NEW i \in 1 .. m
      PROVE  /\ cut2[i - 1] <= cut2[i] /\ cut2[i] <= cut2[m + 1]
             /\ Variables!Part(new, cut2, i) \in Variables!Pieces(value, i)
  <2>1. i - 1 \in 0 .. m /\ i \in 0 .. m BY <1>1
  <2>2. cut2[i - 1] = cut[i - 1] /\ cut2[i] = cut[i] /\ cut[i - 1] \in Nat /\ cut[i] \in Nat
    BY <1>1, <1>4, <2>1
  <2>3. cut[i - 1] <= cut[i] /\ cut[i] <= c BY <1>3
  <2>4. \A p \in cut[i - 1] + 1 .. cut[i] : new[p] = result[p]
    <3>1. \A p \in cut[i - 1] + 1 .. cut[i] : p \in 1 .. c BY <1>1, <2>2, <2>3
    <3> QED BY <1>2, <3>1
  <2>5. SubSeq(new, cut[i - 1] + 1, cut[i]) = SubSeq(result, cut[i - 1] + 1, cut[i])
    <3> DEFINE a == cut[i - 1] + 1
               b == cut[i]
    <3>1. a \in Int /\ b \in Int BY <2>2
    <3>2. \A p \in a .. b : new[p] = result[p] BY <2>4
    <3> HIDE DEF a, b
    <3>3. SubSeq(new, a, b) = SubSeq(result, a, b) BY <3>1, <3>2, SameSubSeq
    <3> QED BY <3>3 DEF a, b
  <2>6. Variables!Part(new, cut2, i) = Variables!Part(result, cut, i)
    BY <2>2, <2>5 DEF Variables!Part
  <2> QED BY <1>1, <1>3, <1>4, <2>2, <2>3, <2>6
<1>6. /\ cut2[(m + 1) - 1] <= cut2[m + 1]
      /\ Variables!Part(new, cut2, m + 1) \in Variables!Pieces(value, m + 1)
  <2>1. (m + 1) - 1 = m /\ m \in 0 .. m BY <1>1
  <2>2. cut2[(m + 1) - 1] = c BY <1>4, <2>1 DEF c
  <2>3. Variables!Part(new, cut2, m + 1) = with
    <3>1. Variables!Part(new, cut2, m + 1) = SubSeq(new, cut2[(m + 1) - 1] + 1, cut2[m + 1])
      BY DEF Variables!Part
    <3> QED BY <1>2, <1>4, <2>2, <3>1
  <2> QED BY <1>1, <1>4, <2>2, <2>3
<1>7. \A i \in 1 .. m + 1 : i \in 1 .. m \/ i = m + 1 BY <1>1
<1>8. cut2[0] = 0 BY <1>1, <1>4
<1>9. cut2[m + 1] <= cut2[m + 1] BY <1>1, <1>4
<1>10. Joining(value, new, m + 1, cut2)
  <2>1. \A i \in 1 .. m + 1 :
          /\ cut2[i - 1] <= cut2[i] /\ cut2[i] <= cut2[m + 1]
          /\ Variables!Part(new, cut2, i) \in Variables!Pieces(value, i)
    BY <1>5, <1>6, <1>7, <1>9
  <2>2. cut2[m + 1] = Len(new) BY <1>2, <1>4
  <2> QED BY <1>1, <1>4, <1>8, <2>1, <2>2 DEF Joining
<1> QED BY <1>10 DEF new

(* All words are joined.                                                   *)
LEMMA JoinedWhole ==
  ASSUME NEW value, Len(value) \in Nat, DOMAIN value = 1 .. Len(value), NEW result, NEW cut,
         Joining(value, result, Len(value), cut)
  PROVE  JoinedInto(value, result)
<1> DEFINE n == Len(value)
<1>1. /\ cut \in [0 .. n -> Nat] /\ cut[0] = 0 /\ cut[n] = Len(result)
      /\ \A i \in 1 .. n : /\ cut[i - 1] <= cut[i] /\ cut[i] <= cut[n]
                           /\ Variables!Part(result, cut, i) \in Variables!Pieces(value, i)
  BY DEF Joining
<1>2. n \in Nat /\ DOMAIN value = 1 .. n OBVIOUS
<1> HIDE DEF n
<1>3. cut[n] \in Nat BY <1>1, <1>2
<1>4. \A i \in 0 .. n : cut[i] \in 0 .. cut[n]
  <2>1. \A i \in 0 .. n : i = 0 \/ i \in 1 .. n BY <1>2
  <2>2. \A i \in 0 .. n : cut[i] \in Nat BY <1>1
  <2> QED BY <1>1, <1>3, <2>1, <2>2
<1>5. cut \in [0 .. n -> 0 .. Len(result)] BY <1>1, <1>4
<1>6. cut \in Variables!Cuts(n, result) BY <1>1, <1>5 DEF Variables!Cuts
<1> QED BY <1>1, <1>2, <1>6 DEF JoinedInto, n

(* What a word becomes has the type of a value, and no reference.          *)
LEMMA PieceIs ==
  ASSUME EnvironmentInvariant, NEW value \in Seq(SomeWords), NoReference(value),
         NEW i \in 1 .. Len(value)
  PROVE  /\ Variables!Piece(final, value, i) \in Seq(SomeWords)
         /\ NoReference(Variables!Piece(final, value, i))
<1>1. value[i] \in SomeWords /\ value[i][1] # "ref" BY DEF NoReference
<1>2. /\ Variables!Meaning(final, value, i) \in Seq(SomeWords)
      /\ NoReference(Variables!Meaning(final, value, i))
  <2>1. <<value[i]>> \in Seq(SomeWords) /\ NoReference(<<value[i]>>) BY <1>1 DEF NoReference
  <2> QED BY <2>1, LookupIs DEF Variables!Meaning
<1>3. Variables!Gap(value, i) \in Seq(SomeWords) /\ NoReference(Variables!Gap(value, i))
  <2>1. Variables!Blank \in SomeWords /\ Variables!Blank[1] # "ref"
    BY DEF SomeWords, Variables!Blank
  <2> HIDE DEF Variables!Blank
  <2>2. <<Variables!Blank>> \in Seq(SomeWords) /\ NoReference(<<Variables!Blank>>)
    BY <2>1 DEF NoReference
  <2>3. <<>> \in Seq(SomeWords) /\ NoReference(<<>>) BY DEF NoReference
  <2> QED BY <2>2, <2>3 DEF Variables!Gap
<1>4. \A s, t \in Seq(SomeWords) : NoReference(s) /\ NoReference(t) =>
        s \o t \in Seq(SomeWords) /\ NoReference(s \o t)
  BY NoneInEither
<1>5. <<>> \in Seq(SomeWords) /\ NoReference(<<>>) BY DEF NoReference
<1> QED BY <1>2, <1>3, <1>4, <1>5 DEF Variables!Piece

LEMMA EnvironmentStepKeeps ==
  ASSUME EnvironmentInvariant, [Variables!EnvironmentNext]_environmentVars
  PROVE  EnvironmentInvariant'
<1>1. ASSUME UNCHANGED <<setting, bare, final, Stored>>
      PROVE  /\ \A k \in Stored' :
                  /\ bare'[k] \in Seq(SomeWords) /\ \E cut : CutInto(k, bare[k], cut)'
                  /\ IF Variables!Splits(k, bare[k])' THEN JoinedInto(bare[k], final[k])'
                     ELSE final'[k] = bare'[k]
             /\ DOMAIN final' = DOMAIN Host \cup Stored' /\ DOMAIN bare' = Stored'
             /\ \A v \in DOMAIN final' : final'[v] \in Seq(SomeWords) /\ NoReference(final'[v])
             /\ \A v \in DOMAIN Host \ Stored' : final'[v] = Host[v]
  <2>1. \A k, cut : CutInto(k, bare[k], cut)' <=> CutInto(k, bare[k], cut)
    BY <1>1 DEF CutInto, Variables!Part, Variables!Replacements, Variables!Lookup
  <2>2. \A k : Variables!Splits(k, bare[k])' <=> Variables!Splits(k, bare[k])
    BY <1>1 DEF Variables!Splits
  <2>3. \A value, i : Variables!Pieces(value, i)' = Variables!Pieces(value, i)
    BY <1>1 DEF Variables!Pieces, Variables!Piece, Variables!Meaning, Variables!Lookup
  <2>4. \A value, result : JoinedInto(value, result)' <=> JoinedInto(value, result)
    BY <2>3 DEF JoinedInto
  <2>5. \A k : JoinedInto(bare[k], final[k])' <=> JoinedInto(bare[k], final[k])
    BY <1>1, <2>3 DEF JoinedInto
  <2> QED BY <1>1, <2>1, <2>2, <2>5 DEF EnvironmentInvariant
<1>2. ASSUME NEW k \in Keys, Variables!TakeKey(k) PROVE EnvironmentInvariant'
  <2>1. /\ passing # "done" /\ key = "none" /\ k \in pending /\ key' = k /\ words' = setting[k]
        /\ pending' = pending \ {k} /\ UNCHANGED <<setting, passing, placed, joined, bare, final>>
    BY <1>2 DEF Variables!TakeKey
  <2>2. "none" \notin Keys BY MachineAssumption
  <2>3. Stored' = Stored BY <2>1, <2>2 DEF Stored, EnvironmentInvariant
  <2>4. setting[k] \in Seq(SomeWords) BY SettingIs
  <2>5. Expanding(k, setting[k], 0, [j \in 0 .. 0 |-> 0])
    <3> DEFINE cut == [j \in 0 .. 0 |-> 0]
    <3>1. cut \in [0 .. 0 -> Nat] /\ cut[0] = 0 OBVIOUS
    <3> HIDE DEF cut
    <3>2. Len(setting[k]) \in Nat BY SettingIs
    <3>3. 1 .. 0 = {} OBVIOUS
    <3>4. \A i \in 1 .. Len(setting[k]) - 0 : 0 + i = i OBVIOUS
    <3>5. 0 \in 0 .. Len(setting[k]) /\ Len(setting[k]) = 0 + (Len(setting[k]) - 0) BY <3>2
    <3>6. Expanding(k, setting[k], 0, cut) BY <3>1, <3>3, <3>4, <3>5 DEF Expanding
    <3> QED BY <3>6 DEF cut
  <2>6. \E m, cut : Expanding(key, words, m, cut)'
    <3>1. \A m, cut : Expanding(key, words, m, cut)' <=> Expanding(k, setting[k], m, cut)
      BY <2>1 DEF Expanding, Variables!Part, Variables!Replacements, Variables!Lookup
    <3> QED BY <2>5, <3>1
  <2>7. k # "none" /\ pending' \subseteq Keys /\ k \notin pending'
    BY <2>1, <2>2 DEF EnvironmentInvariant
  <2>8. placed' = 0 /\ joined' = <<>> BY <2>1 DEF EnvironmentInvariant
  <2>9. /\ joined' \in Seq(SomeWords) /\ NoReference(joined')
        /\ \E cut : Joining(words, joined, placed, cut)'
    <3>1. joined' \in Seq(SomeWords) /\ NoReference(joined') BY <2>8 DEF NoReference
    <3>2. \E c : Joining(setting[k], <<>>, 0, c)
      <4>1. Len(<<>>) = 0 OBVIOUS
      <4> QED BY <2>4, <4>1, JoiningNothing
    <3>3. \A c : Joining(words, joined, placed, c)' <=> Joining(setting[k], <<>>, 0, c)
      BY <2>1, <2>8 DEF Joining, Variables!Part, Variables!Pieces, Variables!Piece,
                        Variables!Meaning, Variables!Lookup
    <3> QED BY <3>1, <3>2, <3>3
  <2> QED BY <1>1, <2>1, <2>3, <2>4, <2>6, <2>7, <2>8, <2>9 DEF EnvironmentInvariant
<1>3. CASE Variables!Expand
  <2>1. key # "none" /\ UNCHANGED <<setting, passing, pending, key, placed, joined, bare, final>>
    BY <1>3 DEF Variables!Expand
  <2>2. Stored' = Stored BY <2>1 DEF Stored
  <2>3. passing = "process" => words' \in Seq(SomeWords) /\ \E m, cut : Expanding(key, words, m, cut)'
    <3> SUFFICES ASSUME passing = "process"
                 PROVE  words' \in Seq(SomeWords) /\ \E m, cut : Expanding(key, words, m, cut)'
      OBVIOUS
    <3>1. words' \in Seq(SomeWords) /\ \E m, cut : Expanding(key, words', m, cut)
      BY <1>3, ExpandStep
    <3>2. \A m, cut : Expanding(key, words, m, cut)' <=> Expanding(key, words', m, cut)
      BY <2>1 DEF Expanding, Variables!Part, Variables!Replacements, Variables!Lookup
    <3> QED BY <3>1, <3>2
  <2>4. ASSUME passing = "process"
        PROVE  placed' = 0 /\ \E cut : Joining(words, joined, placed, cut)'
    <3>1. ~NoReference(words) BY <1>3 DEF Variables!Expand, Variables!References, NoReference
    <3>2. placed = 0 BY <2>1, <2>4, <3>1 DEF EnvironmentInvariant
    <3>3. PICK cut : Joining(words, joined, 0, cut) BY <2>1, <2>4, <3>2 DEF EnvironmentInvariant
    <3>4. Len(joined) = 0 BY <3>3 DEF Joining
    <3>5. \E c : Joining(words', joined, 0, c) BY <2>3, <2>4, <3>4, JoiningNothing
    <3>6. \A c : Joining(words, joined, placed, c)' <=> Joining(words', joined, 0, c)
      BY <2>1, <3>2 DEF Joining, Variables!Part, Variables!Pieces, Variables!Piece,
                        Variables!Meaning, Variables!Lookup
    <3> QED BY <2>1, <3>2, <3>5, <3>6
  <2> QED BY <1>1, <2>1, <2>2, <2>3, <2>4 DEF EnvironmentInvariant
<1>7. CASE Variables!Join
  <2>1. /\ key # "none" /\ passing = "process" /\ Variables!References(words) = {}
        /\ placed < Len(words) /\ placed' = placed + 1
        /\ joined' = joined \o Variables!Piece(final, words, placed + 1)
        /\ UNCHANGED <<setting, passing, pending, key, words, bare, final>>
    BY <1>7 DEF Variables!Join
  <2>2. Stored' = Stored BY <2>1 DEF Stored
  <2>3. /\ words \in Seq(SomeWords) /\ \E m, cut : Expanding(key, words, m, cut)
        /\ joined \in Seq(SomeWords) /\ NoReference(joined)
        /\ \E cut : Joining(words, joined, placed, cut)
    BY <2>1 DEF EnvironmentInvariant
  <2>4. NoReference(words) BY <2>1 DEF NoReference, Variables!References
  <2>5. PICK cut : Joining(words, joined, placed, cut) BY <2>3
  <2>6. Len(words) \in Nat /\ placed \in Nat /\ placed + 1 \in 1 .. Len(words)
    BY <2>1, <2>3, <2>5 DEF Joining
  <2> DEFINE with == Variables!Piece(final, words, placed + 1)
  <2>7. with \in Seq(SomeWords) /\ NoReference(with) BY <2>3, <2>4, <2>6, PieceIs
  <2>8. with \in Variables!Pieces(words, placed + 1) BY DEF Variables!Pieces
  <2> HIDE DEF with
  <2>9. joined' = joined \o with BY <2>1 DEF with
  <2>10. joined' \in Seq(SomeWords) /\ NoReference(joined') BY <2>3, <2>7, <2>9, NoneInEither
  <2>11. \E c : Joining(words, joined', placed + 1, c)
    <3>1. \A value, result, m, c, w : Len(value) \in Nat /\ result \in Seq(SomeWords)
            /\ Joining(value, result, m, c) /\ m < Len(value)
            /\ w \in Seq(SomeWords) /\ w \in Variables!Pieces(value, m + 1)
            => \E cut2 : Joining(value, result \o w, m + 1, cut2)
      BY JoinOne
    <3>2. \E cut2 : Joining(words, joined \o with, placed + 1, cut2)
      BY <2>1, <2>3, <2>5, <2>6, <2>7, <2>8, <3>1
    <3> QED BY <2>9, <3>2
  <2>12. \A c : Joining(words, joined, placed, c)' <=> Joining(words, joined', placed + 1, c)
    BY <2>1 DEF Joining, Variables!Part, Variables!Pieces, Variables!Piece,
                Variables!Meaning, Variables!Lookup
  <2>13. \A m, c : Expanding(key, words, m, c)' <=> Expanding(key, words, m, c)
    BY <2>1 DEF Expanding, Variables!Part, Variables!Replacements, Variables!Lookup
  <2> QED BY <1>1, <2>1, <2>2, <2>3, <2>4, <2>10, <2>11, <2>12, <2>13 DEF EnvironmentInvariant
<1>4. CASE Variables!Store
  <2>1. key # "none" /\ Variables!References(words) = {} /\ key' = "none" /\ words' = <<>>
        /\ placed' = 0 /\ joined' = <<>>
        /\ UNCHANGED <<setting, passing, pending>>
    BY <1>4 DEF Variables!Store
  <2>2. key \in Keys /\ "none" \notin Keys /\ passing # "done" /\ key \notin pending
    BY <2>1, MachineAssumption DEF EnvironmentInvariant
  <2>3. CASE passing = "validate"
    <3>1. UNCHANGED <<bare, final>> BY <1>4, <2>3 DEF Variables!Store
    <3>2. UNCHANGED Stored BY <2>1, <2>3 DEF Stored
    <3> QED BY <1>1, <2>1, <2>2, <2>3, <3>1, <3>2 DEF EnvironmentInvariant
  <2>4. CASE passing = "process"
    <3> DEFINE result == IF Variables!Splits(key, words) THEN joined ELSE words
    <3>1. /\ final' = [v \in DOMAIN final \cup {key} |-> IF v = key THEN result ELSE final[v]]
          /\ bare' = [v \in DOMAIN bare \cup {key} |-> IF v = key THEN words ELSE bare[v]]
          /\ Variables!Splits(key, words) => placed = Len(words)
      BY <1>4, <2>4 DEF Variables!Store, Variables!Put
    <3> HIDE DEF result
    <3>2. Stored' = Stored \cup {key} /\ key \notin Stored
      BY <2>1, <2>2, <2>4 DEF Stored
    <3>3. /\ words \in Seq(SomeWords) /\ \E m, cut : Expanding(key, words, m, cut)
          /\ joined \in Seq(SomeWords) /\ NoReference(joined)
          /\ \E cut : Joining(words, joined, placed, cut)
      BY <2>1, <2>4 DEF EnvironmentInvariant
    <3>4. NoReference(words) BY <2>1 DEF NoReference, Variables!References
    <3>5. ASSUME NEW word PROVE Variables!Replacements(word) \subseteq Variables!Replacements(word)'
      <4> DEFINE v == word[2]
      <4>1. CASE v = key
        <5>1. Variables!Lookup(final, v) = Variables!Lookup(<<>>, v)
          BY <3>2, <4>1, LookupOfTheHost
        <5> QED BY <5>1 DEF Variables!Replacements
      <4>2. CASE v # key
        <5>1. Variables!Lookup(final, v)' = Variables!Lookup(final, v)
          BY <3>1, <4>2 DEF Variables!Lookup
        <5> QED BY <5>1 DEF Variables!Replacements
      <4> QED BY <4>1, <4>2
    <3>11. ASSUME NEW value, NEW i PROVE Variables!Pieces(value, i) \subseteq Variables!Pieces(value, i)'
      <4> DEFINE v == value[i][2]
      <4>1. CASE v = key
        <5>1. v \in DOMAIN final => v \in Variables!HostVariables
          BY <3>2, <4>1 DEF EnvironmentInvariant, Variables!HostVariables
        <5>2. Variables!Lookup(final, v) = Variables!Lookup(<<>>, v)
          BY <3>2, <4>1, LookupOfTheHost
        <5>3. Variables!Meaning(final, value, i) = Variables!Meaning(<<>>, value, i)
          BY <5>1, <5>2 DEF Variables!Meaning
        <5> HIDE DEF v
        <5> QED BY <5>3 DEF Variables!Pieces, Variables!Piece
      <4>2. CASE v # key
        <5>1. Variables!Lookup(final, v)' = Variables!Lookup(final, v)
          BY <3>1, <4>2 DEF Variables!Lookup
        <5>2. v \in DOMAIN final' <=> v \in DOMAIN final BY <3>1, <4>2
        <5>3. Variables!Meaning(final, value, i)' = Variables!Meaning(final, value, i)
          BY <5>1, <5>2 DEF Variables!Meaning
        <5> HIDE DEF v
        <5> QED BY <5>3 DEF Variables!Pieces, Variables!Piece
      <4> QED BY <4>1, <4>2
    <3>12. \A value, made2 : JoinedInto(value, made2) =>
             \E cut \in Variables!Cuts(Len(value), made2) : \A i \in DOMAIN value :
               Variables!Part(made2, cut, i) \in Variables!Pieces(value, i)'
      BY <3>11 DEF JoinedInto
    <3>6. ASSUME NEW k, NEW cut, CutInto(k, bare'[k], cut) PROVE CutInto(k, bare[k], cut)'
      <4>1. \A i \in DOMAIN setting[k] :
              Variables!Replacements(setting[k][i]) \subseteq Variables!Replacements(setting[k][i])'
        <5> SUFFICES ASSUME NEW i \in DOMAIN setting[k]
                     PROVE  Variables!Replacements(setting[k][i])
                              \subseteq Variables!Replacements(setting[k][i])'
          OBVIOUS
        <5> QED BY <2>1, <3>5
      <4> QED BY <2>1, <3>6, <4>1 DEF CutInto, Variables!Part
    <3>7. ASSUME NEW k \in Stored'
          PROVE  /\ bare'[k] \in Seq(SomeWords) /\ \E cut : CutInto(k, bare[k], cut)'
                 /\ IF Variables!Splits(k, bare[k])' THEN JoinedInto(bare[k], final[k])'
                    ELSE final'[k] = bare'[k]
      <4>0. \A value : Variables!Splits(k, value)' <=> Variables!Splits(k, value)
        BY <2>1 DEF Variables!Splits
      <4>1. CASE k = key
        <5>1. PICK cut : CutInto(key, words, cut) BY <2>2, <3>3, <3>4, StoredWhole
        <5>2. bare'[k] = words /\ final'[k] = result BY <3>1, <4>1
        <5>3. CutInto(k, bare[k], cut)' BY <3>6, <4>1, <5>1, <5>2
        <5>4. Variables!Splits(k, bare[k])' <=> Variables!Splits(key, words)
          BY <2>1, <4>1, <5>2 DEF Variables!Splits
        <5>5. ASSUME Variables!Splits(key, words) PROVE JoinedInto(bare[k], final[k])'
          <6>1. \E c : Joining(words, joined, Len(words), c) BY <3>1, <3>3, <5>5
          <6>2. JoinedInto(words, joined) BY <3>3, <6>1, JoinedWhole
          <6>3. final'[k] = joined BY <5>2, <5>5 DEF result
          <6> QED BY <3>12, <5>2, <6>2, <6>3 DEF JoinedInto
        <5>6. ~Variables!Splits(key, words) => final'[k] = bare'[k] BY <5>2 DEF result
        <5> QED BY <3>3, <5>2, <5>3, <5>4, <5>5, <5>6
      <4>2. CASE k # key
        <5>1. k \in Stored /\ k \in DOMAIN final /\ k \in DOMAIN bare
          BY <3>2, <4>2 DEF EnvironmentInvariant
        <5>2. PICK cut : CutInto(k, bare[k], cut) BY <5>1 DEF EnvironmentInvariant
        <5>3. final'[k] = final[k] /\ bare'[k] = bare[k] BY <3>1, <4>2, <5>1
        <5>4. CutInto(k, bare[k], cut)' BY <3>6, <5>2, <5>3
        <5>5. Variables!Splits(k, bare[k])' <=> Variables!Splits(k, bare[k])
          BY <2>1, <5>3 DEF Variables!Splits
        <5>6. JoinedInto(bare[k], final[k]) => JoinedInto(bare[k], final[k])'
          BY <3>12, <5>3 DEF JoinedInto
        <5> QED BY <5>1, <5>3, <5>4, <5>5, <5>6 DEF EnvironmentInvariant
      <4> QED BY <4>1, <4>2
    <3>8. DOMAIN final' = DOMAIN Host \cup Stored' /\ DOMAIN bare' = Stored'
      BY <3>1, <3>2 DEF EnvironmentInvariant
    <3>9. ASSUME NEW v \in DOMAIN final'
          PROVE  final'[v] \in Seq(SomeWords) /\ NoReference(final'[v])
      BY <3>1, <3>3, <3>4 DEF EnvironmentInvariant, result
    <3>10. ASSUME NEW v \in DOMAIN Host \ Stored' PROVE final'[v] = Host[v]
      <4>1. v # key /\ v \in DOMAIN Host \ Stored /\ v \in DOMAIN final
        BY <3>2, <3>10 DEF EnvironmentInvariant
      <4>2. final'[v] = final[v] BY <3>1, <4>1
      <4>3. final[v] = Host[v] BY <4>1 DEF EnvironmentInvariant
      <4> QED BY <4>2, <4>3
    <3> QED BY <2>1, <2>2, <2>4, <3>7, <3>8, <3>9, <3>10 DEF EnvironmentInvariant
  <2> QED BY <2>2, <2>3, <2>4 DEF EnvironmentInvariant
<1>5. CASE Variables!NextPass
  <2>1. /\ key = "none" /\ pending = {} /\ passing # "done" /\ UNCHANGED <<setting, key, words, placed, joined, bare, final>>
        /\ \/ passing = "validate" /\ passing' = "process" /\ pending' = Keys
           \/ passing # "validate" /\ passing' = "done" /\ UNCHANGED pending
    BY <1>5 DEF Variables!NextPass
  <2>2. "none" \notin Keys BY MachineAssumption
  <2>3. UNCHANGED Stored BY <2>1, <2>2 DEF Stored
  <2> QED BY <1>1, <2>1, <2>2, <2>3 DEF EnvironmentInvariant
<1>6. CASE UNCHANGED environmentVars
  <2>1. UNCHANGED <<setting, passing, pending, key, words, placed, joined, bare, final>>
    BY <1>6 DEF environmentVars
  <2>2. UNCHANGED Stored BY <2>1 DEF Stored
  <2>3. \A m, cut : Expanding(key, words, m, cut)' <=> Expanding(key, words, m, cut)
    BY <2>1 DEF Expanding, Variables!Part, Variables!Replacements, Variables!Lookup
  <2>4. \A c : Joining(words, joined, placed, c)' <=> Joining(words, joined, placed, c)
    BY <2>1 DEF Joining, Variables!Part, Variables!Pieces, Variables!Piece,
                Variables!Meaning, Variables!Lookup
  <2> QED BY <1>1, <2>1, <2>2, <2>3, <2>4 DEF EnvironmentInvariant
<1> QED BY <1>2, <1>3, <1>4, <1>5, <1>6, <1>7 DEF Variables!EnvironmentNext, Variables!EnvironmentStep

LEMMA EnvironmentInitial == Variables!EnvironmentInit => EnvironmentInvariant
<1> SUFFICES ASSUME Variables!EnvironmentInit PROVE EnvironmentInvariant OBVIOUS
<1>1. /\ setting \in [Keys -> EnvValues] /\ passing = "validate" /\ pending = Keys
      /\ key = "none" /\ placed = 0 /\ joined = <<>> /\ DOMAIN bare = {} /\ final = Host
  BY DEF Variables!EnvironmentInit
<1>2. Stored = {} BY <1>1 DEF Stored
<1>3. ASSUME NEW v \in DOMAIN Host
      PROVE  final[v] \in Seq(SomeWords) /\ NoReference(final[v])
  <2> DEFINE value == Host[v]
             Own == {value[i] : i \in DOMAIN value}
  <2>1. value \in Seq(Own) /\ NoReference(value) BY MachineAssumption DEF NoReference
  <2>2. Own \subseteq SomeWords BY DEF SomeWords
  <2>3. final[v] = value BY <1>1
  <2> HIDE DEF value, Own
  <2> QED BY <2>1, <2>2, <2>3, SeqMonotonic
<1>4. "none" \notin Keys BY MachineAssumption
<1> QED BY <1>1, <1>2, <1>3, <1>4 DEF EnvironmentInvariant

(* When the environment of a container is ready, every reference in it has *)
(* become the whole value of its variable, and nothing else of a value is  *)
(* lost or mixed up, but its white space where it is split into fields     *)
(* (env_handler.go:50): for any variables and values, and in any order of  *)
(* the two passes.                                                         *)
THEOREM NothingIsLostInExpansion == MachineSpec => []EnvironmentIsWhole
<1>1. MachineInit => EnvironmentInvariant BY EnvironmentInitial DEF MachineInit
<1>2. EnvironmentInvariant /\ [MachineNext]_machineVars => EnvironmentInvariant'
  BY PartsStep, EnvironmentStepKeeps
<1>3. EnvironmentInvariant => EnvironmentIsWhole
  <2> SUFFICES ASSUME EnvironmentInvariant, passing = "done", NEW k \in Keys
               PROVE  /\ \E cut : CutInto(k, bare[k], cut)
                      /\ IF Variables!Splits(k, bare[k]) THEN JoinedInto(bare[k], final[k])
                         ELSE final[k] = bare[k]
    BY DEF EnvironmentIsWhole, Variables!EachWordReplaced, CutInto, JoinedInto
  <2>1. k \in Stored BY MachineAssumption DEF Stored, EnvironmentInvariant
  <2> QED BY <2>1 DEF EnvironmentInvariant
<1> QED BY <1>1, <1>2, <1>3, PTL DEF MachineSpec

-----------------------------------------------------------------------------
(* The logs: between its file and the screen are the first n lines of a    *)
(* component, in order; the follower has scanned these, and the one it is  *)
(* sending.                                                                *)
Lines == Logs!Followed \X Nat
LinePlaces(q, c) == {i \in DOMAIN q : q[i][1] = c}
FirstLines(q, c, n) ==
  /\ \A i, j \in LinePlaces(q, c) : i < j => q[i][2] < q[j][2]
  /\ {q[i][2] : i \in LinePlaces(q, c)} = 1 .. n

LogsTyped ==
  /\ screen \in Seq(Lines) /\ writer \in Seq(Lines)
  /\ printer \in Seq(Lines) /\ logCh \in Seq(Lines)
  /\ logged \in [Logs!Followed -> 0 .. LineCount]
  /\ scanned \in [Logs!Followed -> 0 .. LineCount]
  /\ follower \in [Logs!Followed -> {"none", "scanning", "sending", "gone"}]
  /\ streamOpen \in [Logs!Followed -> BOOLEAN]
  /\ opened \in 0 .. Len(LogOrder)
FollowersKnown ==
  /\ \A i \in DOMAIN LogOrder : i > opened => follower[LogOrder[i]] = "none"
  /\ ~Logs!Quit => \A c \in Logs!Followed :
       follower[c] \notin {"none", "gone"} => streamOpen[c]
LinesKnown ==
  \A c \in Logs!Followed : \E n \in 0 .. LineCount :
    /\ FirstLines(Logs!OnTheirWay, c, n)
    /\ follower[c] = "sending" => scanned[c] = n + 1
    /\ follower[c] \in {"none", "scanning"} \/ (follower[c] = "gone" /\ ~Logs!Quit) => scanned[c] = n
LogInvariant == LogsTyped /\ FollowersKnown /\ LinesKnown

LEMMA OneMoreLine ==
  ASSUME NEW q \in Seq(Lines), NEW c \in Logs!Followed, NEW n \in Nat, FirstLines(q, c, n)
  PROVE  /\ FirstLines(Append(q, <<c, n + 1>>), c, n + 1)
<1> DEFINE e == <<c, n + 1>>
           r == Append(q, e)
<1>1. e \in Lines /\ e[1] = c /\ e[2] = n + 1 BY DEF Lines
<1> HIDE DEF e
<1>2. /\ Len(q) \in Nat /\ DOMAIN q = 1 .. Len(q) /\ DOMAIN r = 1 .. Len(q) + 1
      /\ \A i \in 1 .. Len(q) : r[i] = q[i]
      /\ r[Len(q) + 1] = e
  BY <1>1
<1> HIDE DEF r
<1>3. LinePlaces(r, c) = LinePlaces(q, c) \cup {Len(q) + 1} /\ LinePlaces(q, c) \subseteq 1 .. Len(q)
  BY <1>1, <1>2 DEF LinePlaces
<1>4. \A i \in LinePlaces(q, c) : r[i] = q[i] /\ q[i][2] \in 1 .. n /\ i < Len(q) + 1
  BY <1>2, <1>3 DEF FirstLines
<1>5. r[Len(q) + 1][2] = n + 1 BY <1>1, <1>2
<1>6. ASSUME NEW i \in LinePlaces(r, c), NEW j \in LinePlaces(r, c), i < j
      PROVE  r[i][2] < r[j][2]
  <2>1. i \in LinePlaces(q, c) BY <1>2, <1>3, <1>4, <1>6
  <2>2. CASE j \in LinePlaces(q, c) BY <1>4, <1>6, <2>1, <2>2 DEF FirstLines
  <2>3. CASE j = Len(q) + 1
    <3>1. r[i][2] \in 1 .. n BY <1>4, <2>1
    <3> QED BY <1>5, <2>3, <3>1
  <2> QED BY <1>3, <2>2, <2>3
<1>7. {r[i][2] : i \in LinePlaces(r, c)} = 1 .. n + 1
  <2>1. {r[i][2] : i \in LinePlaces(r, c)} = {q[i][2] : i \in LinePlaces(q, c)} \cup {n + 1}
    BY <1>3, <1>4, <1>5
  <2>2. (1 .. n) \cup {n + 1} = 1 .. n + 1 OBVIOUS
  <2> QED BY <2>1, <2>2 DEF FirstLines
<1> QED BY <1>6, <1>7 DEF FirstLines, r, e

LEMMA OthersLine ==
  ASSUME NEW q \in Seq(Lines), NEW c, NEW n, FirstLines(q, c, n), NEW e \in Lines, e[1] # c
  PROVE  FirstLines(Append(q, e), c, n)
<1> DEFINE r == Append(q, e)
<1>1. /\ DOMAIN q = 1 .. Len(q) /\ DOMAIN r = 1 .. Len(q) + 1 /\ Len(q) \in Nat
      /\ \A i \in 1 .. Len(q) : r[i] = q[i]
      /\ r[Len(q) + 1] = e
  OBVIOUS
<1> HIDE DEF r
<1>2. LinePlaces(r, c) = LinePlaces(q, c) /\ \A i \in LinePlaces(q, c) : r[i] = q[i] BY <1>1 DEF LinePlaces
<1>3. {r[i][2] : i \in LinePlaces(r, c)} = {q[i][2] : i \in LinePlaces(q, c)} BY <1>2
<1>4. \A i, j \in LinePlaces(r, c) : i < j => r[i][2] < r[j][2] BY <1>2 DEF FirstLines
<1>5. FirstLines(r, c, n) BY <1>3, <1>4 DEF FirstLines
<1> QED BY <1>5 DEF r

(* What goes from the channel to the screen stays on its way.              *)
LEMMA WayAssociates ==
  ASSUME NEW s \in Seq(Lines), NEW w \in Seq(Lines), NEW p \in Seq(Lines), NEW l \in Seq(Lines)
  PROVE  /\ s \o w \o p \o l \in Seq(Lines)
         /\ s \o (w \o p) \o <<>> \o l = s \o w \o p \o l
         /\ (s \o w) \o <<>> \o p \o l = s \o w \o p \o l
<1>1. s \o w \in Seq(Lines) /\ w \o p \in Seq(Lines) /\ <<>> \in Seq(Lines) OBVIOUS
<1>2. s \o (w \o p) \in Seq(Lines) /\ s \o w \o p \in Seq(Lines) BY <1>1, ConcatProperties
<1>3. s \o (w \o p) = s \o w \o p BY SMTT(30), ConcatAssociative
<1>4. (s \o (w \o p)) \o <<>> = s \o (w \o p) BY <1>2, ConcatEmptySeq
<1>5. (s \o w) \o <<>> = s \o w BY <1>1, ConcatEmptySeq
<1>6. s \o w \o p \o l \in Seq(Lines) BY <1>2, ConcatProperties
<1> QED BY <1>3, <1>4, <1>5, <1>6

LEMMA WayReceives ==
  ASSUME NEW a \in Seq(Lines), NEW l \in Seq(Lines), l # <<>>
  PROVE  /\ <<Head(l)>> \in Seq(Lines) /\ Tail(l) \in Seq(Lines)
         /\ a \o <<Head(l)>> \o Tail(l) = a \o <<>> \o l
<1> DEFINE h == <<Head(l)>>
           t == Tail(l)
<1>1. h \in Seq(Lines) /\ t \in Seq(Lines) BY HeadThenTail
<1>2. h \o t = l BY HeadThenTail
<1> HIDE DEF h, t
<1>3. a \o h \o t = a \o (h \o t) BY SMTT(30), <1>1, ConcatAssociative
<1>4. a \o <<>> = a BY ConcatEmptySeq
<1> QED BY <1>1, <1>2, <1>3, <1>4 DEF h, t

LEMMA LogStepKeeps ==
  ASSUME LogInvariant, [Logs!LogNext]_logVars
  PROVE  LogInvariant'
<1> USE MachineAssumption
<1>1. Logs!OnTheirWay \in Seq(Lines)
  <2>1. screen \o writer \o printer \o logCh \in Seq(Lines)
    BY WayAssociates DEF LogInvariant, LogsTyped
  <2> QED BY <2>1 DEF Logs!OnTheirWay
<1>2. ASSUME NEW c \in Logs!Followed, Logs!WriteLine(c) PROVE LogInvariant'
  <2>1. UNCHANGED <<opened, follower, scanned, streamOpen, screen, writer, printer, logCh, closing>>
    BY <1>2 DEF Logs!WriteLine, Logs!sinkVars
  <2>2. logged' \in [Logs!Followed -> 0 .. LineCount]
    BY <1>2 DEF Logs!WriteLine, LogInvariant, LogsTyped
  <2> QED BY <2>1, <2>2
      DEF LogInvariant, LogsTyped, FollowersKnown, LinesKnown, Logs!OnTheirWay, Logs!Quit
<1>3. CASE Logs!FollowNext
  <2> DEFINE c == LogOrder[opened + 1]
  <2>1. /\ UNCHANGED <<logged, scanned, screen, writer, printer, logCh, closing>>
        /\ opened < Len(LogOrder) /\ opened' = opened + 1
        /\ \/ /\ streamOpen' = [streamOpen EXCEPT ![c] = TRUE]
              /\ follower' = [follower EXCEPT ![c] = "scanning"]
           \/ UNCHANGED <<streamOpen, follower>>
    BY <1>3 DEF Logs!FollowNext, Logs!sinkVars
  <2>2. opened + 1 \in DOMAIN LogOrder /\ DOMAIN LogOrder = 1 .. Len(LogOrder) /\ opened \in Nat
    BY <2>1 DEF LogInvariant, LogsTyped
  <2>3. c \in Logs!Followed BY <2>2 DEF Logs!Followed, Logs!ToSet
  <2>4. follower[c] = "none" BY <2>2 DEF LogInvariant, FollowersKnown
  <2>5. \A i \in DOMAIN LogOrder : i > opened + 1 => LogOrder[i] # c /\ i > opened BY <2>2
  <2> HIDE DEF c
  <2>6. LogsTyped'
    <3>1. opened + 1 \in 0 .. Len(LogOrder) BY <2>1, <2>2
    <3>2. follower' \in [Logs!Followed -> {"none", "scanning", "sending", "gone"}]
          /\ streamOpen' \in [Logs!Followed -> BOOLEAN]
      BY <2>1, <2>3 DEF LogInvariant, LogsTyped
    <3> QED BY <2>1, <3>1, <3>2 DEF LogInvariant, LogsTyped
  <2>7. FollowersKnown'
    <3>1. \A d \in Logs!Followed \ {c} : follower'[d] = follower[d] /\ streamOpen'[d] = streamOpen[d]
      BY <2>1 DEF LogInvariant, LogsTyped
    <3>2. \/ follower'[c] = "scanning" /\ streamOpen'[c]
          \/ follower'[c] = follower[c] /\ streamOpen'[c] = streamOpen[c]
      BY <2>1, <2>3 DEF LogInvariant, LogsTyped
    <3>3. \A i \in DOMAIN LogOrder : LogOrder[i] \in Logs!Followed
      BY DEF Logs!Followed, Logs!ToSet
    <3>4. ASSUME NEW i \in DOMAIN LogOrder, i > opened' PROVE follower'[LogOrder[i]] = "none"
      BY <2>1, <2>5, <3>1, <3>3, <3>4 DEF LogInvariant, FollowersKnown
    <3>5. ASSUME ~Logs!Quit', NEW d \in Logs!Followed
          PROVE  follower'[d] \notin {"none", "gone"} => streamOpen'[d]
      BY <2>1, <2>3, <3>1, <3>2, <3>5 DEF LogInvariant, FollowersKnown, Logs!Quit
    <3> QED BY <3>4, <3>5 DEF FollowersKnown
  <2>8. LinesKnown'
    BY <2>1, <2>3, <2>4 DEF LogInvariant, LogsTyped, LinesKnown, Logs!OnTheirWay, Logs!Quit
  <2> QED BY <2>6, <2>7, <2>8 DEF LogInvariant
<1>4. ASSUME NEW c \in Logs!Followed, Logs!ScanLine(c) PROVE LogInvariant'
  <2>1. /\ UNCHANGED <<logged, opened, screen, writer, printer, logCh, closing>>
        /\ follower[c] = "scanning" /\ scanned[c] < logged[c]
        /\ scanned' = [scanned EXCEPT ![c] = scanned[c] + 1]
        /\ \/ Logs!Quit /\ follower' = [follower EXCEPT ![c] = "gone"]
              /\ streamOpen' = [streamOpen EXCEPT ![c] = FALSE]
           \/ ~Logs!Quit /\ follower' = [follower EXCEPT ![c] = "sending"]
              /\ UNCHANGED streamOpen
    BY <1>4 DEF Logs!ScanLine, Logs!sinkVars
  <2>2. scanned[c] + 1 \in 0 .. LineCount /\ scanned[c] \in Nat
    BY <2>1 DEF LogInvariant, LogsTyped
  <2>3. LogsTyped' BY <2>1, <2>2 DEF LogInvariant, LogsTyped
  <2>4. FollowersKnown'
    <3>1. \A d \in Logs!Followed : \/ follower'[d] = follower[d] /\ streamOpen'[d] = streamOpen[d]
                                  \/ d = c
      BY <2>1 DEF LogInvariant, LogsTyped
    <3>2. \A i \in DOMAIN LogOrder : LogOrder[i] \in Logs!Followed
      BY DEF Logs!Followed, Logs!ToSet
    <3>3. ASSUME NEW i \in DOMAIN LogOrder, i > opened' PROVE follower'[LogOrder[i]] = "none"
      BY <2>1, <3>1, <3>2, <3>3 DEF LogInvariant, FollowersKnown
    <3>4. ASSUME ~Logs!Quit', NEW d \in Logs!Followed
          PROVE  follower'[d] \notin {"none", "gone"} => streamOpen'[d]
      BY <2>1, <3>1, <3>4 DEF LogInvariant, LogsTyped, FollowersKnown, Logs!Quit
    <3> QED BY <3>3, <3>4 DEF FollowersKnown
  <2>5. ASSUME NEW d \in Logs!Followed
        PROVE  \E n \in 0 .. LineCount :
                 /\ FirstLines(Logs!OnTheirWay, d, n)
                 /\ follower'[d] = "sending" => scanned'[d] = n + 1
                 /\ follower'[d] \in {"none", "scanning"} \/ (follower'[d] = "gone" /\ ~Logs!Quit)
                      => scanned'[d] = n
    BY <2>1, <2>2 DEF LogInvariant, LogsTyped, LinesKnown
  <2>6. LinesKnown' BY <2>1, <2>5 DEF LinesKnown, Logs!OnTheirWay, Logs!Quit
  <2> QED BY <2>3, <2>4, <2>6 DEF LogInvariant
<1>5. ASSUME NEW c \in Logs!Followed, Logs!SendLine(c) PROVE LogInvariant'
  <2> DEFINE e == <<c, scanned[c]>>
             way == Logs!OnTheirWay
  <2>1. /\ UNCHANGED <<logged, opened, scanned, streamOpen, screen, writer, printer, closing>>
        /\ follower[c] = "sending" /\ logCh' = Append(logCh, e)
        /\ follower' = [follower EXCEPT ![c] = "scanning"]
    BY <1>5 DEF Logs!SendLine
  <2>2. e \in Lines /\ e[1] = c /\ e[2] = scanned[c]
    BY DEF LogInvariant, LogsTyped, Lines
  <2> HIDE DEF e
  <2>3. logCh' \in Seq(Lines) BY <2>1, <2>2 DEF LogInvariant, LogsTyped
  <2>4. LogsTyped' BY <2>1, <2>3 DEF LogInvariant, LogsTyped
  <2>5. FollowersKnown'
    BY <2>1 DEF LogInvariant, LogsTyped, FollowersKnown, Logs!Quit, Logs!Followed
  <2>6. Logs!OnTheirWay' = Append(way, e)
    <3> DEFINE b == screen \o writer \o printer
    <3>1. screen \o writer \in Seq(Lines) BY DEF LogInvariant, LogsTyped
    <3>2. b \in Seq(Lines) /\ logCh \in Seq(Lines)
      BY <3>1, ConcatProperties DEF LogInvariant, LogsTyped
    <3>3. Logs!OnTheirWay' = b \o logCh' /\ way = b \o logCh BY <2>1 DEF Logs!OnTheirWay
    <3> HIDE DEF b, way
    <3> HIDE DEF e
    <3>4. b \o Append(logCh, e) = Append(b \o logCh, e) BY <2>2, <3>2, AppendAtEnd
    <3> QED BY <2>1, <3>3, <3>4
  <2> HIDE DEF way
  <2>7. way \in Seq(Lines) BY <1>1 DEF way
  <2>8. ASSUME NEW d \in Logs!Followed
        PROVE  \E n \in 0 .. LineCount :
                 /\ FirstLines(Append(way, e), d, n)
                 /\ follower'[d] = "sending" => scanned'[d] = n + 1
                 /\ follower'[d] \in {"none", "scanning"} \/ (follower'[d] = "gone" /\ ~Logs!Quit)
                      => scanned'[d] = n
    <3>1. PICK n \in 0 .. LineCount :
                 /\ FirstLines(way, d, n)
                 /\ follower[d] = "sending" => scanned[d] = n + 1
                 /\ follower[d] \in {"none", "scanning"} \/ (follower[d] = "gone" /\ ~Logs!Quit)
                      => scanned[d] = n
      BY DEF LogInvariant, LinesKnown, way
    <3>2. CASE d = c
      <4>1. scanned[c] = n + 1 /\ n \in Nat /\ n + 1 \in 0 .. LineCount
        BY <2>1, <3>1, <3>2 DEF LogInvariant, LogsTyped
      <4>2. FirstLines(Append(way, <<c, n + 1>>), c, n + 1)
        BY <2>7, <3>1, <3>2, <4>1, OneMoreLine
      <4>3. e = <<c, n + 1>> BY <4>1 DEF e
      <4>4. follower'[d] = "scanning" /\ scanned'[d] = n + 1
        BY <2>1, <3>2, <4>1 DEF LogInvariant, LogsTyped
      <4> QED BY <3>2, <4>1, <4>2, <4>3, <4>4
    <3>3. CASE d # c
      <4>1. FirstLines(Append(way, e), d, n) BY <2>2, <2>7, <3>1, <3>3, OthersLine
      <4>2. follower'[d] = follower[d] /\ scanned' = scanned
        BY <2>1, <3>3 DEF LogInvariant, LogsTyped
      <4> QED BY <3>1, <4>1, <4>2
    <3> QED BY <3>2, <3>3
  <2>9. LinesKnown' BY <2>1, <2>6, <2>8 DEF LinesKnown, Logs!Quit
  <2> QED BY <2>4, <2>5, <2>9 DEF LogInvariant
<1>6. ASSUME NEW c \in Logs!Followed, Logs!ScanEnds(c) PROVE LogInvariant'
  <2>1. /\ UNCHANGED <<logged, opened, scanned, streamOpen, screen, writer, printer, logCh, closing>>
        /\ follower[c] = "scanning" /\ ~streamOpen[c]
        /\ follower' = [follower EXCEPT ![c] = "gone"]
    BY <1>6 DEF Logs!ScanEnds, Logs!sinkVars
  <2>2. Logs!Quit BY <2>1 DEF LogInvariant, FollowersKnown
  <2>3. LogsTyped' BY <2>1 DEF LogInvariant, LogsTyped
  <2>4. FollowersKnown'
    BY <2>1, <2>2 DEF LogInvariant, LogsTyped, FollowersKnown, Logs!Quit, Logs!Followed
  <2>5. LinesKnown'
    BY <2>1, <2>2 DEF LogInvariant, LogsTyped, LinesKnown, Logs!OnTheirWay, Logs!Quit
  <2> QED BY <2>3, <2>4, <2>5 DEF LogInvariant
<1>15. ASSUME NEW c \in Logs!Followed, Logs!ScanFails(c) PROVE LogInvariant'
  <2>1. /\ UNCHANGED <<logged, opened, scanned, screen, writer, printer, logCh, closing>>
        /\ follower[c] = "scanning"
        /\ follower' = [follower EXCEPT ![c] = "gone"]
        /\ streamOpen' = [streamOpen EXCEPT ![c] = FALSE]
    BY <1>15 DEF Logs!ScanFails, Logs!sinkVars
  <2>2. LogsTyped' BY <2>1 DEF LogInvariant, LogsTyped
  <2>3. \A d \in Logs!Followed :
          \/ d = c /\ follower'[d] = "gone"
          \/ follower'[d] = follower[d] /\ streamOpen'[d] = streamOpen[d]
    BY <2>1 DEF LogInvariant, LogsTyped
  <2>4. FollowersKnown'
    <3>1. \A i \in DOMAIN LogOrder : LogOrder[i] \in Logs!Followed
      BY DEF Logs!Followed, Logs!ToSet
    <3> QED BY <2>1, <2>3, <3>1 DEF LogInvariant, FollowersKnown, Logs!Quit
  <2>5. LinesKnown'
    BY <2>1, <2>3 DEF LogInvariant, LinesKnown, Logs!OnTheirWay, Logs!Quit
  <2> QED BY <2>2, <2>4, <2>5 DEF LogInvariant
<1>7. ASSUME UNCHANGED <<logged, opened, follower, scanned, Logs!OnTheirWay>>,
             screen' \in Seq(Lines), writer' \in Seq(Lines),
             printer' \in Seq(Lines), logCh' \in Seq(Lines),
             \/ UNCHANGED <<streamOpen, closing>>
             \/ closing' # "no" /\ streamOpen' \in [Logs!Followed -> BOOLEAN]
      PROVE  LogInvariant'
  <2>1. LogsTyped' BY <1>7 DEF LogInvariant, LogsTyped
  <2>2. FollowersKnown' BY <1>7 DEF LogInvariant, FollowersKnown, Logs!Quit
  <2>3. LinesKnown' BY <1>7 DEF LogInvariant, LinesKnown, Logs!Quit
  <2> QED BY <2>1, <2>2, <2>3 DEF LogInvariant
<1>8. CASE Logs!Receive
  <2>1. /\ UNCHANGED <<logged, opened, follower, scanned, streamOpen, closing, screen, writer>>
        /\ printer = <<>> /\ logCh # <<>> /\ printer' = <<Head(logCh)>> /\ logCh' = Tail(logCh)
    BY <1>8 DEF Logs!Receive, Logs!sourceVars
  <2> DEFINE b == screen \o writer
  <2>2. b \in Seq(Lines) BY DEF LogInvariant, LogsTyped
  <2>3. Logs!OnTheirWay' = b \o <<Head(logCh)>> \o Tail(logCh) /\ Logs!OnTheirWay = b \o <<>> \o logCh
    BY <2>1 DEF Logs!OnTheirWay
  <2> HIDE DEF b
  <2>4. logCh \in Seq(Lines) BY DEF LogInvariant, LogsTyped
  <2>5. <<Head(logCh)>> \in Seq(Lines) /\ Tail(logCh) \in Seq(Lines)
    BY <2>1, <2>2, <2>4, WayReceives
  <2>6. b \o <<Head(logCh)>> \o Tail(logCh) = b \o <<>> \o logCh
    BY <2>1, <2>2, <2>4, WayReceives
  <2>7. Logs!OnTheirWay' = Logs!OnTheirWay BY <2>3, <2>6
  <2>8. screen' \in Seq(Lines) /\ writer' \in Seq(Lines) /\ printer' \in Seq(Lines)
        /\ logCh' \in Seq(Lines)
    BY <2>1, <2>5 DEF LogInvariant, LogsTyped
  <2> QED BY <1>7, <2>1, <2>7, <2>8
<1>9. CASE Logs!PrintLog
  <2>1. /\ UNCHANGED <<logged, opened, follower, scanned, streamOpen, closing, screen, logCh>>
        /\ writer' = writer \o printer /\ printer' = <<>>
    BY <1>9 DEF Logs!PrintLog, Logs!sourceVars
  <2>2. Logs!OnTheirWay' = screen \o (writer \o printer) \o <<>> \o logCh
    BY <2>1 DEF Logs!OnTheirWay
  <2>3. Logs!OnTheirWay' = Logs!OnTheirWay
    <3>0. screen \in Seq(Lines) /\ writer \in Seq(Lines) /\ printer \in Seq(Lines)
          /\ logCh \in Seq(Lines)
      BY DEF LogInvariant, LogsTyped
    <3>1. screen \o (writer \o printer) \o <<>> \o logCh = screen \o writer \o printer \o logCh
      BY SMTT(30), <3>0, WayAssociates
    <3> QED BY <2>2, <3>1 DEF Logs!OnTheirWay
  <2>4. writer \o printer \in Seq(Lines) /\ <<>> \in Seq(Lines) BY DEF LogInvariant, LogsTyped
  <2>5. screen' \in Seq(Lines) /\ writer' \in Seq(Lines) /\ printer' \in Seq(Lines)
        /\ logCh' \in Seq(Lines)
    BY <2>1, <2>4 DEF LogInvariant, LogsTyped
  <2> QED BY <1>7, <2>1, <2>3, <2>5
<1>10. CASE Logs!PeriodicFlush \/ Logs!FinalFlush
  <2>1. /\ UNCHANGED <<logged, opened, follower, scanned, streamOpen, printer, logCh>>
        /\ screen' = screen \o writer /\ writer' = <<>>
        /\ UNCHANGED closing \/ closing' = "flushed"
    BY <1>10 DEF Logs!PeriodicFlush, Logs!FinalFlush, Logs!Flush, Logs!sourceVars
  <2>2. Logs!OnTheirWay' = (screen \o writer) \o <<>> \o printer \o logCh
    BY <2>1 DEF Logs!OnTheirWay
  <2>3. Logs!OnTheirWay' = Logs!OnTheirWay
    <3>1. (screen \o writer) \o <<>> \o printer \o logCh = screen \o writer \o printer \o logCh
      BY WayAssociates DEF LogInvariant, LogsTyped
    <3> QED BY <2>2, <3>1 DEF Logs!OnTheirWay
  <2>4. screen \o writer \in Seq(Lines) /\ <<>> \in Seq(Lines) BY DEF LogInvariant, LogsTyped
  <2>5. screen' \in Seq(Lines) /\ writer' \in Seq(Lines) /\ printer' \in Seq(Lines)
        /\ logCh' \in Seq(Lines)
    BY <2>1, <2>4 DEF LogInvariant, LogsTyped
  <2>6. streamOpen' \in [Logs!Followed -> BOOLEAN] BY <2>1 DEF LogInvariant, LogsTyped
  <2> QED BY <1>7, <2>1, <2>3, <2>5, <2>6
<1>11. ASSUME UNCHANGED <<logged, opened, follower, scanned, screen, writer, printer, logCh>>,
              \/ UNCHANGED <<streamOpen, closing>>
              \/ closing' # "no" /\ streamOpen' \in [Logs!Followed -> BOOLEAN]
       PROVE  LogInvariant'
  <2>1. UNCHANGED Logs!OnTheirWay BY <1>11 DEF Logs!OnTheirWay
  <2>2. screen' \in Seq(Lines) /\ writer' \in Seq(Lines) /\ printer' \in Seq(Lines)
        /\ logCh' \in Seq(Lines)
    BY <1>11 DEF LogInvariant, LogsTyped
  <2> QED BY <1>7, <1>11, <2>1, <2>2
<1>12. CASE Logs!FlusherEnds \/ UNCHANGED logVars
  BY <1>11, <1>12 DEF Logs!FlusherEnds, Logs!sourceVars, logVars
<1>13. CASE Logs!CloseQuit
  <2>1. UNCHANGED <<logged, opened, follower, scanned, screen, writer, printer, logCh, streamOpen>>
        /\ closing' = "quit"
    BY <1>13 DEF Logs!CloseQuit, Logs!sourceVars, Logs!sinkVars
  <2>2. streamOpen' \in [Logs!Followed -> BOOLEAN] BY <2>1 DEF LogInvariant, LogsTyped
  <2> QED BY <1>11, <2>1, <2>2
<1>14. CASE Logs!CloseStreams
  <2>1. UNCHANGED <<logged, opened, follower, scanned, screen, writer, printer, logCh>>
        /\ closing' = "done"
        /\ streamOpen' = [c \in Logs!Followed |-> streamOpen[c] /\ c \notin registered]
    BY <1>14 DEF Logs!CloseStreams, Logs!sinkVars
  <2>2. streamOpen' \in [Logs!Followed -> BOOLEAN] BY <2>1
  <2> QED BY <1>11, <2>1, <2>2
<1> QED
  BY <1>2, <1>3, <1>4, <1>5, <1>6, <1>8, <1>9, <1>10, <1>12, <1>13, <1>14, <1>15
  DEF Logs!LogNext, Logs!Follow, Logs!PrinterStep, Logs!StopStep

LEMMA LogInitial == Logs!LogInit => LogInvariant
<1> SUFFICES ASSUME Logs!LogInit PROVE LogInvariant OBVIOUS
<1>1. <<>> \in Seq(Lines) /\ 0 \in 0 .. LineCount /\ 0 \in 0 .. Len(LogOrder)
  BY MachineAssumption
<1>2. LogsTyped BY <1>1 DEF Logs!LogInit, LogsTyped
<1>3. FollowersKnown
  <2>1. \A i \in DOMAIN LogOrder : LogOrder[i] \in Logs!Followed BY DEF Logs!Followed, Logs!ToSet
  <2> QED BY <2>1 DEF Logs!LogInit, FollowersKnown
<1>4. Logs!OnTheirWay = <<>> BY DEF Logs!LogInit, Logs!OnTheirWay
<1>5. \A c : FirstLines(<<>>, c, 0) BY DEF FirstLines, LinePlaces
<1>6. LinesKnown BY <1>1, <1>4, <1>5 DEF Logs!LogInit, LinesKnown
<1> QED BY <1>2, <1>3, <1>6 DEF LogInvariant

LEMMA LogsOrdered == LogInvariant => Logs!LinesInOrder
<1> SUFFICES ASSUME LogInvariant, NEW c \in Logs!Followed
             PROVE  LET way == Logs!OnTheirWay IN
                    /\ \A i, j \in LinePlaces(way, c) : i < j => way[i][2] < way[j][2]
                    /\ \E n \in 0 .. LineCount :
                         /\ {way[i][2] : i \in LinePlaces(way, c)} = 1 .. n
                         /\ ~Logs!Quit => scanned[c] = n + (IF follower[c] = "sending" THEN 1 ELSE 0)
  BY DEF Logs!LinesInOrder, Logs!PlacesOf, LinePlaces
<1>1. PICK n \in 0 .. LineCount :
        /\ FirstLines(Logs!OnTheirWay, c, n)
        /\ follower[c] = "sending" => scanned[c] = n + 1
        /\ follower[c] \in {"none", "scanning"} \/ (follower[c] = "gone" /\ ~Logs!Quit)
             => scanned[c] = n
  BY DEF LogInvariant, LinesKnown
<1>2. follower[c] \in {"none", "scanning", "sending", "gone"}
  BY DEF LogInvariant, LogsTyped
<1>3. n + 0 = n BY <1>1
<1> QED BY <1>1, <1>2, <1>3 DEF FirstLines

(* Between its file and the screen a line of a component is never          *)
(* overtaken by a later one, lost or doubled, whatever the goroutines do.  *)
THEOREM LinesStayInOrder == MachineSpec => []Logs!LinesInOrder
<1>1. MachineInit => LogInvariant BY LogInitial DEF MachineInit
<1>2. LogInvariant /\ [MachineNext]_machineVars => LogInvariant'
  BY PartsStep, LogStepKeeps
<1> QED BY <1>1, <1>2, LogsOrdered, PTL DEF MachineSpec

-----------------------------------------------------------------------------
(* The graph of a pipeline inside the process: what its channels lead to.  *)
InChannel(w) == <<"in", w[1], w[2]>>

LEMMA InputChannelIs ==
  ASSUME NEW w \in InputChannels
  PROVE  w = <<w[1], w[2]>> /\ w[1] \in ProcessorIds
BY DEF InputChannels, InputChannelsOf, ProcessorIds

LEMMA ChannelIs ==
  ASSUME NEW c \in Channels
  PROVE  \/ c[1] = "in" /\ <<c[2], c[3]>> \in InputChannels /\ c = InChannel(<<c[2], c[3]>>)
         \/ c[1] = "sink" /\ c[2] \in SinkIds /\ c = <<"sink", c[2]>>
<1>1. CASE \E w \in InputChannels : c = <<"in", w[1], w[2]>>
  <2>1. PICK w \in InputChannels : c = <<"in", w[1], w[2]>> BY <1>1
  <2>2. c[1] = "in" /\ c[2] = w[1] /\ c[3] = w[2] BY <2>1
  <2>3. <<c[2], c[3]>> = w BY <2>2, InputChannelIs
  <2> QED BY <2>1, <2>2, <2>3 DEF InChannel
<1>2. CASE \E k \in SinkIds : c = <<"sink", k>>
  <2>1. PICK k \in SinkIds : c = <<"sink", k>> BY <1>2
  <2>2. c[1] = "sink" /\ c[2] = k BY <2>1
  <2> QED BY <2>1, <2>2
<1> QED BY <1>1, <1>2 DEF Channels

LEMMA OutputsAreChannels ==
  ASSUME NEW p \in ProcessorIds, NEW c \in OutputChannels(p)
  PROVE  c \in Channels
<1> DEFINE t == topology.emits[p]
<1>1. t \in topology.out[p] BY DEF OutputChannels
<1>2. CASE \E q \in ProcessorIds : p \in topology.inputs[q] /\ c = <<"in", q, t>>
  <2>1. PICK q \in ProcessorIds : p \in topology.inputs[q] /\ c = <<"in", q, t>> BY <1>2
  <2> DEFINE w == <<q, t>>
  <2>2. t \in InputTypes(topology, q) BY <1>1, <2>1 DEF InputTypes
  <2>3. w \in InputChannels BY <2>1, <2>2 DEF InputChannels, InputChannelsOf, ProcessorIds
  <2>4. c = <<"in", w[1], w[2]>> BY <2>1
  <2> HIDE DEF w
  <2> QED BY <2>3, <2>4 DEF Channels
<1>3. CASE \E k \in SinkIds : c = <<"sink", k>> BY <1>3 DEF Channels
<1> QED BY <1>1, <1>2, <1>3 DEF OutputChannels

LEMMA AfterIs ==
  ASSUME NEW c \in Channels
  PROVE  After(c) \subseteq Channels
<1>1. CASE c[1] = "in"
  <2>1. <<c[2], c[3]>> \in InputChannels BY <1>1, ChannelIs
  <2> DEFINE w == <<c[2], c[3]>>
  <2>2. w[1] = c[2] OBVIOUS
  <2>3. c[2] \in ProcessorIds BY <2>1, <2>2, InputChannelIs
  <2> QED BY <1>1, <2>3, OutputsAreChannels DEF After
<1>2. CASE c[1] # "in" BY <1>2 DEF After
<1> QED BY <1>1, <1>2

LEMMA LeadsToItself ==
  ASSUME NEW c \in Channels PROVE c \in LeadsTo(c)
BY DEF LeadsTo

LEMMA LeadsOn ==
  ASSUME NEW c \in Channels, NEW d \in LeadsTo(c), NEW x \in After(d)
  PROVE  x \in LeadsTo(c)
<1>1. d \in Channels BY DEF LeadsTo
<1>2. x \in Channels BY <1>1, AfterIs
<1> QED BY <1>2 DEF LeadsTo

LEMMA LeadsFurther ==
  ASSUME NEW c \in Channels, NEW d \in LeadsTo(c), NEW x \in LeadsTo(d)
  PROVE  x \in LeadsTo(c)
BY DEF LeadsTo

(* Where a channel leads it leads through one of those after it.           *)
LEMMA LeadsThrough ==
  ASSUME NEW c \in Channels, NEW x \in LeadsTo(c), x # c
  PROVE  \E y \in After(c) : x \in LeadsTo(y)
<1> DEFINE D == {z \in Channels : z = c \/ \E y \in After(c) : z \in LeadsTo(y)}
<1>1. c \in D /\ D \in SUBSET Channels OBVIOUS
<1>2. ASSUME NEW z \in D, NEW v \in After(z) PROVE v \in D
  <2>1. z \in Channels /\ v \in Channels BY <1>2, AfterIs
  <2>2. CASE z = c BY <1>2, <2>1, <2>2, LeadsToItself
  <2>3. ASSUME NEW y \in After(c), z \in LeadsTo(y) PROVE v \in D
    <3>1. y \in Channels BY AfterIs
    <3>2. v \in LeadsTo(y) BY <1>2, <2>3, <3>1, LeadsOn
    <3> QED BY <2>1, <3>2
  <2> QED BY <2>2, <2>3
<1>3. x \in D
  <2> HIDE DEF D
  <2> QED BY <1>1, <1>2 DEF LeadsTo
<1> QED BY <1>3

Way(k) == {c \in Channels : OnTheWay(c, k)}

LEMMA WayIs ==
  ASSUME NEW k \in SinkIds
  PROVE  /\ <<"sink", k>> \in Way(k)
         /\ \A c \in Channels : \A d \in Way(k) : d \in LeadsTo(c) => c \in Way(k)
<1>1. <<"sink", k>> \in Channels BY DEF Channels
<1>2. <<"sink", k>> \in Way(k) BY <1>1, LeadsToItself DEF Way, OnTheWay
<1>3. ASSUME NEW c \in Channels, NEW d \in Way(k), d \in LeadsTo(c) PROVE c \in Way(k)
  BY <1>3, LeadsFurther DEF Way, OnTheWay
<1> QED BY <1>2, <1>3

LEMMA AfterOnTheWay ==
  ASSUME NEW k \in SinkIds, NEW c \in Channels, NEW d \in After(c), d \in Way(k)
  PROVE  c \in Way(k) /\ d \in LeadsTo(c)
<1>1. d \in LeadsTo(c) BY LeadsToItself, LeadsOn
<1> QED BY <1>1, WayIs

LEMMA OneAfter ==
  ASSUME NEW k \in SinkIds, OneWay(k), NEW c \in Channels,
         NEW d \in After(c), d \in Way(k), NEW x \in After(c), x \in Way(k)
  PROVE  x = d
<1>1. c[1] = "in" /\ d \in OutputChannels(c[2]) /\ x \in OutputChannels(c[2])
  BY DEF After
<1> DEFINE w == <<c[2], c[3]>>
<1>2. w \in InputChannels BY <1>1, ChannelIs
<1>3. w[1] = c[2] OBVIOUS
<1> HIDE DEF w
<1> QED BY <1>1, <1>2, <1>3 DEF OneWay, Way

(* What is on the way beyond a channel is where the next one leads, and    *)
(* the way does not come back to the channel.                              *)
LEMMA TheWayOn ==
  ASSUME NEW k \in SinkIds, OneWay(k), NEW c \in Channels, NEW d \in After(c), d \in Way(k)
  PROVE  /\ \A x \in Way(k) : x \in LeadsTo(c) /\ x # c => x \in LeadsTo(d)
         /\ c \notin LeadsTo(d)
<1>1. ASSUME NEW b \in Channels, NEW e \in After(b), e \in Way(k), NEW x \in Way(k), x \in LeadsTo(b), x # b
      PROVE  x \in LeadsTo(e)
  <2>1. PICK y \in After(b) : x \in LeadsTo(y) BY <1>1, LeadsThrough
  <2>2. y \in Channels BY AfterIs
  <2>3. y \in Way(k) BY <2>1, <2>2, WayIs
  <2>4. y = e BY <1>1, <2>3, OneAfter
  <2> QED BY <2>1, <2>4
<1>2. c \in Way(k) BY AfterOnTheWay
<1>3. ASSUME c \in LeadsTo(d) PROVE FALSE
  <2> DEFINE D == {y \in Channels : y \notin Way(k) \/ c \in LeadsTo(y)}
  <2>1. d \in Channels BY AfterIs
  <2>2. d \in D /\ D \in SUBSET Channels BY <1>3, <2>1
  <2>3. ASSUME NEW y \in D, NEW z \in After(y) PROVE z \in D
    <3>1. y \in Channels /\ z \in Channels BY AfterIs
    <3>2. CASE z \notin Way(k) BY <3>1, <3>2
    <3>3. CASE z \in Way(k)
      <4>1. y \in Way(k) BY <2>3, <3>1, <3>3, AfterOnTheWay
      <4>2. c \in LeadsTo(y) BY <4>1
      <4>3. CASE y = c
        <5>1. z = d BY <2>3, <3>3, <4>3, OneAfter
        <5> QED BY <1>3, <3>1, <5>1
      <4>4. CASE y # c BY <1>1, <1>2, <2>3, <3>1, <3>3, <4>2, <4>4
      <4> QED BY <4>3, <4>4
    <3> QED BY <3>2, <3>3
  <2> DEFINE last == <<"sink", k>>
  <2>4. last \in LeadsTo(d) /\ last \in Way(k) BY WayIs DEF Way, OnTheWay
  <2>5. last \in D
    <3> HIDE DEF D, last
    <3> QED BY <2>2, <2>3, <2>4 DEF LeadsTo
  <2>6. c \in LeadsTo(last) /\ last \in Channels BY <2>4, <2>5
  <2>7. After(last) = {} BY DEF After
  <2> HIDE DEF last
  <2>8. c = last BY <2>6, <2>7, LeadsThrough
  <2> QED BY <2>7, <2>8
<1> QED BY <1>1, <1>3

-----------------------------------------------------------------------------
(* What is held on a way: content[c] is what is in channel c or has just   *)
(* been taken from it, ahead[c] what it leads to; of the sources in        *)
(* ordered, entries[s] is where their events come in.  No event is held    *)
(* twice, and an earlier event of such a source is never behind a later.   *)
NoneTwice(places, content) ==
  \A c, d \in places : \A i \in DOMAIN content[c], j \in DOMAIN content[d] :
    content[c][i] = content[d][j] => c = d /\ i = j
NotOvertaken(places, ahead, ordered, content) ==
  \A c, d \in places : \A i \in DOMAIN content[c], j \in DOMAIN content[d] :
    /\ content[c][i][1] = content[d][j][1] /\ content[c][i][1] \in ordered
    /\ content[d][j][2] < content[c][i][2]
    => d \in ahead[c] /\ (c = d => j < i)
Entered(places, ahead, ordered, entries, content) ==
  \A c \in places : \A i \in DOMAIN content[c] :
    content[c][i][1] \in ordered => \A x \in entries[content[c][i][1]] : c \in ahead[x]
Flow(places, ahead, ordered, entries, content) ==
  /\ NoneTwice(places, content)
  /\ NotOvertaken(places, ahead, ordered, content)
  /\ Entered(places, ahead, ordered, entries, content)

Numbered == SourceIds \X Nat

LEMMA NumberedIs == \A e \in Numbered : e[1] \in SourceIds /\ e[2] \in Nat
BY DEF Numbered

(* The first of what some channels held is gone.                           *)
Dropped(places, content, content2) ==
  /\ content2 \in [places -> Seq(Numbered)]
  /\ \E off \in [places -> Nat] :
       \A c \in places : \A i \in DOMAIN content2[c] :
         i + off[c] \in DOMAIN content[c] /\ content2[c][i] = content[c][i + off[c]]

(* Event e may come to d: it is nowhere yet, and if its source is one of   *)
(* these the earlier ones are at d or beyond, the later ones behind.       *)
MayCome(places, ahead, ordered, entries, content, d, e) ==
  /\ \A x \in places : \A i \in DOMAIN content[x] :
       /\ content[x][i] # e
       /\ content[x][i][1] = e[1] /\ e[1] \in ordered =>
            /\ content[x][i][2] < e[2] => x \in ahead[d]
            /\ e[2] < content[x][i][2] => d \in ahead[x] /\ x # d
  /\ e[1] \in ordered => \A x \in entries[e[1]] : d \in ahead[x]

LEMMA FlowDrops ==
  ASSUME NEW places, NEW ahead, NEW ordered, NEW entries, NEW content, NEW content2,
         content \in [places -> Seq(Numbered)],
         Flow(places, ahead, ordered, entries, content),
         Dropped(places, content, content2)
  PROVE  Flow(places, ahead, ordered, entries, content2)
<1>4. PICK off \in [places -> Nat] :
        \A c \in places : \A i \in DOMAIN content2[c] :
          i + off[c] \in DOMAIN content[c] /\ content2[c][i] = content[c][i + off[c]]
  BY DEF Dropped
<1>5. content2 \in [places -> Seq(Numbered)] BY DEF Dropped
<1>0. \A c \in places : off[c] \in Nat /\ DOMAIN content2[c] \subseteq Nat
  <2> SUFFICES ASSUME NEW c \in places PROVE off[c] \in Nat /\ DOMAIN content2[c] \subseteq Nat
    OBVIOUS
  <2>1. content2[c] \in Seq(Numbered) BY <1>5, Zenon
  <2> QED BY <2>1
<1>1. ASSUME NEW c \in places, NEW d \in places, NEW i \in DOMAIN content2[c], NEW j \in DOMAIN content2[d]
      PROVE  /\ content2[c][i] = content2[d][j] => c = d /\ i = j
             /\ /\ content2[c][i][1] = content2[d][j][1] /\ content2[c][i][1] \in ordered
                /\ content2[d][j][2] < content2[c][i][2]
                => d \in ahead[c] /\ (c = d => j < i)
  <2> DEFINE m == i + off[c]
             n == j + off[d]
  <2>1. m \in DOMAIN content[c] /\ content2[c][i] = content[c][m] BY <1>4
  <2>2. n \in DOMAIN content[d] /\ content2[d][j] = content[d][n] BY <1>4
  <2>3. c = d => (m = n => i = j) /\ (n < m => j < i)
    <3>1. off[c] \in Nat /\ off[d] \in Nat /\ i \in Nat /\ j \in Nat BY <1>0
    <3>2. c = d => off[c] = off[d] OBVIOUS
    <3> QED BY <3>1, <3>2
  <2> HIDE DEF m, n
  <2>4. content[c][m] = content[d][n] => c = d /\ m = n BY <2>1, <2>2 DEF Flow, NoneTwice, NotOvertaken, Entered
  <2>5. /\ content[c][m][1] = content[d][n][1] /\ content[c][m][1] \in ordered
        /\ content[d][n][2] < content[c][m][2]
        => d \in ahead[c] /\ (c = d => n < m)
    BY <2>1, <2>2 DEF Flow, NoneTwice, NotOvertaken, Entered
  <2> QED BY <2>1, <2>2, <2>3, <2>4, <2>5
<1>2. ASSUME NEW c \in places, NEW i \in DOMAIN content2[c], content2[c][i][1] \in ordered
      PROVE  \A x \in entries[content2[c][i][1]] : c \in ahead[x]
  BY <1>2, <1>4 DEF Flow, NoneTwice, NotOvertaken, Entered
<1>8. NoneTwice(places, content2) BY <1>1 DEF NoneTwice
<1>9. NotOvertaken(places, ahead, ordered, content2) BY <1>1 DEF NotOvertaken
<1>10. Entered(places, ahead, ordered, entries, content2) BY <1>2 DEF Entered
<1> QED BY <1>8, <1>9, <1>10 DEF Flow

LEMMA FlowEnters ==
  ASSUME NEW places, NEW ahead, NEW ordered, NEW entries, NEW content, NEW content2,
         content \in [places -> Seq(Numbered)],
         Flow(places, ahead, ordered, entries, content),
         NEW d \in places, NEW e \in Numbered,
         content2 = [content EXCEPT ![d] = Append(content[d], e)],
         MayCome(places, ahead, ordered, entries, content, d, e)
  PROVE  Flow(places, ahead, ordered, entries, content2)
<1> DEFINE new == Len(content[d]) + 1
<1>1. content[d] \in Seq(Numbered) BY Zenon
<1>2. /\ DOMAIN content[d] \subseteq 1 .. Len(content[d]) /\ Len(content[d]) \in Nat
      /\ content2[d] = Append(content[d], e)
  BY <1>1
<1>3. /\ DOMAIN content2[d] = 1 .. Len(content[d]) + 1 /\ DOMAIN content[d] = 1 .. Len(content[d])
      /\ \A i \in 1 .. Len(content[d]) : content2[d][i] = content[d][i]
      /\ content2[d][new] = e
  <2> DEFINE q == content[d]
  <2>1. q \in Seq(Numbered) BY <1>1
  <2>2. content2[d] = Append(q, e) BY <1>2
  <2> HIDE DEF q
  <2>3. /\ Append(q, e) \in Seq(Numbered) /\ Len(Append(q, e)) = Len(q) + 1
        /\ \A i \in 1 .. Len(q) : Append(q, e)[i] = q[i]
        /\ Append(q, e)[Len(q) + 1] = e
    BY <2>1, AppendProperties
  <2>4. DOMAIN Append(q, e) = 1 .. Len(q) + 1 /\ DOMAIN q = 1 .. Len(q) BY <2>1, <2>3
  <2> QED BY <2>2, <2>3, <2>4 DEF q
<1>4. \A c \in places : c # d => content2[c] = content[c] OBVIOUS
<1>5. ASSUME NEW c \in places, NEW i \in DOMAIN content2[c]
      PROVE  \/ i \in DOMAIN content[c] /\ content2[c][i] = content[c][i] /\ (c = d => i < new)
             \/ c = d /\ i = new /\ content2[c][i] = e
  <2>1. CASE c # d BY <1>4, <2>1
  <2>2. CASE c = d
    <3>1. i \in 1 .. Len(content[d]) \/ i = new BY <1>2, <1>3, <2>2
    <3> QED BY <1>2, <1>3, <2>2, <3>1
  <2> QED BY <2>1, <2>2
<1> HIDE DEF new
<1>6. ASSUME NEW c \in places, NEW b \in places, NEW i \in DOMAIN content2[c], NEW j \in DOMAIN content2[b]
      PROVE  /\ content2[c][i] = content2[b][j] => c = b /\ i = j
             /\ /\ content2[c][i][1] = content2[b][j][1] /\ content2[c][i][1] \in ordered
                /\ content2[b][j][2] < content2[c][i][2]
                => b \in ahead[c] /\ (c = b => j < i)
  <2>1. CASE /\ i \in DOMAIN content[c] /\ content2[c][i] = content[c][i]
             /\ j \in DOMAIN content[b] /\ content2[b][j] = content[b][j]
    <3>1. content[c][i] = content[b][j] => c = b /\ i = j BY <2>1 DEF Flow, NoneTwice, NotOvertaken, Entered
    <3>2. /\ content[c][i][1] = content[b][j][1] /\ content[c][i][1] \in ordered
          /\ content[b][j][2] < content[c][i][2]
          => b \in ahead[c] /\ (c = b => j < i)
      BY <2>1 DEF Flow, NoneTwice, NotOvertaken, Entered
    <3> QED BY <2>1, <3>1, <3>2
  <2>2. CASE /\ i \in DOMAIN content[c] /\ content2[c][i] = content[c][i]
             /\ b = d /\ j = new /\ content2[b][j] = e
    <3>1. content[c][i] # e /\ (content[c][i][1] = e[1] /\ e[1] \in ordered
             => (e[2] < content[c][i][2] => d \in ahead[c] /\ c # d))
      BY <2>2 DEF MayCome
    <3> QED BY <2>2, <3>1
  <2>3. CASE /\ j \in DOMAIN content[b] /\ content2[b][j] = content[b][j] /\ (b = d => j < new)
             /\ c = d /\ i = new /\ content2[c][i] = e
    <3>1. content[b][j] # e /\ (content[b][j][1] = e[1] /\ e[1] \in ordered
             => (content[b][j][2] < e[2] => b \in ahead[d]))
      BY <2>3 DEF MayCome
    <3> QED BY <2>3, <3>1
  <2>4. CASE /\ c = d /\ i = new /\ content2[c][i] = e
             /\ b = d /\ j = new /\ content2[b][j] = e
    <3>1. e[2] \in Nat BY NumberedIs
    <3>2. ~(e[2] < e[2]) BY <3>1
    <3> QED BY <2>4, <3>2
  <2>5. \/ i \in DOMAIN content[c] /\ content2[c][i] = content[c][i] /\ (c = d => i < new)
        \/ c = d /\ i = new /\ content2[c][i] = e
    BY <1>5
  <2>6. \/ j \in DOMAIN content[b] /\ content2[b][j] = content[b][j] /\ (b = d => j < new)
        \/ b = d /\ j = new /\ content2[b][j] = e
    BY <1>5
  <2> QED BY <2>1, <2>2, <2>3, <2>4, <2>5, <2>6, Zenon
<1>7. ASSUME NEW c \in places, NEW i \in DOMAIN content2[c], content2[c][i][1] \in ordered
      PROVE  \A x \in entries[content2[c][i][1]] : c \in ahead[x]
  <2>1. CASE i \in DOMAIN content[c] /\ content2[c][i] = content[c][i] BY <1>7, <2>1 DEF Flow, NoneTwice, NotOvertaken, Entered
  <2>2. CASE c = d /\ content2[c][i] = e BY <1>7, <2>2 DEF MayCome
  <2> QED BY <1>5, <2>1, <2>2
<1>8. NoneTwice(places, content2) BY <1>6 DEF NoneTwice
<1>9. NotOvertaken(places, ahead, ordered, content2) BY <1>6 DEF NotOvertaken
<1>10. Entered(places, ahead, ordered, entries, content2) BY <1>7 DEF Entered
<1> QED BY <1>8, <1>9, <1>10 DEF Flow

(* An event moves on: it was the first of what c holds, d is the next      *)
(* channel.                                                                *)
Moved(places, content, content2, c, d, e, tail) ==
  /\ c # d /\ content[c] = <<e>> \o tail
  /\ content2 = [x \in places |-> IF x = c THEN tail
                                  ELSE IF x = d THEN Append(content[d], e) ELSE content[x]]
NextTo(places, ahead, ordered, entries, c, d) ==
  /\ d \in ahead[c] /\ c \notin ahead[d]
  /\ \A x \in places : x \in ahead[c] /\ x # c => x \in ahead[d]
  /\ \A x \in places : c \in ahead[x] => d \in ahead[x]
  /\ \A s \in ordered : entries[s] \subseteq places

LEMMA FlowMoves ==
  ASSUME NEW places, NEW ahead, NEW ordered, NEW entries, NEW content, NEW content2,
         content \in [places -> Seq(Numbered)],
         Flow(places, ahead, ordered, entries, content),
         NEW c \in places, NEW d \in places, NEW e \in Numbered, NEW tail \in Seq(Numbered),
         Moved(places, content, content2, c, d, e, tail),
         NextTo(places, ahead, ordered, entries, c, d)
  PROVE  Flow(places, ahead, ordered, entries, content2)
<1>11. /\ c # d /\ content[c] = <<e>> \o tail
       /\ content2 = [x \in places |-> IF x = c THEN tail
                                       ELSE IF x = d THEN Append(content[d], e) ELSE content[x]]
  BY DEF Moved
<1>12. /\ c # d /\ d \in ahead[c] /\ c \notin ahead[d]
       /\ \A x \in places : x \in ahead[c] /\ x # c => x \in ahead[d]
       /\ \A x \in places : c \in ahead[x] => d \in ahead[x]
       /\ \A s \in ordered : entries[s] \subseteq places
  BY DEF Moved, NextTo
<1> DEFINE mid == [content EXCEPT ![c] = tail]
           off == [x \in places |-> IF x = c THEN 1 ELSE 0]
           one == <<e>>
<1>1. /\ Len(tail) \in Nat /\ DOMAIN tail = 1 .. Len(tail)
      /\ DOMAIN content[c] = 1 .. 1 + Len(tail) /\ content[c][1] = e
      /\ \A i \in 1 .. Len(tail) : content[c][i + 1] = tail[i]
  <2>1. one \in Seq(Numbered) /\ Len(one) = 1 /\ one[1] = e OBVIOUS
  <2>2. content[c] = one \o tail BY <1>11
  <2> HIDE DEF one
  <2>3. /\ one \o tail \in Seq(Numbered) /\ Len(one \o tail) = Len(one) + Len(tail)
        /\ \A i \in 1 .. Len(one) + Len(tail) :
             (one \o tail)[i] = IF i <= Len(one) THEN one[i] ELSE tail[i - Len(one)]
    BY <2>1, ConcatProperties
  <2>4. Len(tail) \in Nat /\ DOMAIN tail = 1 .. Len(tail) OBVIOUS
  <2>5. DOMAIN content[c] = 1 .. 1 + Len(tail) /\ content[c][1] = e
    BY <2>1, <2>2, <2>3, <2>4
  <2>6. ASSUME NEW i \in 1 .. Len(tail) PROVE content[c][i + 1] = tail[i]
    <3>1. i + 1 \in 1 .. Len(one) + Len(tail) /\ ~(i + 1 <= Len(one)) /\ (i + 1) - Len(one) = i
      BY <2>1, <2>4
    <3> QED BY <2>2, <2>3, <3>1
  <2> QED BY <2>4, <2>5, <2>6
<1>2. mid \in [places -> Seq(Numbered)] /\ off \in [places -> Nat] OBVIOUS
<1>3. mid[c] = tail /\ off[c] = 1 /\ \A x \in places \ {c} : mid[x] = content[x] /\ off[x] = 0
  OBVIOUS
<1>4. content2 = [mid EXCEPT ![d] = Append(mid[d], e)] BY <1>11
<1> HIDE DEF mid, off, one
<1>5. ASSUME NEW x \in places, NEW i \in DOMAIN mid[x]
      PROVE  /\ i + off[x] \in DOMAIN content[x] /\ mid[x][i] = content[x][i + off[x]]
             /\ x = c => i + off[x] # 1 /\ ~(i + off[x] < 1)
  <2>1. CASE x = c
    <3>1. i \in 1 .. Len(tail) BY <1>1, <1>3, <2>1
    <3>2. i + 1 \in 1 .. 1 + Len(tail) /\ i + 1 # 1 /\ ~(i + 1 < 1) BY <1>1, <3>1
    <3> QED BY <1>1, <1>3, <2>1, <3>1, <3>2
  <2>2. CASE x # c
    <3>1. content[x] \in Seq(Numbered) /\ mid[x] = content[x] BY <1>3, <2>2
    <3>2. i \in Nat BY <3>1
    <3>3. i + 0 = i BY <3>2
    <3> QED BY <1>3, <2>2, <3>1, <3>3
  <2> QED BY <2>1, <2>2
<1>6. Flow(places, ahead, ordered, entries, mid)
  <2>1. \A x \in places : \A i \in DOMAIN mid[x] :
          i + off[x] \in DOMAIN content[x] /\ mid[x][i] = content[x][i + off[x]]
    BY <1>5
  <2>2. Dropped(places, content, mid) BY <1>2, <2>1 DEF Dropped
  <2> QED BY <2>2, FlowDrops
<1>7. 1 \in DOMAIN content[c] BY <1>1
<1>8. ASSUME NEW x \in places, NEW i \in DOMAIN mid[x]
      PROVE  /\ mid[x][i] # e
             /\ mid[x][i][1] = e[1] /\ e[1] \in ordered =>
                  /\ mid[x][i][2] < e[2] => x \in ahead[d]
                  /\ e[2] < mid[x][i][2] => d \in ahead[x] /\ x # d
  <2> DEFINE n == i + off[x]
  <2>1. n \in DOMAIN content[x] /\ mid[x][i] = content[x][n] /\ (x = c => n # 1 /\ ~(n < 1))
    BY <1>5
  <2> HIDE DEF n
  <2>2. content[x][n] # e BY <1>1, <1>7, <2>1 DEF Flow, NoneTwice, NotOvertaken, Entered
  <2>3. ASSUME content[x][n][1] = e[1], e[1] \in ordered, content[x][n][2] < e[2]
        PROVE  x \in ahead[d]
    <3>1. x \in ahead[c] /\ (c = x => n < 1) BY <1>1, <1>7, <2>1, <2>3 DEF Flow, NoneTwice, NotOvertaken, Entered
    <3>2. x # c BY <2>1, <3>1
    <3> QED BY <1>12, <3>1, <3>2
  <2>4. ASSUME content[x][n][1] = e[1], e[1] \in ordered, e[2] < content[x][n][2]
        PROVE  d \in ahead[x] /\ x # d
    <3>1. c \in ahead[x] BY <1>1, <1>7, <2>1, <2>4 DEF Flow, NoneTwice, NotOvertaken, Entered
    <3> QED BY <1>12, <3>1
  <2> QED BY <2>1, <2>2, <2>3, <2>4
<1>9. e[1] \in ordered => \A x \in entries[e[1]] : d \in ahead[x]
  <2> SUFFICES ASSUME e[1] \in ordered, NEW x \in entries[e[1]] PROVE d \in ahead[x] OBVIOUS
  <2>1. c \in ahead[x] BY <1>1, <1>7 DEF Flow, NoneTwice, NotOvertaken, Entered
  <2> QED BY <1>12, <2>1
<1>10. MayCome(places, ahead, ordered, entries, mid, d, e) BY <1>8, <1>9 DEF MayCome
<1> QED BY <1>2, <1>4, <1>6, <1>10, FlowEnters

-----------------------------------------------------------------------------
(* What a channel on the way to sink k holds: what its reader has taken    *)
(* and not yet sent on this way, or has written, and what is queued in it. *)
AheadOf(k, w) ==
  IF worker[w].state = "sending" /\ worker[w].left \cap Way(k) # {}
  THEN <<worker[w].event>> ELSE <<>>
InHand(k, c) == IF c[1] = "sink" THEN written[c[2]] ELSE AheadOf(k, <<c[2], c[3]>>)
Queue(c) == IF c[1] = "sink" THEN sinkChan[c[2]] ELSE inChan[<<c[2], c[3]>>]
Contents(k) == [c \in Way(k) |-> InHand(k, c) \o Queue(c)]

Leads(k) == [c \in Way(k) |-> LeadsTo(c)]
Ordered(k) == {s \in SourceIds : OneEntry(s, k)}
EntriesOf(k) ==
  [s \in SourceIds |-> {Entry(a) : a \in {b \in Adapters : b[1] = s /\ Entry(b) \in Way(k)}}]

DagTyped ==
  /\ made \in [SourceIds -> Nat]
  /\ srcChan \in [SourceIds -> Seq(Numbered)]
  /\ inChan \in [InputChannels -> Seq(Numbered)]
  /\ sinkChan \in [SinkIds -> Seq(Numbered)]
  /\ written \in [SinkIds -> Seq(Numbered)]
  /\ adapter = [a \in Adapters |-> adapter[a]]
  /\ \A a \in Adapters : adapter[a].state = "sending" => adapter[a].event \in Numbered
  /\ worker = [w \in InputChannels |-> worker[w]]
  /\ \A w \in InputChannels : worker[w].state = "sending" =>
       worker[w].event \in Numbered /\ worker[w].left \subseteq OutputChannels(w[1])

(* A source numbers its events, and they leave its channel in this order:  *)
(* what has left comes before all that is still there.                     *)
HasLeft(e) ==
  /\ e[2] <= made[e[1]]
  /\ \A i \in DOMAIN srcChan[e[1]] : e[2] < srcChan[e[1]][i][2]
SourcesKnown ==
  \A s \in SourceIds : \A i \in DOMAIN srcChan[s] :
    /\ srcChan[s][i][1] = s /\ srcChan[s][i][2] <= made[s]
    /\ \A j \in DOMAIN srcChan[s] : i < j => srcChan[s][i][2] < srcChan[s][j][2]
AdaptersKnown ==
  /\ \A a \in Adapters : adapter[a].state = "sending" =>
       adapter[a].event[1] = a[1] /\ HasLeft(adapter[a].event)
  /\ \A a, b \in Adapters :
       adapter[a].state = "sending" /\ adapter[b].state = "sending" /\ a # b =>
         adapter[a].event # adapter[b].event

(* What is on the way has left its source, and what an adapter is about to *)
(* send is not among it and later than all of its source.                  *)
EventKnown(k, e) ==
  /\ HasLeft(e)
  /\ \A a \in Adapters : adapter[a].state = "sending" =>
       /\ e # adapter[a].event
       /\ Entry(a) \in Way(k) /\ a[1] \in Ordered(k) /\ e[1] = a[1] =>
            e[2] < adapter[a].event[2]
EventsKnown(k) ==
  \A c \in Way(k) : \A i \in DOMAIN Contents(k)[c] : EventKnown(k, Contents(k)[c][i])
SinkFlow(k) ==
  /\ Flow(Way(k), Leads(k), Ordered(k), EntriesOf(k), Contents(k))
  /\ EventsKnown(k)
DagInvariant ==
  /\ DagTyped /\ SourcesKnown /\ AdaptersKnown
  /\ \A k \in SinkIds : OneWay(k) => SinkFlow(k)

LEMMA SameGraph ==
  ASSUME UNCHANGED topology
  PROVE  /\ UNCHANGED <<SourceIds, ProcessorIds, SinkIds, InputChannels, Adapters, Channels,
                        Numbered>>
         /\ \A p : OutputChannels(p)' = OutputChannels(p)
<1>1. UNCHANGED <<SourceIds, ProcessorIds, SinkIds, InputChannels, Adapters, Numbered>>
  BY DEF SourceIds, ProcessorIds, SinkIds, InputChannels, Adapters, Numbered
<1>2. UNCHANGED Channels BY <1>1 DEF Channels
<1>3. ASSUME NEW p PROVE OutputChannels(p)' = OutputChannels(p)
  BY DEF OutputChannels, ProcessorIds, SinkIds
<1> QED BY <1>1, <1>2, <1>3

LEMMA SameWays ==
  ASSUME UNCHANGED topology
  PROVE  \A k : /\ Way(k)' = Way(k) /\ Leads(k)' = Leads(k)
                /\ Ordered(k)' = Ordered(k) /\ EntriesOf(k)' = EntriesOf(k)
                /\ OneWay(k)' = OneWay(k)
<1>1. ASSUME NEW c PROVE After(c)' = After(c) BY SameGraph DEF After
<1>2. ASSUME NEW c PROVE LeadsTo(c)' = LeadsTo(c) BY <1>1, SameGraph DEF LeadsTo
<1>3. ASSUME NEW c, NEW k PROVE OnTheWay(c, k)' = OnTheWay(c, k) BY <1>2 DEF OnTheWay
<1>4. ASSUME NEW k PROVE Way(k)' = Way(k) BY <1>3, SameGraph DEF Way
<1>5. ASSUME NEW k PROVE Leads(k)' = Leads(k) BY <1>2, <1>4 DEF Leads
<1>6. ASSUME NEW k, NEW s PROVE OneEntry(s, k)' = OneEntry(s, k) BY <1>3, SameGraph DEF OneEntry
<1>7. ASSUME NEW k PROVE Ordered(k)' = Ordered(k) BY <1>6, SameGraph DEF Ordered
<1>8. ASSUME NEW k PROVE EntriesOf(k)' = EntriesOf(k) BY <1>4, SameGraph DEF EntriesOf
<1>9. ASSUME NEW k PROVE OneWay(k)' = OneWay(k) BY <1>3, SameGraph DEF OneWay
<1> QED BY <1>4, <1>5, <1>7, <1>8, <1>9

LEMMA HandTyped ==
  ASSUME DagTyped, NEW k \in SinkIds, NEW c \in Way(k)
  PROVE  InHand(k, c) \in Seq(Numbered) /\ Queue(c) \in Seq(Numbered)
<1>1. c \in Channels BY DEF Way
<1>2. CASE c[1] = "sink" BY <1>1, <1>2, ChannelIs DEF DagTyped, InHand, Queue
<1>3. CASE c[1] = "in" /\ <<c[2], c[3]>> \in InputChannels
  <2> DEFINE w == <<c[2], c[3]>>
  <2>1. w \in InputChannels BY <1>3
  <2> HIDE DEF w
  <2>2. inChan[w] \in Seq(Numbered) BY <2>1 DEF DagTyped
  <2>3. worker[w].state = "sending" => worker[w].event \in Numbered BY <2>1 DEF DagTyped
  <2>4. AheadOf(k, w) \in Seq(Numbered) BY <2>3 DEF AheadOf
  <2> QED BY <1>3, <2>2, <2>4 DEF InHand, Queue, w
<1> QED BY <1>1, <1>2, <1>3, ChannelIs

LEMMA ContentsTyped ==
  ASSUME DagTyped, NEW k \in SinkIds
  PROVE  Contents(k) \in [Way(k) -> Seq(Numbered)]
<1>1. ASSUME NEW c \in Way(k) PROVE InHand(k, c) \o Queue(c) \in Seq(Numbered)
  BY HandTyped, ConcatProperties
<1> QED BY <1>1 DEF Contents

LEMMA ContentsStayTyped ==
  (DagTyped => \A k \in SinkIds : Contents(k) \in [Way(k) -> Seq(Numbered)])'
<1>1. DagTyped => \A k \in SinkIds : Contents(k) \in [Way(k) -> Seq(Numbered)]
  BY ContentsTyped
<1> QED BY <1>1, PTL

LEMMA HeldInChannel ==
  ASSUME DagTyped, NEW k \in SinkIds, NEW x \in Way(k), NEW i \in DOMAIN Contents(k)[x]
  PROVE  Contents(k)[x][i] \in Numbered
<1> DEFINE q == Contents(k)[x]
<1>1. q \in Seq(Numbered) BY ContentsTyped
<1> HIDE DEF q
<1>2. i \in DOMAIN q BY DEF q
<1>3. q[i] \in Numbered BY <1>1, <1>2
<1> QED BY <1>3 DEF q

(* A step that brings nothing new on the way: what it leaves there was     *)
(* there.                                                                  *)
NothingNew(k) ==
  \A c \in Way(k)' : \A i \in DOMAIN Contents(k)'[c] :
    \E d \in Way(k) : \E j \in DOMAIN Contents(k)[d] : Contents(k)'[c][i] = Contents(k)[d][j]
SourcesMoveOn ==
  /\ \A e \in Numbered : HasLeft(e) => HasLeft(e)'
  /\ \A a \in Adapters : adapter'[a].state = "sending" =>
       \/ adapter[a].state = "sending" /\ adapter'[a].event = adapter[a].event
       \/ \A e \in Numbered : HasLeft(e) =>
            e # adapter'[a].event /\ (e[1] = a[1] => e[2] < adapter'[a].event[2])

LEMMA EventStaysKnown ==
  ASSUME UNCHANGED topology, NEW k, NEW e \in Numbered, EventKnown(k, e), SourcesMoveOn
  PROVE  EventKnown(k, e)'
<1>1. HasLeft(e)' BY DEF EventKnown, SourcesMoveOn
<1>2. ASSUME NEW a \in Adapters, adapter'[a].state = "sending"
      PROVE  /\ e # adapter'[a].event
             /\ Entry(a) \in Way(k) /\ a[1] \in Ordered(k) /\ e[1] = a[1] =>
                  e[2] < adapter'[a].event[2]
  <2>1. CASE adapter[a].state = "sending" /\ adapter'[a].event = adapter[a].event
    BY <2>1 DEF EventKnown
  <2>2. CASE \A f \in Numbered : HasLeft(f) =>
               f # adapter'[a].event /\ (f[1] = a[1] => f[2] < adapter'[a].event[2])
    BY <2>2 DEF EventKnown
  <2> QED BY <1>2, <2>1, <2>2 DEF SourcesMoveOn
<1>3. UNCHANGED Adapters BY SameGraph
<1>4. Way(k)' = Way(k) /\ Ordered(k)' = Ordered(k) BY SameWays
<1>5. \A a : Entry(a)' = Entry(a) BY DEF Entry
<1> QED BY <1>1, <1>2, <1>3, <1>4, <1>5 DEF EventKnown

LEMMA EventsStayKnown ==
  ASSUME UNCHANGED topology, DagTyped, NEW k \in SinkIds, EventsKnown(k), SourcesMoveOn,
         NothingNew(k)
  PROVE  EventsKnown(k)'
<1>1. ASSUME NEW e \in Numbered, EventKnown(k, e) PROVE EventKnown(k, e)'
  BY <1>1, EventStaysKnown
<1>2. ASSUME NEW d \in Way(k), NEW j \in DOMAIN Contents(k)[d]
      PROVE  Contents(k)[d][j] \in Numbered
  BY HeldInChannel
<1>3. ASSUME NEW c \in Way(k)', NEW i \in DOMAIN Contents(k)'[c]
      PROVE  EventKnown(k, Contents(k)[c][i])'
  <2>1. PICK d \in Way(k) : \E j \in DOMAIN Contents(k)[d] : Contents(k)'[c][i] = Contents(k)[d][j]
    BY DEF NothingNew
  <2>2. PICK j \in DOMAIN Contents(k)[d] : Contents(k)'[c][i] = Contents(k)[d][j] BY <2>1
  <2>3. Contents(k)[d][j] \in Numbered /\ EventKnown(k, Contents(k)[d][j])
    BY <1>2, <2>2 DEF EventsKnown
  <2>4. PICK e \in Numbered : e = Contents(k)[d][j] BY <2>3
  <2>5. EventKnown(k, e) BY <2>3, <2>4
  <2>6. EventKnown(k, e)' BY <1>1, <2>5
  <2>7. e = Contents(k)'[c][i] BY <2>2, <2>4
  <2> QED BY <2>6, <2>7 DEF EventKnown, HasLeft
<1> QED BY <1>3 DEF EventsKnown

LEMMA AdapterIs ==
  ASSUME NEW a \in Adapters
  PROVE  /\ a[1] \in SourceIds /\ <<a[2], a[3]>> \in InputChannels
         /\ a = <<a[1], a[2], a[3]>> /\ Entry(a) \in Channels
<1>1. PICK p \in topology.processors :
        \E s \in topology.inputs[p] \cap topology.sources :
          a \in {<<s, p, type>> : type \in topology.out[s]}
  BY DEF Adapters, AdaptersOf
<1>2. PICK s \in topology.inputs[p] \cap topology.sources :
        a \in {<<s, p, type>> : type \in topology.out[s]}
  BY <1>1
<1>3. PICK t \in topology.out[s] : a = <<s, p, t>> BY <1>2
<1>4. a[1] = s /\ a[2] = p /\ a[3] = t BY <1>3
<1>5. t \in InputTypes(topology, p) BY DEF InputTypes
<1> DEFINE w == <<p, t>>
<1>6. w \in InputChannels BY <1>5 DEF InputChannels, InputChannelsOf
<1>7. w[1] = p /\ w[2] = t OBVIOUS
<1>8. <<"in", p, t>> \in Channels BY <1>6, <1>7 DEF Channels
<1> QED BY <1>3, <1>4, <1>6, <1>8 DEF SourceIds, Entry

LEMMA SourcesStay ==
  ASSUME UNCHANGED <<topology, made, srcChan>>, SourcesKnown, AdaptersKnown,
         \A a \in Adapters : adapter'[a].state = "sending" =>
           adapter[a].state = "sending" /\ adapter'[a].event = adapter[a].event
  PROVE  SourcesKnown' /\ AdaptersKnown' /\ SourcesMoveOn
<1>1. UNCHANGED <<SourceIds, Adapters>> BY SameGraph
<1>2. SourcesKnown' BY <1>1 DEF SourcesKnown
<1>3. \A e : HasLeft(e)' = HasLeft(e) BY DEF HasLeft
<1>4. \A a \in Adapters : adapter'[a].state = "sending" => HasLeft(adapter[a].event)'
  BY <1>3 DEF AdaptersKnown
<1>5. \A a \in Adapters : adapter'[a].state = "sending" =>
        adapter'[a].event[1] = a[1] /\ (HasLeft(adapter[a].event))'
  BY <1>3 DEF AdaptersKnown, HasLeft
<1>6. AdaptersKnown' BY <1>1, <1>5 DEF AdaptersKnown
<1>7. SourcesMoveOn BY <1>3 DEF SourcesMoveOn
<1> QED BY <1>2, <1>6, <1>7

LEMMA SourceSendsKeeps ==
  ASSUME DagTyped, SourcesKnown, AdaptersKnown, NEW s \in SourceIds, SourceSends(s)
  PROVE  /\ SourcesKnown' /\ AdaptersKnown' /\ SourcesMoveOn
         /\ made' \in [SourceIds -> Nat] /\ srcChan' \in [SourceIds -> Seq(Numbered)]
<1> DEFINE new == <<s, made[s] + 1>>
           q == srcChan[s]
<1>1. /\ UNCHANGED <<topology, adapter>>
      /\ made' = [made EXCEPT ![s] = @ + 1]
      /\ srcChan' = [srcChan EXCEPT ![s] = Append(q, new)]
  BY DEF SourceSends
<1>2. made[s] \in Nat /\ q \in Seq(Numbered) BY DEF DagTyped
<1>3. new \in Numbered /\ new[1] = s /\ new[2] = made[s] + 1 BY <1>2 DEF Numbered
<1>4. made \in [SourceIds -> Nat] /\ srcChan \in [SourceIds -> Seq(Numbered)] BY DEF DagTyped
<1> HIDE DEF new, q
<1>5. /\ Append(q, new) \in Seq(Numbered) /\ Len(Append(q, new)) = Len(q) + 1
      /\ \A i \in 1 .. Len(q) : Append(q, new)[i] = q[i]
      /\ Append(q, new)[Len(q) + 1] = new
  BY <1>2, <1>3, AppendProperties
<1>6. Len(q) \in Nat /\ DOMAIN q = 1 .. Len(q) /\ DOMAIN Append(q, new) = 1 .. Len(q) + 1
  BY <1>2, <1>5
<1>7. \A r \in SourceIds : /\ made'[r] \in Nat /\ made[r] \in Nat /\ made[r] <= made'[r]
                           /\ r # s => made'[r] = made[r] /\ srcChan'[r] = srcChan[r]
  BY <1>1, <1>2, <1>4
<1>8. made'[s] = made[s] + 1 /\ srcChan'[s] = Append(q, new) BY <1>1, <1>4
<1>9. UNCHANGED <<SourceIds, Adapters, Numbered>> BY <1>1, SameGraph
<1>10. ASSUME NEW e \in Numbered, HasLeft(e) PROVE HasLeft(e)'
  <2>1. e[1] \in SourceIds /\ e[2] \in Nat BY NumberedIs
  <2>2. e[2] <= made'[e[1]] BY <1>7, <1>10, <2>1 DEF HasLeft
  <2>3. CASE e[1] # s BY <1>7, <1>10, <2>1, <2>2, <2>3 DEF HasLeft
  <2>4. CASE e[1] = s
    <3>1. ASSUME NEW i \in DOMAIN Append(q, new) PROVE e[2] < Append(q, new)[i][2]
      <4>1. CASE i \in 1 .. Len(q) BY <1>5, <1>6, <1>10, <2>4, <4>1 DEF HasLeft, q
      <4>2. CASE i = Len(q) + 1
        <5>1. e[2] <= made[s] BY <1>10, <2>4 DEF HasLeft
        <5>2. e[2] < made[s] + 1 BY <1>2, <2>1, <5>1
        <5> QED BY <1>3, <1>5, <4>2, <5>2
      <4> QED BY <1>6, <4>1, <4>2
    <3> QED BY <1>8, <2>2, <2>4, <3>1 DEF HasLeft
  <2> QED BY <2>3, <2>4
<1>11. SourcesMoveOn BY <1>1, <1>10 DEF SourcesMoveOn
<1>12. AdaptersKnown'
  <2>1. ASSUME NEW a \in Adapters, adapter[a].state = "sending"
        PROVE  adapter[a].event[1] = a[1] /\ (HasLeft(adapter[a].event))'
    <3>1. adapter[a].event \in Numbered /\ HasLeft(adapter[a].event) BY <2>1 DEF AdaptersKnown, DagTyped
    <3>2. PICK e \in Numbered : e = adapter[a].event BY <3>1
    <3>3. HasLeft(e)' BY <1>10, <3>1, <3>2
    <3> QED BY <1>1, <2>1, <3>2, <3>3 DEF AdaptersKnown, HasLeft
  <2> QED BY <1>1, <1>9, <2>1 DEF AdaptersKnown
<1>13. ASSUME NEW r \in SourceIds, NEW i \in DOMAIN srcChan'[r]
       PROVE  /\ srcChan'[r][i][1] = r /\ srcChan'[r][i][2] <= made'[r]
              /\ \A j \in DOMAIN srcChan'[r] : i < j => srcChan'[r][i][2] < srcChan'[r][j][2]
  <2>1. CASE r # s BY <1>7, <2>1 DEF SourcesKnown
  <2>2. CASE r = s
    <3>1. \A j \in 1 .. Len(q) : q[j] \in Numbered BY <1>2
    <3>2. \A j \in 1 .. Len(q) : q[j][2] \in Nat /\ q[j][1] = s /\ q[j][2] <= made[s]
      BY <1>6, <3>1, NumberedIs DEF SourcesKnown, q
    <3>3. \A j, h \in 1 .. Len(q) : h < j => q[h][2] < q[j][2]
      BY <1>6 DEF SourcesKnown, q
    <3>4. \A j \in 1 .. Len(q) : q[j][2] < made[s] + 1 /\ q[j][2] <= made[s] + 1 BY <1>2, <3>2
    <3>5. i \in 1 .. Len(q) + 1 BY <1>6, <1>8, <2>2
    <3>6. CASE i \in 1 .. Len(q)
      <4>1. ASSUME NEW j \in DOMAIN srcChan'[r], i < j PROVE srcChan'[r][i][2] < srcChan'[r][j][2]
        <5>1. j \in 1 .. Len(q) \/ j = Len(q) + 1 BY <1>6, <1>8, <2>2
        <5>2. CASE j \in 1 .. Len(q) BY <1>5, <1>8, <2>2, <3>3, <3>6, <4>1, <5>2
        <5>3. CASE j = Len(q) + 1 BY <1>3, <1>5, <1>8, <2>2, <3>4, <3>6, <5>3
        <5> QED BY <5>1, <5>2, <5>3
      <4>2. srcChan'[r][i] = q[i] BY <1>5, <1>8, <2>2, <3>6
      <4> QED BY <1>8, <2>2, <3>2, <3>4, <3>6, <4>1, <4>2
    <3>7. CASE i = Len(q) + 1
      <4>1. srcChan'[r][i] = new BY <1>5, <1>8, <2>2, <3>7
      <4>2. \A j \in DOMAIN srcChan'[r] : ~(i < j) BY <1>6, <1>8, <2>2, <3>7
      <4>3. made[s] + 1 <= made[s] + 1 BY <1>2
      <4> QED BY <1>3, <1>8, <2>2, <4>1, <4>2, <4>3
    <3> QED BY <1>6, <3>5, <3>6, <3>7
  <2> QED BY <2>1, <2>2
<1>14. SourcesKnown' BY <1>9, <1>13 DEF SourcesKnown
<1>15. made' \in [SourceIds -> Nat] BY <1>1, <1>2, <1>4
<1>16. srcChan' \in [SourceIds -> Seq(Numbered)] BY <1>1, <1>4, <1>5
<1> QED BY <1>11, <1>12, <1>14, <1>15, <1>16

LEMMA AdapterTakesKeeps ==
  ASSUME DagTyped, SourcesKnown, AdaptersKnown, NEW a \in Adapters, AdapterTakes(a)
  PROVE  /\ SourcesKnown' /\ AdaptersKnown' /\ SourcesMoveOn
         /\ srcChan' \in [SourceIds -> Seq(Numbered)]
         /\ adapter' = [b \in Adapters |-> adapter'[b]]
         /\ \A b \in Adapters : adapter'[b].state = "sending" => adapter'[b].event \in Numbered
<1> DEFINE s == a[1]
           q == srcChan[s]
<1>0. PICK first : first = Head(q) OBVIOUS
<1>1. /\ UNCHANGED <<topology, made>> /\ q # <<>>
      /\ adapter' = [adapter EXCEPT ![a] = Sending(first, {})]
      /\ srcChan' = [srcChan EXCEPT ![s] = Tail(q)]
  BY <1>0 DEF AdapterTakes
<1>2. s \in SourceIds BY AdapterIs
<1>3. made[s] \in Nat /\ q \in Seq(Numbered) /\ srcChan \in [SourceIds -> Seq(Numbered)]
  BY <1>2 DEF DagTyped
<1>4. \A i \in DOMAIN q : /\ q[i][1] = s /\ q[i][2] <= made[s]
                          /\ \A j \in DOMAIN q : i < j => q[i][2] < q[j][2]
  BY <1>2 DEF SourcesKnown
<1>5. /\ Len(q) \in Nat /\ DOMAIN q = 1 .. Len(q) /\ 1 \in DOMAIN q
      /\ first = q[1] /\ first \in Numbered /\ Tail(q) \in Seq(Numbered)
      /\ Len(Tail(q)) = Len(q) - 1 /\ DOMAIN Tail(q) = 1 .. Len(q) - 1
      /\ \A i \in 1 .. Len(q) - 1 : Tail(q)[i] = q[i + 1]
  <2> HIDE DEF q
  <2> QED BY <1>0, <1>1, <1>3, HeadTailProperties
<1>6. \A b \in Adapters : adapter'[b] = IF b = a THEN Sending(first, {}) ELSE adapter[b]
  BY <1>1 DEF DagTyped
<1>7. adapter'[a].state = "sending" /\ adapter'[a].event = first BY <1>6 DEF Sending
<1>8. adapter' = [b \in Adapters |-> adapter'[b]]
  <2>1. adapter = [b \in Adapters |-> adapter[b]] BY DEF DagTyped
  <2> QED BY <1>1, <2>1
<1>9. \A r \in SourceIds : srcChan'[r] = IF r = s THEN Tail(q) ELSE srcChan[r] BY <1>1, <1>3
<1>10. srcChan' \in [SourceIds -> Seq(Numbered)] BY <1>1, <1>3, <1>5
<1>11. UNCHANGED <<SourceIds, Adapters, Numbered>> BY <1>1, SameGraph
<1> HIDE DEF s, q
<1>12. ASSUME NEW e \in Numbered, HasLeft(e) PROVE HasLeft(e)'
  <2>1. e[1] \in SourceIds BY NumberedIs
  <2>2. CASE e[1] # s BY <1>1, <1>9, <1>12, <2>1, <2>2 DEF HasLeft
  <2>3. CASE e[1] = s
    <3>1. ASSUME NEW i \in DOMAIN Tail(q) PROVE e[2] < Tail(q)[i][2]
      <4>1. i + 1 \in DOMAIN q /\ Tail(q)[i] = q[i + 1] BY <1>5
      <4> QED BY <1>12, <2>3, <4>1 DEF HasLeft, q
    <3> QED BY <1>1, <1>2, <1>9, <1>12, <2>3, <3>1 DEF HasLeft
  <2> QED BY <2>2, <2>3
<1>13. ASSUME NEW e \in Numbered, HasLeft(e), e[1] = s PROVE e[2] < first[2]
  BY <1>5, <1>13 DEF HasLeft, q
<1>14. first[1] = s /\ first[2] \in Nat BY <1>4, <1>5, NumberedIs
<1>15. ~HasLeft(first)
  <2>1. ~(first[2] < first[2]) BY <1>14
  <2> QED BY <1>5, <1>13, <1>14, <2>1
<1>16. SourcesMoveOn
  <2>1. ASSUME NEW b \in Adapters, adapter'[b].state = "sending"
        PROVE  \/ adapter[b].state = "sending" /\ adapter'[b].event = adapter[b].event
               \/ \A e \in Numbered : HasLeft(e) =>
                    e # adapter'[b].event /\ (e[1] = b[1] => e[2] < adapter'[b].event[2])
    <3>1. CASE b # a BY <1>6, <2>1, <3>1
    <3>2. CASE b = a BY <1>7, <1>13, <1>15, <3>2 DEF s
    <3> QED BY <3>1, <3>2
  <2> QED BY <1>12, <2>1 DEF SourcesMoveOn
<1>17. HasLeft(first)'
  <2>1. ASSUME NEW i \in DOMAIN Tail(q) PROVE first[2] < Tail(q)[i][2]
    <3>1. i + 1 \in DOMAIN q /\ Tail(q)[i] = q[i + 1] /\ 1 < i + 1 BY <1>5
    <3> QED BY <1>4, <1>5, <3>1
  <2>2. first[2] <= made'[s] BY <1>1, <1>4, <1>5
  <2>3. srcChan'[first[1]] = Tail(q) BY <1>2, <1>9, <1>14
  <2>4. \A i \in DOMAIN srcChan'[first[1]] : first[2] < srcChan'[first[1]][i][2]
    BY <2>1, <2>3
  <2>5. made'[first[1]] = made'[s] BY <1>14
  <2> QED BY <2>2, <2>4, <2>5 DEF HasLeft
<1>18. ASSUME NEW b \in Adapters, b # a, adapter'[b].state = "sending"
       PROVE  /\ adapter[b].state = "sending" /\ adapter'[b].event = adapter[b].event
              /\ adapter'[b].event # first /\ adapter'[b].event \in Numbered
              /\ adapter'[b].event[1] = b[1] /\ (HasLeft(adapter[b].event))'
  <2>1. adapter[b].state = "sending" /\ adapter'[b].event = adapter[b].event BY <1>6, <1>18
  <2>2. PICK e : e = adapter[b].event OBVIOUS
  <2>3. e \in Numbered /\ HasLeft(e) /\ e[1] = b[1] BY <2>1, <2>2 DEF AdaptersKnown, DagTyped
  <2>4. HasLeft(e)' /\ e # first BY <1>12, <1>15, <2>3
  <2>5. e = adapter'[b].event BY <2>1, <2>2
  <2>6. (HasLeft(adapter[b].event))' BY <2>4, <2>5 DEF HasLeft
  <2> QED BY <2>1, <2>3, <2>4, <2>5, <2>6
<1>19. AdaptersKnown'
  <2>1. ASSUME NEW b \in Adapters, adapter'[b].state = "sending"
        PROVE  adapter'[b].event[1] = b[1] /\ (HasLeft(adapter[b].event))'
    <3>1. CASE b # a BY <1>18, <2>1, <3>1
    <3>2. CASE b = a
      <4>1. (HasLeft(adapter[b].event))' BY <1>7, <1>17, <3>2 DEF HasLeft
      <4> QED BY <1>7, <1>14, <3>2, <4>1 DEF s
    <3> QED BY <3>1, <3>2
  <2>2. ASSUME NEW b \in Adapters, NEW c \in Adapters, b # c,
               adapter'[b].state = "sending", adapter'[c].state = "sending"
        PROVE  adapter'[b].event # adapter'[c].event
    <3>1. CASE b # a /\ c # a BY <1>18, <2>2, <3>1 DEF AdaptersKnown
    <3>2. CASE b = a \/ c = a BY <1>7, <1>18, <2>2, <3>2
    <3> QED BY <3>1, <3>2
  <2> QED BY <1>11, <2>1, <2>2 DEF AdaptersKnown
<1>20. ASSUME NEW r \in SourceIds, NEW i \in DOMAIN srcChan'[r]
       PROVE  /\ srcChan'[r][i][1] = r /\ srcChan'[r][i][2] <= made'[r]
              /\ \A j \in DOMAIN srcChan'[r] : i < j => srcChan'[r][i][2] < srcChan'[r][j][2]
  <2>1. CASE r # s BY <1>1, <1>9, <2>1 DEF SourcesKnown
  <2>2. CASE r = s
    <3>0. srcChan'[r] = Tail(q) BY <1>9, <2>2
    <3>1. ASSUME NEW j \in DOMAIN srcChan'[r]
          PROVE  j + 1 \in DOMAIN q /\ srcChan'[r][j] = q[j + 1] /\ j \in Nat
      <4>1. j \in 1 .. Len(q) - 1 BY <1>5, <3>0
      <4>2. j + 1 \in 1 .. Len(q) /\ j \in Nat BY <1>5, <4>1
      <4> QED BY <1>5, <3>0, <4>1, <4>2
    <3>2. ASSUME NEW j \in DOMAIN srcChan'[r], i < j PROVE i + 1 < j + 1 BY <3>1, <3>2
    <3>3. srcChan'[r][i] = q[i + 1] /\ i + 1 \in DOMAIN q BY <3>1
    <3>4. srcChan'[r][i][1] = r /\ srcChan'[r][i][2] <= made'[r] BY <1>1, <1>4, <2>2, <3>3
    <3>5. \A j \in DOMAIN srcChan'[r] : i < j => srcChan'[r][i][2] < srcChan'[r][j][2]
      BY <1>4, <3>1, <3>2
    <3> QED BY <3>4, <3>5
  <2> QED BY <2>1, <2>2
<1>21. SourcesKnown' BY <1>11, <1>20 DEF SourcesKnown
<1>22. \A b \in Adapters : adapter'[b].state = "sending" => adapter'[b].event \in Numbered
  BY <1>5, <1>7, <1>18
<1> QED BY <1>8, <1>10, <1>16, <1>19, <1>21, <1>22

LEMMA DropsAt ==
  ASSUME NEW places, NEW content, NEW content2, NEW c \in places, NEW one \in Seq(Numbered),
         content \in [places -> Seq(Numbered)], content2 \in [places -> Seq(Numbered)],
         \A x \in places : x # c => content2[x] = content[x],
         content[c] = one \o content2[c]
  PROVE  Dropped(places, content, content2)
<1> DEFINE off == [x \in places |-> IF x = c THEN Len(one) ELSE 0]
           q == content2[c]
<1>1. Len(one) \in Nat /\ q \in Seq(Numbered) OBVIOUS
<1>2. off \in [places -> Nat] BY <1>1
<1>3. off[c] = Len(one) /\ \A x \in places : x # c => off[x] = 0 OBVIOUS
<1>4. content[c] = one \o q OBVIOUS
<1> HIDE DEF off, q
<1>5. /\ Len(q) \in Nat /\ DOMAIN q = 1 .. Len(q) /\ DOMAIN one = 1 .. Len(one)
      /\ Len(one \o q) = Len(one) + Len(q) /\ DOMAIN (one \o q) = 1 .. Len(one) + Len(q)
      /\ \A i \in 1 .. Len(one) + Len(q) :
           (one \o q)[i] = IF i <= Len(one) THEN one[i] ELSE q[i - Len(one)]
  <2>1. /\ one \o q \in Seq(Numbered) /\ Len(one \o q) = Len(one) + Len(q)
        /\ \A i \in 1 .. Len(one) + Len(q) :
             (one \o q)[i] = IF i <= Len(one) THEN one[i] ELSE q[i - Len(one)]
    BY <1>1, ConcatProperties
  <2>2. DOMAIN (one \o q) = 1 .. Len(one) + Len(q) BY <2>1
  <2> QED BY <1>1, <2>1, <2>2
<1>6. ASSUME NEW x \in places, NEW i \in DOMAIN content2[x]
      PROVE  i + off[x] \in DOMAIN content[x] /\ content2[x][i] = content[x][i + off[x]]
  <2>1. CASE x = c
    <3>1. i \in 1 .. Len(q) /\ content2[x][i] = q[i] BY <1>5, <2>1 DEF q
    <3>2. /\ i + Len(one) \in 1 .. Len(one) + Len(q) /\ ~(i + Len(one) <= Len(one))
          /\ (i + Len(one)) - Len(one) = i
      BY <1>1, <1>5, <3>1
    <3> QED BY <1>3, <1>4, <1>5, <2>1, <3>1, <3>2
  <2>2. CASE x # c
    <3>1. content[x] \in Seq(Numbered) /\ content2[x] = content[x] BY <2>2
    <3>2. i + 0 = i BY <3>1
    <3> QED BY <1>3, <2>2, <3>1, <3>2
  <2> QED BY <2>1, <2>2
<1> QED BY <1>2, <1>6 DEF Dropped

LEMMA SinkFlowDrops ==
  ASSUME UNCHANGED topology, DagTyped, DagTyped', NEW k \in SinkIds, SinkFlow(k), SourcesMoveOn,
         Dropped(Way(k), Contents(k), Contents(k)')
  PROVE  SinkFlow(k)'
<1>1. /\ Way(k)' = Way(k) /\ Leads(k)' = Leads(k)
      /\ Ordered(k)' = Ordered(k) /\ EntriesOf(k)' = EntriesOf(k)
  BY SameWays
<1>2. NothingNew(k) BY <1>1 DEF Dropped, NothingNew
<1>3. EventsKnown(k)' BY <1>2, EventsStayKnown DEF SinkFlow
<1>4. Contents(k) \in [Way(k) -> Seq(Numbered)] BY ContentsTyped
<1>5. Flow(Way(k), Leads(k), Ordered(k), EntriesOf(k), Contents(k)) BY DEF SinkFlow
<1>6. Flow(Way(k), Leads(k), Ordered(k), EntriesOf(k), Contents(k)') BY <1>4, <1>5, FlowDrops
<1> QED BY <1>1, <1>3, <1>6 DEF SinkFlow

LEMMA ContentsIn ==
  ASSUME NEW k, NEW w \in InputChannels, InChannel(w) \in Way(k)
  PROVE  Contents(k)[InChannel(w)] = AheadOf(k, w) \o inChan[w]
<1> DEFINE c == InChannel(w)
<1>1. c[1] = "in" /\ <<c[2], c[3]>> = w BY InputChannelIs DEF InChannel
<1> HIDE DEF c
<1>2. Contents(k)[c] = InHand(k, c) \o Queue(c) BY DEF Contents, c
<1> QED BY <1>1, <1>2 DEF InHand, Queue, c

LEMMA ContentsStayIn ==
  ASSUME NEW k, NEW w
  PROVE  (w \in InputChannels /\ InChannel(w) \in Way(k) =>
            Contents(k)[InChannel(w)] = AheadOf(k, w) \o inChan[w])'
<1>1. w \in InputChannels /\ InChannel(w) \in Way(k) =>
        Contents(k)[InChannel(w)] = AheadOf(k, w) \o inChan[w]
  BY ContentsIn
<1> QED BY <1>1, PTL

(* A step of the goroutine of channel w that sends nothing on.             *)
LEMMA WorkerDrops ==
  ASSUME UNCHANGED <<topology, sinkChan, written>>, DagTyped, DagTyped',
         NEW k \in SinkIds, NEW w \in InputChannels, NEW one \in Seq(Numbered),
         \A v \in InputChannels : v # w => inChan'[v] = inChan[v] /\ worker'[v] = worker[v],
         AheadOf(k, w) \o inChan[w] = one \o (AheadOf(k, w)' \o inChan'[w])
  PROVE  Dropped(Way(k), Contents(k), Contents(k)')
<1>1. Way(k)' = Way(k) BY SameWays
<1>2. Contents(k) \in [Way(k) -> Seq(Numbered)] BY ContentsTyped
<1>3. Contents(k)' \in [Way(k) -> Seq(Numbered)]
  <2>1. k \in SinkIds' /\ Numbered' = Numbered BY SameGraph
  <2> QED BY <1>1, <2>1, ContentsStayTyped
<1>4. ASSUME NEW x \in Way(k), x # InChannel(w) PROVE Contents(k)'[x] = Contents(k)[x]
  <2>1. x \in Channels BY DEF Way
  <2>2. InHand(k, x)' = InHand(k, x) /\ Queue(x)' = Queue(x)
    <3>1. CASE x[1] = "sink" BY <3>1 DEF InHand, Queue
    <3>2. CASE x[1] = "in" /\ <<x[2], x[3]>> \in InputChannels /\ x = InChannel(<<x[2], x[3]>>)
      <4> DEFINE v == <<x[2], x[3]>>
      <4>1. v \in InputChannels /\ v # w BY <1>4, <3>2
      <4> HIDE DEF v
      <4>2. AheadOf(k, v)' = AheadOf(k, v) BY <1>1, <4>1 DEF AheadOf
      <4> QED BY <3>2, <4>1, <4>2 DEF InHand, Queue, v
    <3> QED BY <2>1, <3>1, <3>2, ChannelIs
  <2>3. Contents(k)'[x] = InHand(k, x)' \o Queue(x)' BY <1>1 DEF Contents
  <2>4. Contents(k)[x] = InHand(k, x) \o Queue(x) BY DEF Contents
  <2> QED BY <2>2, <2>3, <2>4
<1>5. CASE InChannel(w) \in Way(k)
  <2>1. Contents(k)[InChannel(w)] = AheadOf(k, w) \o inChan[w] BY <1>5, ContentsIn
  <2>2. Contents(k)'[InChannel(w)] = AheadOf(k, w)' \o inChan'[w]
    <3>1. w \in InputChannels' /\ InChannel(w) \in Way(k)' BY <1>1, <1>5, SameGraph
    <3> QED BY <3>1, ContentsStayIn DEF InChannel
  <2>3. Contents(k)[InChannel(w)] = one \o Contents(k)'[InChannel(w)] BY <2>1, <2>2
  <2> QED BY <1>2, <1>3, <1>4, <1>5, <2>3, DropsAt
<1>6. CASE InChannel(w) \notin Way(k)
  <2> DEFINE c == <<"sink", k>>
  <2>1. c \in Way(k) BY WayIs
  <2> HIDE DEF c
  <2>2. \A x \in Way(k) : Contents(k)'[x] = Contents(k)[x] BY <1>4, <1>6
  <2>3. <<>> \in Seq(Numbered) /\ Contents(k)[c] = <<>> \o Contents(k)'[c]
    <3>1. Contents(k)[c] \in Seq(Numbered) BY <1>2, <2>1
    <3> QED BY <2>1, <2>2, <3>1
  <2> QED BY <1>2, <1>3, <2>1, <2>2, <2>3, DropsAt
<1> QED BY <1>5, <1>6

(* Event e comes into the queue of channel c.                              *)
Comes(c, e) ==
  IF c[1] = "sink"
  THEN UNCHANGED inChan /\ sinkChan' = [sinkChan EXCEPT ![c[2]] = Append(@, e)]
  ELSE UNCHANGED sinkChan /\ inChan' = [inChan EXCEPT ![<<c[2], c[3]>>] = Append(@, e)]

LEMMA QueuesAre ==
  ASSUME DagTyped, NEW c \in Channels, NEW e \in Numbered, Comes(c, e)
  PROVE  /\ inChan' \in [InputChannels -> Seq(Numbered)]
         /\ sinkChan' \in [SinkIds -> Seq(Numbered)]
         /\ Queue(c) \in Seq(Numbered) /\ Queue(c)' = Append(Queue(c), e)
         /\ \A x \in Channels : x # c => Queue(x)' = Queue(x)
<1>0. inChan \in [InputChannels -> Seq(Numbered)] /\ sinkChan \in [SinkIds -> Seq(Numbered)]
  BY DEF DagTyped
<1>1. CASE c[1] = "sink"
  <2>1. c[2] \in SinkIds /\ c = <<"sink", c[2]>> BY <1>1, ChannelIs
  <2>2. UNCHANGED inChan /\ sinkChan' = [sinkChan EXCEPT ![c[2]] = Append(@, e)]
    BY <1>1 DEF Comes
  <2>3. sinkChan[c[2]] \in Seq(Numbered) BY <1>0, <2>1
  <2>4. Append(sinkChan[c[2]], e) \in Seq(Numbered) BY <2>3, AppendProperties
  <2>5. sinkChan' \in [SinkIds -> Seq(Numbered)] BY <1>0, <2>2, <2>4
  <2>6. sinkChan'[c[2]] = Append(sinkChan[c[2]], e) BY <1>0, <2>1, <2>2
  <2>7. ASSUME NEW x \in Channels, x # c PROVE Queue(x)' = Queue(x)
    <3>1. CASE x[1] = "sink"
      <4>1. x[2] \in SinkIds /\ x = <<"sink", x[2]>> BY <3>1, ChannelIs
      <4>2. x[2] # c[2] BY <2>1, <2>7, <4>1
      <4>3. sinkChan'[x[2]] = sinkChan[x[2]] BY <1>0, <2>2, <4>1, <4>2
      <4> QED BY <3>1, <4>3 DEF Queue
    <3>2. CASE x[1] # "sink" BY <2>2, <3>2 DEF Queue
    <3> QED BY <3>1, <3>2
  <2> QED BY <1>0, <1>1, <2>2, <2>3, <2>5, <2>6, <2>7 DEF Queue
<1>2. CASE c[1] # "sink"
  <2> DEFINE w == <<c[2], c[3]>>
  <2>1. w \in InputChannels /\ c = InChannel(w) BY <1>2, ChannelIs
  <2>2. UNCHANGED sinkChan /\ inChan' = [inChan EXCEPT ![w] = Append(@, e)]
    BY <1>2 DEF Comes
  <2>3. Queue(c) = inChan[w] /\ Queue(c)' = inChan'[w] BY <1>2 DEF Queue
  <2> HIDE DEF w
  <2>4. inChan[w] \in Seq(Numbered) BY <1>0, <2>1
  <2>5. Append(inChan[w], e) \in Seq(Numbered) BY <2>4, AppendProperties
  <2>6. inChan' \in [InputChannels -> Seq(Numbered)] BY <1>0, <2>2, <2>5
  <2>7. inChan'[w] = Append(inChan[w], e) BY <1>0, <2>1, <2>2
  <2>8. ASSUME NEW x \in Channels, x # c PROVE Queue(x)' = Queue(x)
    <3>1. CASE x[1] # "sink"
      <4> DEFINE v == <<x[2], x[3]>>
      <4>1. v \in InputChannels /\ x = InChannel(v) BY <3>1, ChannelIs
      <4>2. Queue(x) = inChan[v] /\ Queue(x)' = inChan'[v] BY <3>1 DEF Queue
      <4> HIDE DEF v
      <4>3. v # w BY <2>1, <2>8, <4>1
      <4>4. inChan'[v] = inChan[v] BY <1>0, <2>2, <4>1, <4>3
      <4> QED BY <4>2, <4>4
    <3>2. CASE x[1] = "sink" BY <2>2, <3>2 DEF Queue
    <3> QED BY <3>1, <3>2
  <2> QED BY <1>0, <2>2, <2>3, <2>4, <2>6, <2>7, <2>8
<1> QED BY <1>1, <1>2

LEMMA SameContents ==
  ASSUME UNCHANGED topology, DagTyped, NEW k \in SinkIds,
         \A x \in Way(k) : InHand(k, x)' \o Queue(x)' = InHand(k, x) \o Queue(x)
  PROVE  Dropped(Way(k), Contents(k), Contents(k)')
<1>1. Way(k)' = Way(k) BY SameWays
<1>2. Contents(k) \in [Way(k) -> Seq(Numbered)] BY ContentsTyped
<1>3. Contents(k)' = Contents(k) BY <1>1 DEF Contents
<1> DEFINE c == <<"sink", k>>
<1>4. c \in Way(k) BY WayIs
<1> HIDE DEF c
<1>5. Contents(k)[c] \in Seq(Numbered) BY <1>2, <1>4
<1>6. <<>> \in Seq(Numbered) /\ Contents(k)[c] = <<>> \o Contents(k)'[c]
  BY <1>3, <1>5, ConcatEmptySeq
<1> QED BY <1>2, <1>3, <1>4, <1>6, DropsAt

LEMMA AdapterSendsFlow ==
  ASSUME DagTyped, DagTyped', AdaptersKnown, SourcesMoveOn, NEW k \in SinkIds, SinkFlow(k),
         NEW a \in Adapters, AdapterSends(a)
  PROVE  SinkFlow(k)'
<1>1. PICK e : e = adapter[a].event OBVIOUS
<1>2. PICK d : d = Entry(a) OBVIOUS
<1>3. /\ UNCHANGED <<topology, made, srcChan, worker, sinkChan, written>>
      /\ adapter[a].state = "sending"
      /\ adapter' = [adapter EXCEPT ![a] = Idle]
      /\ inChan' = [inChan EXCEPT ![<<a[2], a[3]>>] = Append(@, e)]
  BY <1>1 DEF AdapterSends
<1>4. e \in Numbered /\ e[1] = a[1] /\ HasLeft(e)
  BY <1>1, <1>3 DEF DagTyped, AdaptersKnown
<1>5. d \in Channels /\ d[1] = "in" /\ d[2] = a[2] /\ d[3] = a[3]
  BY <1>2, AdapterIs DEF Entry
<1>6. Comes(d, e) BY <1>3, <1>5 DEF Comes
<1>7. /\ Queue(d) \in Seq(Numbered) /\ Queue(d)' = Append(Queue(d), e)
      /\ \A x \in Channels : x # d => Queue(x)' = Queue(x)
  BY <1>4, <1>5, <1>6, QueuesAre
<1>8. /\ Way(k)' = Way(k) /\ Leads(k)' = Leads(k) /\ Adapters' = Adapters
      /\ Ordered(k)' = Ordered(k) /\ EntriesOf(k)' = EntriesOf(k)
  BY <1>3, SameWays, SameGraph
<1>9. \A x : InHand(k, x)' = InHand(k, x) BY <1>3, <1>8 DEF InHand, AheadOf
<1>10. Way(k) \subseteq Channels BY DEF Way
<1>11. CASE d \notin Way(k)
  <2>1. \A x \in Way(k) : InHand(k, x)' \o Queue(x)' = InHand(k, x) \o Queue(x)
    BY <1>7, <1>9, <1>10, <1>11
  <2>2. Dropped(Way(k), Contents(k), Contents(k)') BY <1>3, <2>1, SameContents
  <2> QED BY <1>3, <2>2, SinkFlowDrops
<1>12. CASE d \in Way(k)
  <2>1. Contents(k) \in [Way(k) -> Seq(Numbered)] BY ContentsTyped
  <2>2. Flow(Way(k), Leads(k), Ordered(k), EntriesOf(k), Contents(k)) /\ EventsKnown(k)
    BY DEF SinkFlow
  <2>3. Contents(k)' = [Contents(k) EXCEPT ![d] = Append(Contents(k)[d], e)]
    <3>1. InHand(k, d) \in Seq(Numbered) BY <1>12, HandTyped
    <3>2. InHand(k, d) \o Append(Queue(d), e) = Append(InHand(k, d) \o Queue(d), e)
      BY <1>4, <1>7, <3>1, AppendAtEnd
    <3>3. ASSUME NEW x \in Way(k)
          PROVE  InHand(k, x)' \o Queue(x)' =
                   IF x = d THEN Append(InHand(k, d) \o Queue(d), e) ELSE InHand(k, x) \o Queue(x)
      <4>1. CASE x = d BY <1>7, <1>9, <3>2, <4>1
      <4>2. CASE x # d BY <1>7, <1>9, <1>10, <4>2
      <4> QED BY <4>1, <4>2
    <3> QED BY <1>8, <1>12, <3>3 DEF Contents
  <2>4. ASSUME NEW x \in Way(k), NEW i \in DOMAIN Contents(k)[x]
        PROVE  EventKnown(k, Contents(k)[x][i]) /\ Contents(k)[x][i] \in Numbered
    BY <2>2, HeldInChannel DEF EventsKnown
  <2>5. a[1] \in SourceIds BY AdapterIs
  <2>6. a[1] \in Ordered(k) => \A b \in Adapters : b[1] = a[1] /\ Entry(b) \in Way(k) => b = a
    BY <1>2, <1>12 DEF Ordered, OneEntry, Way
  <2>7. a[1] \in Ordered(k) => EntriesOf(k)[a[1]] = {d}
    BY <1>2, <1>12, <2>5, <2>6 DEF EntriesOf
  <2>8. \A x \in Way(k) : Leads(k)[x] = LeadsTo(x) BY DEF Leads
  <2>9. MayCome(Way(k), Leads(k), Ordered(k), EntriesOf(k), Contents(k), d, e)
    <3>1. ASSUME NEW x \in Way(k), NEW i \in DOMAIN Contents(k)[x]
          PROVE  /\ Contents(k)[x][i] # e
                 /\ Contents(k)[x][i][1] = e[1] /\ e[1] \in Ordered(k) =>
                      /\ Contents(k)[x][i][2] < e[2] => x \in Leads(k)[d]
                      /\ e[2] < Contents(k)[x][i][2] => d \in Leads(k)[x] /\ x # d
      <4>1. PICK f : f = Contents(k)[x][i] OBVIOUS
      <4>2. f \in Numbered /\ EventKnown(k, f) BY <2>4, <4>1
      <4>3. f # e BY <1>1, <1>3, <4>2 DEF EventKnown
      <4>4. ASSUME f[1] = e[1], e[1] \in Ordered(k) PROVE x \in Leads(k)[d] /\ ~(e[2] < f[2])
        <5>1. f[2] < e[2] BY <1>1, <1>2, <1>3, <1>4, <1>12, <4>2, <4>4 DEF EventKnown
        <5>2. f[2] \in Nat /\ e[2] \in Nat BY <1>4, <4>2, NumberedIs
        <5>3. x \in Leads(k)[d]
          <6>1. d \in EntriesOf(k)[f[1]] BY <1>4, <2>7, <4>4
          <6> QED BY <2>2, <4>1, <4>4, <6>1 DEF Flow, Entered
        <5> QED BY <5>1, <5>2, <5>3
      <4> QED BY <4>1, <4>3, <4>4
    <3>2. ASSUME e[1] \in Ordered(k), NEW x \in EntriesOf(k)[e[1]] PROVE d \in Leads(k)[x]
      <4>1. x = d BY <1>4, <2>7, <3>2
      <4> QED BY <1>5, <1>12, <2>8, <4>1, LeadsToItself
    <3> QED BY <3>1, <3>2 DEF MayCome
  <2>10. Flow(Way(k), Leads(k), Ordered(k), EntriesOf(k), Contents(k)')
    BY <1>4, <1>12, <2>1, <2>2, <2>3, <2>9, FlowEnters
  <2>11. EventKnown(k, e)'
    <3>1. HasLeft(e)' BY <1>3, <1>4 DEF HasLeft
    <3>2. ASSUME NEW b \in Adapters, adapter'[b].state = "sending"
          PROVE  /\ e # adapter'[b].event
                 /\ ~(Entry(b) \in Way(k) /\ b[1] \in Ordered(k) /\ e[1] = b[1])
      <4>1. b # a /\ adapter'[b] = adapter[b]
        <5>1. adapter = [x \in Adapters |-> adapter[x]] BY DEF DagTyped
        <5>2. adapter'[a] = Idle BY <1>3, <5>1
        <5> QED BY <1>3, <3>2, <5>2 DEF Idle
      <4>2. e # adapter'[b].event BY <1>1, <1>3, <3>2, <4>1 DEF AdaptersKnown
      <4> QED BY <1>4, <2>6, <4>1, <4>2
    <3>3. \A b : Entry(b)' = Entry(b) BY DEF Entry
    <3> QED BY <1>8, <3>1, <3>2, <3>3 DEF EventKnown
  <2>12. EventsKnown(k)'
    <3>1. ASSUME NEW x \in Way(k), NEW i \in DOMAIN Contents(k)'[x]
          PROVE  \/ Contents(k)'[x][i] = e
                 \/ i \in DOMAIN Contents(k)[x] /\ Contents(k)'[x][i] = Contents(k)[x][i]
      <4>1. CASE x # d BY <2>1, <2>3, <4>1
      <4>2. CASE x = d
        <5> DEFINE q == Contents(k)[d]
        <5>1. q \in Seq(Numbered) BY <1>12, <2>1
        <5>2. Contents(k)'[x] = Append(q, e) BY <1>12, <2>1, <2>3, <4>2
        <5> HIDE DEF q
        <5>3. /\ Len(Append(q, e)) = Len(q) + 1 /\ Append(q, e) \in Seq(Numbered)
              /\ \A j \in 1 .. Len(q) : Append(q, e)[j] = q[j]
              /\ Append(q, e)[Len(q) + 1] = e
          BY <1>4, <5>1, AppendProperties
        <5>4. i \in 1 .. Len(q) + 1 /\ DOMAIN q = 1 .. Len(q) /\ Len(q) \in Nat
          BY <5>1, <5>2, <5>3
        <5>5. CASE i = Len(q) + 1 BY <5>2, <5>3, <5>5
        <5>6. CASE i \in 1 .. Len(q) BY <4>2, <5>2, <5>3, <5>4, <5>6 DEF q
        <5> QED BY <5>4, <5>5, <5>6
      <4> QED BY <4>1, <4>2
    <3>2. ASSUME NEW x \in Way(k), NEW i \in DOMAIN Contents(k)'[x]
          PROVE  EventKnown(k, Contents(k)[x][i])'
      <4>1. PICK f : f = Contents(k)'[x][i] OBVIOUS
      <4>2. CASE f = e BY <2>11, <4>1, <4>2 DEF EventKnown, HasLeft
      <4>3. CASE i \in DOMAIN Contents(k)[x] /\ f = Contents(k)[x][i]
        <5>1. f \in Numbered /\ EventKnown(k, f) BY <2>4, <4>3
        <5>2. EventKnown(k, f)' BY <1>3, <5>1, EventStaysKnown
        <5> QED BY <4>1, <5>2 DEF EventKnown, HasLeft
      <4> QED BY <3>1, <4>1, <4>2, <4>3
    <3> QED BY <1>8, <3>2 DEF EventsKnown
  <2> QED BY <1>8, <2>10, <2>12 DEF SinkFlow
<1> QED BY <1>11, <1>12

LEMMA OthersInHand ==
  ASSUME UNCHANGED <<topology, written>>, NEW k \in SinkIds, NEW w \in InputChannels,
         \A v \in InputChannels : v # w => worker'[v] = worker[v],
         NEW x \in Way(k), x # InChannel(w)
  PROVE  InHand(k, x)' = InHand(k, x)
<1>1. x \in Channels /\ Way(k)' = Way(k) BY SameWays DEF Way
<1>2. CASE x[1] = "sink" BY <1>2 DEF InHand
<1>3. CASE x[1] = "in" /\ <<x[2], x[3]>> \in InputChannels /\ x = InChannel(<<x[2], x[3]>>)
  <2> DEFINE v == <<x[2], x[3]>>
  <2>1. v \in InputChannels /\ v # w BY <1>3
  <2> HIDE DEF v
  <2>2. AheadOf(k, v)' = AheadOf(k, v) BY <1>1, <2>1 DEF AheadOf
  <2> QED BY <1>3, <2>2 DEF InHand, v
<1> QED BY <1>1, <1>2, <1>3, ChannelIs

(* The goroutine of channel w sends e to one of the channels left, or      *)
(* panics.                                                                 *)
SendsOn(w, e, left) ==
  \E c \in left :
    /\ worker' = [worker EXCEPT ![w] =
         IF left \ {c} = {} THEN Idle ELSE Sending(e, left \ {c})]
    /\ UNCHANGED <<inChan, sinkChan>> \/ Comes(c, e)

LEMMA WorkerSendsIs ==
  ASSUME NEW w, WorkerSends(w)
  PROVE  SendsOn(w, worker[w].event, worker[w].left)
<1> DEFINE e == worker[w].event
           left == worker[w].left
<1>1. PICK c \in left :
        /\ worker' = [worker EXCEPT ![w] =
             IF left \ {c} = {} THEN Idle ELSE Sending(e, left \ {c})]
        /\ \/ /\ c[1] = "in" /\ UNCHANGED sinkChan
              /\ inChan' = [inChan EXCEPT ![<<c[2], c[3]>>] = Append(@, e)]
           \/ /\ c[1] = "sink" /\ UNCHANGED inChan
              /\ sinkChan' = [sinkChan EXCEPT ![c[2]] = Append(@, e)]
           \/ UNCHANGED <<inChan, sinkChan>>
  BY DEF WorkerSends
<1> HIDE DEF e, left
<1>2. UNCHANGED <<inChan, sinkChan>> \/ Comes(c, e) BY <1>1 DEF Comes
<1>3. SendsOn(w, e, left) BY <1>1, <1>2 DEF SendsOn
<1> QED BY <1>3 DEF e, left

LEMMA WorkerSendsFlow ==
  ASSUME DagTyped, DagTyped', SourcesMoveOn, NEW k \in SinkIds, OneWay(k), SinkFlow(k),
         NEW w \in InputChannels, WorkerSends(w)
  PROVE  SinkFlow(k)'
<1>1. PICK e, left : e = worker[w].event /\ left = worker[w].left OBVIOUS
<1>2. PICK b : b = InChannel(w) OBVIOUS
<1>3. worker[w].state = "sending" /\ UNCHANGED <<topology, adapter, made, srcChan, written>>
  BY DEF WorkerSends
<1>4. e \in Numbered /\ left \subseteq OutputChannels(w[1]) BY <1>1, <1>3 DEF DagTyped
<1>5. PICK c \in left :
        /\ worker' = [worker EXCEPT ![w] =
             IF left \ {c} = {} THEN Idle ELSE Sending(e, left \ {c})]
        /\ UNCHANGED <<inChan, sinkChan>> \/ Comes(c, e)
  <2>1. SendsOn(w, e, left) BY <1>1, WorkerSendsIs
  <2> QED BY <2>1 DEF SendsOn
<1>6. worker'[w] = (IF left \ {c} = {} THEN Idle ELSE Sending(e, left \ {c}))
      /\ \A v \in InputChannels : v # w => worker'[v] = worker[v]
  <2>1. worker = [v \in InputChannels |-> worker[v]] BY DEF DagTyped
  <2> QED BY <1>5, <2>1
<1>7. b[1] = "in" /\ b[2] = w[1] /\ b \in Channels BY <1>2 DEF InChannel, Channels
<1>8. c \in After(b) /\ c \in Channels BY <1>4, <1>7, AfterIs DEF After
<1>9. /\ Way(k)' = Way(k) /\ Leads(k)' = Leads(k)
      /\ Ordered(k)' = Ordered(k) /\ EntriesOf(k)' = EntriesOf(k)
  BY <1>3, SameWays
<1>10. /\ AheadOf(k, w) = IF left \cap Way(k) # {} THEN <<e>> ELSE <<>>
       /\ AheadOf(k, w)' = IF (left \ {c}) \cap Way(k) # {} THEN <<e>> ELSE <<>>
  BY <1>1, <1>3, <1>6, <1>9 DEF AheadOf, Idle, Sending
<1>11. inChan[w] \in Seq(Numbered) BY DEF DagTyped
<1>12. CASE UNCHANGED <<inChan, sinkChan>>
  <2> DEFINE one == <<e>>
  <2>1. one \in Seq(Numbered) BY <1>4
  <2>2. <<>> \in Seq(Numbered) OBVIOUS
  <2>3. AheadOf(k, w) = AheadOf(k, w)' \/ (AheadOf(k, w) = one /\ AheadOf(k, w)' = <<>>)
    BY <1>10
  <2>4. AheadOf(k, w)' = one \/ AheadOf(k, w)' = <<>> BY <1>10
  <2> HIDE DEF one
  <2>5. AheadOf(k, w)' \o inChan'[w] \in Seq(Numbered) /\ inChan'[w] = inChan[w]
    <3>1. AheadOf(k, w)' \in Seq(Numbered) BY <2>1, <2>2, <2>4
    <3>2. inChan'[w] = inChan[w] /\ inChan'[w] \in Seq(Numbered) BY <1>11, <1>12
    <3> QED BY <3>1, <3>2, ConcatProperties
  <2>6. CASE AheadOf(k, w) = AheadOf(k, w)'
    <3>1. AheadOf(k, w) \o inChan[w] = <<>> \o (AheadOf(k, w)' \o inChan'[w])
      BY <2>5, <2>6, ConcatEmptySeq
    <3>2. Dropped(Way(k), Contents(k), Contents(k)')
      BY <1>3, <1>6, <1>12, <2>2, <3>1, WorkerDrops
    <3> QED BY <1>3, <3>2, SinkFlowDrops
  <2>7. CASE AheadOf(k, w) = one /\ AheadOf(k, w)' = <<>>
    <3>1. <<>> \o inChan'[w] = inChan'[w] BY <1>11, <2>5, ConcatEmptySeq
    <3>2. AheadOf(k, w) \o inChan[w] = one \o (AheadOf(k, w)' \o inChan'[w])
      BY <2>5, <2>7, <3>1
    <3>3. Dropped(Way(k), Contents(k), Contents(k)')
      BY <1>3, <1>6, <1>12, <2>1, <3>2, WorkerDrops
    <3> QED BY <1>3, <3>3, SinkFlowDrops
  <2> QED BY <2>3, <2>6, <2>7
<1>13. ASSUME Comes(c, e) PROVE SinkFlow(k)'
  <2>1. /\ Queue(c) \in Seq(Numbered) /\ Queue(c)' = Append(Queue(c), e)
        /\ \A x \in Channels : x # c => Queue(x)' = Queue(x)
    BY <1>4, <1>8, <1>13, QueuesAre
  <2>2. Way(k) \subseteq Channels BY DEF Way
  <2>3. \A x \in Way(k) : x # b => InHand(k, x)' = InHand(k, x)
    BY <1>2, <1>3, <1>6, OthersInHand
  <2>4. InHand(k, b) = AheadOf(k, w) /\ InHand(k, b)' = AheadOf(k, w)' /\ Queue(b) = inChan[w]
    <3>1. b[1] # "sink" /\ <<b[2], b[3]>> = w BY <1>2, InputChannelIs DEF InChannel
    <3> QED BY <3>1 DEF InHand, Queue
  <2>5. CASE c \notin Way(k)
    <3>1. AheadOf(k, w)' = AheadOf(k, w)
      <4>1. (left \ {c}) \cap Way(k) = left \cap Way(k) BY <2>5
      <4> QED BY <1>10, <4>1
    <3>2. \A x \in Way(k) : InHand(k, x)' \o Queue(x)' = InHand(k, x) \o Queue(x)
      BY <2>1, <2>2, <2>3, <2>4, <2>5, <3>1
    <3>3. Dropped(Way(k), Contents(k), Contents(k)') BY <1>3, <3>2, SameContents
    <3> QED BY <1>3, <3>3, SinkFlowDrops
  <2>6. CASE c \in Way(k)
    <3>1. left \cap Way(k) = {c}
      <4>1. \A x \in left : x \in After(b) BY <1>4, <1>7 DEF After
      <4>2. \A x \in left \cap Way(k) : x = c BY <1>7, <1>8, <2>6, <4>1, OneAfter
      <4> QED BY <2>6, <4>2
    <3>2. AheadOf(k, w) = <<e>> /\ AheadOf(k, w)' = <<>>
      <4>1. (left \ {c}) \cap Way(k) = {} BY <3>1
      <4> QED BY <1>10, <3>1, <4>1
    <3>3. b \in Way(k) /\ c \in LeadsTo(b) BY <1>7, <1>8, <2>6, AfterOnTheWay
    <3>4. /\ \A x \in Way(k) : x \in LeadsTo(b) /\ x # b => x \in LeadsTo(c)
          /\ b \notin LeadsTo(c)
      BY <1>7, <1>8, <2>6, TheWayOn
    <3>5. b # c BY <1>8, <3>3, <3>4
    <3>6. \A x \in Way(k) : Leads(k)[x] = LeadsTo(x) BY DEF Leads
    <3>7. \A x \in Way(k) : b \in LeadsTo(x) => c \in LeadsTo(x)
      BY <1>8, <2>2, LeadsOn
    <3>8. \A s \in Ordered(k) : EntriesOf(k)[s] \subseteq Way(k)
      BY DEF Ordered, EntriesOf
    <3>9. Contents(k) \in [Way(k) -> Seq(Numbered)] BY ContentsTyped
    <3>10. Contents(k)[b] = <<e>> \o inChan[w] BY <1>2, <3>2, <3>3, ContentsIn
    <3>11. Contents(k)' = [x \in Way(k) |->
             IF x = b THEN inChan[w]
             ELSE IF x = c THEN Append(Contents(k)[c], e) ELSE Contents(k)[x]]
      <4>1. InHand(k, c) \in Seq(Numbered) BY <2>6, HandTyped
      <4>2. InHand(k, c) \o Append(Queue(c), e) = Append(InHand(k, c) \o Queue(c), e)
        BY <1>4, <2>1, <4>1, AppendAtEnd
      <4>3. \A x \in Way(k) : Contents(k)[x] = InHand(k, x) \o Queue(x) BY DEF Contents
      <4>4. ASSUME NEW x \in Way(k)
            PROVE  InHand(k, x)' \o Queue(x)' =
                     IF x = b THEN inChan[w]
                     ELSE IF x = c THEN Append(Contents(k)[c], e) ELSE Contents(k)[x]
        <5>1. CASE x = b
          <6>1. InHand(k, x)' = <<>> /\ Queue(x)' = inChan[w] BY <1>7, <2>1, <2>4, <3>2, <3>5, <5>1
          <6>2. <<>> \o inChan[w] = inChan[w] BY <1>11, ConcatEmptySeq
          <6> QED BY <5>1, <6>1, <6>2
        <5>2. CASE x = c /\ x # b
          <6>1. InHand(k, x)' = InHand(k, c) /\ Queue(x)' = Append(Queue(c), e)
            BY <2>1, <2>3, <5>2
          <6> QED BY <2>6, <4>2, <4>3, <5>2, <6>1
        <5>3. CASE x # c /\ x # b
          <6>1. InHand(k, x)' = InHand(k, x) /\ Queue(x)' = Queue(x)
            BY <2>1, <2>2, <2>3, <4>4, <5>3
          <6> QED BY <4>3, <4>4, <5>3, <6>1
        <5> QED BY <5>1, <5>2, <5>3
      <4> QED BY <1>9, <4>4 DEF Contents
    <3>12. Flow(Way(k), Leads(k), Ordered(k), EntriesOf(k), Contents(k)) /\ EventsKnown(k)
      BY DEF SinkFlow
    <3>13. /\ c \in Leads(k)[b] /\ b \notin Leads(k)[c]
           /\ \A x \in Way(k) : x \in Leads(k)[b] /\ x # b => x \in Leads(k)[c]
           /\ \A x \in Way(k) : b \in Leads(k)[x] => c \in Leads(k)[x]
      BY <2>6, <3>3, <3>4, <3>6, <3>7
    <3>14. Flow(Way(k), Leads(k), Ordered(k), EntriesOf(k), Contents(k)')
      <4>1. Moved(Way(k), Contents(k), Contents(k)', b, c, e, inChan[w])
        BY <3>5, <3>10, <3>11 DEF Moved
      <4>2. NextTo(Way(k), Leads(k), Ordered(k), EntriesOf(k), b, c)
        BY <3>8, <3>13 DEF NextTo
      <4> QED BY <1>4, <1>11, <2>6, <3>3, <3>9, <3>12, <4>1, <4>2, FlowMoves
    <3>15. NothingNew(k)
      <4> DEFINE one == <<e>>
                 tail == inChan[w]
                 q == Contents(k)[c]
      <4>1. one \in Seq(Numbered) /\ Len(one) = 1 /\ one[1] = e /\ tail \in Seq(Numbered)
        BY <1>4, <1>11
      <4>2. q \in Seq(Numbered) BY <2>6, <3>9
      <4>3. /\ Contents(k)[b] = one \o tail /\ Contents(k)'[b] = tail
            /\ Contents(k)'[c] = Append(q, e)
            /\ \A x \in Way(k) : x # b /\ x # c => Contents(k)'[x] = Contents(k)[x]
        BY <2>6, <3>3, <3>5, <3>10, <3>11
      <4> HIDE DEF one, tail
      <4>4. /\ one \o tail \in Seq(Numbered) /\ Len(one \o tail) = 1 + Len(tail)
            /\ \A i \in 1 .. 1 + Len(tail) :
                 (one \o tail)[i] = IF i <= 1 THEN one[i] ELSE tail[i - 1]
        <5>1. /\ one \o tail \in Seq(Numbered) /\ Len(one \o tail) = Len(one) + Len(tail)
              /\ \A i \in 1 .. Len(one) + Len(tail) :
                   (one \o tail)[i] = IF i <= Len(one) THEN one[i] ELSE tail[i - Len(one)]
          BY <4>1, ConcatProperties
        <5> QED BY <4>1, <5>1
      <4>5. Len(tail) \in Nat /\ DOMAIN tail = 1 .. Len(tail) BY <4>1
      <4>6. DOMAIN (one \o tail) = 1 .. 1 + Len(tail) BY SMTT(30), <4>4, <4>5
      <4>7. 1 \in DOMAIN Contents(k)[b] /\ Contents(k)[b][1] = e
        BY <4>1, <4>3, <4>4, <4>5, <4>6
      <4>8. ASSUME NEW i \in DOMAIN tail
            PROVE  i + 1 \in DOMAIN Contents(k)[b] /\ Contents(k)[b][i + 1] = tail[i]
        <5>1. i + 1 \in 1 .. 1 + Len(tail) /\ ~(i + 1 <= 1) /\ (i + 1) - 1 = i BY <4>5
        <5> QED BY <4>3, <4>4, <4>6, <5>1
      <4>9. ASSUME NEW i \in DOMAIN Append(q, e)
            PROVE  \/ Append(q, e)[i] = e
                   \/ i \in DOMAIN q /\ Append(q, e)[i] = q[i]
        <5> HIDE DEF q
        <5>1. /\ Len(Append(q, e)) = Len(q) + 1 /\ Append(q, e) \in Seq(Numbered)
              /\ \A j \in 1 .. Len(q) : Append(q, e)[j] = q[j]
              /\ Append(q, e)[Len(q) + 1] = e
          BY <1>4, <4>2, AppendProperties
        <5>2. i \in 1 .. Len(q) + 1 /\ DOMAIN q = 1 .. Len(q) /\ Len(q) \in Nat
          BY <4>2, <5>1
        <5>3. CASE i = Len(q) + 1 BY <5>1, <5>3
        <5>4. CASE i \in 1 .. Len(q) BY <5>1, <5>2, <5>4
        <5> QED BY <5>2, <5>3, <5>4
      <4>10. ASSUME NEW x \in Way(k), NEW i \in DOMAIN Contents(k)'[x]
             PROVE  \E d \in Way(k) : \E j \in DOMAIN Contents(k)[d] :
                      Contents(k)'[x][i] = Contents(k)[d][j]
        <5>1. CASE x = b BY <3>3, <4>3, <4>8, <5>1
        <5>2. CASE x = c
          <6>1. \/ Contents(k)'[x][i] = e
                \/ i \in DOMAIN Contents(k)[c] /\ Contents(k)'[x][i] = Contents(k)[c][i]
            BY <4>3, <4>9, <5>2
          <6> QED BY <2>6, <3>3, <4>7, <6>1
        <5>3. CASE x # b /\ x # c BY <4>3, <5>3
        <5> QED BY <5>1, <5>2, <5>3
      <4> QED BY <1>9, <4>10 DEF NothingNew
    <3>16. EventsKnown(k)' BY <1>3, <3>12, <3>15, EventsStayKnown
    <3> QED BY <1>9, <3>14, <3>16 DEF SinkFlow
  <2> QED BY <2>5, <2>6
<1> QED BY <1>5, <1>12, <1>13

(* The goroutine of channel w takes an event, or returns.                  *)
LEMMA WorkerTakesFlow ==
  ASSUME DagTyped, DagTyped', SourcesMoveOn, NEW k \in SinkIds, SinkFlow(k),
         NEW w \in InputChannels, WorkerTakes(w) \/ ProcessFails(w)
  PROVE  SinkFlow(k)'
<1>1. PICK e : e = Head(inChan[w]) OBVIOUS
<1>2. PICK tail : tail = Tail(inChan[w]) OBVIOUS
<1>3. /\ worker[w] = Idle /\ inChan[w] # <<>>
      /\ UNCHANGED <<topology, made, srcChan, adapter, sinkChan, written>>
      /\ inChan' = [inChan EXCEPT ![w] = tail]
      /\ \/ UNCHANGED worker
         \/ worker' = [worker EXCEPT ![w] = Idle]
         \/ worker' = [worker EXCEPT ![w] = Sending(e, OutputChannels(w[1]))]
  BY <1>1, <1>2 DEF WorkerTakes, ProcessFails, Take
<1>4. inChan[w] \in Seq(Numbered) /\ inChan \in [InputChannels -> Seq(Numbered)]
      /\ worker = [v \in InputChannels |-> worker[v]]
  BY DEF DagTyped
<1>5. <<e>> \in Seq(Numbered) /\ tail \in Seq(Numbered) /\ <<e>> \o tail = inChan[w]
  BY <1>1, <1>2, <1>3, <1>4, HeadThenTail
<1>6. /\ inChan'[w] = tail
      /\ worker'[w] = Idle \/ worker'[w] = Sending(e, OutputChannels(w[1]))
      /\ \A v \in InputChannels : v # w => inChan'[v] = inChan[v] /\ worker'[v] = worker[v]
  BY <1>3, <1>4
<1>7. AheadOf(k, w) = <<>> BY <1>3 DEF AheadOf, Idle
<1>8. AheadOf(k, w)' = <<>> \/ AheadOf(k, w)' = <<e>>
  BY <1>6 DEF AheadOf, Idle, Sending
<1> DEFINE one == <<e>>
<1>9. <<>> \o inChan[w] = inChan[w] /\ <<>> \o tail = tail /\ <<>> \in Seq(Numbered)
  BY <1>4, <1>5, ConcatEmptySeq
<1>10. one \in Seq(Numbered) /\ one \o tail = inChan[w] BY <1>5
<1>11. CASE AheadOf(k, w)' = <<>>
  <2> HIDE DEF one
  <2>1. AheadOf(k, w) \o inChan[w] = one \o (AheadOf(k, w)' \o inChan'[w])
    BY <1>6, <1>7, <1>9, <1>10, <1>11
  <2>2. Dropped(Way(k), Contents(k), Contents(k)') BY <1>3, <1>6, <1>10, <2>1, WorkerDrops
  <2> QED BY <1>3, <2>2, SinkFlowDrops
<1>12. CASE AheadOf(k, w)' = one
  <2> HIDE DEF one
  <2>1. AheadOf(k, w) \o inChan[w] = <<>> \o (AheadOf(k, w)' \o inChan'[w])
    BY <1>6, <1>7, <1>9, <1>10, <1>12
  <2>2. Dropped(Way(k), Contents(k), Contents(k)') BY <1>3, <1>6, <1>9, <2>1, WorkerDrops
  <2> QED BY <1>3, <2>2, SinkFlowDrops
<1> QED BY <1>8, <1>11, <1>12

LEMMA WorkerReturnsFlow ==
  ASSUME DagTyped, DagTyped', SourcesMoveOn, NEW k \in SinkIds, SinkFlow(k),
         NEW w \in InputChannels, WorkerReturns(w)
  PROVE  SinkFlow(k)'
<1>1. PICK one : one = AheadOf(k, w) OBVIOUS
<1>2. /\ UNCHANGED <<topology, made, srcChan, adapter, sinkChan, written, inChan>>
      /\ worker' = [worker EXCEPT ![w] = Returned]
  BY DEF WorkerReturns
<1>3. inChan[w] \in Seq(Numbered) /\ worker = [v \in InputChannels |-> worker[v]]
  BY DEF DagTyped
<1>4. /\ inChan'[w] = inChan[w] /\ worker'[w] = Returned
      /\ \A v \in InputChannels : v # w => inChan'[v] = inChan[v] /\ worker'[v] = worker[v]
  BY <1>2, <1>3
<1>5. AheadOf(k, w)' = <<>> BY <1>4 DEF AheadOf, Returned
<1>6. one \in Seq(Numbered)
  <2>1. worker[w].state = "sending" => worker[w].event \in Numbered BY DEF DagTyped
  <2> QED BY <1>1, <2>1 DEF AheadOf
<1>7. AheadOf(k, w) \o inChan[w] = one \o (AheadOf(k, w)' \o inChan'[w])
  BY <1>1, <1>3, <1>4, <1>5, ConcatEmptySeq
<1>8. Dropped(Way(k), Contents(k), Contents(k)') BY <1>2, <1>4, <1>6, <1>7, WorkerDrops
<1> QED BY <1>2, <1>8, SinkFlowDrops

LEMMA SinkWritesFlow ==
  ASSUME DagTyped, DagTyped', SourcesMoveOn, NEW k \in SinkIds, SinkFlow(k),
         NEW l \in SinkIds, SinkWrites(l)
  PROVE  SinkFlow(k)'
<1>1. /\ sinkChan[l] # <<>>
      /\ UNCHANGED <<topology, made, srcChan, adapter, inChan, worker>>
      /\ sinkChan' = [sinkChan EXCEPT ![l] = Tail(@)]
      /\ written' = [written EXCEPT ![l] = Append(@, Head(sinkChan[l]))]
  BY DEF SinkWrites
<1>2. sinkChan \in [SinkIds -> Seq(Numbered)] /\ written \in [SinkIds -> Seq(Numbered)]
  BY DEF DagTyped
<1>3. sinkChan[l] \in Seq(Numbered) /\ written[l] \in Seq(Numbered) BY <1>2
<1>4. Append(written[l], Head(sinkChan[l])) \o Tail(sinkChan[l]) = written[l] \o sinkChan[l]
  <2> DEFINE one == <<Head(sinkChan[l])>>
             tail == Tail(sinkChan[l])
  <2>1. /\ Head(sinkChan[l]) \in Numbered /\ one \in Seq(Numbered) /\ tail \in Seq(Numbered)
        /\ one \o tail = sinkChan[l]
    BY <1>1, <1>3, HeadThenTail
  <2>2. Append(written[l], Head(sinkChan[l])) = written[l] \o one
    BY <1>3, <2>1, AppendIsConcat
  <2>3. (written[l] \o one) \o tail = written[l] \o (one \o tail)
    <3> DEFINE before == written[l]
    <3>1. before \in Seq(Numbered) /\ one \in Seq(Numbered) /\ tail \in Seq(Numbered)
      BY <1>3, <2>1
    <3> HIDE DEF before, one, tail
    <3>2. (before \o one) \o tail = before \o (one \o tail) BY SMTT(30), <3>1, ConcatAssociative
    <3> QED BY <3>2 DEF before
  <2> HIDE DEF one, tail
  <2> QED BY <2>1, <2>2, <2>3 DEF tail
<1>5. /\ sinkChan'[l] = Tail(sinkChan[l])
      /\ written'[l] = Append(written[l], Head(sinkChan[l]))
      /\ \A x \in SinkIds : x # l => sinkChan'[x] = sinkChan[x] /\ written'[x] = written[x]
  BY <1>1, <1>2
<1>6. Way(k)' = Way(k) BY <1>1, SameWays
<1>7. ASSUME NEW x \in Way(k)
      PROVE  InHand(k, x)' \o Queue(x)' = InHand(k, x) \o Queue(x)
  <2>1. x \in Channels BY DEF Way
  <2>2. CASE x[1] = "sink" /\ x[2] = l BY <1>4, <1>5, <2>2 DEF InHand, Queue
  <2>3. CASE x[1] = "sink" /\ x[2] # l
    <3>1. x[2] \in SinkIds BY <2>1, <2>3, ChannelIs
    <3> QED BY <1>5, <2>3, <3>1 DEF InHand, Queue
  <2>4. CASE x[1] # "sink" BY <1>1, <1>6, <2>4 DEF InHand, Queue, AheadOf
  <2> QED BY <2>2, <2>3, <2>4
<1>8. Dropped(Way(k), Contents(k), Contents(k)') BY <1>1, <1>7, SameContents
<1> QED BY <1>1, <1>8, SinkFlowDrops

LEMMA NothingMoves ==
  ASSUME DagTyped, DagTyped', SourcesMoveOn, NEW k \in SinkIds, SinkFlow(k),
         UNCHANGED <<topology, inChan, worker, sinkChan, written>>
  PROVE  SinkFlow(k)'
<1>1. Way(k)' = Way(k) BY SameWays
<1>2. \A x \in Way(k) : InHand(k, x)' \o Queue(x)' = InHand(k, x) \o Queue(x)
  BY <1>1 DEF InHand, Queue, AheadOf
<1>3. Dropped(Way(k), Contents(k), Contents(k)') BY <1>2, SameContents
<1> QED BY <1>3, SinkFlowDrops

SourceTypes ==
  /\ made \in [SourceIds -> Nat] /\ srcChan \in [SourceIds -> Seq(Numbered)]
  /\ adapter = [a \in Adapters |-> adapter[a]]
  /\ \A a \in Adapters : adapter[a].state = "sending" => adapter[a].event \in Numbered
ChannelTypes ==
  /\ inChan \in [InputChannels -> Seq(Numbered)]
  /\ sinkChan \in [SinkIds -> Seq(Numbered)] /\ written \in [SinkIds -> Seq(Numbered)]
WorkerTypes ==
  /\ worker = [w \in InputChannels |-> worker[w]]
  /\ \A w \in InputChannels : worker[w].state = "sending" =>
       worker[w].event \in Numbered /\ worker[w].left \subseteq OutputChannels(w[1])

LEMMA TypesStay ==
  ASSUME UNCHANGED topology, DagTyped
  PROVE  /\ UNCHANGED <<made, srcChan, adapter>> => SourceTypes'
         /\ UNCHANGED <<inChan, sinkChan, written>> => ChannelTypes'
         /\ UNCHANGED worker => WorkerTypes'
         /\ SourceTypes' /\ ChannelTypes' /\ WorkerTypes' => DagTyped'
BY SameGraph DEF DagTyped, SourceTypes, ChannelTypes, WorkerTypes

LEMMA WorkerTypesStay ==
  ASSUME UNCHANGED topology, DagTyped, NEW w \in InputChannels, NEW e \in Numbered,
         NEW left \in SUBSET OutputChannels(w[1]), NEW to \in {Idle, Returned, Sending(e, left)},
         worker' = [worker EXCEPT ![w] = to]
  PROVE  WorkerTypes'
<1>1. worker = [v \in InputChannels |-> worker[v]] BY DEF DagTyped
<1>2. \A v \in InputChannels : worker'[v] = IF v = w THEN to ELSE worker[v] BY <1>1
<1>3. to.state = "sending" => to.event \in Numbered /\ to.left \subseteq OutputChannels(w[1])
  BY DEF Idle, Returned, Sending
<1>4. \A v \in InputChannels : worker'[v].state = "sending" =>
        worker'[v].event \in Numbered /\ worker'[v].left \subseteq OutputChannels(v[1])
  BY <1>2, <1>3 DEF DagTyped
<1>5. worker' = [v \in InputChannels |-> worker'[v]] BY <1>1
<1>6. UNCHANGED <<InputChannels, Numbered>> /\ \A p : OutputChannels(p)' = OutputChannels(p)
  BY SameGraph
<1> QED BY <1>4, <1>5, <1>6 DEF WorkerTypes

LEMMA AdapterTypesStay ==
  ASSUME UNCHANGED <<topology, made, srcChan>>, DagTyped, NEW a \in Adapters,
         NEW to \in {Idle, Returned}, adapter' = [adapter EXCEPT ![a] = to]
  PROVE  /\ SourceTypes'
         /\ \A b \in Adapters : adapter'[b].state = "sending" =>
              adapter[b].state = "sending" /\ adapter'[b].event = adapter[b].event
<1>1. adapter = [b \in Adapters |-> adapter[b]] BY DEF DagTyped
<1>2. \A b \in Adapters : adapter'[b] = IF b = a THEN to ELSE adapter[b] BY <1>1
<1>3. to.state # "sending" BY DEF Idle, Returned
<1>4. \A b \in Adapters : adapter'[b].state = "sending" =>
        adapter[b].state = "sending" /\ adapter'[b].event = adapter[b].event
  BY <1>2, <1>3
<1>5. \A b \in Adapters : adapter'[b].state = "sending" => adapter'[b].event \in Numbered
  BY <1>4 DEF DagTyped
<1>6. adapter' = [b \in Adapters |-> adapter'[b]] BY <1>1
<1> QED BY <1>4, <1>5, <1>6, SameGraph DEF SourceTypes, DagTyped

LEMMA DagStepKeeps ==
  ASSUME DagInvariant, [DagNext]_dagVars
  PROVE  DagInvariant'
<1>1. DagTyped /\ SourcesKnown /\ AdaptersKnown BY DEF DagInvariant
<1>2. ASSUME UNCHANGED topology, DagTyped', SourcesKnown', AdaptersKnown',
             \A k \in SinkIds : OneWay(k) /\ SinkFlow(k) => SinkFlow(k)'
      PROVE  DagInvariant'
  <2>1. SinkIds' = SinkIds BY <1>2, SameGraph
  <2>2. \A k : OneWay(k)' = OneWay(k) BY <1>2, SameWays
  <2> QED BY <1>2, <2>1, <2>2 DEF DagInvariant
<1>3. ASSUME UNCHANGED <<topology, made, srcChan, inChan, worker, sinkChan, written>>,
             SourceTypes',
             \A a \in Adapters : adapter'[a].state = "sending" =>
               adapter[a].state = "sending" /\ adapter'[a].event = adapter[a].event
      PROVE  DagInvariant'
  <2>1. DagTyped' BY <1>1, <1>3, TypesStay
  <2>2. SourcesKnown' /\ AdaptersKnown' /\ SourcesMoveOn BY <1>1, <1>3, SourcesStay
  <2>3. \A k \in SinkIds : SinkFlow(k) => SinkFlow(k)'
    BY <1>1, <1>3, <2>1, <2>2, NothingMoves
  <2> QED BY <1>2, <1>3, <2>1, <2>2, <2>3
<1>4. ASSUME UNCHANGED <<topology, made, srcChan, adapter, inChan, worker, sinkChan, written>>
      PROVE  DagInvariant'
  <2>1. SourceTypes' BY <1>1, <1>4, TypesStay
  <2> QED BY <1>3, <1>4, <2>1
<1>5. ASSUME NEW s \in SourceIds, SourceSends(s) PROVE DagInvariant'
  <2>1. /\ SourcesKnown' /\ AdaptersKnown' /\ SourcesMoveOn
        /\ made' \in [SourceIds -> Nat] /\ srcChan' \in [SourceIds -> Seq(Numbered)]
    BY <1>1, <1>5, SourceSendsKeeps
  <2>2. UNCHANGED <<topology, adapter, inChan, worker, sinkChan, written>>
    BY <1>5 DEF SourceSends
  <2>3. SourceTypes' BY <1>1, <2>1, <2>2, SameGraph DEF SourceTypes, DagTyped
  <2>4. DagTyped' BY <1>1, <2>2, <2>3, TypesStay
  <2>5. \A k \in SinkIds : SinkFlow(k) => SinkFlow(k)'
    BY <1>1, <2>1, <2>2, <2>4, NothingMoves
  <2> QED BY <1>2, <2>1, <2>2, <2>4, <2>5
<1>6. ASSUME NEW a \in Adapters, AdapterTakes(a) PROVE DagInvariant'
  <2>1. /\ SourcesKnown' /\ AdaptersKnown' /\ SourcesMoveOn
        /\ srcChan' \in [SourceIds -> Seq(Numbered)]
        /\ adapter' = [b \in Adapters |-> adapter'[b]]
        /\ \A b \in Adapters : adapter'[b].state = "sending" => adapter'[b].event \in Numbered
    BY <1>1, <1>6, AdapterTakesKeeps
  <2>2. UNCHANGED <<topology, made, inChan, worker, sinkChan, written>>
    BY <1>6 DEF AdapterTakes
  <2>3. SourceTypes' BY <1>1, <2>1, <2>2, SameGraph DEF SourceTypes, DagTyped
  <2>4. DagTyped' BY <1>1, <2>2, <2>3, TypesStay
  <2>5. \A k \in SinkIds : SinkFlow(k) => SinkFlow(k)'
    BY <1>1, <2>1, <2>2, <2>4, NothingMoves
  <2> QED BY <1>2, <2>1, <2>2, <2>4, <2>5
<1>7. ASSUME NEW a \in Adapters, AdapterSends(a) PROVE DagInvariant'
  <2>1. PICK e : e = adapter[a].event OBVIOUS
  <2>2. /\ UNCHANGED <<topology, made, srcChan, worker, sinkChan, written>>
        /\ adapter[a].state = "sending" /\ adapter' = [adapter EXCEPT ![a] = Idle]
        /\ inChan' = [inChan EXCEPT ![<<a[2], a[3]>>] = Append(@, e)]
    BY <1>7, <2>1 DEF AdapterSends
  <2>3. e \in Numbered BY <1>1, <2>1, <2>2 DEF DagTyped
  <2>4. /\ SourceTypes'
        /\ \A b \in Adapters : adapter'[b].state = "sending" =>
             adapter[b].state = "sending" /\ adapter'[b].event = adapter[b].event
    BY <1>1, <2>2, AdapterTypesStay
  <2>5. ChannelTypes'
    <3>1. Entry(a) \in Channels BY AdapterIs
    <3>2. Comes(Entry(a), e) BY <2>2 DEF Comes, Entry
    <3>3. /\ inChan' \in [InputChannels -> Seq(Numbered)]
          /\ sinkChan' \in [SinkIds -> Seq(Numbered)]
      BY <1>1, <2>3, <3>1, <3>2, QueuesAre
    <3> QED BY <1>1, <2>2, <3>3, SameGraph DEF ChannelTypes, DagTyped
  <2>6. DagTyped' BY <1>1, <2>2, <2>4, <2>5, TypesStay
  <2>7. SourcesKnown' /\ AdaptersKnown' /\ SourcesMoveOn BY <1>1, <2>2, <2>4, SourcesStay
  <2>8. \A k \in SinkIds : SinkFlow(k) => SinkFlow(k)'
    BY <1>1, <1>7, <2>6, <2>7, AdapterSendsFlow
  <2> QED BY <1>2, <2>2, <2>6, <2>7, <2>8
<1>8. ASSUME NEW a \in Adapters, AdapterReturns(a) PROVE DagInvariant'
  <2>1. /\ UNCHANGED <<topology, made, srcChan, inChan, worker, sinkChan, written>>
        /\ adapter' = [adapter EXCEPT ![a] = Returned]
    BY <1>8 DEF AdapterReturns
  <2>2. /\ SourceTypes'
        /\ \A b \in Adapters : adapter'[b].state = "sending" =>
             adapter[b].state = "sending" /\ adapter'[b].event = adapter[b].event
    BY <1>1, <2>1, AdapterTypesStay
  <2> QED BY <1>3, <2>1, <2>2
<1>9. ASSUME UNCHANGED <<topology, made, srcChan, adapter>>, ChannelTypes', WorkerTypes',
             DagTyped' /\ SourcesMoveOn =>
               \A k \in SinkIds : OneWay(k) /\ SinkFlow(k) => SinkFlow(k)'
      PROVE  DagInvariant'
  <2>1. SourceTypes' BY <1>1, <1>9, TypesStay
  <2>2. DagTyped' BY <1>1, <1>9, <2>1, TypesStay
  <2>3. SourcesKnown' /\ AdaptersKnown' /\ SourcesMoveOn BY <1>1, <1>9, SourcesStay
  <2> QED BY <1>2, <1>9, <2>2, <2>3
<1>10. ASSUME NEW w \in InputChannels, WorkerTakes(w) \/ ProcessFails(w) PROVE DagInvariant'
  <2>1. PICK e : e = Head(inChan[w]) OBVIOUS
  <2>2. /\ UNCHANGED <<topology, made, srcChan, adapter, sinkChan, written>> /\ inChan[w] # <<>>
        /\ inChan' = [inChan EXCEPT ![w] = Tail(@)]
        /\ \/ UNCHANGED worker
           \/ worker' = [worker EXCEPT ![w] = Idle]
           \/ worker' = [worker EXCEPT ![w] = Sending(e, OutputChannels(w[1]))]
    BY <1>10, <2>1 DEF WorkerTakes, ProcessFails, Take
  <2>3. inChan[w] \in Seq(Numbered) /\ inChan \in [InputChannels -> Seq(Numbered)]
    BY <1>1 DEF DagTyped
  <2>4. e \in Numbered /\ Tail(inChan[w]) \in Seq(Numbered) BY <2>1, <2>2, <2>3, HeadThenTail
  <2>5. ChannelTypes'
    <3>1. inChan' \in [InputChannels -> Seq(Numbered)] BY <2>2, <2>3, <2>4
    <3> QED BY <1>1, <2>2, <3>1, SameGraph DEF ChannelTypes, DagTyped
  <2>6. WorkerTypes' BY <1>1, <2>2, <2>4, TypesStay, WorkerTypesStay
  <2>7. DagTyped' /\ SourcesMoveOn => \A k \in SinkIds : OneWay(k) /\ SinkFlow(k) => SinkFlow(k)'
    BY <1>1, <1>10, WorkerTakesFlow
  <2> QED BY <1>9, <2>2, <2>5, <2>6, <2>7
<1>11. ASSUME NEW w \in InputChannels, WorkerSends(w) PROVE DagInvariant'
  <2>1. PICK e, left : e = worker[w].event /\ left = worker[w].left OBVIOUS
  <2>2. worker[w].state = "sending" /\ UNCHANGED <<topology, made, srcChan, adapter, written>>
    BY <1>11 DEF WorkerSends
  <2>3. e \in Numbered /\ left \subseteq OutputChannels(w[1]) BY <1>1, <2>1, <2>2 DEF DagTyped
  <2>4. PICK c \in left :
          /\ worker' = [worker EXCEPT ![w] =
               IF left \ {c} = {} THEN Idle ELSE Sending(e, left \ {c})]
          /\ UNCHANGED <<inChan, sinkChan>> \/ Comes(c, e)
    <3>1. SendsOn(w, e, left) BY <1>11, <2>1, WorkerSendsIs
    <3> QED BY <3>1 DEF SendsOn
  <2>5. WorkerTypes'
    <3>1. left \ {c} \in SUBSET OutputChannels(w[1]) BY <2>3
    <3> QED BY <1>1, <2>2, <2>3, <2>4, <3>1, WorkerTypesStay
  <2>6. ChannelTypes'
    <3>1. CASE UNCHANGED <<inChan, sinkChan>> BY <1>1, <2>2, <3>1, TypesStay
    <3>2. CASE Comes(c, e)
      <4>1. c \in Channels BY <2>3, InputChannelIs, OutputsAreChannels
      <4>2. /\ inChan' \in [InputChannels -> Seq(Numbered)]
            /\ sinkChan' \in [SinkIds -> Seq(Numbered)]
        BY <1>1, <2>3, <3>2, <4>1, QueuesAre
      <4> QED BY <1>1, <2>2, <4>2, SameGraph DEF ChannelTypes, DagTyped
    <3> QED BY <2>4, <3>1, <3>2
  <2>7. DagTyped' /\ SourcesMoveOn => \A k \in SinkIds : OneWay(k) /\ SinkFlow(k) => SinkFlow(k)'
    BY <1>1, <1>11, WorkerSendsFlow
  <2> QED BY <1>9, <2>2, <2>5, <2>6, <2>7
<1>12. ASSUME NEW w \in InputChannels, WorkerReturns(w) PROVE DagInvariant'
  <2>1. /\ UNCHANGED <<topology, made, srcChan, adapter, inChan, sinkChan, written>>
        /\ worker' = [worker EXCEPT ![w] = Returned]
    BY <1>12 DEF WorkerReturns
  <2>2. WorkerTypes'
    <3>1. worker = [v \in InputChannels |-> worker[v]] BY <1>1 DEF DagTyped
    <3>2. \A v \in InputChannels : worker'[v] = IF v = w THEN Returned ELSE worker[v]
      BY <2>1, <3>1
    <3>3. \A v \in InputChannels : worker'[v].state = "sending" =>
            worker'[v].event \in Numbered /\ worker'[v].left \subseteq OutputChannels(v[1])
      <4>1. Returned.state # "sending" BY DEF Returned
      <4> QED BY <1>1, <3>2, <4>1 DEF DagTyped
    <3>4. worker' = [v \in InputChannels |-> worker'[v]] BY <2>1, <3>1
    <3> QED BY <2>1, <3>3, <3>4, SameGraph DEF WorkerTypes
  <2>3. ChannelTypes' BY <1>1, <2>1, TypesStay
  <2>4. DagTyped' /\ SourcesMoveOn => \A k \in SinkIds : OneWay(k) /\ SinkFlow(k) => SinkFlow(k)'
    BY <1>1, <1>12, WorkerReturnsFlow
  <2> QED BY <1>9, <2>1, <2>2, <2>3, <2>4
<1>13. ASSUME NEW l \in SinkIds, SinkWrites(l) PROVE DagInvariant'
  <2>1. /\ UNCHANGED <<topology, made, srcChan, adapter, inChan, worker>> /\ sinkChan[l] # <<>>
        /\ sinkChan' = [sinkChan EXCEPT ![l] = Tail(@)]
        /\ written' = [written EXCEPT ![l] = Append(@, Head(sinkChan[l]))]
    BY <1>13 DEF SinkWrites
  <2>2. /\ sinkChan \in [SinkIds -> Seq(Numbered)] /\ sinkChan[l] \in Seq(Numbered)
        /\ written \in [SinkIds -> Seq(Numbered)] /\ written[l] \in Seq(Numbered)
    BY <1>1 DEF DagTyped
  <2>3. Head(sinkChan[l]) \in Numbered /\ Tail(sinkChan[l]) \in Seq(Numbered)
    BY <2>1, <2>2, HeadThenTail
  <2>4. Append(written[l], Head(sinkChan[l])) \in Seq(Numbered) BY <2>2, <2>3, AppendProperties
  <2>5. /\ sinkChan' \in [SinkIds -> Seq(Numbered)]
        /\ written' \in [SinkIds -> Seq(Numbered)]
    BY <2>1, <2>2, <2>3, <2>4
  <2>6. ChannelTypes' BY <1>1, <2>1, <2>5, SameGraph DEF ChannelTypes, DagTyped
  <2>7. WorkerTypes' BY <1>1, <2>1, TypesStay
  <2>8. DagTyped' /\ SourcesMoveOn => \A k \in SinkIds : OneWay(k) /\ SinkFlow(k) => SinkFlow(k)'
    BY <1>1, <1>13, SinkWritesFlow
  <2> QED BY <1>9, <2>1, <2>6, <2>7, <2>8
<1>14. CASE \/ \E s \in SourceIds : SourceReturns(s) \/ SourcePanics(s)
            \/ \E l \in SinkIds : SinkReturns(l)
            \/ CancelCaller \/ CallStop \/ StopAdvances \/ UNCHANGED dagVars
  BY <1>4, <1>14
  DEF SourceReturns, SourcePanics, SinkReturns, CancelCaller, CallStop, StopAdvances, dagVars
<1> QED
  BY <1>5, <1>6, <1>7, <1>8, <1>10, <1>11, <1>12, <1>13, <1>14
  DEF DagNext, SourceStep, AdapterStep, WorkerStep, SinkStep

LEMMA DagInitial == DagInit => DagInvariant
<1> SUFFICES ASSUME DagInit PROVE DagInvariant OBVIOUS
<1>1. \A a \in Adapters : adapter[a].state # "sending" BY DEF DagInit, Idle
<1>2. \A w \in InputChannels : worker[w].state # "sending" BY DEF DagInit, Idle
<1>3. DagTyped BY <1>1, <1>2 DEF DagInit, DagTyped
<1>4. SourcesKnown BY DEF DagInit, SourcesKnown
<1>5. AdaptersKnown BY <1>1 DEF AdaptersKnown
<1>6. ASSUME NEW k \in SinkIds PROVE SinkFlow(k)
  <2>1. ASSUME NEW x \in Way(k) PROVE Contents(k)[x] = <<>>
    <3>1. x \in Channels BY DEF Way
    <3>2. InHand(k, x) = <<>>
      <4>1. CASE x[1] = "sink" BY <3>1, <4>1, ChannelIs DEF InHand, DagInit
      <4>2. CASE x[1] = "in" /\ <<x[2], x[3]>> \in InputChannels
        <5> DEFINE w == <<x[2], x[3]>>
        <5>1. w \in InputChannels BY <4>2
        <5> HIDE DEF w
        <5>2. AheadOf(k, w) = <<>> BY <1>2, <5>1 DEF AheadOf
        <5> QED BY <4>2, <5>2 DEF InHand, w
      <4> QED BY <3>1, <4>1, <4>2, ChannelIs
    <3>3. Queue(x) = <<>>
      <4>1. CASE x[1] = "sink" BY <3>1, <4>1, ChannelIs DEF Queue, DagInit
      <4>2. CASE x[1] = "in" /\ <<x[2], x[3]>> \in InputChannels BY <4>2 DEF Queue, DagInit
      <4> QED BY <3>1, <4>1, <4>2, ChannelIs
    <3>4. <<>> \o <<>> = <<>> BY ConcatEmptySeq
    <3> QED BY <3>2, <3>3, <3>4 DEF Contents
  <2>2. \A x \in Way(k) : DOMAIN Contents(k)[x] = {} BY <2>1
  <2> QED BY <2>2 DEF SinkFlow, Flow, NoneTwice, NotOvertaken, Entered, EventsKnown
<1> QED BY <1>3, <1>4, <1>5, <1>6 DEF DagInvariant

LEMMA DagOrdered == DagInvariant => WrittenInOrder
<1> SUFFICES ASSUME DagInvariant, NEW k \in SinkIds, OneWay(k),
                    NEW i \in DOMAIN written[k], NEW j \in DOMAIN written[k], i < j
             PROVE  InOrder(written[k][i], written[k][j], k)
  BY DEF WrittenInOrder
<1> DEFINE x == <<"sink", k>>
           q == written[k]
           r == sinkChan[k]
<1>1. DagTyped /\ Flow(Way(k), Leads(k), Ordered(k), EntriesOf(k), Contents(k))
  BY DEF DagInvariant, SinkFlow
<1>2. x \in Way(k) /\ x[1] = "sink" /\ x[2] = k BY WayIs
<1>3. q \in Seq(Numbered) /\ r \in Seq(Numbered) BY <1>1 DEF DagTyped
<1>4. Contents(k)[x] = q \o r
  <2> HIDE DEF x
  <2> QED BY <1>2 DEF Contents, InHand, Queue
<1>5. i \in DOMAIN q /\ j \in DOMAIN q OBVIOUS
<1> HIDE DEF x, q, r
<1>6. /\ q \o r \in Seq(Numbered) /\ Len(q \o r) = Len(q) + Len(r)
      /\ \A n \in 1 .. Len(q) + Len(r) : (q \o r)[n] = IF n <= Len(q) THEN q[n] ELSE r[n - Len(q)]
  BY <1>3, ConcatProperties
<1>7. /\ Len(q) \in Nat /\ Len(r) \in Nat /\ DOMAIN q = 1 .. Len(q)
      /\ DOMAIN (q \o r) = 1 .. Len(q) + Len(r)
  BY <1>3, <1>6
<1>8. \A n \in DOMAIN q : n \in DOMAIN (q \o r) /\ (q \o r)[n] = q[n] /\ n \in Nat
  BY <1>6, <1>7
<1>9. q[i] # q[j]
  <2>1. i # j BY <1>5, <1>8
  <2>2. i \in DOMAIN Contents(k)[x] /\ j \in DOMAIN Contents(k)[x] BY <1>4, <1>5, <1>8
  <2>3. Contents(k)[x][i] # Contents(k)[x][j]
    BY <1>1, <1>2, <2>1, <2>2 DEF Flow, NoneTwice
  <2> QED BY <1>4, <1>5, <1>8, <2>3
<1>10. ASSUME q[i][1] = q[j][1], q[i][1] \in Ordered(k) PROVE ~(q[j][2] < q[i][2])
  <2>1. ~(j < i) BY <1>5, <1>8
  <2> QED BY <1>1, <1>2, <1>4, <1>5, <1>8, <1>10, <2>1 DEF Flow, NotOvertaken
<1>11. q[i] \in Numbered /\ q[j] \in Numbered BY <1>3, <1>5
<1>12. q[i][2] \in Nat /\ q[j][2] \in Nat /\ q[i][1] \in SourceIds BY <1>11, NumberedIs
<1>13. q[i][1] = q[j][1] => q[i][2] # q[j][2]
  BY <1>9, <1>11 DEF Numbered
<1>14. q[i][1] = q[j][1] /\ OneEntry(q[i][1], k) => q[i][2] < q[j][2]
  <2>1. OneEntry(q[i][1], k) => q[i][1] \in Ordered(k) BY <1>12 DEF Ordered
  <2> QED BY <1>10, <1>12, <1>13, <2>1
<1> QED BY <1>9, <1>14 DEF InOrder, q

(* However goroutines and channels interleave, a sink to which one way     *)
(* leads from every processor is given no event twice, and those of a      *)
(* source with a single entry to that way in the order of their sending;   *)
(* for a pipeline of any shape and channels of any capacity (dag.go:190).  *)
THEOREM EventsStayInOrder == DagSpec => []WrittenInOrder
<1>1. DagInvariant /\ [DagNext]_dagVars => DagInvariant' BY DagStepKeeps
<1> QED BY <1>1, DagInitial, DagOrdered, PTL DEF DagSpec

(* Neither the lines of a component on their way to the screen nor the     *)
(* events of a source on theirs to a sink ever change places, whatever the *)
(* goroutines of both do (log_aggregator.go:115, dag.go:190).              *)
THEOREM OrderIsKept == MachineSpec => []StreamsKeepOrder
<1>1. MachineInit => LogInvariant /\ DagInvariant BY LogInitial, DagInitial DEF MachineInit
<1>2. LogInvariant /\ DagInvariant /\ [MachineNext]_machineVars => LogInvariant' /\ DagInvariant'
  BY PartsStep, LogStepKeeps, DagStepKeeps
<1>3. LogInvariant /\ DagInvariant => StreamsKeepOrder
  BY LogsOrdered, DagOrdered DEF StreamsKeepOrder
<1> QED BY <1>1, <1>2, <1>3, PTL DEF MachineSpec
===============================================================================
