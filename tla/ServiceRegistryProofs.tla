------------------------ MODULE ServiceRegistryProofs ------------------------
(***************************************************************************)
(* Proofs about ServiceRegistry, for any number of components and any      *)
(* choice of set-ups: what each change does to a table of services is a    *)
(* lemma, and each step of the system makes one change to each table.      *)
(***************************************************************************)
EXTENDS ServiceRegistry, TLAPS

(* What it means to be a table of services. *)
LEMMA ServicesDef ==
  \A f : f \in Services <=> DOMAIN f \subseteq Comps /\ f \in [DOMAIN f -> Service]
BY DEF Services

(* Every change of a table gives a table. *)
LEMMA RegisteredType ==
  ASSUME NEW f \in Services, NEW c \in Comps, NEW typed \in BOOLEAN
  PROVE  Registered(f, c, typed) \in Services
<1>1. DOMAIN f \subseteq Comps /\ f \in [DOMAIN f -> Service] BY ServicesDef
<1>2. [status |-> "HEALTHY", marked |-> FALSE, fresh |-> TRUE, typed |-> typed] \in Service
  BY DEF Service
<1>3. DOMAIN Registered(f, c, typed) = DOMAIN f \cup {c} BY DEF Registered
<1>4. Registered(f, c, typed) \in [DOMAIN f \cup {c} -> Service] BY <1>1, <1>2 DEF Registered
<1> QED BY <1>1, <1>3, <1>4, ServicesDef

LEMMA BeatenType ==
  ASSUME NEW f \in Services, NEW c, NEW status \in HealthStatus, NEW mark \in BOOLEAN
  PROVE  Beaten(f, c, status, mark) \in Services
<1>1. DOMAIN f \subseteq Comps /\ f \in [DOMAIN f -> Service] BY ServicesDef
<1>2. ASSUME NEW d \in DOMAIN f PROVE Beaten(f, c, status, mark)[d] \in Service
  BY <1>1, <1>2 DEF Beaten, StatusAfter, Service, HealthStatus
<1>3. DOMAIN Beaten(f, c, status, mark) = DOMAIN f BY DEF Beaten
<1>4. Beaten(f, c, status, mark) \in [DOMAIN f -> Service] BY <1>2 DEF Beaten
<1> QED BY <1>1, <1>3, <1>4, ServicesDef

LEMMA WithoutType ==
  ASSUME NEW f \in Services, NEW c PROVE Without(f, c) \in Services
<1>1. DOMAIN f \subseteq Comps /\ f \in [DOMAIN f -> Service] BY ServicesDef
<1>2. Without(f, c) \in [DOMAIN f \ {c} -> Service] /\ DOMAIN Without(f, c) = DOMAIN f \ {c}
  BY <1>1 DEF Without
<1> QED BY <1>1, <1>2, ServicesDef

LEMMA SweptType ==
  ASSUME NEW f \in Services, NEW S PROVE Swept(f, S) \in Services
<1>1. DOMAIN f \subseteq Comps /\ f \in [DOMAIN f -> Service] BY ServicesDef
<1>2. ASSUME NEW d \in DOMAIN f PROVE Swept(f, S)[d] \in Service
  BY <1>1, <1>2 DEF Swept, Service
<1>3. Swept(f, S) \in [DOMAIN f -> Service] /\ DOMAIN Swept(f, S) = DOMAIN f
  BY <1>2 DEF Swept
<1> QED BY <1>1, <1>3, ServicesDef

LEMMA AgedType ==
  ASSUME NEW f \in Services, NEW c PROVE Aged(f, c) \in Services
<1>1. DOMAIN f \subseteq Comps /\ f \in [DOMAIN f -> Service] BY ServicesDef
<1>2. ASSUME NEW d \in DOMAIN f PROVE Aged(f, c)[d] \in Service
  BY <1>1, <1>2 DEF Aged, Service
<1>3. Aged(f, c) \in [DOMAIN f -> Service] /\ DOMAIN Aged(f, c) = DOMAIN f
  BY <1>2 DEF Aged
<1> QED BY <1>1, <1>3, ServicesDef

LEMMA NoServicesType == NoServices \in Services
BY ServicesDef DEF NoServices

-----------------------------------------------------------------------------
(* The handlers keep both tables.                                          *)
LEMMA RegisterComponentType ==
  ASSUME TypeOK, NEW c \in Comps, NEW typed \in BOOLEAN, RegisterComponent(c, typed)
  PROVE  mem' \in Services /\ store' \in Services /\ up' \in BOOLEAN
BY RegisteredType DEF TypeOK, RegisterComponent, Stored

LEMMA HeartbeatType ==
  ASSUME TypeOK, NEW c, NEW status \in HealthStatus, NEW mark \in BOOLEAN,
         Heartbeat(c, status, mark)
  PROVE  mem' \in Services /\ store' \in Services /\ up' \in BOOLEAN /\ heard' \in SUBSET Comps
BY BeatenType DEF TypeOK, Heartbeat, Stored

(* The size of the pipeline is one the components allow. *)
LEMMA SizeType == TypeOK => size \in 1 .. MaxComponents /\ size \in Nat
<1> SUFFICES ASSUME TypeOK PROVE size \in 1 .. MaxComponents
  BY RegistryAssumption
<1>1. <<size, storage>> \in (1 .. MaxComponents) \X Storages
  BY RegistryAssumption DEF TypeOK
<1> QED BY <1>1

(* Every step keeps the types. *)
LEMMA TypeStep == TypeOK /\ [Next]_vars => TypeOK'
<1> SUFFICES ASSUME TypeOK, [Next]_vars PROVE TypeOK'
  OBVIOUS
<1>0. size \in 1 .. MaxComponents /\ size \in Nat /\ MaxComponents \in Nat
  BY SizeType, RegistryAssumption
<1> USE DEF TypeOK, setup, registry, runner, processes
<1>1. CASE Runner
  <2>1. CASE StartControlPlane BY <2>1, <1>0 DEF StartControlPlane, LoadServices, Comps
  <2>2. CASE StartComponent BY <2>2, <1>0 DEF StartComponent, Advance, Comps
  <2>3. CASE WaitForComponent BY <2>3, <1>0 DEF WaitForComponent, Advance, Comps
  <2>4. CASE GiveUp BY <2>4 DEF GiveUp
  <2>5. CASE EnrichRead BY <2>5 DEF EnrichRead
  <2>6. CASE EnrichSkip BY <2>6, <1>0 DEF EnrichSkip, Advance, Comps
  <2>7. CASE EnrichWrite
    <3>1. mem' \in Services /\ store' \in Services /\ up' \in BOOLEAN
      BY <2>7, RegisterComponentType DEF EnrichWrite
    <3> QED BY <2>7, <3>1, <1>0 DEF EnrichWrite, Comps
  <2>8. CASE EnrichFails BY <2>8, <1>0 DEF EnrichFails, Comps
  <2>9. CASE Wire BY <2>9, <1>0 DEF Wire, Advance, Comps
  <2>10. ASSUME NEW c \in 1 .. size, DeliveryFails(c) PROVE TypeOK'
    <3>1. mem' \in Services /\ store' \in Services /\ up' \in BOOLEAN /\ heard' \in SUBSET Comps
      BY <2>10, HeartbeatType DEF DeliveryFails, HealthStatus
    <3> QED BY <2>10, <3>1 DEF DeliveryFails
  <2>11. CASE Exit
    <3>1. beat' \in [Comps -> {"none", "waiting", "sending"}] BY <2>11 DEF Exit
    <3>2. orphans' \in SUBSET Comps /\ alive' \in SUBSET Comps /\ heard' \in SUBSET Comps
      BY <2>11 DEF Exit
    <3>3. next' \in Comps BY <2>11, <1>0 DEF Exit, Comps
    <3>4. up' \in BOOLEAN /\ mem' \in Services /\ store' \in Services
      BY <2>11, NoServicesType DEF Exit
    <3> QED BY <2>11, <3>1, <3>2, <3>3, <3>4 DEF Exit
  <2> QED BY <1>1, <2>1, <2>2, <2>3, <2>4, <2>5, <2>6, <2>7, <2>8, <2>9, <2>10, <2>11 DEF Runner
<1>2. CASE CheckServiceHealth BY <1>2, SweptType DEF CheckServiceHealth
<1>3. ASSUME NEW c \in Comps, Expire(c) PROVE TypeOK'
  BY <1>3, AgedType DEF Expire
<1>4. ASSUME NEW c \in Comps, Tick(c) PROVE TypeOK'
  BY <1>4 DEF Tick
<1>5. ASSUME NEW c \in Comps, SyntheticHeartbeat(c) PROVE TypeOK'
  <2>1. mem' \in Services /\ store' \in Services /\ up' \in BOOLEAN /\ heard' \in SUBSET Comps
    BY <1>5, HeartbeatType DEF SyntheticHeartbeat, HealthStatus
  <2> QED BY <1>5, <2>1 DEF SyntheticHeartbeat
<1>6. ASSUME NEW c \in Comps, Register(c) PROVE TypeOK'
  <2>1. mem' \in Services /\ store' \in Services /\ up' \in BOOLEAN
    BY <1>6, RegisterComponentType DEF Register
  <2> QED BY <1>6, <2>1 DEF Register
<1>7. ASSUME NEW c \in Comps, OwnHeartbeat(c) PROVE TypeOK'
  <2>1. mem' \in Services /\ store' \in Services /\ up' \in BOOLEAN /\ heard' \in SUBSET Comps
    BY <1>7, HeartbeatType DEF OwnHeartbeat
  <2> QED BY <1>7, <2>1 DEF OwnHeartbeat
<1>8. ASSUME NEW c \in Comps, Unregister(c) PROVE TypeOK'
  BY <1>8, WithoutType DEF Unregister, UnregisterComponent, Stored
<1>9. ASSUME NEW c \in Comps, Die(c) PROVE TypeOK'
  BY <1>9 DEF Die
<1>10. CASE UNCHANGED vars BY <1>10 DEF vars
<1> QED BY <1>1, <1>2, <1>3, <1>4, <1>5, <1>6, <1>7, <1>8, <1>9, <1>10 DEF Next

LEMMA InitType == Init => TypeOK
<1> SUFFICES ASSUME Init PROVE TypeOK OBVIOUS
<1>1. PICK s \in Setups : size = s[1] /\ storage = s[2] BY DEF Init
<1>2. s \in (1 .. MaxComponents) \X Storages BY RegistryAssumption
<1>3. s = <<size, storage>> BY <1>1, <1>2
<1>4. 1 \in Comps BY RegistryAssumption DEF Comps
<1> QED BY <1>1, <1>3, <1>4, NoServicesType DEF Init, TypeOK

(* Both tables hold only services of the pipeline, with a status that is   *)
(* never UNKNOWN, whatever the components report.                          *)
THEOREM TypeCorrect == Spec => []TypeOK
BY InitType, TypeStep, PTL DEF Spec
-----------------------------------------------------------------------------
(* A table in which no marked service is healthy. *)
Sound(f) == \A c \in DOMAIN f : f[c].marked => f[c].status = "UNHEALTHY"

(* Every change keeps that: a registration takes the mark away, a          *)
(* heartbeat that marks says UNHEALTHY, and no heartbeat heals a mark.     *)
LEMMA RegisteredSound ==
  ASSUME NEW f, Sound(f), NEW c, NEW typed PROVE Sound(Registered(f, c, typed))
BY DEF Sound, Registered

LEMMA BeatenSound ==
  ASSUME NEW f \in Services, Sound(f), NEW c, NEW status \in HealthStatus,
         NEW mark \in BOOLEAN, mark => status = "UNHEALTHY"
  PROVE  Sound(Beaten(f, c, status, mark))
<1> DEFINE g == Beaten(f, c, status, mark)
<1>1. f \in [DOMAIN f -> Service] BY ServicesDef
<1>2. SUFFICES ASSUME NEW d \in DOMAIN g, g[d].marked PROVE g[d].status = "UNHEALTHY"
  BY DEF Sound
<1>3. d \in DOMAIN f BY DEF Beaten
<1>4. CASE d # c BY <1>1, <1>2, <1>3, <1>4 DEF Beaten, Sound
<1>5. CASE d = c
  <2>1. f[d] \in Service BY <1>1, <1>3
  <2>2. g[d].marked = (f[d].marked \/ mark) BY <1>3, <1>5, <2>1 DEF Beaten, Service
  <2>3. g[d].status = StatusAfter(f[d], f[d].marked \/ mark, status)
    BY <1>3, <1>5, <2>1 DEF Beaten, Service
  <2>4. f[d].status \in {"HEALTHY", "UNHEALTHY"} BY <2>1 DEF Service
  <2>5. f[d].marked \/ mark BY <1>2, <2>2
  <2>6. f[d].marked => f[d].status = "UNHEALTHY" BY <1>3 DEF Sound
  <2> QED BY <2>3, <2>4, <2>5, <2>6 DEF StatusAfter, HealthStatus
<1> QED BY <1>4, <1>5

LEMMA WithoutSound ==
  ASSUME NEW f, Sound(f), NEW c PROVE Sound(Without(f, c))
BY DEF Sound, Without

LEMMA SweptSound ==
  ASSUME NEW f \in Services, Sound(f), NEW S PROVE Sound(Swept(f, S))
<1>1. f \in [DOMAIN f -> Service] BY ServicesDef
<1> QED BY <1>1 DEF Sound, Swept, Service

LEMMA AgedSound ==
  ASSUME NEW f \in Services, Sound(f), NEW c PROVE Sound(Aged(f, c))
<1>1. f \in [DOMAIN f -> Service] BY ServicesDef
<1> QED BY <1>1 DEF Sound, Aged, Service

BothSound == Sound(mem) /\ Sound(store)

LEMMA SoundHeartbeat ==
  ASSUME TypeOK, BothSound, NEW c, NEW status \in HealthStatus, NEW mark \in BOOLEAN,
         mark => status = "UNHEALTHY", Heartbeat(c, status, mark)
  PROVE  BothSound'
BY BeatenSound DEF TypeOK, BothSound, Heartbeat, Stored

(* Every step keeps both tables sound, whichever writes the database       *)
(* refuses.                                                                *)
LEMMA SoundStep == TypeOK /\ BothSound /\ [Next]_vars => BothSound'
<1> SUFFICES ASSUME TypeOK, BothSound, [Next]_vars PROVE BothSound'
  OBVIOUS
<1> USE DEF setup, registry, runner, processes
<1>1. CASE Runner
  <2>1. CASE StartControlPlane BY <2>1 DEF StartControlPlane, LoadServices, BothSound
  <2>2. CASE StartComponent BY <2>2 DEF StartComponent, BothSound
  <2>3. CASE WaitForComponent BY <2>3 DEF WaitForComponent, BothSound
  <2>4. CASE GiveUp BY <2>4 DEF GiveUp, BothSound
  <2>5. CASE EnrichRead BY <2>5 DEF EnrichRead, BothSound
  <2>6. CASE EnrichSkip BY <2>6 DEF EnrichSkip, BothSound
  <2>7. CASE EnrichWrite
    BY <2>7, RegisteredSound DEF EnrichWrite, RegisterComponent, Stored, BothSound
  <2>8. CASE EnrichFails BY <2>8 DEF EnrichFails, BothSound
  <2>9. CASE Wire BY <2>9 DEF Wire, BothSound
  <2>10. ASSUME NEW c \in 1 .. size, DeliveryFails(c) PROVE BothSound'
    <3>1. CASE Heartbeat(c, "UNHEALTHY", TRUE) BY <3>1, SoundHeartbeat DEF HealthStatus
    <3> QED BY <2>10, <3>1 DEF DeliveryFails, BothSound
  <2>11. CASE Exit BY <2>11 DEF Exit, BothSound, Sound, NoServices
  <2> QED BY <1>1, <2>1, <2>2, <2>3, <2>4, <2>5, <2>6, <2>7, <2>8, <2>9, <2>10, <2>11 DEF Runner
<1>2. CASE CheckServiceHealth BY <1>2, SweptSound DEF CheckServiceHealth, BothSound, TypeOK
<1>3. ASSUME NEW c \in Comps, Expire(c) PROVE BothSound'
  BY <1>3, AgedSound DEF Expire, BothSound, TypeOK
<1>4. ASSUME NEW c \in Comps, Tick(c) PROVE BothSound'
  BY <1>4 DEF Tick, BothSound
<1>5. ASSUME NEW c \in Comps, SyntheticHeartbeat(c) PROVE BothSound'
  <2>1. CASE Heartbeat(c, "UNKNOWN", FALSE) BY <2>1, SoundHeartbeat DEF HealthStatus
  <2> QED BY <1>5, <2>1 DEF SyntheticHeartbeat, BothSound
<1>6. ASSUME NEW c \in Comps, Register(c) PROVE BothSound'
  BY <1>6, RegisteredSound DEF Register, RegisterComponent, Stored, BothSound
<1>7. ASSUME NEW c \in Comps, OwnHeartbeat(c) PROVE BothSound'
  BY <1>7, SoundHeartbeat DEF OwnHeartbeat
<1>8. ASSUME NEW c \in Comps, Unregister(c) PROVE BothSound'
  BY <1>8, WithoutSound DEF Unregister, UnregisterComponent, Stored, BothSound
<1>9. ASSUME NEW c \in Comps, Die(c) PROVE BothSound'
  BY <1>9 DEF Die, BothSound
<1>10. CASE UNCHANGED vars BY <1>10 DEF vars, BothSound
<1> QED BY <1>1, <1>2, <1>3, <1>4, <1>5, <1>6, <1>7, <1>8, <1>9, <1>10 DEF Next

(* A service marked for a delivery failure is not healthy, in memory or in *)
(* the database, through every heartbeat, sweep, refused write, restart    *)
(* and reload (Heartbeat, checkServiceHealth, loadServices).               *)
THEOREM MarksHold == Spec => []MarkedIsNotHealthy
<1>1. Init => BothSound BY DEF Init, BothSound, Sound, NoServices
<1>2. BothSound => MarkedIsNotHealthy BY DEF BothSound, Sound, MarkedIsNotHealthy
<1> QED BY <1>1, <1>2, InitType, TypeStep, SoundStep, PTL DEF Spec

-----------------------------------------------------------------------------
(* A working database is written with every change of memory, and loading  *)
(* it starts from the same table.  A heartbeat first.                      *)
LEMMA HeartbeatMirror ==
  ASSUME StoreMirrorsMemory, NEW c, NEW status, NEW mark, Heartbeat(c, status, mark),
         UNCHANGED setup
  PROVE  StoreMirrorsMemory'
BY DEF StoreMirrorsMemory, Heartbeat, Stored, setup

(* Then every step.                                                        *)
LEMMA MirrorStep == StoreMirrorsMemory /\ [Next]_vars => StoreMirrorsMemory'
<1> SUFFICES ASSUME StoreMirrorsMemory, [Next]_vars PROVE StoreMirrorsMemory'
  OBVIOUS
<1> USE DEF StoreMirrorsMemory, setup, registry, runner, processes
<1>1. CASE Runner
  <2>1. CASE StartControlPlane BY <2>1 DEF StartControlPlane, LoadServices
  <2>2. CASE StartComponent BY <2>2 DEF StartComponent
  <2>3. CASE WaitForComponent BY <2>3 DEF WaitForComponent
  <2>4. CASE GiveUp BY <2>4 DEF GiveUp
  <2>5. CASE EnrichRead BY <2>5 DEF EnrichRead
  <2>6. CASE EnrichSkip BY <2>6 DEF EnrichSkip
  <2>7. CASE EnrichWrite BY <2>7 DEF EnrichWrite, RegisterComponent, Stored
  <2>8. CASE EnrichFails BY <2>8 DEF EnrichFails
  <2>9. CASE Wire BY <2>9 DEF Wire
  <2>10. ASSUME NEW c \in 1 .. size, DeliveryFails(c) PROVE StoreMirrorsMemory'
    <3>1. CASE Heartbeat(c, "UNHEALTHY", TRUE) BY <2>10, <3>1, HeartbeatMirror DEF DeliveryFails
    <3> QED BY <2>10, <3>1 DEF DeliveryFails
  <2>11. CASE Exit BY <2>11 DEF Exit
  <2> QED BY <1>1, <2>1, <2>2, <2>3, <2>4, <2>5, <2>6, <2>7, <2>8, <2>9, <2>10, <2>11 DEF Runner
<1>2. CASE CheckServiceHealth BY <1>2 DEF CheckServiceHealth
<1>3. ASSUME NEW c \in Comps, Expire(c) PROVE StoreMirrorsMemory'
  BY <1>3 DEF Expire
<1>4. ASSUME NEW c \in Comps, Tick(c) PROVE StoreMirrorsMemory'
  BY <1>4 DEF Tick
<1>5. ASSUME NEW c \in Comps, SyntheticHeartbeat(c) PROVE StoreMirrorsMemory'
  <2>1. CASE Heartbeat(c, "UNKNOWN", FALSE) BY <1>5, <2>1, HeartbeatMirror DEF SyntheticHeartbeat
  <2> QED BY <1>5, <2>1 DEF SyntheticHeartbeat
<1>6. ASSUME NEW c \in Comps, Register(c) PROVE StoreMirrorsMemory'
  BY <1>6 DEF Register, RegisterComponent, Stored
<1>7. ASSUME NEW c \in Comps, OwnHeartbeat(c) PROVE StoreMirrorsMemory'
  BY <1>7 DEF OwnHeartbeat, Heartbeat, Stored
<1>8. ASSUME NEW c \in Comps, Unregister(c) PROVE StoreMirrorsMemory'
  BY <1>8 DEF Unregister, UnregisterComponent, Stored
<1>9. ASSUME NEW c \in Comps, Die(c) PROVE StoreMirrorsMemory'
  BY <1>9 DEF Die
<1>10. CASE UNCHANGED vars BY <1>10 DEF vars
<1> QED BY <1>1, <1>2, <1>3, <1>4, <1>5, <1>6, <1>7, <1>8, <1>9, <1>10 DEF Next

(* With a database that takes every write, a restart finds exactly what    *)
(* was known: no handler or sweep changes one table without the other.     *)
THEOREM RestartChangesNothing == Spec => []StoreMirrorsMemory
<1>1. Init => StoreMirrorsMemory BY DEF Init, StoreMirrorsMemory
<1> QED BY <1>1, MirrorStep, PTL DEF Spec

-----------------------------------------------------------------------------
(* Without a database, everybody in memory has registered with this        *)
(* control plane; `next` names a component of the pipeline.                *)
Present ==
  /\ next \in 1 .. size
  /\ storage = "volatile" => DOMAIN store = {} /\ DOMAIN mem \subseteq heard

Waits == Present /\ VolatileWaitIsSound

LEMMA WaitsStep == TypeOK /\ Waits /\ [Next]_vars => Waits'
<1> SUFFICES ASSUME TypeOK, Waits, [Next]_vars PROVE Waits'
  OBVIOUS
<1>0. size \in Nat \ {0} /\ next \in 1 .. size BY SizeType DEF Waits, Present
<1> USE DEF Waits, Present, VolatileWaitIsSound, WaitedMeansRegistered, Awaited
<1> USE DEF setup, registry, runner, processes
<1>1. CASE Runner
  <2>1. CASE StartControlPlane BY <2>1, <1>0 DEF StartControlPlane, LoadServices
  <2>2. CASE StartComponent BY <2>2, <1>0 DEF StartComponent, Advance
  <2>3. CASE WaitForComponent BY <2>3, <1>0 DEF WaitForComponent, Advance, Healthy
  <2>4. CASE GiveUp BY <2>4 DEF GiveUp
  <2>5. CASE EnrichRead BY <2>5 DEF EnrichRead
  <2>6. CASE EnrichSkip BY <2>6, <1>0 DEF EnrichSkip, Advance
  <2>7. CASE EnrichWrite
    BY <2>7, <1>0 DEF EnrichWrite, RegisterComponent, Registered, Stored
  <2>8. CASE EnrichFails BY <2>8, <1>0 DEF EnrichFails
  <2>9. CASE Wire BY <2>9, <1>0 DEF Wire, Advance
  <2>10. ASSUME NEW c \in 1 .. size, DeliveryFails(c) PROVE Waits'
    BY <2>10 DEF DeliveryFails, Heartbeat, Beaten, Stored
  <2>11. CASE Exit BY <2>11, <1>0 DEF Exit, NoServices
  <2> QED BY <1>1, <2>1, <2>2, <2>3, <2>4, <2>5, <2>6, <2>7, <2>8, <2>9, <2>10, <2>11 DEF Runner
<1>2. CASE CheckServiceHealth BY <1>2 DEF CheckServiceHealth, Swept
<1>3. ASSUME NEW c \in Comps, Expire(c) PROVE Waits'
  BY <1>3 DEF Expire, Aged
<1>4. ASSUME NEW c \in Comps, Tick(c) PROVE Waits'
  BY <1>4 DEF Tick
<1>5. ASSUME NEW c \in Comps, SyntheticHeartbeat(c) PROVE Waits'
  BY <1>5 DEF SyntheticHeartbeat, Heartbeat, Beaten, Stored
<1>6. ASSUME NEW c \in Comps, Register(c) PROVE Waits'
  BY <1>6 DEF Register, RegisterComponent, Registered, Stored
<1>7. ASSUME NEW c \in Comps, OwnHeartbeat(c) PROVE Waits'
  BY <1>7 DEF OwnHeartbeat, Heartbeat, Beaten, Stored
<1>8. ASSUME NEW c \in Comps, Unregister(c) PROVE Waits'
  BY <1>8 DEF Unregister, UnregisterComponent, Without, Stored
<1>9. ASSUME NEW c \in Comps, Die(c) PROVE Waits'
  BY <1>9 DEF Die
<1>10. CASE UNCHANGED vars BY <1>10 DEF vars
<1> QED BY <1>1, <1>2, <1>3, <1>4, <1>5, <1>6, <1>7, <1>8, <1>9, <1>10 DEF Next

(* Without a database, whoever waitForComponentsRegistered has seen has    *)
(* registered with this control plane, in every later phase of the run.    *)
THEOREM WaitIsSound == Spec => []VolatileWaitIsSound
<1>1. Init => Waits
  <2> SUFFICES ASSUME Init PROVE Waits OBVIOUS
  <2>1. size \in 1 .. MaxComponents BY InitType, SizeType
  <2> QED BY <2>1, RegistryAssumption
         DEF Init, Waits, Present, VolatileWaitIsSound, WaitedMeansRegistered, Awaited, NoServices
<1> QED BY <1>1, InitType, TypeStep, WaitsStep, PTL DEF Spec, Waits

-----------------------------------------------------------------------------
(* No change of a table loses a mark, but for the registration and the     *)
(* departure of the component itself.                                      *)
LEMMA RegisteredMark ==
  ASSUME NEW f, NEW c, Marked(f, c), NEW d, d # c, NEW typed
  PROVE  Marked(Registered(f, d, typed), c)
BY DEF Marked, Registered

LEMMA BeatenMark ==
  ASSUME NEW f \in Services, NEW c, Marked(f, c), NEW d, NEW status, NEW mark \in BOOLEAN
  PROVE  Marked(Beaten(f, d, status, mark), c)
<1>1. f[c] \in Service BY ServicesDef DEF Marked
<1> QED BY <1>1 DEF Marked, Beaten, Service

LEMMA WithoutMark ==
  ASSUME NEW f, NEW c, Marked(f, c), NEW d, d # c PROVE Marked(Without(f, d), c)
BY DEF Marked, Without

LEMMA SweptMark ==
  ASSUME NEW f \in Services, NEW c, Marked(f, c), NEW S PROVE Marked(Swept(f, S), c)
<1>1. f[c] \in Service BY ServicesDef DEF Marked
<1> QED BY <1>1 DEF Marked, Swept, Service

LEMMA AgedMark ==
  ASSUME NEW f \in Services, NEW c, Marked(f, c), NEW d PROVE Marked(Aged(f, d), c)
<1>1. f[c] \in Service BY ServicesDef DEF Marked
<1> QED BY <1>1 DEF Marked, Aged, Service

LEMMA HeartbeatMark ==
  ASSUME TypeOK, StoreMirrorsMemory, storage = "reliable", NEW c, Marked(Known, c),
         NEW d, NEW status, NEW mark \in BOOLEAN, Heartbeat(d, status, mark)
  PROVE  Marked(Known', c)
<1>1. up /\ up' /\ mem \in Services BY DEF TypeOK, Heartbeat
<1> QED BY <1>1, BeatenMark DEF Known, Heartbeat

(* A step that keeps the marks, or one of the three that may take them.    *)
LEMMA MarkStep ==
  ASSUME TypeOK, StoreMirrorsMemory, [Next]_vars, storage = "reliable",
         NEW c \in Comps, Marked(Known, c), ~ Marked(Known', c)
  PROVE  Register(c) \/ Unregister(c) \/ (phase = "reading" /\ next = c)
<1>0. up => mem = store BY DEF StoreMirrorsMemory
<1>1. Marked(store, c) BY <1>0 DEF Known
<1>2. mem \in Services /\ store \in Services BY DEF TypeOK
<1> USE DEF Known, setup, registry, runner, processes
<1>4. CASE Runner
  <2>1. CASE StartControlPlane BY <2>1, <1>1 DEF StartControlPlane, LoadServices
  <2>2. CASE StartComponent BY <2>2 DEF StartComponent
  <2>3. CASE WaitForComponent BY <2>3 DEF WaitForComponent
  <2>4. CASE GiveUp BY <2>4 DEF GiveUp
  <2>5. CASE EnrichRead BY <2>5 DEF EnrichRead
  <2>6. CASE EnrichSkip BY <2>6 DEF EnrichSkip
  <2>7. CASE EnrichWrite
    <3>1. CASE next = c BY <3>1, <2>7 DEF EnrichWrite
    <3>2. CASE next # c
      BY <3>2, <2>7, <1>0, <1>1, RegisteredMark DEF EnrichWrite, RegisterComponent
    <3> QED BY <3>1, <3>2
  <2>8. CASE EnrichFails BY <2>8 DEF EnrichFails
  <2>9. CASE Wire BY <2>9 DEF Wire
  <2>10. ASSUME NEW d \in 1 .. size, DeliveryFails(d) PROVE FALSE
    <3>1. CASE Heartbeat(d, "UNHEALTHY", TRUE) BY <3>1, HeartbeatMark DEF Known
    <3>2. CASE UNCHANGED registry BY <3>2
    <3> QED BY <2>10, <3>1, <3>2 DEF DeliveryFails
  <2>11. CASE Exit BY <2>11, <1>1 DEF Exit
  <2> QED BY <1>4, <2>1, <2>2, <2>3, <2>4, <2>5, <2>6, <2>7, <2>8, <2>9, <2>10, <2>11 DEF Runner
<1>5. CASE CheckServiceHealth
  BY <1>5, <1>0, <1>1, <1>2, SweptMark DEF CheckServiceHealth
<1>6. ASSUME NEW d \in Comps, Expire(d) PROVE FALSE
  BY <1>6, <1>0, <1>1, <1>2, AgedMark DEF Expire
<1>7. ASSUME NEW d \in Comps, Tick(d) PROVE FALSE
  BY <1>7 DEF Tick
<1>8. ASSUME NEW d \in Comps, SyntheticHeartbeat(d) PROVE FALSE
  <2>1. CASE Heartbeat(d, "UNKNOWN", FALSE) BY <2>1, HeartbeatMark
  <2>2. CASE UNCHANGED registry BY <2>2
  <2> QED BY <1>8, <2>1, <2>2 DEF SyntheticHeartbeat
<1>9. ASSUME NEW d \in Comps, Register(d), d # c PROVE FALSE
  BY <1>9, <1>0, <1>1, RegisteredMark DEF Register, RegisterComponent
<1>10. ASSUME NEW d \in Comps, OwnHeartbeat(d) PROVE FALSE
  BY <1>10, HeartbeatMark DEF OwnHeartbeat
<1>11. ASSUME NEW d \in Comps, Unregister(d), d # c PROVE FALSE
  BY <1>11, <1>0, <1>1, WithoutMark DEF Unregister, UnregisterComponent
<1>12. ASSUME NEW d \in Comps, Die(d) PROVE FALSE
  BY <1>12 DEF Die
<1>13. CASE UNCHANGED vars BY <1>13 DEF vars
<1> QED BY <1>4, <1>5, <1>6, <1>7, <1>8, <1>9, <1>10, <1>11, <1>12, <1>13 DEF Next

(* With a working database nothing but the component's own registration or *)
(* departure, or its enrichment, clears the mark of a delivery failure:    *)
(* neither the end of the run nor the start of the next one does.          *)
THEOREM MarksSurvive == Spec => MarkKept
<1> DEFINE Step ==
  \A c \in Comps :
    (storage = "reliable" /\ Marked(Known, c) /\ ~Marked(Known', c))
      => Register(c) \/ Unregister(c) \/ (phase = "reading" /\ next = c)
<1>1. TypeOK /\ StoreMirrorsMemory /\ [Next]_vars => [Step]_vars
  BY MarkStep
<1>2. Spec => [][Step]_vars
  BY <1>1, TypeCorrect, RestartChangesNothing, PTL DEF Spec
<1> QED BY <1>2 DEF MarkKept
===============================================================================
