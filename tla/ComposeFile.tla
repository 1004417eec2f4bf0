------------------------------ MODULE ComposeFile ------------------------------
(***************************************************************************)
(* What translate makes of a pipeline file: the services of a Docker       *)
(* Compose file, for deployment (internal/generator/docker_compose.go) or  *)
(* for local execution (internal/generator/local_docker_compose.go).       *)
(* Compose itself is external: it refuses a file in which a service        *)
(* depends on a service that is not there, or on itself.                   *)
(***************************************************************************)
EXTENDS PipelineFiles, FiniteSets

CONSTANTS Letters, Digits   \* every other character is replaced in a name

Targets == {"docker-compose", "local"}

(* sanitizeServiceName and sanitizeLocalServiceName. *)
Filler(target) == IF target = "local" THEN "_" ELSE "-"
Leading(target) == IF target = "local" THEN Letters \cup {"_"} ELSE Letters
Prefix(target) == IF target = "local" THEN <<"_">> ELSE <<"s", "v", "c", "-">>
ServiceName(id, target) ==
  LET name == [i \in DOMAIN id |-> IF id[i] \in Letters \cup Digits THEN id[i] ELSE Filler(target)]
  IN IF name # <<>> /\ name[1] \notin Leading(target) THEN Prefix(target) \o name ELSE name

(* The components that become services: local knows no pipeline ones. *)
Translated(f, target) == IF target = "local" THEN Wired(f) ELSE Components(f)

(* The generators' own checks: a local service may be a command. *)
GeneratorAccepts(f, target) ==
  /\ <<>> \notin IdsOf(Translated(f, target))
  /\ IF target = "local"
     THEN /\ f.sources # <<>>
          /\ \A c \in ToSet(Wired(f)) : c.means \cap {"image", "command"} # {}
          /\ \A c \in ToSet(f.processors \o f.sinks) : c.inputs # <<>>
     ELSE /\ f.version # 0 /\ f.kind = "Pipeline" /\ HasStart(f)
          /\ \A c \in ToSet(Components(f)) : "image" \in c.means

(* A service waits for its inputs, or for everything before it if it names *)
(* none; a pipeline component for what it depends on.                      *)
DependencyName(id, target) == ServiceName(id, target)
StageOf(f, i) ==
  IF i <= Len(f.sources) THEN "source"
  ELSE IF i <= Len(f.sources \o f.processors) THEN "processor"
  ELSE IF i <= Len(Wired(f)) THEN "sink" ELSE "pipeline"
Upstream(f, i) ==
  LET c == Components(f)[i] stage == StageOf(f, i) IN
  IF stage = "source" THEN {}
  ELSE IF stage = "pipeline" THEN ToSet(c.depends)
  ELSE IF c.inputs # <<>> THEN InputsOf(c)
  ELSE IF stage = "sink" /\ f.processors # <<>> THEN IdsOf(f.processors) ELSE IdsOf(f.sources)
DependsOnServices(f, i, target) == {DependencyName(id, target) : id \in Upstream(f, i)}

(* A pipeline component runs once unless the file says otherwise, the      *)
(* others for ever.                                                        *)
RestartOf(f, i) ==
  IF i <= Len(Wired(f)) THEN "unless-stopped"
  ELSE IF Components(f)[i].restart = Unset THEN "no" ELSE Components(f)[i].restart

Service(f, i, target) ==
  [component |-> Components(f)[i].id,
   dependsOn |-> DependsOnServices(f, i, target),
   restart |-> RestartOf(f, i)]

(* The services are a map: a later component of the same name replaces an  *)
(* earlier one.                                                            *)
NamesOf(f, target) == [i \in DOMAIN Translated(f, target) |->
                         ServiceName(Components(f)[i].id, target)]
Services(f, target) ==
  LET names == NamesOf(f, target)
      last(n) == CHOOSE i \in DOMAIN names :
                   names[i] = n /\ \A j \in DOMAIN names : names[j] = n => j <= i IN
  [n \in ToSet(names) |-> Service(f, last(n), target)]

Generates(f, target) == Translates(f) /\ GeneratorAccepts(Parsed(f), target)

-----------------------------------------------------------------------------
(* Compose takes the file. *)
Loadable(services) ==
  /\ \A n \in DOMAIN services : services[n].dependsOn \subseteq DOMAIN services
  /\ \E rank \in [DOMAIN services -> 1 .. Cardinality(DOMAIN services)] :
       \A n \in DOMAIN services : \A d \in services[n].dependsOn : rank[d] < rank[n]

(* A file that validate accepts and translate translates becomes a file    *)
(* Compose can start, with a service for each component and a restart      *)
(* policy Compose knows, for both targets: unless two ids differ only in   *)
(* what a service name cannot hold, which nothing checks, or a pipeline    *)
(* component depends on something that is not one of the file, or on       *)
(* itself, which nothing checks either.                                    *)
DistinctNames(f, target) ==
  \A i, j \in DOMAIN NamesOf(f, target) :
    NamesOf(f, target)[i] = NamesOf(f, target)[j] => i = j
SoundDependencies(f) ==
  \A i \in DOMAIN f.pipelines :
    ToSet(f.pipelines[i].depends) \subseteq IdsOf(Wired(f)) \cup IdsOf(SubSeq(f.pipelines, 1, i - 1))
TranslatesWhole(f) ==
  \A target \in Targets :
    /\ Validates(f) /\ Generates(f, target)
    /\ DistinctNames(f, target) /\ SoundDependencies(f)
    => /\ Loadable(Services(f, target))
       /\ \A i \in DOMAIN Translated(f, target) :
            Components(f)[i].id \in {Services(f, target)[n].component :
                                       n \in DOMAIN Services(f, target)}
       /\ \A n \in DOMAIN Services(f, target) :
            Services(f, target)[n].restart \in RestartPolicies \ {Unset}
===============================================================================
