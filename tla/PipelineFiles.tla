----------------------------- MODULE PipelineFiles -----------------------------
(***************************************************************************)
(* What flowctl thinks of a pipeline file.  Three readers judge it: run    *)
(* and status load it (internal/runner/loader.go), validate then asks the  *)
(* validator too (internal/validator/validator.go), and translate parses   *)
(* and checks it for itself (internal/translator/parser.go, validator.go). *)
(* What they let through meets the wiring of the stream orchestrator.      *)
(*                                                                         *)
(* Ids and types are sequences of characters; <<>> is the id of none.  The *)
(* port and the health port are those among a component's variables, 0 for *)
(* none.                                                                   *)
(***************************************************************************)
EXTENDS Integers, Sequences, SequencesExt

Id == Seq(STRING)
Unset == ""   \* a text the file leaves out
Text == STRING \cup {Unset}
ASSUME TextAssumption == {"Pipeline", "pipeline", "process"} \subseteq Text   \* provers do not know

Component ==
  [id : Id, means : SUBSET {"command", "image", "type"}, inputs : Seq(Id), replicas : Int,
   health : {"none", "portless", "ported"}, port : Nat, healthPort : Nat,
   type : Id, restart : Text, depends : Seq(Id)]
PipelineFile ==
  [version : Nat, kind : Text, name : Text, driver : Text,
   sources : Seq(Component), processors : Seq(Component), sinks : Seq(Component),
   pipelines : Seq(Component)]

Components(f) == f.sources \o f.processors \o f.sinks \o f.pipelines
IdsOf(s) == {s[i].id : i \in DOMAIN s}
InputsOf(c) == ToSet(c.inputs)
Distinct(s) == \A i, j \in DOMAIN s : s[i].id = s[j].id => i = j

(* apiversion.Validate and ValidateKind. *)
MaxSupportedMajor == 1
Supported(version) == version \in 1 .. MaxSupportedMajor
Versioned(f) == Supported(f.version) /\ f.kind = "Pipeline"

-----------------------------------------------------------------------------
(* The loader.  Of each list the inputs may name what has been read before *)
(* them, and the component itself, which is entered first.                 *)
HasStart(f) == f.sources # <<>> \/ f.pipelines # <<>>
ReadUpTo(f, list, i) ==
  CASE list = "processors" -> IdsOf(f.sources) \cup IdsOf(SubSeq(f.processors, 1, i))
    [] list = "sinks" -> IdsOf(f.sources) \cup IdsOf(f.processors) \cup IdsOf(SubSeq(f.sinks, 1, i))

Loads(f) ==
  /\ Versioned(f) /\ f.name # Unset /\ HasStart(f)
  /\ <<>> \notin IdsOf(Components(f)) /\ Distinct(Components(f))
  /\ \A c \in ToSet(f.sources \o f.processors \o f.sinks) : c.means # {}
  /\ \A c \in ToSet(f.pipelines) : "image" \in c.means
  /\ \A list \in {"processors", "sinks"} : \A i \in DOMAIN f[list] :
       InputsOf(f[list][i]) \subseteq ReadUpTo(f, list, i)

-----------------------------------------------------------------------------
(* The validator: the places of the errors it finds.                       *)
Drivers == {"process", "container", "docker", "kubernetes", "k8s", "nomad", "local"}
Wired(f) == f.sources \o f.processors \o f.sinks

MetadataErrors(f) == IF f.name = Unset THEN {"metadata"} ELSE {}
DriverErrors(f) == IF f.driver \in Drivers \cup {Unset} THEN {} ELSE {"driver"}
ComponentErrors(f) ==
  {list \in {"sources", "sinks"} : f[list] = <<>>}
DuplicateErrors(f) == IF Distinct(Wired(f)) THEN {} ELSE {"component ID"}

(* validateComponentDetails: unlike the loader it enters a processor after *)
(* its inputs are checked, and asks for inputs.                            *)
KnownTo_Entered(f, i) ==   \* mutant: a processor is entered first
  IdsOf(f.sources) \cup {f.processors[j].id : j \in {j \in DOMAIN f.processors : j <= i}}
KnownTo(f, i) == IdsOf(f.sources) \cup IdsOf(SubSeq(f.processors, 1, i - 1))
InputsUnknown(c, known) == c.inputs = <<>> \/ ~(InputsOf(c) \subseteq known)
DetailErrors(f) ==
  {"health_port" : c \in {c \in ToSet(f.sources) : c.health = "portless"}}
  \cup {"replicas" : c \in {c \in ToSet(f.processors \o f.sinks) : c.replicas < 0}}
  \cup {"inputs" : i \in {i \in DOMAIN f.processors :
                            InputsUnknown(f.processors[i], KnownTo(f, i))}}
  \cup {"inputs" : c \in {c \in ToSet(f.sinks) :
                            InputsUnknown(c, KnownTo(f, Len(f.processors) + 1))}}

(* validatePorts: no two components set the same PORT or HEALTH_PORT. *)
Clash(s, variable) ==
  \E i, j \in DOMAIN s : i # j /\ s[i][variable] = s[j][variable] /\ s[i][variable] # 0
PortErrors(f) == {v \in {"port", "healthPort"} : Clash(Wired(f), v)}
CommandErrors(f) == {"command" : c \in {c \in ToSet(Wired(f)) : c.means = {}}}

Errors(f) == MetadataErrors(f) \cup DriverErrors(f) \cup ComponentErrors(f)
             \cup DuplicateErrors(f) \cup DetailErrors(f) \cup PortErrors(f) \cup CommandErrors(f)

(* flowctl validate exits with 0. *)
Validates(f) == Loads(f) /\ Errors(f) = {}

-----------------------------------------------------------------------------
(* translate: the checks of BasicValidator, which CueValidator delegates   *)
(* to.  It enters a processor first too, and the pipeline components with  *)
(* the sources, and does not ask whether ids are distinct.                 *)
TranslatorDrivers == {"docker", "kubernetes", "k8s", "nomad", "local"}
RestartPolicies == {Unset, "no", "always", "on-failure", "unless-stopped"}
SourceAccepted(c) == c.id # <<>> /\ "image" \in c.means /\ c.health # "portless"
StageAccepted(c) ==
  c.id # <<>> /\ "image" \in c.means /\ c.inputs # <<>> /\ c.replicas >= 0
PipelineAccepted(c) ==
  c.id # <<>> /\ "image" \in c.means /\ c.type \in {<<>>, <<"pipeline">>} /\ c.restart \in RestartPolicies

TranslatorAccepts(f) ==
  /\ Versioned(f) /\ f.name # Unset /\ HasStart(f)
  /\ \A c \in ToSet(f.sources) : SourceAccepted(c)
  /\ \A c \in ToSet(f.processors \o f.sinks) : StageAccepted(c)
  /\ \A c \in ToSet(f.pipelines) : PipelineAccepted(c)
  /\ LET entered(i) == IdsOf(f.sources \o f.pipelines \o SubSeq(f.processors, 1, i)) IN
     /\ \A i \in DOMAIN f.processors : InputsOf(f.processors[i]) \subseteq entered(i)
     /\ \A c \in ToSet(f.sinks) : InputsOf(c) \subseteq entered(Len(f.processors))
  /\ f.driver \in TranslatorDrivers \cup {Unset}

(* The legacy format: a source and a sink, which have types, and named     *)
(* processors.  All processors take their input from the source, the sink  *)
(* from the last of them.                                                  *)
LegacyPart ==
  [type : Id, name : Id, means : SUBSET {"command", "image"},
   health : {"none", "portless", "ported"}]
LegacyFile == [source : LegacyPart, processors : Seq(LegacyPart), sink : LegacyPart]

Plain == [id |-> <<>>, means |-> {}, inputs |-> <<>>, replicas |-> 0, health |-> "none",
          port |-> 0, healthPort |-> 0, type |-> <<>>, restart |-> Unset,
          depends |-> <<>>]
MeansOf(part) == part.means \cup (IF part.type = <<>> THEN {} ELSE {"type"})
Converted(part, id, inputs) ==
  [Plain EXCEPT !.id = id, !.type = part.type, !.means = MeansOf(part),
                !.health = part.health, !.inputs = inputs]
ConvertConfig(cfg) ==
  LET last == Len(cfg.processors) IN
  [version |-> 1, kind |-> "Pipeline", name |-> "pipeline", driver |-> Unset, pipelines |-> <<>>,
   sources |-> <<Converted(cfg.source, cfg.source.type, <<>>)>>,
   processors |-> [i \in 1 .. last |->
      Converted(cfg.processors[i], cfg.processors[i].name, <<cfg.source.type>>)],
   sinks |-> <<Converted(cfg.sink, cfg.sink.type,
      <<IF last > 0 THEN cfg.processors[last].name ELSE cfg.source.type>>)>>]

(* Parse: what does not look like a pipeline is read as a legacy file, of  *)
(* which a pipeline file has nothing.                                      *)
NoConfig == LET none == [type |-> <<>>, name |-> <<>>, means |-> {}, health |-> "none"] IN
            [source |-> none, processors |-> <<>>, sink |-> none]
Parsed(f) == IF f.version # 0 /\ f.kind = "Pipeline" THEN f ELSE ConvertConfig(NoConfig)
Translates(f) == TranslatorAccepts(Parsed(f))

-----------------------------------------------------------------------------
(* The wiring (internal/runner/stream_orchestrator.go): each source feeds  *)
(* the chain of all processors, and the last of them every sink; without   *)
(* processors the sinks that name the source.  A pipeline without sources  *)
(* or sinks, or a source without a sink, is refused.                       *)
SinksFor(f, source) ==
  {k \in ToSet(f.sinks) : f.processors # <<>> \/ source.id \in InputsOf(k)}
WiresUp(f) ==
  /\ f.sources # <<>> /\ f.sinks # <<>>
  /\ \A s \in ToSet(f.sources) : SinksFor(f, s) # {}
Edges(f) ==
  IF f.processors = <<>>
  THEN UNION {{<<s.id, k.id>> : k \in SinksFor(f, s)} : s \in ToSet(f.sources)}
  ELSE LET n == Len(f.processors) IN
       {<<s.id, f.processors[1].id>> : s \in ToSet(f.sources)}
       \cup {<<f.processors[i].id, f.processors[i + 1].id>> : i \in 1 .. n - 1}
       \cup {<<f.processors[n].id, k.id>> : k \in ToSet(f.sinks)}
Declared(f) ==
  UNION {{<<input, c.id>> : input \in InputsOf(c)} : c \in ToSet(f.processors \o f.sinks)}

-----------------------------------------------------------------------------
(* What validate accepts can be run as it says.  The inputs of processors  *)
(* and sinks are started before them (sources, processors, sinks, in the   *)
(* file's order), so no declared input leads back; nobody reads the inputs *)
(* of a source.  The wiring does not refuse a pipeline of one source, or   *)
(* with processors; without processors, a wiring that succeeds makes       *)
(* exactly the declared connections.                                       *)
InputsComeFirst(f) ==
  \A j \in DOMAIN Wired(f) : j > Len(f.sources) =>
    InputsOf(Wired(f)[j]) \subseteq IdsOf(SubSeq(Wired(f), 1, j - 1))
WiringIsDeclared(f) ==
  /\ Len(f.sources) = 1 \/ f.processors # <<>> => WiresUp(f)
  /\ WiresUp(f) /\ f.processors = <<>> => Edges(f) = Declared(f)
ValidatedIsRunnable(f) == Validates(f) => InputsComeFirst(f) /\ WiringIsDeclared(f)

(* A legacy file whose parts have names, images and, where they have a     *)
(* health check, a port for it, gives a pipeline that translate accepts.   *)
LegacyParts(cfg) == {cfg.source, cfg.sink} \cup ToSet(cfg.processors)
LegacyIsTranslatable(cfg) ==
  /\ \A part \in LegacyParts(cfg) : "image" \in part.means /\ part.health # "portless"
  /\ cfg.source.type # <<>> /\ cfg.sink.type # <<>>
  /\ \A part \in ToSet(cfg.processors) : part.name # <<>>
  => Translates(ConvertConfig(cfg))

(* translate does not refuse what validate accepts, if every component has *)
(* an image, there are no pipeline components, which validate does not     *)
(* look into, and the driver is none of the two that only validate knows.  *)
ValidatedIsTranslatable(f) ==
  /\ Validates(f) /\ f.pipelines = <<>> /\ f.driver \notin {"process", "container"}
  /\ \A c \in ToSet(Wired(f)) : "image" \in c.means
  => Translates(f)
===============================================================================
