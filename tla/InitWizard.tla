------------------------------- MODULE InitWizard -------------------------------
(***************************************************************************)
(* `flowctl init` (cmd/init.go): from a preset, from flags or from answers *)
(* to prompts to a pipeline file.                                          *)
(*                                                                         *)
(* A call is a record c: how it is made ("preset", "flags" or "prompts"),  *)
(* whether stdin is a terminal and a program reads the output, the preset, *)
(* network and destination that were given ("" for none), the lines typed  *)
(* at the prompts (of network and destination, then the start, the end and *)
(* the name; "" also at the end of the input), and the latest ledger the   *)
(* RPC endpoint reports (0 if it does not answer).                         *)
(***************************************************************************)
EXTENDS PipelineFiles

InitCall ==
  [how : {"preset", "flags", "prompts"}, terminal : BOOLEAN, machine : BOOLEAN,
   preset : Text \X Text, network : Text, destination : Text,
   lines : [1 .. 5 -> Text], latest : Nat]

(* What the files it writes have in common.                                *)
DefaultName == "stellar-pipeline"
StellarSource == <<"stellar-source">>
ContractEvents == <<"contract-events">>
SinkOf(destination) == IF destination = "duckdb" THEN <<"duckdb-sink">> ELSE <<"postgres-sink">>
Version == <<"@v1.0.0">>
ASSUME WizardAssumption ==   \* as above
  /\ DefaultName \in Text
  /\ {StellarSource, ContractEvents, SinkOf("duckdb"), SinkOf("postgres"), Version} \subseteq Id

Presets == {<<n, d>> : n \in {"testnet", "mainnet"}, d \in {"duckdb", "postgres"}}

(* The prompts: a number out of range, or no number, is the default.       *)
ReadIntWithDefault(line, default, choices) == IF line \in choices THEN line ELSE default
PromptNetwork(line) ==
  IF ReadIntWithDefault(line, "1", {"1", "2"}) = "1" THEN "testnet" ELSE "mainnet"
PromptDestination(line) ==
  IF ReadIntWithDefault(line, "1", {"1", "2"}) = "1" THEN "postgres" ELSE "duckdb"

(* The end is asked for only when there is a start. *)
PromptLedgerRange(start, end) == <<start, IF start = Unset THEN Unset ELSE end>>
PromptName(line) == IF line = Unset THEN DefaultName ELSE line

Interactive(c) == c.how = "prompts"
Network(c) ==
  CASE c.how = "preset" -> c.preset[1]
    [] c.how = "flags" -> c.network
    [] c.how = "prompts" -> PromptNetwork(c.lines[1])
Destination(c) ==
  CASE c.how = "preset" -> c.preset[2]
    [] c.how = "flags" -> c.destination
    [] c.how = "prompts" -> PromptDestination(c.lines[2])
LedgerRange(c) ==
  IF Interactive(c) THEN PromptLedgerRange(c.lines[3], c.lines[4]) ELSE <<Unset, Unset>>
Name(c) == IF Interactive(c) THEN PromptName(c.lines[5]) ELSE DefaultName

(* runInit writes no file. *)
DestinationSupported_Any(c) == TRUE   \* mutant: the destination is not looked at
DestinationSupported(c) == Destination(c) \in {"postgres", "duckdb"}
InitRefuses(c) ==
  \/ Interactive(c) /\ (~c.terminal \/ c.machine)
  \/ c.how = "preset" /\ c.preset \notin Presets
  \/ c.how = "flags" /\ (c.network = Unset \/ c.destination = Unset)
  \/ ~Interactive(c) /\ ~DestinationSupported(c)

-----------------------------------------------------------------------------
(* generateIntent: the file, and the settings of the source and processor. *)
Passphrase(network) == IF network = "testnet" THEN "testnet" ELSE "mainnet"
StartLedger(c) ==
  CASE LedgerRange(c)[1] # Unset -> <<"given", LedgerRange(c)[1]>>
    [] LedgerRange(c)[1] = Unset /\ c.latest > 0 -> <<"ledger", c.latest - 100>>
    [] OTHER -> <<"none">>
SourceConfig(c) ==
  [passphrase |-> Passphrase(Network(c)), rpc |-> Passphrase(Network(c)),
   start |-> StartLedger(c), end |-> LedgerRange(c)[2]]
ProcessorConfig(c) == [passphrase |-> Passphrase(Network(c))]

Referenced(id, inputs) ==
  [Plain EXCEPT !.id = id, !.type = id \o Version, !.means = {"type"}, !.inputs = inputs]
GenerateIntent(c) ==
  [version |-> 1, kind |-> "Pipeline", name |-> Name(c), driver |-> "process",
   pipelines |-> <<>>,
   sources |-> <<Referenced(StellarSource, <<>>)>>,
   processors |-> <<Referenced(ContractEvents, <<StellarSource>>)>>,
   sinks |-> IF DestinationSupported(c)
             THEN <<Referenced(SinkOf(Destination(c)), <<ContractEvents>>)>> ELSE <<>>]

(* The record that tells a program what was made. *)
Reported(c) ==
  [network |-> Network(c), destination |-> Destination(c), continuous |-> LedgerRange(c)[1] = Unset]

-----------------------------------------------------------------------------
(* Whatever init writes can be validated and run ("flowctl validate", then *)
(* "flowctl run", init.go:500), with every connection it declares; source  *)
(* and processor are of the same network, the one the operator named, and  *)
(* what is reported is what was written.  But a network that is neither    *)
(* testnet nor mainnet is written as mainnet and reported as it was named; *)
(* the file is reported as continuous though it may start a hundred        *)
(* ledgers before the latest, which may be before the first.               *)
InitIsRunnable(c) ==
  ~InitRefuses(c) =>
    LET file == GenerateIntent(c) IN
    /\ Validates(file) /\ InputsComeFirst(file)
    /\ WiresUp(file) /\ Edges(file) = Declared(file)
    /\ SourceConfig(c).passphrase = ProcessorConfig(c).passphrase
    /\ Network(c) \in {"testnet", "mainnet"} => SourceConfig(c).rpc = Reported(c).network
    /\ ~Reported(c).continuous => SourceConfig(c).start = <<"given", LedgerRange(c)[1]>>
    /\ SourceConfig(c).end # Unset => ~Reported(c).continuous
===============================================================================
