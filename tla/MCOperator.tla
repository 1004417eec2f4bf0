------------------------------- MODULE MCOperator -------------------------------
(* What flowctl makes of its inputs: the pipeline files an operator writes or  *)
(* has written, the names, settings and commands the operator gives, what a    *)
(* container is created with, and the images a run downloads and unpacks;      *)
(* beside a run that operators stop (PipelineRunner).  A behaviour is of one   *)
(* of these parts: the others stay in an initial state.                        *)
EXTENDS MCPipelineRunner, ImageCache, ImageLayers, ComposeFile, InitWizard, ComponentConfig, ImageReferences

VARIABLES
  part,   \* "run", "input", "cache" or "layers"
  input   \* what is given, with its kind; a behaviour of this part ends at once

operatorVars == <<part, vars, input, cacheVars, layerVars>>

-----------------------------------------------------------------------------
(* Pipeline files.  Most are well formed, with up to two components of each    *)
(* kind and every way to wire them; the others deviate in one or two places.   *)
SomeLetters == {"a", "b", "k", "l", "p", "q", "s", "t", "x", "y"}

S == <<"s">>
T == <<"t">>
X == <<"x">>
Y == <<"y">>
Comp(id, inputs) ==
  [Plain EXCEPT !.id = id, !.inputs = inputs, !.means = {"image"}]
File(s, p, k) ==
  [version |-> 1, kind |-> "Pipeline", name |-> "n", driver |-> "",
   sources |-> s, processors |-> p, sinks |-> k, pipelines |-> <<>>]
One == File(<<Comp(S, <<>>)>>, <<Comp(X, <<S>>)>>, <<Comp(<<"k">>, <<X>>)>>)

Wirings == {<<>>, <<S>>, <<T>>, <<X>>, <<Y>>, <<S, T>>, <<X, Y>>}
WiredFiles ==
  {File(s, p, k) :
     s \in {<<>>, <<Comp(S, <<>>)>>, <<Comp(S, <<>>), Comp(T, <<>>)>>,
            <<Comp(S, <<>>), Comp(S, <<>>)>>},
     p \in {<<>>} \cup {<<Comp(X, i)>> : i \in Wirings}
             \cup {<<Comp(X, i), Comp(Y, j)>> : i, j \in Wirings},
     k \in {<<>>} \cup {<<Comp(<<"k">>, i)>> : i \in Wirings}
             \cup {<<Comp(<<"k">>, i), Comp(<<"l">>, j)>> : i, j \in {<<S>>, <<T>>, <<Y>>}}}

Deviations(c) ==
  {[c EXCEPT !.id = <<>>], [c EXCEPT !.means = {}], [c EXCEPT !.means = {"command"}],
   [c EXCEPT !.means = {"type"}, !.type = T], [c EXCEPT !.replicas = -1],
   [c EXCEPT !.health = "portless"], [c EXCEPT !.health = "ported"],
   [c EXCEPT !.port = 1], [c EXCEPT !.healthPort = 1], [c EXCEPT !.inputs = <<Y>>]}
Lists == {"sources", "processors", "sinks"}
Deviating(f) == UNION {{[f EXCEPT ![l][1] = d] : d \in Deviations(f[l][1])} : l \in Lists}
Heads ==
  {[One EXCEPT !.version = v, !.kind = k, !.name = n, !.driver = d] :
     v \in 0 .. 2, k \in {"Pipeline", "Flow"}, n \in {"", "n"},
     d \in {"", "process", "docker", "other"}}
WithPipelines ==
  {[One EXCEPT !.sources = s,
      !.pipelines = <<[Comp(i, <<>>) EXCEPT !.type = t, !.restart = r, !.means = m]>>] :
     s \in {<<>>, One.sources}, i \in {<<>>, S, <<"p">>}, t \in {<<>>, <<"other">>},
     r \in {"", "bad"}, m \in {{}, {"image"}}}
OddNames ==
  {[One EXCEPT !.processors = <<Comp(i, <<S>>), Comp(j, <<i>>)>>,
               !.sinks = <<Comp(<<"k">>, <<j>>)>>, !.pipelines = p] :
     i, j \in {<<"a", "-", "b">>, <<"a", "_", "b">>, <<"1">>, <<"-", "1">>, X},
     p \in {<<>>, <<[Comp(<<"p">>, <<>>) EXCEPT !.depends = <<S, T>>]>>,
            <<[Comp(<<"p">>, <<>>) EXCEPT !.depends = <<S>>, !.restart = "always"],
              [Comp(<<"q", "/">>, <<>>) EXCEPT !.depends = <<<<"p">>>>]>>}}
Files ==
  WiredFiles \cup (UNION {Deviating(f) : f \in Deviating(One)}) \cup Heads \cup WithPipelines \cup OddNames

(* Files of the older form.                                                    *)
Part(type, name, means, health) ==
  [type |-> type, name |-> name, means |-> means, health |-> health]
LegacyFiles ==
  {[source |-> Part(S, <<>>, m, h), processors |-> p, sink |-> Part(t, <<>>, {"image"}, "none")] :
     m \in {{}, {"image"}}, h \in {"none", "ported", "portless"}, t \in {<<>>, T},
     p \in {<<>>, <<Part(<<>>, X, {"image"}, "none")>>,
            <<Part(Y, X, {"image"}, "none"), Part(Y, Y, {"image"}, "none")>>}}

(* Calls of init.                                                              *)
Calls(how, presets, networks, destinations, lines) ==
  [how : {how}, terminal : BOOLEAN, machine : BOOLEAN, preset : presets, network : networks,
   destination : destinations, lines : lines, latest : {0, 50, 1000}]
NoLines == <<"", "", "", "", "">>
Answers == {"", "1", "2", "x"}
InitCalls ==
  Calls("preset", Presets \cup {<<"testnet", "s3">>}, {""}, {""}, {NoLines})
  \cup Calls("flags", {<<"", "">>}, {"", "testnet", "mainnet", "futurenet"},
             {"", "postgres", "duckdb", "s3"}, {NoLines})
  \cup Calls("prompts", {<<"", "">>}, {""}, {""},
             {<<n, d, f, t, e>> : n, d \in Answers, f, t \in {"", "7"}, e \in {"", "mine"}})

(* They are what their kinds of files and calls may be.                     *)
ASSUME InputsAssumption ==
  /\ Files \subseteq PipelineFile
  /\ LegacyFiles \subseteq LegacyFile
  /\ InitCalls \subseteq InitCall

-----------------------------------------------------------------------------
(* Names of images: some tokens, with and without a digest; and of          *)
(* components.                                                              *)
Tokens == {"/", ":", "nginx", "ghcr.io", "localhost", "-x"}
Ends == {<<>>, <<"@">>, <<"@", ":">>, <<"@", "v1">>, <<"@", "sha256", ":", "hex">>,
         <<"@", "a", "/", "b">>, <<"@", "a", ":", "b">>}
ImageNames == {n \o e : n \in UNION {[1 .. l -> Tokens] : l \in 0 .. 4}, e \in Ends}

(* Settings: the named file is not given, or the others are all absent.     *)
Layers == INSTANCE Settings
Contents == {"absent", "malformed", "silent", "sets"}
SettingLayers ==
  [flag : {"unset", "set"}, env : {"unset", "empty", "set"},
   user : Contents, yaml : Contents, yml : Contents, named : Contents \cup {"none"}]

(* Commands: every sequence of answers, and every other circumstance with  *)
(* a control plane that answers, or whose first answer does not come.       *)
Commands == INSTANCE OperatorCommands
RPCAnswers == {"OK", "Unknown", "DeadlineExceeded", "refused", "broken"}
World(answers, matches, given, wellFormed, machine, kinds, files, configured) ==
  [answers : answers, matches : matches, given : given, wellFormed : wellFormed,
   machine : machine, component : kinds, file : files, configured : configured]
Worlds ==
  World([1 .. 3 -> RPCAnswers], {1, 2}, {TRUE}, {TRUE}, {FALSE}, {"processor", "missing"},
        {"fine"}, {TRUE})
  \cup World({[i \in 1 .. 3 |-> "OK"], [i \in 1 .. 3 |-> IF i = 1 THEN "refused" ELSE "OK"]},
             {0, 1}, BOOLEAN, BOOLEAN, BOOLEAN, {"processor", "other"},
             {"fine", "missing", "unreadable", "invalid"}, BOOLEAN)

(* What a container is given: a volume and a secret, or two secrets.        *)
Home == <<"home", "me">>
Container == INSTANCE ContainerConfig WITH HomeDir <- Home, WorkDir <- Home
Key == <<"/", <<"key">>>>
Hosts == {Container!NoPath, Key, <<"$UNSET/", <<"etc">>>>, <<"./", <<"..", "..">>>>}
Ats == {<<>>, <<"/", "data">>, <<"data">>}
VolumesGiven == [host : Hosts, at : Ats, readonly : {FALSE}]
SecretsGiven ==
  [name : {"", "pw"}, host : {Container!NoPath, Key}, at : Ats, env : {"", "V"},
   mode : {"", "bad"}, type : {"file", "env", "other"}, required : BOOLEAN]
Password == [name |-> "pw", host |-> Key, at |-> <<"/", "x">>, env |-> "V", mode |-> "",
             type |-> "env", required |-> TRUE]
GonePassword == [Password EXCEPT !.required = FALSE, !.host = <<"/", <<"gone">>>>]
Given(volumes, secrets) ==
  [volumes : volumes, secrets : secrets, env : {[V |-> <<"own">>]}]
ContainerComponents ==
  Given({<<v>> : v \in VolumesGiven}, {<<s>> : s \in SecretsGiven})
  \cup Given({<<>>}, {<<Password, s>> : s \in SecretsGiven} \cup {<<s, GonePassword>> : s \in SecretsGiven})
KeyFiles == {[files |-> {<<"key">>}, unreadable |-> u] : u \in {{}, {<<"key">>}}}

(* How a component is configured: two keys, which may have one variable,    *)
(* and variables of its own.                                                *)
Capitals(k) == IF k = "host" THEN "HOST" ELSE "PORT"
Configs == UNION {[keys -> {"1", "2"}] : keys \in SUBSET {"host", "port"}}
OwnEnvs == UNION {[vs -> {"own"}] : vs \in SUBSET {"HOST", "DB", "FLOWCTL_ENDPOINT"}}
Mappings == UNION {[keys -> {"", "DB", "HOST"}] : keys \in SUBSET {"host", "port"}}
EventLists == {<<>>, <<"old">>}
Metadata ==
  [mapping : Mappings, schema : {[k \in {} |-> ""], [k \in {"host"} |-> "DB"]},
   consumes : EventLists, input : EventLists, produces : {<<"new">>}, output : {<<>>}]
Configured ==
  [id : {"c"}, type : {"reference", "name"}, config : Configs, env : OwnEnvs,
   consumes : {<<>>, <<"own">>}, produces : {<<>>}, command : {"given"}]
Findings == [ok : {TRUE}, binary : {"binary"}, metadata : Metadata]

-----------------------------------------------------------------------------
(* What may disturb the two processes that share a cache: one thing or all.  *)
OneOrAll == {{}, {"crash"}, {"copy"}, {"overlap"}, {"crash", "copy", "overlap"}}

(* A layer that fills a small tree, with files, a link to a directory, one  *)
(* to a file and a file of two names, and any two entries over it.  Links   *)
(* lead to the top of the tree, so what they lead to is a path of it.       *)
TreePaths == {<<"a">>, <<"a", "b">>, <<"c">>, <<"c", "b">>}
Tops == {p \in TreePaths : Len(p) = 1}
Entry(kind, path) == [kind |-> kind, path |-> path, target |-> path]
LinkTo(kind, path, target) == [kind |-> kind, path |-> path, target |-> target]
AnyEntries ==
  {Entry(k, p) : k \in {"dir", "file", "whiteout", "opaque"}, p \in TreePaths}
  \cup {LinkTo("symlink", p, q) : p \in TreePaths, q \in Tops}
  \cup {LinkTo("hardlink", p, q) : p, q \in TreePaths}
FirstLayers ==
  {<<>>, <<Entry("file", <<"a", "b">>)>>, <<Entry("file", <<"a">>)>>,
   <<Entry("dir", <<"a">>), Entry("file", <<"a", "b">>)>>,
   <<Entry("file", <<"a", "b">>), Entry("file", <<"c">>)>>,
   <<Entry("file", <<"a", "b">>), LinkTo("symlink", <<"c">>, <<"a">>)>>,
   <<Entry("file", <<"a">>), LinkTo("symlink", <<"c">>, <<"a">>)>>,
   <<Entry("file", <<"a", "b">>), LinkTo("hardlink", <<"c">>, <<"a", "b">>)>>}
TwoLayers ==
  {<<f, s>> : f \in FirstLayers, s \in UNION {[1 .. l -> AnyEntries] : l \in 0 .. 2}}
OneImage == <<<<>>, <<>>>>

-----------------------------------------------------------------------------
NoInput == <<"nothing">>
InputGiven ==
  \/ \E f \in Files : input = <<"file", f>>
  \/ \E f \in LegacyFiles : input = <<"legacy", f>>
  \/ \E c \in InitCalls : input = <<"init", c>>
  \/ \E n \in ImageNames : input = <<"name", n>>
  \/ \E s \in SettingLayers : input = <<"settings", s>>
  \/ \E w \in Worlds, c \in Commands!CommandNames : input = <<"command", c, w>>
  \/ \E c \in ContainerComponents, w \in KeyFiles : input = <<"container", c, w>>
  \/ \E c \in Configured, f \in Findings : input = <<"component", c, f>>

OperatorInit ==
  /\ part \in {"run", "input", "cache", "layers"}
  /\ Init
  /\ CacheInit /\ (part = "cache" \/ disturbances = {})
  /\ LayersInit /\ (part = "layers" \/ image = OneImage)
  /\ IF part = "input" THEN InputGiven ELSE input = NoInput

OperatorNext ==
  /\ UNCHANGED <<part, input>>
  /\ IF part = "run" THEN Next ELSE UNCHANGED vars
  /\ IF part = "cache" THEN CacheNext ELSE UNCHANGED cacheVars
  /\ IF part = "layers" THEN LayersNext ELSE UNCHANGED layerVars

OperatorSpec == OperatorInit /\ [][OperatorNext]_operatorVars

-----------------------------------------------------------------------------
Is(kind) == input[1] = kind

(* The order and the wiring of a file that validate accepts are what it     *)
(* says: what a component reads has started, and the connections can be     *)
(* made; a legacy file with what it needs is translated, and a file that    *)
(* init writes is wired (validator.go:48, loader.go:142, parser.go:175,     *)
(* init.go:314). What translate makes of the first is a file Compose can    *)
(* start, with every component (docker_compose.go:58,                       *)
(* local_docker_compose.go:45). Whether a component's type or driver exists *)
(* is found out by the run itself and is not part of it.                    *)
FilesAreRunnable ==
  /\ Is("file") =>
       ValidatedIsRunnable(input[2]) /\ ValidatedIsTranslatable(input[2]) /\ TranslatesWhole(input[2])
  /\ Is("legacy") => LegacyIsTranslatable(input[2])
  /\ Is("init") => InitIsRunnable(input[2])

(* The exit code of a command says whether to try again (exitcode.go:25),   *)
(* and `config show` where a value comes from (config.go:23).               *)
CommandsTellTheTruth ==
  /\ Is("command") => Commands!ExitTellsWhy(input[2], input[3])
  /\ Is("settings") => Layers!ShownWhereItIsFrom(input[2])

(* A run gets the image the file names: a name means the same to everyone   *)
(* who reads it (reference.go:33).                                          *)
ImagesAreWhatIsNamed ==
  Is("name") => StringIsReadBack(input[2]) /\ VersionIsTheTag(input[2])

(* A component is started with what the file configures for it: in a        *)
(* container its volumes and secrets (pkg/runner/pipeline_runner.go:149),   *)
(* as a process its config, its variables and its types (loader.go:81).     *)
ConfigurationArrives ==
  /\ Is("container") => /\ Container!DeclaredIsMounted(input[2], input[3])
                        /\ Container!RequiredSecretArrives(input[2], input[3])
  /\ Is("component") => ConfigReachesTheProcess(<<input[2]>>, <<input[3]>>, "here")
===============================================================================
