------------------------- MODULE ContainerEnvironment -------------------------
(***************************************************************************)
(* The environment of a container (pkg/runner/env_handler.go): every value *)
(* is first expanded to be validated, against the environment itself, and  *)
(* then again, against the variables that have already been expanded.      *)
(* Both loops range over a Go map, in any order.                           *)
(*                                                                         *)
(* A value is a sequence of words: text, references ${v} (<<"ref", v>>),   *)
(* words $v without braces (<<"dollar", v>>) and white space (<<"space",   *)
(* s>>), of which a blank is one.                                          *)
(***************************************************************************)
EXTENDS Naturals, Sequences, SequencesExt

CONSTANTS
  Keys,          \* the variables the component sets
  Host,          \* flowctl's own environment: a function from variables to values
                 \* without references
  Values,        \* the values to consider
  MaxWords       \* bound: the words of a value under expansion

Ref(v) == <<"ref", v>>
Blank == <<"space", " ">>
HostVariables == DOMAIN Host

References(value) == {i \in DOMAIN value : value[i][1] = "ref"}
Solid(word) == word[1] # "space"

VARIABLES
  setting,  \* setting[k]: the value the component sets
  passing,  \* "validate", "process" or "done"
  pending,  \* the keys the loop has not taken yet
  key,      \* the key whose value is being expanded; "none" between two keys
  words,    \* that value so far
  placed,   \* how many of the words have been split into fields and joined again
  joined,   \* what these became
  bare,     \* bare[k]: what the value of k was before it was split into fields
  final     \* envMap: the variables expanded so far

environmentVars == <<setting, passing, pending, key, words, placed, joined, bare, final>>

EnvironmentTypeOK ==
  /\ setting \in [Keys -> Values]
  /\ passing \in {"validate", "process", "done"}
  /\ pending \subseteq Keys /\ key \in Keys \cup {"none"}
  /\ Len(words) <= MaxWords /\ placed \in 0 .. Len(words)
  /\ DOMAIN bare \subseteq Keys /\ DOMAIN final \subseteq Keys \cup HostVariables

EnvironmentInit ==
  /\ setting \in [Keys -> Values]
  /\ passing = "validate" /\ pending = Keys
  /\ key = "none" /\ words = <<>> /\ placed = 0 /\ joined = <<>>
  /\ bare = [v \in {} |-> <<>>]
  /\ final = Host

(* A mutant: a variable nobody sets is left as it is. *)
Lookup_Kept(env, v) ==
  IF v \in DOMAIN env THEN env[v]
  ELSE IF v \in HostVariables THEN Host[v] ELSE <<Ref(v)>>

Lookup(env, v) ==
  IF v \in DOMAIN env THEN env[v]
  ELSE IF v \in HostVariables THEN Host[v] ELSE <<>>

TakeKey(k) ==
  /\ passing # "done" /\ key = "none" /\ k \in pending
  /\ key' = k /\ words' = setting[k] /\ pending' = pending \ {k}
  /\ UNCHANGED <<setting, passing, placed, joined, bare, final>>

(* expandValue, at first: the first reference, again and again.            *)
FirstReference(value) == CHOOSE i \in References(value) : \A j \in References(value) : i <= j

(* A mutant: what follows the first reference is lost. *)
Expanded_Cut(value, env) ==
  LET i == FirstReference(value) IN SubSeq(value, 1, i - 1) \o Lookup(env, value[i][2])

Expanded(value, env) ==
  LET i == FirstReference(value)
  IN SubSeq(value, 1, i - 1) \o Lookup(env, value[i][2]) \o SubSeq(value, i + 1, Len(value))

Against == IF passing = "validate" THEN setting ELSE final

Expand ==
  /\ key # "none" /\ References(words) # {}
  /\ Len(Expanded(words, Against)) <= MaxWords
  /\ words' = Expanded(words, Against)
  /\ UNCHANGED <<setting, passing, pending, key, placed, joined, bare, final>>

(* And then the words $v: the value is split into fields, in which a field *)
(* that is the name of a variable becomes its value, and these are joined  *)
(* again by one blank each; all for nothing where the value that was set   *)
(* holds no blank.  What the first pass makes of a value is only logged.   *)
Splits(k, value) ==
  Blank \in {setting[k][i] : i \in DOMAIN setting[k]} /\ \E i \in DOMAIN value : Solid(value[i])

Alone(value, i) ==
  /\ value[i][1] = "dollar"
  /\ \A j \in {i - 1, i + 1} \cap DOMAIN value : ~Solid(value[j])
Meaning(env, value, i) ==
  IF Alone(value, i) /\ value[i][2] \in DOMAIN env \cup HostVariables
  THEN Lookup(env, value[i][2]) ELSE <<value[i]>>
Gap(value, i) ==
  IF i - 1 \in DOMAIN value /\ ~Solid(value[i - 1]) /\ \E j \in 1 .. i - 1 : Solid(value[j])
  THEN <<Blank>> ELSE <<>>
Piece(env, value, i) == IF Solid(value[i]) THEN Gap(value, i) \o Meaning(env, value, i) ELSE <<>>

Join ==
  /\ key # "none" /\ passing = "process" /\ References(words) = {}
  /\ Splits(key, words) /\ placed < Len(words)
  /\ placed' = placed + 1
  /\ joined' = joined \o Piece(final, words, placed + 1)
  /\ UNCHANGED <<setting, passing, pending, key, words, bare, final>>

Put(map, value) == [v \in DOMAIN map \cup {key} |-> IF v = key THEN value ELSE map[v]]

Store ==
  /\ key # "none" /\ References(words) = {}
  /\ passing = "process" /\ Splits(key, words) => placed = Len(words)
  /\ key' = "none" /\ words' = <<>> /\ placed' = 0 /\ joined' = <<>>
  /\ IF passing = "process"
       THEN /\ bare' = Put(bare, words)
            /\ final' = Put(final, IF Splits(key, words) THEN joined ELSE words)
       ELSE UNCHANGED <<bare, final>>
  /\ UNCHANGED <<setting, passing, pending>>

NextPass ==
  /\ key = "none" /\ pending = {} /\ passing # "done"
  /\ IF passing = "validate"
       THEN passing' = "process" /\ pending' = Keys
       ELSE passing' = "done" /\ UNCHANGED pending
  /\ UNCHANGED <<setting, key, words, placed, joined, bare, final>>

EnvironmentStep == Expand \/ Join \/ Store \/ NextPass \/ \E k \in Keys : TakeKey(k)
EnvironmentNext == EnvironmentStep
EnvironmentSpec == EnvironmentInit /\ [][EnvironmentNext]_environmentVars
EnvironmentFairness == WF_environmentVars(EnvironmentStep)

-----------------------------------------------------------------------------
Mentions(k) == {setting[k][i][2] : i \in References(setting[k])} \cap Keys

(* Does a variable reach itself through its value and the values that      *)
(* mentions?  Two steps are enough for two variables.                      *)
Circular ==
  \E k \in Keys : k \in Mentions(k) \/ \E j \in Mentions(k) : k \in Mentions(j)

(* The expansion ends, in whatever order the variables come, unless one    *)
(* refers to itself; that one, harmless in the second pass                 *)
(* (PATH=${PATH}:/bin), is expanded for ever in the first.                 *)
FullyExpanded == ~Circular => passing = "done"
ExpansionEnds == <>[]FullyExpanded

(* In the end every reference has been replaced by the whole value of its  *)
(* variable: the one the component sets, expanded, or, depending on the    *)
(* order, the host's.  Nothing else of a value is lost or mixed up but its *)
(* white space: the expanded value can be cut into what its words have     *)
(* become, and, where it was split into fields, what is joined again can   *)
(* be cut into the solid words of it, with one blank where there was white *)
(* space, and with the values of the fields that name a variable.          *)
Replacements(word) ==
  IF word[1] = "ref" THEN {Lookup(final, word[2]), Lookup(<<>>, word[2])} ELSE {<<word>>}

Pieces(value, i) == {Piece(final, value, i), Piece(<<>>, value, i)}

Part(value, cut, i) == SubSeq(value, cut[i - 1] + 1, cut[i])
Cuts(n, value) ==
  {cut \in [0 .. n -> 0 .. Len(value)] :
     cut[0] = 0 /\ cut[n] = Len(value) /\ \A i \in 1 .. n : cut[i - 1] <= cut[i]}
EachWordReplaced ==
  passing = "done" =>
    \A k \in Keys :
      /\ \E cut \in Cuts(Len(setting[k]), bare[k]) :
           \A i \in DOMAIN setting[k] : Part(bare[k], cut, i) \in Replacements(setting[k][i])
      /\ IF Splits(k, bare[k])
           THEN \E cut \in Cuts(Len(bare[k]), final[k]) :
                  \A i \in DOMAIN bare[k] : Part(final[k], cut, i) \in Pieces(bare[k], i)
           ELSE final[k] = bare[k]
===============================================================================
