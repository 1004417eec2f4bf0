---------------------------- MODULE ComponentConfig ----------------------------
(***************************************************************************)
(* How a component of the registry is configured: ResolveComponents        *)
(* (internal/runner/loader.go) replaces each reference by a command, and   *)
(* the component's config by environment variables, named by the metadata  *)
(* that come with the binary (internal/components/metadata.go and          *)
(* translator.go).                                                         *)
(*                                                                         *)
(* A component is [id, type, config, env, consumes, produces]: config and  *)
(* env are functions, and type is "reference" (it has an @), "name" or "". *)
(* The resolver gives it [ok, binary, metadata], the metadata as the       *)
(* record [mapping, schema, consumes, input, produces, output]; the        *)
(* functions mapping and schema give the variable of a config key, or "".  *)
(***************************************************************************)
EXTENDS Naturals, Sequences, SequencesExt

CONSTANT Upper(_)   \* the name of a key in capital letters

With(f, g) == [x \in DOMAIN f \cup DOMAIN g |-> IF x \in DOMAIN g THEN g[x] ELSE f[x]]
Default(list, other) == IF list = <<>> THEN other ELSE list

(* normalizeEnvMapping: the older names fill the gaps of the newer ones.   *)
EnvMapping(m) ==
  With([k \in {k \in DOMAIN m.schema : m.schema[k] # ""} |-> m.schema[k]], m.mapping)
Consumes(m) == Default(m.consumes, m.input)
Produces(m) == Default(m.produces, m.output)

(* TranslateConfig ranges over a map: of two keys with one variable,       *)
(* either may come last.                                                   *)
VariableOf(key, m) ==
  IF key \in DOMAIN EnvMapping(m) /\ EnvMapping(m)[key] # "" THEN EnvMapping(m)[key]
  ELSE Upper(key)
KeysOf(config, m, v) == {k \in DOMAIN config : VariableOf(k, m) = v}
TranslateConfig(config, m) ==
  {[v \in DOMAIN last |-> config[last[v]]] :
     last \in {f \in [{VariableOf(k, m) : k \in DOMAIN config} -> DOMAIN config] :
                 \A v \in DOMAIN f : f[v] \in KeysOf(config, m, v)}}

MergeEnv_ConfigWins(configEnv, env) == With(env, configEnv)   \* mutant
MergeEnv(configEnv, env) == With(configEnv, env)
AddFlowctlEnv(env, id, endpoint) ==
  With(env, [ENABLE_FLOWCTL |-> "true", FLOWCTL_ENDPOINT |-> endpoint,
             FLOWCTL_COMPONENT_ID |-> id])

(* resolveComponent, where the component is a reference: what may come of  *)
(* it.                                                                     *)
IsRegistryReference(c) == c.type = "reference"
Resolved(c, found, endpoint) ==
  {[c EXCEPT !.command = found.binary,
             !.consumes = Default(c.consumes, Consumes(found.metadata)),
             !.produces = Default(c.produces, Produces(found.metadata)),
             !.env = AddFlowctlEnv(MergeEnv(e, c.env), c.id, endpoint)]
     : e \in TranslateConfig(c.config, found.metadata)}

(* ResolveComponents: one that cannot be resolved is an error of the run.  *)
(* found[i] is what the resolver has for component i.                      *)
Fails(components, found) ==
  \E i \in DOMAIN components : IsRegistryReference(components[i]) /\ ~found[i].ok
Outcomes(c, found, endpoint) ==
  IF IsRegistryReference(c) THEN Resolved(c, found, endpoint) ELSE {c}
-----------------------------------------------------------------------------
FlowctlNames == {"ENABLE_FLOWCTL", "FLOWCTL_ENDPOINT", "FLOWCTL_COMPONENT_ID"}

(* What a component of the registry is configured with reaches its         *)
(* process: its own variables as they are, each key of its config in its   *)
(* variable unless the component sets that one itself or another key has   *)
(* it too, the event types it declares or, failing that, its metadata's,   *)
(* and flowctl's variables whatever it says; and a component that names no *)
(* reference is left alone (loader.go:81).                                 *)
ConfigReachesTheProcess(components, found, endpoint) ==
  ~Fails(components, found) =>
    \A i \in DOMAIN components : \A r \in Outcomes(components[i], found[i], endpoint) :
      LET c == components[i]
          m == found[i].metadata
      IN /\ \A v \in DOMAIN c.env :
              (IsRegistryReference(c) /\ v \in FlowctlNames) \/ r.env[v] = c.env[v]
         /\ IsRegistryReference(c) =>
              /\ \A k \in DOMAIN c.config :
                   LET v == VariableOf(k, m) IN
                   v \notin DOMAIN c.env \cup FlowctlNames /\ KeysOf(c.config, m, v) = {k}
                     => r.env[v] = c.config[k]
              /\ r.env["FLOWCTL_COMPONENT_ID"] = c.id /\ r.env["FLOWCTL_ENDPOINT"] = endpoint
              /\ r.command = found[i].binary
              /\ c.consumes # <<>> => r.consumes = c.consumes
              /\ c.consumes = <<>> /\ m.consumes # <<>> => r.consumes = m.consumes
         /\ ~IsRegistryReference(c) => r = c
================================================================================
