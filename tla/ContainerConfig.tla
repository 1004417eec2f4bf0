---------------------------- MODULE ContainerConfig ----------------------------
(***************************************************************************)
(* What a container is created with: the volumes and secrets a component   *)
(* declares, converted by the pipeline runner and again by the container   *)
(* orchestrator, resolved by the volume and secret handlers of pkg/runner, *)
(* and handed to "docker create".                                          *)
(*                                                                         *)
(* A host path is <<base, words>>, Unset the base of an empty one; a path  *)
(* in the container is a sequence of words, <<"/", ...>> when it is        *)
(* absolute.  A world is [files, unreadable]: the resolved host paths that *)
(* exist, and those of them flowctl may not read.  The mounts of a         *)
(* container are a function: which are there, not in which order, decides  *)
(* what docker makes of them.  Its variables are one too, as in the code.  *)
(***************************************************************************)
EXTENDS Naturals, Sequences, SequencesExt

CONSTANTS HomeDir, WorkDir  \* the words of the two directories

Refused == [refused |-> TRUE]
Unset == ""
NoPath == <<Unset, <<>>>>

(* expandEnvVars and resolveHostPath: a variable nobody sets is empty.     *)
BaseWords(base) ==
  CASE base \in {"~/", "$HOME/"} -> HomeDir
    [] base = "./" -> WorkDir
    [] OTHER -> <<>>
Cleaned(words) ==
  FoldLeft(LAMBDA path, w : IF w # ".." THEN Append(path, w)
                            ELSE IF path = <<>> THEN path ELSE Front(path), <<>>, words)
ResolveHostPath(p) == Cleaned(BaseWords(p[1]) \o p[2])

IsAbs(at) == at # <<>> /\ at[1] = "/"
SystemDirectories == {<<>>} \cup {<<d>> : d \in {"etc", "bin", "sbin", "usr", "lib", "var"}}

PathsAreValid_Raw(host, at) == IsAbs(at)   \* mutant: the directory is not looked at
PathsAreValid(host, at) == IsAbs(at) /\ host \notin SystemDirectories

(* processVolume: a host path that does not exist is only warned about.    *)
ProcessVolume(v) ==
  IF v.host = NoPath \/ v.at = <<>> \/ ~PathsAreValid(ResolveHostPath(v.host), v.at)
  THEN Refused
  ELSE [host |-> ResolveHostPath(v.host), at |-> v.at, readonly |-> v.readonly]

ValidateSecret(s) ==
  /\ s.name # Unset /\ (s.host # NoPath \/ s.type = "env")
  /\ s.type \in {"file", "dir", "env", Unset} /\ s.mode \in {Unset, "0600"}

Readable(s, world) ==
  s.host # NoPath /\ ResolveHostPath(s.host) \in world.files \ world.unreadable

(* A secret without a path in the container goes to /secrets/<name>.       *)
SecretPlace(s) == IF s.at = <<>> THEN <<"/", "secrets", s.name>> ELSE s.at

(* A file or directory is mounted; a variable gets its place, or, of a     *)
(* secret that is a variable only, the content of the file.                *)
Mounted(s) == s.type \in {"file", "dir"}
SetsVariable(s) == s.env # Unset /\ (Mounted(s) \/ s.host # NoPath)
SecretVolume(s) == [host |-> ResolveHostPath(s.host), at |-> SecretPlace(s), readonly |-> TRUE]
SecretValue(s) == IF Mounted(s) THEN <<"path", SecretPlace(s)>>
                  ELSE <<"content", ResolveHostPath(s.host)>>

(* ProcessSecrets: the first required secret that cannot be used refuses   *)
(* them all; the others that cannot be used are left out; the last one of  *)
(* a variable sets it.                                                     *)
Unusable(s, world) ==
  ~ValidateSecret(s) \/ ((Mounted(s) \/ SetsVariable(s)) /\ ~Readable(s, world))
RefusesAll_Invalid(s, world) == s.required /\ ~ValidateSecret(s)   \* mutant
RefusesAll(s, world) == s.required /\ Unusable(s, world)
ProcessSecrets(secrets, world) ==
  LET used == {i \in DOMAIN secrets : ~Unusable(secrets[i], world)}
      setting == {i \in used : SetsVariable(secrets[i])}
      Setter(v) == CHOOSE i \in setting : /\ secrets[i].env = v
                                          /\ \A j \in setting : secrets[j].env = v => j <= i
  IN IF \E i \in DOMAIN secrets : RefusesAll(secrets[i], world) THEN Refused
     ELSE [volumes |-> [i \in {n \in used : Mounted(secrets[n])} |-> SecretVolume(secrets[i])],
           env |-> [v \in {secrets[i].env : i \in setting} |-> SecretValue(secrets[Setter(v)])]]

(* One list after another: each keeps what it has, at a place of its own.  *)
Joined(f, g) ==
  [n \in ({1} \X DOMAIN f) \cup ({2} \X DOMAIN g) |-> IF n[1] = 1 THEN f[n[2]] ELSE g[n[2]]]

(* buildContainerConfig. c.env is what ContainerEnvironment makes of the   *)
(* variables of the component; a secret takes the place of one of them.    *)
BuildContainerConfig(c, world) ==
  LET volumes == [i \in DOMAIN c.volumes |-> ProcessVolume(c.volumes[i])]
      secrets == ProcessSecrets(c.secrets, world)
  IN IF Refused \in Range(volumes) \/ secrets = Refused THEN Refused
     ELSE [volumes |-> Joined(volumes, secrets.volumes),
           env |-> [v \in DOMAIN c.env \cup DOMAIN secrets.env |->
                      IF v \in DOMAIN secrets.env THEN secrets.env[v] ELSE c.env[v]]]

(* External: docker create takes absolute mount points, each of them once. *)
CreateContainer(config) ==
  LET v == config.volumes
  IN IF config = Refused \/ (\E i \in DOMAIN v : ~IsAbs(v[i].at))
        \/ (\E i, j \in DOMAIN v : i # j /\ v[i].at = v[j].at)
     THEN Refused ELSE config

(* convertToOrchestratorComponent and convertToModelComponent: secrets of  *)
(* type file and dir become volumes, the others are left out.              *)
SecretVolumes_Writable(secrets) ==   \* mutant
  [i \in {n \in DOMAIN secrets : Mounted(secrets[n])} |->
     [host |-> secrets[i].host, at |-> secrets[i].at, readonly |-> FALSE]]
SecretVolumes(secrets) ==
  [i \in {n \in DOMAIN secrets : Mounted(secrets[n])} |->
     [host |-> secrets[i].host, at |-> secrets[i].at, readonly |-> TRUE]]
ConvertedComponent(c) ==
  [volumes |-> Joined(c.volumes, SecretVolumes(c.secrets)), secrets |-> <<>>, env |-> c.env]
-----------------------------------------------------------------------------
(* The container that a run creates for a component of its file has each   *)
(* of the declared volumes and file secrets where the file says, the       *)
(* secrets read-only, and mounts no system directory of the host           *)
(* (pipeline_runner.go:491, docker.go:245, volume_handler.go:39).          *)
DeclaredIsMounted(c, world) ==
  LET k == CreateContainer(BuildContainerConfig(ConvertedComponent(c), world))
      Has(host, at, readonly) ==
        [host |-> ResolveHostPath(host), at |-> at, readonly |-> readonly] \in Range(k.volumes)
  IN k # Refused =>
       /\ \A v \in Range(c.volumes) : Has(v.host, v.at, v.readonly)
       /\ \A s \in Range(c.secrets) : Mounted(s) => Has(s.host, s.at, TRUE)
       /\ \A m \in Range(k.volumes) : m.host \notin SystemDirectories

(* A component whose required secret cannot be read has no container; in   *)
(* one that is created, a required secret is mounted read-only, or its     *)
(* variable holds its content, unless a later secret takes the variable    *)
(* (pkg/runner/secret_handler.go:40).                                      *)
RequiredSecretArrives(c, world) ==
  LET k == CreateContainer(BuildContainerConfig(c, world))
      Later(i) == \E j \in DOMAIN c.secrets : j > i /\ c.secrets[j].env = c.secrets[i].env
  IN k # Refused => \A i \in DOMAIN c.secrets :
       LET s == c.secrets[i] IN s.required =>
         /\ Mounted(s) =>
              [host |-> ResolveHostPath(s.host), at |-> SecretPlace(s), readonly |-> TRUE]
                \in Range(k.volumes)
         /\ s.type \in {"env", Unset} /\ s.env # Unset /\ s.host # NoPath /\ ~Later(i) =>
              /\ ResolveHostPath(s.host) \in world.files \ world.unreadable
              /\ k.env[s.env] = <<"content", ResolveHostPath(s.host)>>
================================================================================
