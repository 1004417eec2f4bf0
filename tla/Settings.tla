-------------------------------- MODULE Settings --------------------------------
(***************************************************************************)
(* Where the value of a setting comes from (cmd/root.go, cmd/config.go):   *)
(* flags, environment variables, files in the current directory, the       *)
(* user's file, defaults; or flags, variables and one file named by        *)
(* --config.  viper is external: it merges the files it is given, a later  *)
(* one over an earlier one, and ignores a variable that is empty.          *)
(*                                                                         *)
(* The layers are the record s: flag ("unset" or "set"), env ("unset",     *)
(* "empty" or "set"), and what there is of the files user, yaml, yml and   *)
(* named ("absent", "malformed", "silent" about the setting, or "sets" it; *)
(* named may also be "none").  The value a layer gives is its name.   *)
(***************************************************************************)
EXTENDS Naturals, Sequences

(* initConfig: the files, those of lower precedence first. *)
SearchOrder_Reversed(s) ==   \* mutant: the user's file is merged over the project's
  IF s.named # "none" THEN <<"named">> ELSE <<"yaml", "yml", "user">>
SearchOrder(s) ==
  IF s.named # "none" THEN <<"named">> ELSE <<"user", "yaml", "yml">>

(* A file that is malformed is an error, and so is a named one that is not *)
(* there.                                                                  *)
InitConfig(s) ==
  /\ \A i \in DOMAIN SearchOrder(s) : s[SearchOrder(s)[i]] # "malformed"
  /\ s.named # "absent"

(* The places in the order of the files that are there, and of those that  *)
(* set the value; what is merged last wins.                                *)
Found(s) == {i \in DOMAIN SearchOrder(s) : s[SearchOrder(s)[i]] # "absent"}
Setting(s) == {i \in DOMAIN SearchOrder(s) : s[SearchOrder(s)[i]] = "sets"}
LastOf(s, places) == SearchOrder(s)[CHOOSE i \in places : \A j \in places : j <= i]
InConfig(s) == Setting(s) # {}
ConfigFileUsed(s) == LastOf(s, Found(s))

(* viper.GetString. *)
GetString(s) ==
  CASE s.flag = "set" -> "flag"
    [] s.flag # "set" /\ s.env = "set" -> "env"
    [] s.flag # "set" /\ s.env # "set" /\ InConfig(s) -> LastOf(s, Setting(s))
    [] OTHER -> "default"

(* resolve of `config show`: the value, its source, and its origin. *)
Resolve(s) ==
  CASE s.flag = "set" -> <<GetString(s), "flag", "flag">>
    [] s.flag # "set" /\ s.env # "unset" -> <<GetString(s), "environment", "env">>
    [] s.flag # "set" /\ s.env = "unset" /\ InConfig(s) ->
         <<GetString(s), "file", ConfigFileUsed(s)>>
    [] OTHER -> <<GetString(s), "default", "default">>

(* setup takes the output format and the log level from their flags alone. *)
InEffect(s) == IF s.flag = "set" THEN "flag" ELSE "default"

-----------------------------------------------------------------------------
(* `config show` tells the value that the documented order gives           *)
(* (config.go:23) and the layer it comes from, through every combination   *)
(* of layers: but for a variable that is set and empty, which is named as  *)
(* the source of a value it does not give, and for the file, which is the  *)
(* last that was read, whether or not it sets the value.                   *)
Documented(s) ==
  LET file(f) == s.named = "none" /\ s[f] = "sets" IN
  IF s.flag = "set" THEN <<"flag", "flag">>
  ELSE IF s.env = "set" THEN <<"env", "environment">>
  ELSE IF s.named = "sets" THEN <<"named", "file">>
  ELSE IF file("yml") THEN <<"yml", "file">>
  ELSE IF file("yaml") THEN <<"yaml", "file">>
  ELSE IF file("user") THEN <<"user", "file">>
  ELSE <<"default", "default">>
ShownWhereItIsFrom(s) ==
  InitConfig(s) =>
    /\ Resolve(s)[1] = Documented(s)[1]
    /\ s.env # "empty" => Resolve(s)[2] = Documented(s)[2]
    /\ (\A i, j \in Found(s) : i = j) => Resolve(s)[3] \in {"flag", "env", "default", Resolve(s)[1]}
===============================================================================
