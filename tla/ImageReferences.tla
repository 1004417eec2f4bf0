---------------------------- MODULE ImageReferences ----------------------------
(***************************************************************************)
(* The names of images (internal/registry/reference.go) and of components  *)
(* in the registry (internal/components/resolver.go).  A name is a         *)
(* sequence of tokens: the separators "/", ":" and "@", and words.         *)
(***************************************************************************)
EXTENDS Integers, Sequences, FiniteSets, SequencesExt

CONSTANTS
  DottedWords,   \* the words with a dot in them, which can be hosts
  TagWords       \* the words that are valid tags

Docker == "docker.io"
Library == "library"
Latest == "latest"

ASSUME WordsAssumption ==
  /\ Docker \in DottedWords
  /\ \A separator \in {"/", ":", "@"} : separator \notin TagWords

NoReference == [registry |-> <<>>, repository |-> <<>>, tag |-> <<>>, digest |-> <<>>]
Reference(registry, repository, tag, digest) ==
  [registry |-> registry, repository |-> repository, tag |-> tag, digest |-> digest]

(* Where a token is first and last found, 0 if it is not. *)
PlacesOf(name, token) == {i \in DOMAIN name : name[i] = token}
FirstOf(name, token) ==
  IF PlacesOf(name, token) = {} THEN 0 ELSE CHOOSE i \in PlacesOf(name, token) : \A j \in PlacesOf(name, token) : i <= j
LastOf(name, token) ==
  IF PlacesOf(name, token) = {} THEN 0 ELSE CHOOSE i \in PlacesOf(name, token) : \A j \in PlacesOf(name, token) : i >= j
Before(name, i) == SubSeq(name, 1, i - 1)
After(name, i) == SubSeq(name, i + 1, Len(name))

IsValidDigest(digest) == digest \in {<<"sha256", ":", "hex">>, <<"sha512", ":", "hex">>}
IsValidTag(tag) == tag = <<>> \/ (Len(tag) = 1 /\ tag[1] \in TagWords)
IsRegistryHost(s) == s = <<"localhost">> \/ ToSet(s) \cap (DottedWords \cup {":"}) # {}

(* A colon separates the tag if it is the last and no slash follows it. *)
TagColon_First(ref) == FirstOf(ref, ":")   \* mutant: the first colon, as a comment there has it
TagColon(ref) == LastOf(ref, ":")
TagAt(ref) ==
  IF TagColon(ref) # 0 /\ "/" \notin ToSet(After(ref, TagColon(ref))) THEN TagColon(ref) ELSE 0

(* The registry and the repository of what is left of the tag. *)
Located(path) ==
  LET slash == FirstOf(path, "/")
      host == Before(path, slash) IN
  IF slash = 0 THEN <<<<Docker>>, <<Library, "/">> \o path>>
  ELSE IF IsRegistryHost(host) THEN <<host, After(path, slash)>>
  ELSE <<<<Docker>>, path>>

ParseImageReference(raw) ==
  LET at == FirstOf(raw, "@")
      digest == IF at = 0 THEN <<>> ELSE After(raw, at)
      ref == IF at = 0 THEN raw ELSE Before(raw, at)
      colon == TagAt(ref)
      path == IF colon = 0 THEN ref ELSE Before(ref, colon)
      given == IF colon = 0 THEN <<>> ELSE After(ref, colon)
      tag == IF given = <<>> /\ digest = <<>> THEN <<Latest>> ELSE given IN
  IF \/ raw = <<>>
     \/ at # 0 /\ ~IsValidDigest(digest)
     \/ Located(path)[2] = <<>> \/ ~IsValidTag(tag)
  THEN NoReference
  ELSE Reference(Located(path)[1], Located(path)[2], tag, digest)

(* String: a digest goes before a tag. *)
StringOf(r) ==
  r.registry \o <<"/">> \o r.repository
  \o (IF r.digest # <<>> THEN <<"@">> \o r.digest ELSE <<":">> \o r.tag)

(* A component is name@version; without an organisation it is withobsrvr's, *)
(* and every component is looked for on docker.io.                          *)
ParseComponentRef(ref) ==
  LET at == FirstOf(ref, "@") IN
  IF Cardinality(PlacesOf(ref, "@")) # 1 \/ Before(ref, at) = <<>> \/ After(ref, at) = <<>>
  THEN <<>>
  ELSE <<Before(ref, at), After(ref, at)>>
BuildImageReference(name, version) ==
  LET org == IF "/" \in ToSet(name) THEN <<>> ELSE <<"withobsrvr", "/">> IN
  ParseImageReference(<<Docker, "/">> \o org \o name \o <<":">> \o version)

-----------------------------------------------------------------------------
(* The canonical string of a reference is read as that reference, without  *)
(* the tag if there is a digest: what is logged or given to another tool   *)
(* names the same image.  Not if a colon is left in the repository, as in  *)
(* a::@sha256:hex, which no check refuses.                                 *)
StringIsReadBack(raw) ==
  LET r == ParseImageReference(raw) IN
  r # NoReference /\ ":" \notin ToSet(r.repository) =>
    ParseImageReference(StringOf(r)) = (IF r.digest # <<>> THEN [r EXCEPT !.tag = <<>>] ELSE r)

(* A component's image is tagged with the version it was asked for, if     *)
(* that is a word: name@: is resolved to the latest.                       *)
VersionIsTheTag(ref) ==
  LET c == ParseComponentRef(ref)
      r == BuildImageReference(c[1], c[2]) IN
  c # <<>> /\ Len(c[2]) = 1 /\ c[2][1] \notin {"/", ":"} /\ r # NoReference
    => r.tag = c[2] /\ r.registry = <<Docker>>
===============================================================================
