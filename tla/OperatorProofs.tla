--------------------------- MODULE OperatorProofs ---------------------------
(***************************************************************************)
(* Proofs about what flowctl makes of its inputs: the image cache, for any *)
(* processes and any number of tries (a partial image, file system or      *)
(* binary is there only while it is being written); the layers of an       *)
(* image, for any paths and any layers; pipeline files, for any file;      *)
(* names of images, for any name; exit codes and settings, for every       *)
(* command and every layer; and what a component is started with, for any  *)
(* volumes, secrets, keys and variables.                                   *)
(***************************************************************************)
EXTENDS MCOperator, FiniteSetTheorems, SequenceTheorems, TLAPS

Alone == \A p, q \in Resolvers : place[p] # "idle" /\ place[q] # "idle" => p = q

(* Where neither a copy nor a chmod fails, the binary is known too.         *)
CopiesSucceed == "copy" \notin disturbances
BinaryAt(location) ==
  CASE location \in {"idle", "stat"} -> {"none", "executable"}
    [] location = "copy" -> {"partial"}
    [] location = "chmod" -> {"plain"}
    [] location = "verify" -> {"executable"}
    [] OTHER -> {"none"}

Progress(location) ==
  /\ tarball = "partial" <=> location = "write"
  /\ extracted = "partial" <=> location = "layers"
  /\ CopiesSucceed => binary \in BinaryAt(location)
  /\ location \in {"pull", "download", "write", "load"} => extracted = "none"
  /\ location \in {"find", "copy", "chmod"} => extracted = "whole"

ResolvedRuns == CopiesSucceed => ResolvedIsExecutable
Undisturbed ==
  /\ Alone
  /\ \A p \in Resolvers : place[p] # "idle" => Progress(place[p])
  /\ (\A p \in Resolvers : place[p] = "idle") => Progress("idle")
  /\ ResolvedRuns

CacheInvariant ==
  CacheTypeOK /\ (disturbances \cap {"crash", "overlap"} = {} => Undisturbed)

-----------------------------------------------------------------------------
LEMMA CacheInitial == CacheInit => CacheInvariant
<1> SUFFICES ASSUME CacheInit PROVE CacheInvariant OBVIOUS
<1>1. Progress("idle") BY DEF CacheInit, Progress, BinaryAt
<1>2. CacheTypeOK BY DEF CacheInit, CacheTypeOK, Locations
<1>3. Undisturbed BY <1>1 DEF CacheInit, Undisturbed, Alone, ResolvedRuns, ResolvedIsExecutable
<1> QED BY <1>2, <1>3 DEF CacheInvariant

(* Every step keeps the types.                                             *)
LEMMA CacheTyped == CacheTypeOK /\ [CacheNext]_cacheVars => CacheTypeOK'
<1> SUFFICES ASSUME CacheTypeOK, [CacheNext]_cacheVars PROVE CacheTypeOK' OBVIOUS
<1> USE DEF CacheTypeOK, Locations, Move, Caches, Rest, Return
<1>1. ASSUME NEW p \in Resolvers, Resolve(p) PROVE CacheTypeOK'
  BY <1>1 DEF Resolve
<1>2. ASSUME NEW p \in Resolvers, FindCached(p) \/ FindExtracted(p) \/ FindTarball(p)
      PROVE CacheTypeOK'
  BY <1>2 DEF FindCached, FindExtracted, FindTarball
<1>3. ASSUME NEW p \in Resolvers,
             BeginDownload(p) \/ EndDownload(p) \/ LoadTarball(p) \/ ExtractLayers(p)
      PROVE CacheTypeOK'
  BY <1>3 DEF BeginDownload, EndDownload, LoadTarball, ExtractLayers, AfterFailedDownload,
              AfterFailedExtraction
<1>4. ASSUME NEW p \in Resolvers,
             BeginCopy(p) \/ EndCopy(p) \/ MakeExecutable(p) \/ VerifyBinary(p) \/ Crash(p)
      PROVE CacheTypeOK'
  BY <1>4 DEF BeginCopy, EndCopy, MakeExecutable, VerifyBinary, Crash
<1>5. CASE UNCHANGED cacheVars BY <1>5 DEF cacheVars
<1> QED BY <1>1, <1>2, <1>3, <1>4, <1>5 DEF CacheNext

(* The rule for one step of the only process: it is at another place, with *)
(* what is in the caches as it should be there.                            *)
LEMMA StepOfOne ==
  ASSUME CacheTypeOK, NEW p \in Resolvers, NEW from, NEW to,
         Move(p, from, to), \A q \in Resolvers : q # p => place[q] = "idle",
         Progress(to)', ResolvedRuns'
  PROVE Undisturbed'
<1>1. place'[p] = to /\ \A q \in Resolvers : q # p => place'[q] = "idle"
  BY DEF Move, CacheTypeOK
<1>2. Alone' BY <1>1 DEF Alone
<1>3. \A q \in Resolvers : place'[q] # "idle" => q = p /\ place'[q] = to BY <1>1
<1>4. (\A q \in Resolvers : place'[q] = "idle") => to = "idle" BY <1>1
<1> QED BY <1>2, <1>3, <1>4 DEF Undisturbed

(* Every step keeps the invariant.                                         *)
LEMMA CacheStep == CacheInvariant /\ [CacheNext]_cacheVars => CacheInvariant'
<1> SUFFICES ASSUME CacheTypeOK, disturbances \cap {"crash", "overlap"} = {}, Undisturbed,
                    [CacheNext]_cacheVars, disturbances' = disturbances
             PROVE Undisturbed'
  <2>1. ASSUME CacheInvariant, [CacheNext]_cacheVars PROVE disturbances' = disturbances
    BY <2>1 DEF CacheNext, cacheVars, Resolve, FindCached, FindExtracted, FindTarball,
                BeginDownload, EndDownload, LoadTarball, ExtractLayers, BeginCopy, EndCopy,
                MakeExecutable, VerifyBinary, Crash, Rest
  <2> QED BY <2>1, CacheTyped DEF CacheInvariant
<1>1. ASSUME NEW p \in Resolvers, place[p] # "idle"
      PROVE Progress(place[p]) /\ \A q \in Resolvers : q # p => place[q] = "idle"
  BY <1>1 DEF Undisturbed, Alone
<1>2. ResolvedRuns BY DEF Undisturbed
<1>3. CopiesSucceed /\ binary # "executable" => resolved = {}
  BY <1>2 DEF ResolvedRuns, ResolvedIsExecutable
<1> USE DEF Progress, BinaryAt, CopiesSucceed, ResolvedRuns, ResolvedIsExecutable
<1>4. ASSUME NEW p \in Resolvers, Resolve(p) PROVE Undisturbed'
  <2>1. \A q \in Resolvers : place[q] = "idle" BY <1>4 DEF Resolve
  <2>2. Progress("idle") BY <2>1 DEF Undisturbed
  <2>3. Progress("stat")' /\ ResolvedRuns'
    BY <1>2, <1>4, <2>2 DEF Resolve, Caches
  <2> QED BY <1>4, <2>1, <2>3, StepOfOne DEF Resolve
<1>5. ASSUME NEW p \in Resolvers, FindCached(p) PROVE Undisturbed'
  <2>1. place[p] = "stat" BY <1>5 DEF FindCached, Return, Move
  <2>2. CASE binary # "none"
    <3>1. Move(p, "stat", "idle") /\ UNCHANGED Caches BY <1>5, <2>2 DEF FindCached, Return
    <3>2. Progress("idle")' /\ ResolvedRuns' BY <1>1, <2>1, <2>2, <3>1 DEF Caches
    <3> QED BY <1>1, <2>1, <3>1, <3>2, StepOfOne
  <2>3. CASE binary = "none"
    <3>1. Move(p, "stat", "extract") /\ UNCHANGED Caches /\ resolved' = resolved
      BY <1>5, <2>3 DEF FindCached
    <3>2. Progress("extract")' /\ ResolvedRuns'
      BY <1>1, <1>2, <2>1, <2>3, <3>1 DEF Caches
    <3> QED BY <1>1, <2>1, <3>1, <3>2, StepOfOne
  <2> QED BY <2>2, <2>3
<1>6. ASSUME NEW p \in Resolvers, FindExtracted(p) PROVE Undisturbed'
  <2>1. place[p] = "extract" /\ UNCHANGED Caches /\ resolved' = resolved
    BY <1>6 DEF FindExtracted, Move, Rest
  <2>2. ResolvedRuns' BY <1>2, <2>1 DEF Caches
  <2>3. CASE extracted # "none" /\ Move(p, "extract", "find")
    <3>1. Progress("find")' BY <1>1, <2>1, <2>3 DEF Caches, CacheTypeOK
    <3> QED BY <1>1, <2>1, <2>2, <2>3, <3>1, StepOfOne
  <2>4. CASE extracted = "none" /\ Move(p, "extract", "pull")
    <3>1. Progress("pull")' BY <1>1, <2>1, <2>4 DEF Caches
    <3> QED BY <1>1, <2>1, <2>2, <2>4, <3>1, StepOfOne
  <2> QED BY <1>6, <2>3, <2>4 DEF FindExtracted
<1>7. ASSUME NEW p \in Resolvers, FindTarball(p) PROVE Undisturbed'
  <2>1. place[p] = "pull" /\ UNCHANGED Caches /\ resolved' = resolved
    BY <1>7 DEF FindTarball, Move, Rest
  <2>2. ResolvedRuns' BY <1>2, <2>1 DEF Caches
  <2>3. PICK to \in {"load", "download", "idle"} : Move(p, "pull", to) BY <1>7 DEF FindTarball
  <2>4. Progress(to)' BY <1>1, <2>1 DEF Caches
  <2> QED BY <1>1, <2>1, <2>2, <2>3, <2>4, StepOfOne
<1>8. ASSUME NEW p \in Resolvers, BeginDownload(p) PROVE Undisturbed'
  <2>1. place[p] = "download" /\ Move(p, "download", "write") BY <1>8 DEF BeginDownload, Move
  <2>2. Progress("write")' /\ ResolvedRuns'
    BY <1>1, <1>2, <1>8, <2>1 DEF BeginDownload, Rest
  <2> QED BY <1>1, <2>1, <2>2, StepOfOne
<1>9. ASSUME NEW p \in Resolvers, EndDownload(p) PROVE Undisturbed'
  <2>1. place[p] = "write" /\ UNCHANGED <<extracted, binary, resolved>>
    BY <1>9 DEF EndDownload, Move, Rest
  <2>2. PICK to \in {"load", "idle"} : Move(p, "write", to) /\ tarball' \in {"whole", "none"}
    BY <1>9 DEF EndDownload, AfterFailedDownload
  <2>3. Progress(to)' /\ ResolvedRuns' BY <1>1, <1>2, <2>1, <2>2
  <2> QED BY <1>1, <2>1, <2>2, <2>3, StepOfOne
<1>10. ASSUME NEW p \in Resolvers, LoadTarball(p) PROVE Undisturbed'
  <2>1. place[p] = "load" /\ UNCHANGED <<tarball, binary, resolved>>
    BY <1>10 DEF LoadTarball, Move, Rest
  <2>2. ResolvedRuns' BY <1>2, <2>1
  <2>3. CASE Move(p, "load", "layers") /\ extracted' = "partial"
    <3>1. Progress("layers")' BY <1>1, <2>1, <2>3
    <3> QED BY <1>1, <2>1, <2>2, <2>3, <3>1, StepOfOne
  <2>4. CASE Move(p, "load", "idle") /\ extracted' = extracted
    <3>1. Progress("idle")' BY <1>1, <2>1, <2>4
    <3> QED BY <1>1, <2>1, <2>2, <2>4, <3>1, StepOfOne
  <2> QED BY <1>10, <2>3, <2>4 DEF LoadTarball
<1>11. ASSUME NEW p \in Resolvers, ExtractLayers(p) PROVE Undisturbed'
  <2>1. place[p] = "layers" /\ UNCHANGED <<tarball, binary, resolved>>
    BY <1>11 DEF ExtractLayers, Move, Rest
  <2>2. ResolvedRuns' BY <1>2, <2>1
  <2>3. CASE Move(p, "layers", "find") /\ extracted' = "whole"
    <3>1. Progress("find")' BY <1>1, <2>1, <2>3
    <3> QED BY <1>1, <2>1, <2>2, <2>3, <3>1, StepOfOne
  <2>4. CASE Move(p, "layers", "idle") /\ extracted' = "none"
    <3>1. Progress("idle")' BY <1>1, <2>1, <2>4
    <3> QED BY <1>1, <2>1, <2>2, <2>4, <3>1, StepOfOne
  <2> QED BY <1>11, <2>3, <2>4 DEF ExtractLayers, AfterFailedExtraction
<1>12. ASSUME NEW p \in Resolvers, BeginCopy(p) PROVE Undisturbed'
  <2>1. place[p] = "find" /\ UNCHANGED <<tarball, extracted, resolved>>
    BY <1>12 DEF BeginCopy, Move, Rest
  <2>2. CopiesSucceed => resolved = {} BY <1>1, <1>3, <2>1
  <2>3. CASE Move(p, "find", "copy") /\ binary' = "partial"
    <3>1. Progress("copy")' /\ ResolvedRuns' BY <1>1, <2>1, <2>2, <2>3
    <3> QED BY <1>1, <2>1, <2>3, <3>1, StepOfOne
  <2>4. CASE Move(p, "find", "idle") /\ binary' = binary
    <3>1. Progress("idle")' /\ ResolvedRuns' BY <1>1, <2>1, <2>2, <2>4
    <3> QED BY <1>1, <2>1, <2>4, <3>1, StepOfOne
  <2> QED BY <1>12, <2>3, <2>4 DEF BeginCopy
<1>13. ASSUME NEW p \in Resolvers, EndCopy(p) PROVE Undisturbed'
  <2>1. place[p] = "copy" /\ UNCHANGED <<tarball, extracted, resolved>>
    BY <1>13 DEF EndCopy, Move, Rest
  <2>2. (CopiesSucceed => resolved = {}) /\ extracted = "whole" BY <1>1, <1>3, <2>1
  <2>3. CASE Move(p, "copy", "chmod") /\ binary' = "plain"
    <3>1. Progress("chmod")' /\ ResolvedRuns' BY <1>1, <2>1, <2>2, <2>3
    <3> QED BY <1>1, <2>1, <2>3, <3>1, StepOfOne
  <2>4. CASE Move(p, "copy", "idle") /\ ~CopiesSucceed
    <3>1. Progress("idle")' /\ ResolvedRuns' BY <1>1, <2>1, <2>4
    <3> QED BY <1>1, <2>1, <2>4, <3>1, StepOfOne
  <2> QED BY <1>13, <2>2, <2>3, <2>4 DEF EndCopy
<1>14. ASSUME NEW p \in Resolvers, MakeExecutable(p) PROVE Undisturbed'
  <2>1. place[p] = "chmod" /\ UNCHANGED <<tarball, extracted, resolved>>
    BY <1>14 DEF MakeExecutable, Move, Rest
  <2>2. CopiesSucceed => resolved = {} /\ binary = "plain" BY <1>1, <1>3, <2>1
  <2>3. CASE Move(p, "chmod", "verify") /\ (binary = "plain" => binary' = "executable")
    <3>1. Progress("verify")' /\ ResolvedRuns' BY <1>1, <2>1, <2>2, <2>3
    <3> QED BY <1>1, <2>1, <2>3, <3>1, StepOfOne
  <2>4. CASE Move(p, "chmod", "idle") /\ ~CopiesSucceed
    <3>1. Progress("idle")' /\ ResolvedRuns' BY <1>1, <2>1, <2>4
    <3> QED BY <1>1, <2>1, <2>4, <3>1, StepOfOne
  <2> QED BY <1>14, <2>3, <2>4 DEF MakeExecutable
<1>15. ASSUME NEW p \in Resolvers, VerifyBinary(p) PROVE Undisturbed'
  <2>1. place[p] = "verify" /\ UNCHANGED Caches /\ Move(p, "verify", "idle")
    BY <1>15 DEF VerifyBinary, Move, Return
  <2>2. Progress("idle")' /\ ResolvedRuns' BY <1>1, <2>1 DEF Caches
  <2> QED BY <1>1, <2>1, <2>2, StepOfOne
<1>16. ASSUME NEW p \in Resolvers, Crash(p) PROVE Undisturbed'
  BY <1>16 DEF Crash
<1>17. CASE UNCHANGED cacheVars
  BY <1>17 DEF cacheVars, Undisturbed, Alone
<1> QED BY <1>4, <1>5, <1>6, <1>7, <1>8, <1>9, <1>10, <1>11, <1>12, <1>13, <1>14, <1>15, <1>16,
           <1>17 DEF CacheNext

(* Of processes that resolve one after the other and are not killed, every *)
(* download and every extraction that fails leaves nothing half done in    *)
(* the image cache (client.go:50), also when copies fail; and where no     *)
(* copy and no chmod fails, a later try, by any process, ends with an      *)
(* executable or an error (resolver.go:66).                                *)
THEOREM FailuresAreCleanedUp == CacheSpec => []CleanupSuffices
<1>1. CacheInvariant => CleanupSuffices
  BY DEF CacheInvariant, Undisturbed, Progress, CleanupSuffices, ResolvedRuns, CopiesSucceed
<1> QED BY <1>1, CacheInitial, CacheStep, PTL DEF CacheSpec

-----------------------------------------------------------------------------
(* A tree is what the first n entries of a layer make of the one below.    *)
MeaningUpTo(low, l, n) == Meaning(low, SubSeq(l, 1, n))
IsMeant(t, low, l, n, i) ==
  /\ \A q \in Paths : At(t, q) = MeaningUpTo(low, l, n)[q]
  /\ HasContents(t, low, SubSeq(l, 1, n), i)
MeantSoFar ==
  Extracting /\ Sorted(Current) /\ ~crossed => IsMeant(tree, lower, Current, next - 1, layer)

Position ==
  /\ image \in Images /\ layer \in Nat \ {0} /\ next \in Nat \ {0} /\ failed \in BOOLEAN
  /\ crossed \in BOOLEAN
  /\ Extracting => next <= Len(Current) + 1
LayersInvariant == Position /\ TreeOK(tree) /\ TreeOK(lower) /\ MeantSoFar

LEMMA PrefixPointwise ==
  ASSUME NEW Values, NEW s \in Seq(Values), NEW t \in Seq(Values)
  PROVE  IsPrefix(s, t) <=> Len(s) <= Len(t) /\ \A i \in 1 .. Len(s) : s[i] = t[i]
<1>1. ASSUME Len(s) <= Len(t) PROVE /\ SubSeq(s, 1, Len(s)) = s
                                    /\ SubSeq(t, 1, Len(s)) \in Seq(Values)
                                    /\ Len(SubSeq(t, 1, Len(s))) = Len(s)
                                    /\ \A i \in 1 .. Len(s) : SubSeq(t, 1, Len(s))[i] = t[i]
  BY <1>1
<1>2. CASE Len(s) <= Len(t)
  <2> DEFINE u == SubSeq(t, 1, Len(s))
  <2>1. u \in Seq(Values) /\ Len(u) = Len(s) BY <1>1, <1>2
  <2>2. \A i \in 1 .. Len(s) : u[i] = t[i] BY <1>1, <1>2
  <2>3. IsPrefix(s, t) <=> s = u BY <1>1, <1>2 DEF IsPrefix
  <2> HIDE DEF u
  <2>4. s = u <=> \A i \in 1 .. Len(s) : s[i] = u[i] BY <2>1
  <2> QED BY <1>2, <2>2, <2>3, <2>4
<1>3. CASE ~(Len(s) <= Len(t))
  BY <1>3 DEF IsPrefix
<1> QED BY <1>2, <1>3

LEMMA PathsAreSequences ==
  ASSUME NEW p \in Paths, NEW q \in Paths, NEW r \in Paths
  PROVE  \E Values : p \in Seq(Values) /\ q \in Seq(Values) /\ r \in Seq(Values)
<1> DEFINE P == {p[i] : i \in DOMAIN p}
           Q == {q[i] : i \in DOMAIN q}
           R == {r[i] : i \in DOMAIN r}
<1>1. p \in Seq(P) /\ q \in Seq(Q) /\ r \in Seq(R) BY LayersAssumption
<1> HIDE DEF P, Q, R
<1>2. p \in Seq(P \cup Q \cup R) /\ q \in Seq(P \cup Q \cup R) /\ r \in Seq(P \cup Q \cup R)
  BY <1>1
<1> QED BY <1>2

LEMMA UnderIsTransitive ==
  ASSUME NEW p \in Paths, NEW q \in Under(p), NEW r \in Under(q)
  PROVE  r \in Under(p)
<1>1. q \in Paths /\ r \in Paths BY DEF Under
<1>2. PICK Values : p \in Seq(Values) /\ q \in Seq(Values) /\ r \in Seq(Values) BY <1>1, PathsAreSequences
<1>3. /\ Len(p) <= Len(q) /\ \A i \in 1 .. Len(p) : p[i] = q[i]
      /\ Len(q) <= Len(r) /\ \A i \in 1 .. Len(q) : q[i] = r[i]
      /\ p # q /\ q # r
  BY <1>2, PrefixPointwise DEF Under, IsStrictPrefix
<1>4. IsPrefix(p, r) BY <1>2, <1>3, PrefixPointwise
<1>5. p # r
  <2> SUFFICES ASSUME p = r PROVE FALSE OBVIOUS
  <2>1. Len(p) = Len(q) BY <1>2, <1>3
  <2>2. p = q BY <1>2, <1>3, <2>1
  <2> QED BY <1>3, <2>2
<1> QED BY <1>1, <1>4, <1>5 DEF Under, IsStrictPrefix

LEMMA AboveIsNotUnder ==
  ASSUME NEW p \in Paths
  PROVE  /\ \A q \in Paths : q \in Above(p) <=> p \in Under(q)
         /\ p \notin Under(p) /\ p \notin Above(p)
         /\ \A q \in Above(p) : q \notin Under(p)
<1>1. \A q \in Paths : q \in Above(p) <=> p \in Under(q) BY DEF Above, Under
<1>2. p \notin Under(p) /\ p \notin Above(p) BY DEF Above, Under, IsStrictPrefix
<1>3. \A q \in Above(p) : q \in Paths BY DEF Above
<1> QED BY <1>1, <1>2, <1>3, UnderIsTransitive

LEMMA EntryParts == \A e \in LayerEntries : e.kind \in EntryKinds /\ e.path \in Paths
BY DEF LayerEntries

LEMMA KnownPaths == \A q \in Paths : \A t : At(t, q) = t[q].kind
BY DEF At

LEMMA HiddenMembership ==
  ASSUME NEW l, NEW q
  PROVE  q \in Hidden(l) <=>
           \/ \E i \in Entries(l, {"whiteout"}) : q = l[i].path \/ q \in Under(l[i].path)
           \/ \E i \in Entries(l, {"opaque"}) : q \in Under(l[i].path)
<1> DEFINE W == UNION {{l[i].path} \cup Under(l[i].path) : i \in Entries(l, {"whiteout"})}
           O == UNION {Under(l[i].path) : i \in Entries(l, {"opaque"})}
<1>1. q \in W <=> \E i \in Entries(l, {"whiteout"}) : q = l[i].path \/ q \in Under(l[i].path)
  OBVIOUS
<1>2. q \in O <=> \E i \in Entries(l, {"opaque"}) : q \in Under(l[i].path)
  OBVIOUS
<1>3. Hidden(l) = W \cup O BY Zenon DEF Hidden
<1> HIDE DEF W, O
<1> QED BY <1>1, <1>2, <1>3

(* What one more entry adds to the meaning of a layer.                     *)
Added(l, m, e) ==
  /\ DOMAIN m = 1 .. Len(l) + 1 /\ m[Len(l) + 1] = e
  /\ \A i \in 1 .. Len(l) : m[i] = l[i]

LEMMA MeaningGrows ==
  ASSUME NEW l, DOMAIN l = 1 .. Len(l), Len(l) \in Nat, NEW m, NEW e, Added(l, m, e), NEW q
  PROVE  /\ \A K : q \in Named(m, K) <=> q \in Named(l, K) \/ (e.kind \in K /\ q = e.path)
         /\ q \in Directories(m) <=>
              \/ q \in Directories(l)
              \/ e.kind \in {"dir", "opaque"} /\ q = e.path
              \/ e.kind \in EntryKinds \ {"whiteout"} /\ q \in Above(e.path)
         /\ q \in Hidden(m) <=>
              \/ q \in Hidden(l)
              \/ e.kind = "whiteout" /\ q \in {e.path} \cup Under(e.path)
              \/ e.kind = "opaque" /\ q \in Under(e.path)
<1> DEFINE n == Len(l)
<1>1. /\ DOMAIN m = 1 .. n + 1 /\ DOMAIN l = 1 .. n /\ n \in Nat
      /\ m[n + 1] = e /\ \A i \in 1 .. n : m[i] = l[i]
  BY DEF Added
<1>2. \A i : i \in DOMAIN m <=> i \in DOMAIN l \/ i = n + 1 BY <1>1
<1>3. \A K : \A i : i \in Entries(m, K) <=> i \in Entries(l, K) \/ (i = n + 1 /\ e.kind \in K)
  BY <1>1, <1>2 DEF Entries
<1>4. \A K : \A i \in Entries(l, K) : m[i] = l[i] BY <1>1 DEF Entries
<1>5. \A K : q \in Named(m, K) <=> q \in Named(l, K) \/ (e.kind \in K /\ q = e.path)
  BY <1>1, <1>3, <1>4 DEF Named
<1>6. q \in Directories(m) <=>
              \/ q \in Directories(l)
              \/ e.kind \in {"dir", "opaque"} /\ q = e.path
              \/ e.kind \in EntryKinds \ {"whiteout"} /\ q \in Above(e.path)
  <2> DEFINE K == EntryKinds \ {"whiteout"}
             A(k) == UNION {Above(k[i].path) : i \in Entries(k, K)}
  <2>1. \A k : q \in A(k) <=> \E i \in Entries(k, K) : q \in Above(k[i].path)
    OBVIOUS
  <2>2. \A k : q \in Directories(k) <=> q \in Named(k, {"dir", "opaque"}) \/ q \in A(k)
    BY Zenon DEF Directories
  <2>3. \A i : i \in Entries(m, K) <=> i \in Entries(l, K) \/ (i = n + 1 /\ e.kind \in K)
    BY <1>3
  <2> HIDE DEF A, K
  <2>4. q \in A(m) <=> q \in A(l) \/ (e.kind \in K /\ q \in Above(e.path))
    BY <1>1, <1>4, <2>1, <2>3
  <2> QED BY <1>5, <2>2, <2>4 DEF K
<1>7. q \in Hidden(m) <=>
              \/ q \in Hidden(l)
              \/ e.kind = "whiteout" /\ q \in {e.path} \cup Under(e.path)
              \/ e.kind = "opaque" /\ q \in Under(e.path)
  <2>1. \A i : i \in Entries(m, {"whiteout"}) <=>
                i \in Entries(l, {"whiteout"}) \/ (i = n + 1 /\ e.kind = "whiteout")
    BY <1>3
  <2>2. \A i : i \in Entries(m, {"opaque"}) <=>
                i \in Entries(l, {"opaque"}) \/ (i = n + 1 /\ e.kind = "opaque")
    BY <1>3
  <2> QED BY <1>1, <1>4, <2>1, <2>2, HiddenMembership
<1> QED BY <1>5, <1>6, <1>7

(* Where no link is on a path, the path leads to itself, and so does every *)
(* path above it.                                                          *)
LEMMA NoLinksOnTheWay ==
  ASSUME NEW t, NEW p \in Paths, Links(t, p, FALSE) = {}
  PROVE  /\ Place(t, p) = p
         /\ \A r \in Above(p) : Place(t, r) = r /\ Reached(t, r) = r /\ At(t, r) # "symlink"
<1>1. \A r \in Above(p) : At(t, r) # "symlink" BY DEF Links
<1>2. ASSUME NEW r \in Above(p) PROVE Links(t, r, FALSE) = {} /\ Links(t, r, TRUE) = {}
  <2>1. r \in Paths /\ p \in Under(r) BY <1>2 DEF Above, Under
  <2>2. ASSUME NEW q \in Above(r) PROVE q \in Above(p)
    <3>1. q \in Paths /\ r \in Under(q) BY <2>1, <2>2 DEF Above, Under
    <3> QED BY <2>1, <3>1, UnderIsTransitive, AboveIsNotUnder
  <2> QED BY <1>1, <1>2, <2>2 DEF Links
<1> QED BY <1>1, <1>2 DEF Place, Reached, Followed

(* MkdirAll over such a path.                                              *)
LEMMA MadeStraight ==
  ASSUME NEW t, NEW p \in Paths, Links(t, p, FALSE) = {},
         NEW U \in {Above(p), Above(p) \cup {p}},
         NEW q \in Paths
  PROVE  /\ Made(t, U)[q] = IF q \in U /\ At(t, q) = "nothing" THEN [kind |-> "dir"] ELSE t[q]
         /\ ~Blocked(t, U) /\ q \in Above(p) => At(t, q) \notin {"file", "symlink"}
<1>1. \A r \in U : Place(t, r) = r
  <2>1. Place(t, p) = p /\ \A r \in Above(p) : Place(t, r) = r BY NoLinksOnTheWay
  <2> QED BY <2>1
<1>2. {Place(t, r) : r \in U} = U BY <1>1
<1>3. Made(t, U)[q] = IF q \in U /\ At(t, q) = "nothing" THEN [kind |-> "dir"] ELSE t[q]
  BY <1>2 DEF Made
<1>4. ASSUME ~Blocked(t, U), q \in Above(p) PROVE At(t, q) \notin {"file", "symlink"}
  <2>1. Place(t, q) = q /\ Reached(t, q) = q /\ At(t, q) # "symlink" BY <1>4, NoLinksOnTheWay
  <2> QED BY <1>4, <2>1 DEF Blocked
<1> QED BY <1>3, <1>4

(* An entry that is extracted leaves a tree of the right types. *)
LEMMA AppliedTyped ==
  ASSUME NEW t, TreeOK(t), NEW e, e.kind \in EntryKinds, ~EntryFails(t, e), NEW l, NEW i
  PROVE  TreeOK(Applied(t, e, l, i))
<1> DEFINE p == e.path
           made == Made(t, Above(p))
           source == Place(Cleared(made, p), e.target)
<1>1. \A u : TreeOK(u) => \A U : TreeOK(Made(u, U)) /\ TreeOK(Removed(u, U))
  BY DEF Made, Removed, Nothing, TreeOK, NodeKinds
<1>2. \A u, q : TreeOK(u) => TreeOK(Written(u, q, l, i))
  BY DEF Written, Regular, TreeOK, NodeKinds
<1>3. \A u, q, x : TreeOK(u) /\ x.kind \in NodeKinds => TreeOK([u EXCEPT ![q] = x])
  BY DEF TreeOK
<1>4. TreeOK(made) BY <1>1
<1>5. CASE e.kind = "symlink"
  <2>1. Link(e.target).kind \in NodeKinds BY DEF Link, NodeKinds
  <2> QED BY <1>3, <1>4, <1>5, <2>1 DEF Applied
<1>6. CASE e.kind = "hardlink"
  <2>1. At(Cleared(made, p), source) # "nothing" BY <1>6 DEF EntryFails, CannotLink
  <2>2. source \in Paths BY <2>1 DEF At
  <2>3. made[source].kind \in NodeKinds BY <1>4, <2>2 DEF TreeOK
  <2> QED BY <1>3, <1>4, <1>6, <2>3 DEF Applied
<1>7. CASE e.kind \in EntryKinds \ {"symlink", "hardlink"}
  BY <1>1, <1>2, <1>4, <1>7 DEF Applied, Gone, EntryKinds
<1> QED BY <1>5, <1>6, <1>7

(* What the tree has after a straight entry: one step of the meaning.  A   *)
(* file is one that was there, or the one the entry brings.                *)
KindOf(k) ==
  IF k = "symlink" THEN "symlink" ELSE IF k \in {"file", "hardlink"} THEN "file" ELSE "dir"
LEMMA AppliedStraight ==
  ASSUME NEW t, TreeOK(t), NEW e, e.kind \in EntryKinds, e.path \in Paths, NEW l, NEW i,
         ~EntryFails(t, e), Straight(t, e), NEW q \in Paths
  PROVE  /\ At(Applied(t, e, l, i), q) =
              IF e.kind = "whiteout"
              THEN IF q \in {e.path} \cup Under(e.path) THEN "nothing" ELSE At(t, q)
              ELSE IF q = e.path THEN KindOf(e.kind)
              ELSE IF q \in Above(e.path) THEN "dir"
              ELSE IF e.kind = "opaque" /\ q \in Under(e.path) THEN "nothing" ELSE At(t, q)
         /\ At(Applied(t, e, l, i), q) = "file" /\ (e.kind = "hardlink" => q # e.path) =>
              IF e.kind = "file" /\ q = e.path THEN Applied(t, e, l, i)[q].from = l
              ELSE Applied(t, e, l, i)[q] = t[q]
<1> DEFINE p == e.path
           made == Made(t, Above(p))
           to == Applied(t, e, l, i)
<1>1. /\ p \in Paths /\ p \notin Under(p) /\ p \notin Above(p)
      /\ \A r \in Above(p) : r \notin Under(p) /\ r \in Paths
  BY AboveIsNotUnder DEF Above
<1>2. Links(t, p, FALSE) = {} BY DEF Straight, Links
<1>3. Place(t, p) = p BY <1>2, NoLinksOnTheWay
<1>4. \A r \in Paths : t[r].kind \in NodeKinds /\ At(t, r) = t[r].kind BY KnownPaths DEF TreeOK
<1>5. At(to, q) = to[q].kind BY KnownPaths
<1>6. \A r \in Paths : made[r] = IF r \in Above(p) /\ At(t, r) = "nothing" THEN [kind |-> "dir"] ELSE t[r]
  BY <1>2, MadeStraight
<1>7. \A r \in Paths : At(made, r) = IF r \in Above(p) /\ At(t, r) = "nothing" THEN "dir" ELSE At(t, r)
  BY <1>6, KnownPaths
<1>8. \A r \in Paths : At(made, r) = "symlink" => At(t, r) = "symlink" BY <1>7
<1>9. DOMAIN made = Paths BY DEF Made
<1>10. Place(made, p) = p
  <2>1. Links(made, p, FALSE) = {} BY <1>1, <1>2, <1>8 DEF Links
  <2> QED BY <2>1 DEF Place, Followed
<1>11. e.kind \in {"file", "symlink", "hardlink"} => \A r \in Above(p) : made[r].kind = "dir"
  <2> SUFFICES ASSUME e.kind \in {"file", "symlink", "hardlink"}, NEW r \in Above(p)
               PROVE  made[r].kind = "dir"
    OBVIOUS
  <2>1. ~Blocked(t, Above(p)) BY DEF EntryFails
  <2>2. At(t, r) \notin {"file", "symlink"} BY <1>1, <1>2, <2>1, MadeStraight
  <2> QED BY <1>1, <1>4, <1>6, <2>2 DEF NodeKinds
<1> HIDE DEF made
<1>12. CASE e.kind = "whiteout"
  <2>1. to = Removed(t, {p} \cup Under(p)) BY <1>3, <1>12 DEF Applied, Gone
  <2>2. to[q] = IF q \in {p} \cup Under(p) THEN Nothing ELSE t[q] BY <2>1 DEF Removed
  <2> QED BY <1>4, <1>5, <1>12, <2>2 DEF Nothing
<1>13. CASE e.kind = "dir"
  <2> DEFINE U == Above(p) \cup {p}
  <2>1. to = Made(t, U) BY <1>13 DEF Applied
  <2>0. U \in {Above(p), Above(p) \cup {p}} OBVIOUS
  <2>3. ~Blocked(t, U) BY <1>13 DEF EntryFails
  <2>10. p \in U /\ (q \in U => q \in Above(p) \/ q = p) OBVIOUS
  <2> HIDE DEF U
  <2>2. to[q] = IF q \in U /\ At(t, q) = "nothing" THEN [kind |-> "dir"] ELSE t[q]
    <3>1. Made(t, U)[q] = IF q \in U /\ At(t, q) = "nothing" THEN [kind |-> "dir"] ELSE t[q]
      BY <1>1, <1>2, <2>0, MadeStraight
    <3> QED BY <2>1, <3>1
  <2>4. q \in U => At(t, q) \notin {"file", "symlink"}
    <3>1. CASE q \in Above(p) BY <1>2, <2>0, <2>3, <3>1, MadeStraight
    <3>2. CASE q = p
      <4>1. Links(t, p, TRUE) = {} BY <1>13 DEF Straight
      <4>2. Reached(t, p) = p BY <4>1 DEF Reached, Followed
      <4>3. At(t, p) # "symlink" BY <4>1 DEF Links
      <4> QED BY <1>3, <2>3, <2>10, <3>2, <4>2, <4>3 DEF Blocked
    <3> QED BY <2>10, <3>1, <3>2
  <2> QED BY <1>4, <1>5, <1>13, <2>2, <2>4 DEF KindOf, NodeKinds, U
<1>14. CASE e.kind = "opaque"
  <2> DEFINE U == Above(p) \cup {p}
             gone == Gone(t, p)
  <2>1. \A r \in Paths : gone[r] = IF r \in {p} \cup Under(p) THEN Nothing ELSE t[r]
    BY <1>3 DEF Gone, Removed
  <2>2. \A r \in Paths : At(gone, r) = IF r \in {p} \cup Under(p) THEN "nothing" ELSE At(t, r)
    BY <2>1, KnownPaths DEF Nothing
  <2>3. to = Made(gone, U) /\ ~Blocked(gone, U) BY <1>14 DEF Applied, EntryFails
  <2>0. U \in {Above(p), Above(p) \cup {p}} OBVIOUS
  <2> HIDE DEF gone, U
  <2>4. Links(gone, p, FALSE) = {} BY <1>1, <1>2, <2>2 DEF Links
  <2>5. to[q] = IF q \in U /\ At(gone, q) = "nothing" THEN [kind |-> "dir"] ELSE gone[q]
    <3>1. Made(gone, U)[q] = IF q \in U /\ At(gone, q) = "nothing" THEN [kind |-> "dir"] ELSE gone[q]
      BY <1>1, <2>0, <2>4, MadeStraight
    <3> QED BY <2>3, <3>1
  <2>6. q \in Above(p) => At(gone, q) \notin {"file", "symlink"}
    BY <1>1, <2>0, <2>3, <2>4, MadeStraight
  <2> QED BY <1>1, <1>4, <1>5, <1>14, <2>1, <2>2, <2>5, <2>6 DEF KindOf, NodeKinds, Nothing, U
<1>15. CASE e.kind = "file"
  <2>1. Links(t, p, TRUE) = {} BY <1>15 DEF Straight
  <2>2. Reached(made, p) = p
    <3>1. Links(made, p, TRUE) = {} BY <1>1, <1>8, <2>1 DEF Links
    <3> QED BY <3>1 DEF Reached, Followed
  <2>3. to = Written(made, p, l, i) BY <1>15, <2>2 DEF Applied, made
  <2>4. ASSUME q # p PROVE ~SameFile(made, p, q)
    <3>1. ~SameFile(t, p, q) BY <1>15, <2>4 DEF Straight
    <3> QED BY <1>1, <1>6, <1>7, <3>1 DEF SameFile
  <2>5. q # p => to[q] = made[q] BY <2>3, <2>4 DEF Written
  <2>6. q = p => to[q].kind = "file" /\ to[q].from = l BY <2>3 DEF Written, Regular
  <2> QED BY <1>1, <1>4, <1>5, <1>6, <1>11, <1>15, <2>5, <2>6 DEF KindOf
<1>16. CASE e.kind = "symlink"
  <2>1. to = [made EXCEPT ![p] = Link(e.target)] BY <1>10, <1>16 DEF Applied, made
  <2>2. to[q] = IF q = p THEN Link(e.target) ELSE made[q] BY <1>9, <2>1
  <2> QED BY <1>1, <1>4, <1>5, <1>6, <1>11, <1>16, <2>2 DEF KindOf, Link
<1>17. CASE e.kind = "hardlink"
  <2> DEFINE cleared == Cleared(made, p)
             source == Place(cleared, e.target)
  <2>1. Links(t, e.target, FALSE) = {} /\ At(t, e.target) = "file" BY <1>17 DEF Straight
  <2>2. e.target \in Paths BY <2>1 DEF At
  <2>3. cleared = Removed(made, {p}) BY <1>10 DEF Cleared
  <2>4. \A r \in Paths : At(cleared, r) = IF r = p THEN "nothing" ELSE At(made, r)
    BY <2>3, KnownPaths DEF Removed, Nothing
  <2>5. \A r \in Paths : At(cleared, r) = "symlink" => At(t, r) = "symlink"
    BY <1>8, <2>4
  <2> HIDE DEF cleared
  <2>6. source = e.target
    <3>1. Above(e.target) \subseteq Paths BY DEF Above
    <3>2. Links(cleared, e.target, FALSE) = {} BY <2>1, <2>5, <3>1 DEF Links
    <3> QED BY <3>2 DEF Place, Followed
  <2>7. made[e.target].kind = "file" BY <1>4, <1>6, <2>1, <2>2
  <2>8. to = [made EXCEPT ![p] = made[e.target]] BY <1>10, <1>17, <2>6 DEF Applied, made, cleared
  <2>9. to[q] = IF q = p THEN made[e.target] ELSE made[q] BY <1>9, <2>8
  <2> QED BY <1>1, <1>4, <1>5, <1>6, <1>11, <1>17, <2>7, <2>9 DEF KindOf
<1> QED BY <1>12, <1>13, <1>14, <1>15, <1>16, <1>17 DEF EntryKinds

(* The step of the invariant that says something: an entry that is read   *)
(* in its turn changes the tree as it changes the meaning.                 *)
LEMMA EntryMeans ==
  ASSUME NEW t, TreeOK(t), NEW low, NEW c \in Seq(LayerEntries), NEW n \in 1 .. Len(c), NEW l, NEW i0,
         Sorted(c), ~EntryFails(t, c[n]), Straight(t, c[n]),
         IsMeant(t, low, c, n - 1, l)
  PROVE  IsMeant(Applied(t, c[n], l, i0), low, c, n, l)
<1> DEFINE e == c[n]
           before == SubSeq(c, 1, n - 1)
           after == SubSeq(c, 1, n)
           p == e.path
<1>1. /\ DOMAIN before = 1 .. Len(before) /\ Len(before) = n - 1
      /\ \A i \in 1 .. n - 1 : before[i] = c[i]
      /\ DOMAIN after = 1 .. n /\ \A i \in 1 .. n : after[i] = c[i]
      /\ e.kind \in EntryKinds /\ p \in Paths
  <2>1. c[n] \in LayerEntries OBVIOUS
  <2>2. e.kind \in EntryKinds /\ p \in Paths BY <2>1, EntryParts
  <2>3. /\ DOMAIN before = 1 .. Len(before) /\ Len(before) = n - 1
        /\ \A i \in 1 .. n - 1 : before[i] = c[i]
    OBVIOUS
  <2>4. DOMAIN after = 1 .. n /\ \A i \in 1 .. n : after[i] = c[i]
    OBVIOUS
  <2> QED BY <2>2, <2>3, <2>4
<1>2. Added(before, after, e) BY <1>1 DEF Added
<1> HIDE DEF before, after
<1>3. \A i \in DOMAIN before : /\ i \in DOMAIN c /\ i < n /\ before[i] = c[i]
                               /\ before[i].kind \in EntryKinds /\ before[i].path \in Paths
  BY <1>1, EntryParts
<1>4. e.kind \in {"whiteout", "opaque"} =>
        \A i \in DOMAIN before : before[i].kind \in {"whiteout", "opaque"}
  <2> SUFFICES ASSUME e.kind \in {"whiteout", "opaque"}, NEW i \in DOMAIN before,
                      before[i].kind \notin {"whiteout", "opaque"}
               PROVE FALSE
    OBVIOUS
  <2>1. before[i].kind \notin {"whiteout", "opaque"} BY <1>3
  <2>2. n \in DOMAIN c /\ c[n].kind \in {"whiteout", "opaque"} OBVIOUS
  <2>3. n < i BY <1>3, <2>1, <2>2 DEF Sorted
  <2> QED BY <1>1, <1>3, <2>3
<1>5. e.kind \in {"whiteout", "opaque"} => \A q : q \notin Brought(before) /\ q \notin Linked(before)
  BY <1>4 DEF Brought, Linked, Named, Entries
<1>6. e.kind \in {"whiteout", "opaque"} =>
        \A q \in Directories(before) :
          \E i \in DOMAIN before :
          before[i].kind = "opaque" /\ (q = before[i].path \/ q \in Above(before[i].path))
  BY <1>4 DEF Directories, Named, Entries
<1>7. \A i \in DOMAIN before : before[i].path \in Paths BY <1>3
<1>8. e.kind = "whiteout" => \A q \in Directories(before) : q \notin {p} \cup Under(p)
  <2> SUFFICES ASSUME e.kind = "whiteout", NEW q \in Directories(before) PROVE q \notin {p} \cup Under(p)
    OBVIOUS
  <2>1. PICK i \in DOMAIN before :
          before[i].kind = "opaque" /\ (q = before[i].path \/ q \in Above(before[i].path))
    BY <1>6
  <2>2. before[i].path \notin {p} \cup Under(p)
    <3>1. i \in Entries(c, {"opaque"}) /\ n \in Entries(c, {"whiteout"})
      BY <1>3, <2>1 DEF Entries
    <3> QED BY <1>3, <3>1 DEF Sorted
  <2>3. CASE q = before[i].path BY <2>2, <2>3
  <2>4. CASE q \in Above(before[i].path)
    <3>1. q \in Paths /\ before[i].path \in Under(q)
      BY <1>7, <2>4, AboveIsNotUnder DEF Above
    <3> QED BY <1>1, <2>2, <3>1, UnderIsTransitive
  <2> QED BY <2>1, <2>3, <2>4
<1>9. e.kind = "opaque" => \A q \in Directories(before) : q \notin Under(p)
  <2> SUFFICES ASSUME e.kind = "opaque", NEW q \in Directories(before) PROVE q \notin Under(p)
    OBVIOUS
  <2>1. PICK i \in DOMAIN before :
          before[i].kind = "opaque" /\ (q = before[i].path \/ q \in Above(before[i].path))
    BY <1>6
  <2>2. before[i].path \notin Under(p)
    <3>1. i \in Entries(c, {"opaque"}) /\ n \in Entries(c, {"opaque"}) /\ i < n
      BY <1>3, <2>1 DEF Entries
    <3> QED BY <1>3, <3>1 DEF Sorted
  <2>3. CASE q = before[i].path BY <2>2, <2>3
  <2>4. CASE q \in Above(before[i].path)
    <3>1. q \in Paths /\ before[i].path \in Under(q)
      BY <1>7, <2>4, AboveIsNotUnder DEF Above
    <3> QED BY <1>1, <2>2, <3>1, UnderIsTransitive
  <2> QED BY <2>1, <2>3, <2>4
<1>10. \A k : Linked(k) = Named(k, {"symlink"}) /\ Brought(k) = Named(k, {"file", "hardlink"})
  BY DEF Linked, Brought
<1>11. ASSUME NEW q \in Paths
       PROVE  /\ \A K : q \in Named(after, K) <=> q \in Named(before, K) \/ (e.kind \in K /\ q = p)
              /\ q \in Directories(after) <=>
                   \/ q \in Directories(before)
                   \/ e.kind \in {"dir", "opaque"} /\ q = p
                   \/ e.kind \in EntryKinds \ {"whiteout"} /\ q \in Above(p)
              /\ q \in Hidden(after) <=>
                   \/ q \in Hidden(before)
                   \/ e.kind = "whiteout" /\ q \in {p} \cup Under(p)
                   \/ e.kind = "opaque" /\ q \in Under(p)
  BY <1>1, <1>2, MeaningGrows
<1> DEFINE to == Applied(t, e, l, i0)
<1>12. ASSUME NEW q \in Paths
       PROVE  /\ At(to, q) =
                   IF e.kind = "whiteout"
                   THEN IF q \in {p} \cup Under(p) THEN "nothing" ELSE At(t, q)
                   ELSE IF q = p THEN KindOf(e.kind)
                   ELSE IF q \in Above(p) THEN "dir"
                   ELSE IF e.kind = "opaque" /\ q \in Under(p) THEN "nothing" ELSE At(t, q)
              /\ At(to, q) = "file" /\ (e.kind = "hardlink" => q # p) =>
                   IF e.kind = "file" /\ q = p THEN to[q].from = l ELSE to[q] = t[q]
  BY <1>1, AppliedStraight
<1> HIDE DEF to
<1>13. ASSUME NEW q \in Paths PROVE At(to, q) = MeaningUpTo(low, c, n)[q]
  <2>1. At(t, q) =
          IF q \in Linked(before) THEN "symlink" ELSE IF q \in Brought(before) THEN "file"
          ELSE IF q \in Directories(before) THEN "dir"
          ELSE IF q \in Hidden(before) THEN "nothing" ELSE At(low, q)
    BY DEF before, IsMeant, Meaning, MeaningUpTo
  <2>2. MeaningUpTo(low, c, n)[q] =
          IF q \in Linked(after) THEN "symlink" ELSE IF q \in Brought(after) THEN "file"
          ELSE IF q \in Directories(after) THEN "dir"
          ELSE IF q \in Hidden(after) THEN "nothing" ELSE At(low, q)
    BY DEF after, Meaning, MeaningUpTo
  <2>3. /\ q \in Linked(after) <=> q \in Linked(before) \/ (e.kind = "symlink" /\ q = p)
        /\ q \in Brought(after) <=> q \in Brought(before) \/ (e.kind \in {"file", "hardlink"} /\ q = p)
    BY <1>10, <1>11
  <2>4. p \notin Under(p) /\ p \notin Above(p) /\ (q \in Above(p) => q \notin Under(p))
    BY <1>1, AboveIsNotUnder
  <2>5. CASE e.kind = "whiteout"
    BY <1>5, <1>8, <1>11, <1>12, <2>1, <2>2, <2>3, <2>5 DEF EntryKinds
  <2>6. CASE e.kind = "opaque"
    BY <1>5, <1>9, <1>11, <1>12, <2>1, <2>2, <2>3, <2>4, <2>6 DEF EntryKinds, KindOf
  <2>7. CASE e.kind \in {"dir", "file", "symlink", "hardlink"}
    <3>1. Links(t, p, FALSE) = {} BY DEF Straight, Links
    <3>2. ~Blocked(t, Above(p)) \/ ~Blocked(t, Above(p) \cup {p}) BY <2>7 DEF EntryFails
    <3>3. q \in Above(p) => At(t, q) \notin {"file", "symlink"} BY <1>1, <3>1, <3>2, MadeStraight
    <3>4. e.kind \in {"dir", "file"} /\ q = p => At(t, q) # "symlink" BY DEF Straight, Links
    <3>5. e.kind = "dir" /\ q = p => At(t, q) # "file"
      <4> SUFFICES ASSUME e.kind = "dir" PROVE At(t, p) # "file" OBVIOUS
      <4>1. Links(t, p, TRUE) = {} /\ ~Blocked(t, Above(p) \cup {p}) BY DEF Straight, EntryFails
      <4>2. Place(t, p) = p /\ Reached(t, p) = p BY <3>1, <4>1 DEF Place, Reached, Followed
      <4> QED BY <4>1, <4>2 DEF Blocked
    <3>6. e.kind = "hardlink" /\ q = p => q \notin Linked(before)
      <4> SUFFICES ASSUME e.kind = "hardlink", NEW i \in Entries(before, {"symlink"}),
                          p = before[i].path
                   PROVE  FALSE
        BY DEF Linked, Named
      <4>1. i \in Entries(c, {"symlink"}) /\ n \in Entries(c, {"hardlink"}) /\ c[i].path = p
        BY <1>3 DEF Entries
      <4> QED BY <4>1 DEF Sorted
    <3>7. CASE q = p BY <1>11, <1>12, <2>1, <2>2, <2>3, <2>4, <2>7, <3>4, <3>5, <3>6, <3>7 DEF KindOf
    <3>8. CASE q \in Above(p)
      BY <1>11, <1>12, <2>1, <2>2, <2>3, <2>4, <2>7, <3>3, <3>8 DEF EntryKinds
    <3>9. CASE q # p /\ q \notin Above(p) BY <1>11, <1>12, <2>1, <2>2, <2>3, <2>7, <3>9
    <3> QED BY <3>7, <3>8, <3>9
  <2> QED BY <1>1, <2>5, <2>6, <2>7 DEF EntryKinds
<1>14. HasContents(to, low, after, l)
  <2> SUFFICES ASSUME NEW q \in Paths \ Named(after, {"hardlink"}), At(to, q) = "file"
               PROVE  to[q].from = IF q \in Named(after, {"file"}) THEN l ELSE low[q].from
    BY DEF HasContents
  <2>1. /\ q \in Named(after, {"file"}) <=> q \in Named(before, {"file"}) \/ (e.kind = "file" /\ q = p)
        /\ q \notin Named(before, {"hardlink"}) /\ ~(e.kind = "hardlink" /\ q = p)
    BY <1>11
  <2>2. CASE e.kind = "file" /\ q = p BY <1>12, <2>1, <2>2
  <2>3. CASE ~(e.kind = "file" /\ q = p)
    <3>1. to[q] = t[q] BY <1>12, <2>1, <2>3
    <3>2. At(t, q) = "file" BY <3>1, KnownPaths
    <3>3. HasContents(t, low, before, l) BY DEF IsMeant, before
    <3>4. t[q].from = IF q \in Named(before, {"file"}) THEN l ELSE low[q].from
      BY <2>1, <3>2, <3>3 DEF HasContents
    <3> QED BY <2>1, <2>3, <3>1, <3>4
  <2> QED BY <2>2, <2>3
<1> QED BY <1>13, <1>14 DEF IsMeant, after, to

-----------------------------------------------------------------------------
(* Before its first entry a layer means nothing.                           *)
LEMMA NothingIsMeantYet ==
  ASSUME NEW t, NEW c \in Seq(LayerEntries), NEW l
  PROVE  IsMeant(t, t, c, 0, l)
<1>1. SubSeq(c, 1, 0) = <<>> OBVIOUS
<1>2. /\ \A K : Named(<<>>, K) = {} /\ Entries(<<>>, K) = {}
      /\ Hidden(<<>>) = {} /\ Directories(<<>>) = {} /\ Linked(<<>>) = {} /\ Brought(<<>>) = {}
  BY DEF Named, Entries, Hidden, Directories, Linked, Brought
<1>3. \A q \in Paths : At(t, q) = MeaningUpTo(t, c, 0)[q] BY <1>1, <1>2 DEF MeaningUpTo, Meaning
<1>4. HasContents(t, t, <<>>, l) BY <1>2 DEF HasContents
<1> QED BY <1>1, <1>3, <1>4 DEF IsMeant

LEMMA LayersInitial == LayersInit => LayersInvariant
<1> SUFFICES ASSUME LayersInit PROVE LayersInvariant
  OBVIOUS
<1> USE DEF LayersInit
<1>1. TreeOK(tree) /\ TreeOK(lower) /\ tree = lower
  BY DEF TreeOK, NodeKinds, Empty, Nothing
<1>2. Extracting => Current \in Seq(LayerEntries)
  BY LayersAssumption DEF Extracting, Current
<1>3. Position
  <2>1. Extracting => next <= Len(Current) + 1 BY <1>2
  <2>2. layer \in Nat \ {0} /\ next \in Nat \ {0} /\ image \in Images
    OBVIOUS
  <2>3. failed \in BOOLEAN /\ crossed \in BOOLEAN OBVIOUS
  <2> QED BY <2>1, <2>2, <2>3 DEF Position
<1>4. MeantSoFar
  <2> SUFFICES ASSUME Extracting PROVE IsMeant(tree, lower, Current, 0, layer)
    BY DEF MeantSoFar
  <2> QED BY <1>1, <1>2, NothingIsMeantYet
<1> QED BY <1>1, <1>3, <1>4 DEF LayersInvariant

LEMMA LayersStep == LayersInvariant /\ [LayersNext]_layerVars => LayersInvariant'
<1> SUFFICES ASSUME LayersInvariant, [LayersNext]_layerVars PROVE LayersInvariant'
  OBVIOUS
<1> USE DEF LayersInvariant
<1>1. \A m \in Images : \A n \in 1 .. Len(m) : m[n] \in Seq(LayerEntries)
  BY LayersAssumption
<1>2. image \in Images /\ image \in Seq(Seq(LayerEntries))
  BY LayersAssumption DEF Position
<1>3. CASE ExtractEntry
  <2> USE <1>3 DEF ExtractEntry
  <2>1. /\ Current \in Seq(LayerEntries) /\ next \in 1 .. Len(Current)
        /\ Current' = Current
    BY <1>2 DEF Position, Extracting, Current
  <2>2. CASE EntryFails(tree, Current[next])
    <3>1. failed' = TRUE /\ UNCHANGED <<image, layer, next, tree, lower, crossed>> BY <2>2
    <3>2. ~Extracting' BY <3>1 DEF Extracting
    <3> QED BY <3>1, <3>2 DEF Position, TreeOK, MeantSoFar
  <2>3. CASE ~EntryFails(tree, Current[next])
    <3>1. /\ tree' = Applied(tree, Current[next], layer, <<layer, next>>) /\ next' = next + 1
          /\ crossed' = (crossed \/ ~Straight(tree, Current[next]))
          /\ UNCHANGED <<image, layer, lower, failed>>
      BY <2>3
    <3>2. Position' BY <2>1, <3>1 DEF Position, Extracting, Current
    <3>3. TreeOK(tree)' /\ TreeOK(lower)'
      <4>1. Current[next].kind \in EntryKinds BY <2>1, EntryParts
      <4>2. TreeOK(Applied(tree, Current[next], layer, <<layer, next>>)) BY <2>3, <4>1, AppliedTyped
      <4> QED BY <3>1, <4>2 DEF TreeOK
    <3>4. MeantSoFar'
      <4> SUFFICES ASSUME Sorted(Current), ~crossed, Straight(tree, Current[next])
                   PROVE  IsMeant(tree', lower', Current', next, layer')
        <5>1. next' - 1 = next BY <2>1, <3>1
        <5>2. Current' = Current /\ (~crossed' => ~crossed /\ Straight(tree, Current[next])) BY <2>1, <3>1
        <5> QED BY <5>1, <5>2 DEF MeantSoFar
      <4>1. IsMeant(tree, lower, Current, next - 1, layer) BY DEF MeantSoFar
      <4>2. IsMeant(Applied(tree, Current[next], layer, <<layer, next>>), lower, Current, next, layer)
        BY <2>1, <2>3, <4>1, EntryMeans
      <4> QED BY <2>1, <3>1, <4>2
    <3> QED BY <3>2, <3>3, <3>4
  <2> QED BY <2>2, <2>3
<1>4. CASE NextLayer
  <2>1. /\ layer' = layer + 1 /\ next' = 1 /\ lower' = tree /\ tree' = tree /\ crossed' = FALSE
        /\ UNCHANGED <<image, failed>>
    BY <1>4 DEF NextLayer
  <2>2. Extracting' => Current' \in Seq(LayerEntries)
    BY <1>2, <2>1 DEF Extracting, Current, Position
  <2>3. Position'
    <3>1. Extracting' => next' <= Len(Current') + 1 BY <2>1, <2>2
    <3>2. layer' \in Nat \ {0} /\ next' \in Nat \ {0} BY <2>1 DEF Position
    <3>3. image' \in Images /\ failed' \in BOOLEAN /\ crossed' \in BOOLEAN BY <2>1 DEF Position
    <3> QED BY <3>1, <3>2, <3>3 DEF Position
  <2>4. TreeOK(tree)' /\ TreeOK(lower)' BY <2>1 DEF TreeOK
  <2>5. MeantSoFar'
    <3> SUFFICES ASSUME Extracting' PROVE IsMeant(tree', lower', Current', next' - 1, layer')
      BY DEF MeantSoFar
    <3>1. IsMeant(tree', tree', Current', 0, layer') BY <2>2, NothingIsMeantYet
    <3> QED BY <2>1, <3>1
  <2> QED BY <2>3, <2>4, <2>5
<1>5. CASE UNCHANGED layerVars
  BY <1>5 DEF layerVars, Position, TreeOK, MeantSoFar, Extracting, Current
<1> QED BY <1>3, <1>4, <1>5 DEF LayersNext

(* Extracted entry by entry, a layer in the recommended order that writes  *)
(* through no link leaves the directory the specification says it means,   *)
(* whatever links the layers below have put there (client.go:193).         *)
THEOREM LayersMeanWhatTheySay == LayersSpec => []LayerMeansWhatItSays
<1>1. LayersInvariant => LayerMeansWhatItSays
  <2> SUFFICES ASSUME LayersInvariant, Extracting, next > Len(Current), Sorted(Current), ~crossed
               PROVE  /\ [p \in Paths |-> At(tree, p)] = Meaning(lower, Current)
                      /\ HasContents(tree, lower, Current, layer)
    BY DEF LayerMeansWhatItSays
  <2>1. Current \in Seq(LayerEntries)
    BY LayersAssumption DEF LayersInvariant, Position, Extracting, Current
  <2>2. SubSeq(Current, 1, next - 1) = Current BY <2>1 DEF LayersInvariant, Position
  <2>3. \A q \in Paths : At(tree, q) = Meaning(lower, Current)[q]
    BY <2>2 DEF LayersInvariant, MeantSoFar, IsMeant, MeaningUpTo
  <2>4. HasContents(tree, lower, Current, layer) BY <2>2 DEF LayersInvariant, MeantSoFar, IsMeant
  <2> QED BY <2>3, <2>4 DEF Meaning
<1> QED BY <1>1, LayersInitial, LayersStep, PTL DEF LayersSpec

-----------------------------------------------------------------------------
LEMMA ListsAreSequences ==
  \A f \in PipelineFile :
    /\ f.sources \in Seq(Component) /\ f.processors \in Seq(Component)
    /\ f.sinks \in Seq(Component) /\ f.pipelines \in Seq(Component)
BY DEF PipelineFile

LEMMA ConcatIndex ==
  ASSUME NEW Values, NEW s \in Seq(Values), NEW t \in Seq(Values)
  PROVE  /\ s \o t \in Seq(Values) /\ Len(s \o t) = Len(s) + Len(t)
         /\ \A i \in DOMAIN s : i \in DOMAIN (s \o t) /\ (s \o t)[i] = s[i]
         /\ \A i \in DOMAIN t : Len(s) + i \in DOMAIN (s \o t) /\ (s \o t)[Len(s) + i] = t[i]
         /\ \A j \in DOMAIN (s \o t) :
              \/ j \in DOMAIN s /\ (s \o t)[j] = s[j]
              \/ j - Len(s) \in DOMAIN t /\ (s \o t)[j] = t[j - Len(s)]
OBVIOUS

LEMMA ConcatSet ==
  ASSUME NEW Values, NEW s \in Seq(Values), NEW t \in Seq(Values)
  PROVE  ToSet(s \o t) = ToSet(s) \cup ToSet(t)
<1> DEFINE c == s \o t
<1>1. /\ \A i \in DOMAIN s : i \in DOMAIN c /\ c[i] = s[i]
      /\ \A i \in DOMAIN t : Len(s) + i \in DOMAIN c /\ c[Len(s) + i] = t[i]
      /\ \A j \in DOMAIN c :
              \/ j \in DOMAIN s /\ c[j] = s[j]
              \/ j - Len(s) \in DOMAIN t /\ c[j] = t[j - Len(s)]
  BY ConcatIndex
<1> HIDE DEF c
<1>2. ToSet(c) \subseteq ToSet(s) \cup ToSet(t) BY <1>1 DEF ToSet
<1>3. ToSet(s) \subseteq ToSet(c) BY <1>1 DEF ToSet
<1>4. ToSet(t) \subseteq ToSet(c) BY <1>1 DEF ToSet
<1> QED BY <1>2, <1>3, <1>4 DEF c

LEMMA SomeElement ==
  ASSUME NEW Values, NEW s \in Seq(Values), s # <<>> PROVE s[1] \in ToSet(s)
<1>1. 1 \in DOMAIN s OBVIOUS
<1> QED BY <1>1 DEF ToSet

LEMMA SubSeqIds ==
  ASSUME NEW s \in Seq(Component), NEW n \in 0 .. Len(s)
  PROVE  \A x : x \in IdsOf(SubSeq(s, 1, n)) <=> \E i \in 1 .. n : x = s[i].id
<1> DEFINE u == SubSeq(s, 1, n)
<1>1. DOMAIN u = 1 .. n /\ \A i \in 1 .. n : u[i] = s[i] OBVIOUS
<1> HIDE DEF u
<1> QED BY <1>1 DEF IdsOf, u

(* What the details of a validated file say of its inputs. *)
LEMMA ValidatedInputs ==
  ASSUME NEW f \in PipelineFile, Validates(f)
  PROVE  /\ f.sources # <<>> /\ f.sinks # <<>>
         /\ \A i \in DOMAIN f.processors :
              f.processors[i].inputs # <<>> /\ InputsOf(f.processors[i]) \subseteq KnownTo(f, i)
         /\ \A i \in DOMAIN f.sinks :
              /\ f.sinks[i].inputs # <<>>
              /\ InputsOf(f.sinks[i]) \subseteq KnownTo(f, Len(f.processors) + 1)
<1>1. Errors(f) = {} BY DEF Validates
<1>2. ComponentErrors(f) = {} /\ DetailErrors(f) = {} BY <1>1 DEF Errors
<1>3. f.sources # <<>> /\ f.sinks # <<>> BY <1>2 DEF ComponentErrors
<1>4. ASSUME NEW i \in DOMAIN f.processors PROVE ~InputsUnknown(f.processors[i], KnownTo(f, i))
  BY <1>2 DEF DetailErrors
<1>5. ASSUME NEW i \in DOMAIN f.sinks
      PROVE  ~InputsUnknown(f.sinks[i], KnownTo(f, Len(f.processors) + 1))
  <2>1. f.sinks[i] \in ToSet(f.sinks) BY DEF ToSet
  <2> QED BY <1>2, <2>1 DEF DetailErrors
<1> QED BY <1>3, <1>4, <1>5 DEF InputsUnknown

LEMMA KnownIds ==
  ASSUME NEW f \in PipelineFile, NEW n \in 1 .. Len(f.processors) + 1, NEW x \in KnownTo(f, n)
  PROVE  \/ \E i \in DOMAIN f.sources : x = f.sources[i].id
         \/ \E i \in 1 .. n - 1 : x = f.processors[i].id
<1>1. n - 1 \in 0 .. Len(f.processors) /\ f.processors \in Seq(Component)
  BY ListsAreSequences
<1>2. x \in IdsOf(f.sources) \/ x \in IdsOf(SubSeq(f.processors, 1, n - 1)) BY DEF KnownTo
<1>3. CASE x \in IdsOf(f.sources) BY <1>3 DEF IdsOf
<1>4. CASE x \in IdsOf(SubSeq(f.processors, 1, n - 1)) BY <1>1, <1>4, SubSeqIds
<1> QED BY <1>2, <1>3, <1>4

(* Where the lists of a file are in the start order. *)
LEMMA WiredIndex ==
  ASSUME NEW f \in PipelineFile
  PROVE  /\ Wired(f) \in Seq(Component)
         /\ Len(Wired(f)) = Len(f.sources) + Len(f.processors) + Len(f.sinks)
         /\ \A i \in DOMAIN f.sources : Wired(f)[i] = f.sources[i]
         /\ \A i \in DOMAIN f.processors : Wired(f)[Len(f.sources) + i] = f.processors[i]
         /\ \A i \in DOMAIN f.sinks :
              Wired(f)[Len(f.sources) + Len(f.processors) + i] = f.sinks[i]
<1> DEFINE s == f.sources
           p == f.processors
           k == f.sinks
           w == s \o p \o k
<1>1. s \in Seq(Component) /\ p \in Seq(Component) /\ k \in Seq(Component) BY ListsAreSequences
<1>2. Wired(f) = w BY DEF Wired
<1> HIDE DEF s, p, k
<1>3. w \in Seq(Component) BY <1>1
<1>4. Len(w) = Len(s) + Len(p) + Len(k) BY <1>1
<1>5. \A i \in DOMAIN s : w[i] = s[i] BY <1>1
<1>6. \A i \in DOMAIN p : w[Len(s) + i] = p[i] BY <1>1
<1>7. \A i \in DOMAIN k : w[Len(s) + Len(p) + i] = k[i] BY <1>1
<1> HIDE DEF w
<1> QED BY <1>2, <1>3, <1>4, <1>5, <1>6, <1>7 DEF s, p, k

LEMMA ValidatedInputsComeFirst ==
  ASSUME NEW f \in PipelineFile, Validates(f) PROVE InputsComeFirst(f)
<1> DEFINE w == Wired(f)
           ls == Len(f.sources)
           lp == Len(f.processors)
<1>1. /\ ls \in Nat /\ lp \in Nat /\ Len(f.sinks) \in Nat
      /\ DOMAIN f.sources = 1 .. ls /\ DOMAIN f.processors = 1 .. lp
      /\ DOMAIN f.sinks = 1 .. Len(f.sinks)
  BY ListsAreSequences
<1>2. w \in Seq(Component) /\ Len(w) = ls + lp + Len(f.sinks)
  BY WiredIndex
<1>3. /\ \A i \in 1 .. ls : w[i] = f.sources[i]
      /\ \A i \in 1 .. lp : w[ls + i] = f.processors[i]
      /\ \A i \in 1 .. Len(f.sinks) : w[ls + lp + i] = f.sinks[i]
  BY <1>1, WiredIndex
<1> SUFFICES ASSUME NEW j \in DOMAIN w, j > ls, NEW x \in InputsOf(w[j])
             PROVE  x \in IdsOf(SubSeq(w, 1, j - 1))
  BY DEF InputsComeFirst
<1> HIDE DEF w, ls, lp
<1>4. j \in 1 .. ls + lp + Len(f.sinks) BY <1>2
<1>5. \E i \in 1 .. j - 1 : x = w[i].id
  <2>1. CASE j <= ls + lp
    <3> DEFINE m == j - ls
    <3>1. m \in 1 .. lp /\ m \in 1 .. lp + 1 /\ w[j] = f.processors[m]
      BY <1>1, <1>3, <1>4, <2>1
    <3> HIDE DEF m
    <3>2. x \in KnownTo(f, m) BY <1>1, <3>1, ValidatedInputs
    <3>3. \/ \E i \in 1 .. ls : x = f.sources[i].id
          \/ \E i \in 1 .. m - 1 : x = f.processors[i].id
      BY <1>1, <3>1, <3>2, KnownIds DEF lp
    <3>4. CASE \E i \in 1 .. ls : x = f.sources[i].id
      BY <1>1, <1>3, <1>4, <3>4
    <3>5. ASSUME NEW i \in 1 .. m - 1, x = f.processors[i].id PROVE \E n \in 1 .. j - 1 : x = w[n].id
      <4>1. ls + i \in 1 .. j - 1 /\ i \in 1 .. lp BY <1>1, <1>4, <3>1, <3>5 DEF m
      <4> QED BY <1>3, <3>5, <4>1
    <3> QED BY <3>3, <3>4, <3>5
  <2>2. CASE j > ls + lp
    <3> DEFINE m == j - ls - lp
    <3>0. m \in 1 .. Len(f.sinks) /\ ls + lp + m = j
      <4>1. ls \in Nat /\ lp \in Nat /\ Len(f.sinks) \in Nat BY <1>1
      <4> DEFINE n == Len(f.sinks)
      <4>2. j \in 1 .. ls + lp + n /\ n \in Nat BY <1>4, <4>1
      <4> HIDE DEF n
      <4>3. m \in 1 .. n /\ ls + lp + m = j BY <2>2, <4>1, <4>2
      <4> QED BY <4>3 DEF n
    <3> HIDE DEF m
    <3>1. m \in 1 .. Len(f.sinks) /\ w[j] = f.sinks[m]
      BY <1>3, <3>0
    <3>2. x \in KnownTo(f, lp + 1) BY <1>1, <3>1, ValidatedInputs DEF lp
    <3>3. \/ \E i \in 1 .. ls : x = f.sources[i].id
          \/ \E i \in 1 .. lp : x = f.processors[i].id
      <4>1. lp + 1 \in 1 .. Len(f.processors) + 1 /\ (lp + 1) - 1 = lp BY <1>1 DEF lp
      <4>2. x \in KnownTo(f, lp + 1) /\ DOMAIN f.sources = 1 .. ls BY <1>1, <3>2
      <4> DEFINE n == lp + 1
      <4>3. n \in 1 .. Len(f.processors) + 1 /\ x \in KnownTo(f, n) BY <4>1, <4>2
      <4> HIDE DEF n
      <4>4. \/ \E i \in DOMAIN f.sources : x = f.sources[i].id
            \/ \E i \in 1 .. n - 1 : x = f.processors[i].id
        BY <4>3, KnownIds
      <4> QED BY <4>1, <4>2, <4>4 DEF n
    <3>4. CASE \E i \in 1 .. ls : x = f.sources[i].id
      BY <1>1, <1>3, <1>4, <3>4
    <3>5. ASSUME NEW i \in 1 .. lp, x = f.processors[i].id PROVE \E n \in 1 .. j - 1 : x = w[n].id
      <4>1. ls + i \in 1 .. j - 1 BY <1>1, <1>4, <2>2
      <4> QED BY <1>3, <3>5, <4>1
    <3> QED BY <3>3, <3>4, <3>5
  <2> QED BY <1>1, <1>4, <2>1, <2>2
<1>6. j - 1 \in 0 .. Len(w) BY <1>2, <1>4
<1> QED BY <1>2, <1>5, <1>6, SubSeqIds

LEMMA ValidatedWiringIsDeclared ==
  ASSUME NEW f \in PipelineFile, Validates(f) PROVE WiringIsDeclared(f)
<1>1. /\ f.sources \in Seq(Component) /\ f.processors \in Seq(Component) /\ f.sinks \in Seq(Component)
      /\ f.sources # <<>> /\ f.sinks # <<>>
  BY ListsAreSequences, ValidatedInputs
<1>2. PICK k \in ToSet(f.sinks) : TRUE BY <1>1, SomeElement
<1>3. ASSUME f.processors # <<>> PROVE WiresUp(f)
  BY <1>1, <1>2, <1>3 DEF WiresUp, SinksFor
<1>4. ASSUME f.processors = <<>>, NEW sink \in ToSet(f.sinks)
      PROVE  /\ InputsOf(sink) # {}
             /\ \A x \in InputsOf(sink) : \E i \in DOMAIN f.sources : x = f.sources[i].id
  <2>1. PICK i \in DOMAIN f.sinks : sink = f.sinks[i] BY DEF ToSet
  <2>2. sink.inputs # <<>> /\ InputsOf(sink) \subseteq KnownTo(f, Len(f.processors) + 1)
    BY <2>1, ValidatedInputs
  <2>3. Len(f.processors) = 0 BY <1>4
  <2>4. InputsOf(sink) \subseteq KnownTo(f, 1) BY <2>2, <2>3
  <2>5. \A x \in KnownTo(f, 1) : \E n \in DOMAIN f.sources : x = f.sources[n].id
    BY <2>3, KnownIds
  <2>6. sink \in Component BY <1>1, <2>1
  <2>7. sink.inputs \in Seq(Id) BY <2>6 DEF Component
  <2>8. InputsOf(sink) # {} BY <2>2, <2>7, SomeElement DEF InputsOf
  <2> QED BY <2>4, <2>5, <2>8
<1>5. ASSUME f.processors = <<>>, Len(f.sources) = 1 PROVE WiresUp(f)
  <2>1. DOMAIN f.sources = {1} BY <1>1, <1>5
  <2>2. \A s \in ToSet(f.sources) : s = f.sources[1] BY <2>1 DEF ToSet
  <2>3. f.sources[1].id \in InputsOf(k) BY <1>4, <1>5, <2>1
  <2> QED BY <1>1, <1>2, <2>2, <2>3 DEF WiresUp, SinksFor
<1>6. ASSUME f.processors = <<>> PROVE Edges(f) = Declared(f)
  <2>1. ToSet(f.processors \o f.sinks) = ToSet(f.sinks)
    <3>1. ToSet(f.processors) = {} BY <1>6 DEF ToSet
    <3>2. ToSet(f.processors \o f.sinks) = ToSet(f.processors) \cup ToSet(f.sinks)
      BY <1>1, ConcatSet
    <3> QED BY <3>1, <3>2
  <2>2. \A e : e \in Edges(f) <=>
          \E s \in ToSet(f.sources) : \E sink \in ToSet(f.sinks) :
            s.id \in InputsOf(sink) /\ e = <<s.id, sink.id>>
    BY <1>6 DEF Edges, SinksFor
  <2>3. \A e : e \in Declared(f) <=>
          \E sink \in ToSet(f.sinks) : \E x \in InputsOf(sink) : e = <<x, sink.id>>
    BY <2>1 DEF Declared
  <2>4. \A sink \in ToSet(f.sinks) : \A x \in InputsOf(sink) : \E s \in ToSet(f.sources) : x = s.id
    BY <1>4, <1>6 DEF ToSet
  <2>5. \A e : e \in Edges(f) <=> e \in Declared(f) BY <2>2, <2>3, <2>4
  <2> QED BY <2>5
<1> QED BY <1>3, <1>5, <1>6 DEF WiringIsDeclared

LEMMA Texts ==
  Unset \in Text /\ STRING \subseteq Text /\ "pipeline" # Unset
<1>1. Unset \in Text /\ STRING \subseteq Text BY DEF Text
<1>2. "pipeline" # Unset BY Zenon DEF Unset
<1> QED BY <1>1, <1>2

LEMMA ConcatIds ==
  ASSUME NEW s \in Seq(Component), NEW t \in Seq(Component)
  PROVE  IdsOf(s \o t) = IdsOf(s) \cup IdsOf(t)
<1>1. \A u : IdsOf(u) = {c.id : c \in ToSet(u)} BY DEF IdsOf, ToSet
<1>2. ToSet(s \o t) = ToSet(s) \cup ToSet(t) BY ConcatSet
<1> QED BY <1>1, <1>2

LEMMA EmptyList == IdsOf(<<>>) = {} /\ ToSet(<<>>) = {}
BY DEF IdsOf, ToSet

LEMMA OneElement ==
  ASSUME NEW c PROVE ToSet(<<c>>) = {c} /\ IdsOf(<<c>>) = {c.id} /\ InputsOf([inputs |-> <<c>>]) = {c}
<1>1. DOMAIN <<c>> = {1} /\ <<c>>[1] = c OBVIOUS
<1> QED BY <1>1 DEF ToSet, IdsOf, InputsOf

(* translate enters the sources, the pipeline components and the           *)
(* processors up to the one it looks at.                                   *)
LEMMA EnteredIds ==
  ASSUME NEW f \in PipelineFile, NEW n \in 0 .. Len(f.processors)
  PROVE  IdsOf(f.sources \o f.pipelines \o SubSeq(f.processors, 1, n)) =
           IdsOf(f.sources) \cup IdsOf(f.pipelines) \cup IdsOf(SubSeq(f.processors, 1, n))
<1> DEFINE s == f.sources
           p == f.pipelines
           u == SubSeq(f.processors, 1, n)
<1>1. s \in Seq(Component) /\ p \in Seq(Component) /\ u \in Seq(Component) BY ListsAreSequences
<1> HIDE DEF s, p, u
<1>2. s \o p \in Seq(Component) BY <1>1
<1>3. IdsOf((s \o p) \o u) = IdsOf(s) \cup IdsOf(p) \cup IdsOf(u) BY <1>1, <1>2, ConcatIds
<1> QED BY <1>3 DEF s, p, u

LEMMA ListMembers ==
  ASSUME NEW f \in PipelineFile
  PROVE  /\ ToSet(f.processors \o f.sinks) = ToSet(f.processors) \cup ToSet(f.sinks)
         /\ ToSet(Wired(f)) = ToSet(f.sources) \cup ToSet(f.processors) \cup ToSet(f.sinks)
         /\ IdsOf(Components(f)) =
              IdsOf(f.sources) \cup IdsOf(f.processors) \cup IdsOf(f.sinks) \cup IdsOf(f.pipelines)
<1> DEFINE s == f.sources
           p == f.processors
           k == f.sinks
           l == f.pipelines
<1>1. s \in Seq(Component) /\ p \in Seq(Component) /\ k \in Seq(Component) /\ l \in Seq(Component)
  BY ListsAreSequences
<1> HIDE DEF s, p, k, l
<1>2. s \o p \in Seq(Component) /\ s \o p \o k \in Seq(Component) BY <1>1
<1>3. ToSet(p \o k) = ToSet(p) \cup ToSet(k) BY <1>1, ConcatSet
<1>4. ToSet(s \o p \o k) = ToSet(s) \cup ToSet(p) \cup ToSet(k)
  <2>1. ToSet((s \o p) \o k) = ToSet(s \o p) \cup ToSet(k)
    <3> DEFINE sp == s \o p
    <3>1. sp \in Seq(Component) BY <1>2
    <3> HIDE DEF sp
    <3>2. ToSet(sp \o k) = ToSet(sp) \cup ToSet(k) BY <1>1, <3>1, ConcatSet
    <3> QED BY <3>2 DEF sp
  <2>2. ToSet(s \o p) = ToSet(s) \cup ToSet(p) BY <1>1, ConcatSet
  <2> QED BY <2>1, <2>2
<1>5. IdsOf(s \o p \o k \o l) = IdsOf(s) \cup IdsOf(p) \cup IdsOf(k) \cup IdsOf(l)
  <2>1. IdsOf((s \o p \o k) \o l) = IdsOf(s \o p \o k) \cup IdsOf(l) BY <1>1, <1>2, ConcatIds
  <2>2. IdsOf((s \o p) \o k) = IdsOf(s \o p) \cup IdsOf(k) BY <1>1, <1>2, ConcatIds
  <2>3. IdsOf(s \o p) = IdsOf(s) \cup IdsOf(p) BY <1>1, ConcatIds
  <2> QED BY <2>1, <2>2, <2>3
<1> QED BY <1>3, <1>4, <1>5 DEF Wired, Components, s, p, k, l

(* translate refuses nothing that validate accepts and it has an image for.*)
LEMMA ValidatedTranslates ==
  ASSUME NEW f \in PipelineFile PROVE ValidatedIsTranslatable(f)
<1> SUFFICES ASSUME Validates(f), f.pipelines = <<>>, f.driver \notin {"process", "container"},
                    \A c \in ToSet(Wired(f)) : "image" \in c.means
             PROVE  Translates(f)
  BY DEF ValidatedIsTranslatable
<1>1. Loads(f) /\ Errors(f) = {} BY DEF Validates
<1>2. Versioned(f) /\ f.name # Unset /\ HasStart(f) /\ <<>> \notin IdsOf(Components(f))
  BY <1>1 DEF Loads
<1>3. Parsed(f) = f
  <2>1. f.version \in 1 .. 1 /\ f.kind = "Pipeline"
    BY <1>2 DEF Versioned, Supported, MaxSupportedMajor
  <2>2. f.version # 0 BY <2>1
  <2> QED BY <2>1, <2>2 DEF Parsed
<1>4. f.driver \in TranslatorDrivers \cup {Unset}
  BY <1>1 DEF Errors, DriverErrors, Drivers, TranslatorDrivers
<1>5. /\ \A c \in ToSet(f.sources) : c.health # "portless"
      /\ \A c \in ToSet(f.processors) \cup ToSet(f.sinks) : ~(c.replicas < 0)
  <2>1. DetailErrors(f) = {} BY <1>1 DEF Errors
  <2> QED BY ZenonT(60), <2>1, ListMembers DEF DetailErrors
<1>6. \A s : \A c \in ToSet(s) : c.id \in IdsOf(s) BY DEF ToSet, IdsOf
<1>7. ASSUME NEW c \in ToSet(f.sources) PROVE SourceAccepted(c)
  BY <1>2, <1>5, <1>6, ListMembers DEF SourceAccepted
<1>8. ASSUME NEW c \in ToSet(f.processors \o f.sinks) PROVE StageAccepted(c)
  <2>1. c \in ToSet(f.processors) \/ c \in ToSet(f.sinks) BY ListMembers
  <2>2. c.inputs # <<>> BY <2>1, ValidatedInputs DEF ToSet
  <2>3. c.id # <<>> /\ "image" \in c.means BY <1>2, <1>6, <2>1, ListMembers
  <2>4. c \in Component BY <2>1, ListsAreSequences DEF ToSet
  <2>5. c.replicas \in Int BY <2>4 DEF Component
  <2>6. ~(c.replicas < 0) BY <1>5, <2>1
  <2>7. c.replicas >= 0 BY <2>5, <2>6
  <2> QED BY <2>2, <2>3, <2>7 DEF StageAccepted
<1>9. \A c \in ToSet(f.pipelines) : PipelineAccepted(c) BY EmptyList
<1> DEFINE entered(i) == IdsOf(f.sources \o f.pipelines \o SubSeq(f.processors, 1, i))
<1>10. ASSUME NEW n \in 1 .. Len(f.processors) + 1, NEW m \in n - 1 .. Len(f.processors)
       PROVE  KnownTo(f, n) \subseteq entered(m)
  <2>1. f.processors \in Seq(Component) /\ Len(f.processors) \in Nat BY ListsAreSequences
  <2>2. n - 1 \in 0 .. Len(f.processors) /\ m \in 0 .. Len(f.processors) BY <2>1
  <2>3. IdsOf(SubSeq(f.processors, 1, n - 1)) \subseteq IdsOf(SubSeq(f.processors, 1, m))
    <3>1. \A i \in 1 .. n - 1 : i \in 1 .. m BY <2>1
    <3> QED BY <2>1, <2>2, <3>1, SubSeqIds
  <2> QED BY <2>2, <2>3, EnteredIds DEF KnownTo
<1>11. ASSUME NEW i \in DOMAIN f.processors PROVE InputsOf(f.processors[i]) \subseteq entered(i)
  <2>1. Len(f.processors) \in Nat /\ i \in 1 .. Len(f.processors) BY ListsAreSequences
  <2>2. i \in 1 .. Len(f.processors) + 1 /\ i \in i - 1 .. Len(f.processors) BY <2>1
  <2> HIDE DEF entered
  <2> QED BY <1>10, <2>2, ValidatedInputs
<1>12. ASSUME NEW c \in ToSet(f.sinks) PROVE InputsOf(c) \subseteq entered(Len(f.processors))
  <2>1. InputsOf(c) \subseteq KnownTo(f, Len(f.processors) + 1) BY ValidatedInputs DEF ToSet
  <2>2. Len(f.processors) \in Nat BY ListsAreSequences
  <2>3. /\ Len(f.processors) + 1 \in 1 .. Len(f.processors) + 1
        /\ Len(f.processors) \in (Len(f.processors) + 1) - 1 .. Len(f.processors)
    BY <2>2
  <2> HIDE DEF entered
  <2> QED BY <1>10, <2>1, <2>3
<1>13. TranslatorAccepts(f)
  BY <1>2, <1>4, <1>7, <1>8, <1>9, <1>11, <1>12 DEF TranslatorAccepts
<1> QED BY <1>3, <1>13 DEF Translates

Keeps(c, p, id, inputs) ==
  /\ c \in Component /\ c.id = id /\ c.inputs = inputs /\ c.health = p.health
  /\ c.replicas = 0 /\ p.means \subseteq c.means

LEMMA ConvertedPart ==
  ASSUME NEW p \in LegacyPart, NEW id \in Id, NEW inputs \in Seq(Id)
  PROVE  Keeps(Converted(p, id, inputs), p, id, inputs)
<1> DEFINE c == Converted(p, id, inputs)
           m == MeansOf(p)
<1>1. /\ p.type \in Id /\ p.means \in SUBSET {"command", "image"}
      /\ p.health \in {"none", "portless", "ported"}
  BY DEF LegacyPart
<1>2. m \in SUBSET {"command", "image", "type"} /\ p.means \subseteq m
  BY <1>1 DEF MeansOf
<1>3. c = [Plain EXCEPT !.id = id, !.type = p.type, !.means = m, !.health = p.health,
                        !.inputs = inputs]
  BY DEF Converted
<1> HIDE DEF c, m
<1>4. c = [id |-> id, means |-> m, inputs |-> inputs, replicas |-> 0, health |-> p.health,
           port |-> 0, healthPort |-> 0, type |-> p.type, restart |-> Unset, depends |-> <<>>]
  BY <1>3 DEF Plain
<1>5. <<>> \in Seq(Id) /\ Unset \in Text /\ 0 \in Int /\ 0 \in Nat BY Texts
<1>6. c \in Component BY <1>1, <1>2, <1>4, <1>5 DEF Component
<1> QED BY <1>2, <1>4, <1>6 DEF Keeps, c

LEMMA ConvertedFile ==
  ASSUME NEW cfg \in LegacyFile
  PROVE  /\ ConvertConfig(cfg) \in PipelineFile
         /\ cfg.source \in LegacyPart /\ cfg.sink \in LegacyPart /\ cfg.processors \in Seq(LegacyPart)
<1> DEFINE g == ConvertConfig(cfg)
           last == Len(cfg.processors)
<1>1. cfg.source \in LegacyPart /\ cfg.sink \in LegacyPart /\ cfg.processors \in Seq(LegacyPart)
  BY DEF LegacyFile
<1>2. \A p \in LegacyPart : p.type \in Id /\ p.name \in Id BY DEF LegacyPart
<1>3. last \in Nat /\ \A i \in 1 .. last : cfg.processors[i] \in LegacyPart BY <1>1
<1>4. <<>> \in Seq(Id) /\ \A i \in Id : <<i>> \in Seq(Id) OBVIOUS
<1>5. <<Converted(cfg.source, cfg.source.type, <<>>)>> \in Seq(Component)
  <2>1. Converted(cfg.source, cfg.source.type, <<>>) \in Component
    BY <1>1, <1>2, <1>4, ConvertedPart DEF Keeps
  <2> QED BY <2>1
<1>6. [i \in 1 .. last |->
         Converted(cfg.processors[i], cfg.processors[i].name, <<cfg.source.type>>)] \in Seq(Component)
  <2>1. \A i \in 1 .. last :
          Converted(cfg.processors[i], cfg.processors[i].name, <<cfg.source.type>>) \in Component
    BY <1>1, <1>2, <1>3, <1>4, ConvertedPart DEF Keeps
  <2> QED BY <1>3, <2>1
<1>7. <<Converted(cfg.sink, cfg.sink.type,
          <<IF last > 0 THEN cfg.processors[last].name ELSE cfg.source.type>>)>> \in Seq(Component)
  <2> DEFINE feeds == IF last > 0 THEN cfg.processors[last].name ELSE cfg.source.type
  <2>1. feeds \in Id
    <3>1. last > 0 => last \in 1 .. last BY <1>3
    <3> QED BY <1>1, <1>2, <1>3, <3>1
  <2> HIDE DEF feeds
  <2>2. Converted(cfg.sink, cfg.sink.type, <<feeds>>) \in Component
    BY <1>1, <1>2, <1>4, <2>1, ConvertedPart DEF Keeps
  <2>3. <<Converted(cfg.sink, cfg.sink.type, <<feeds>>)>> \in Seq(Component) BY <2>2
  <2> QED BY <2>3 DEF feeds
<1>8. <<>> \in Seq(Component) /\ Unset \in Text BY Texts
<1>9. g \in PipelineFile
  <2> DEFINE s == <<Converted(cfg.source, cfg.source.type, <<>>)>>
             p == [i \in 1 .. last |->
                     Converted(cfg.processors[i], cfg.processors[i].name, <<cfg.source.type>>)]
             k == <<Converted(cfg.sink, cfg.sink.type,
                      <<IF last > 0 THEN cfg.processors[last].name ELSE cfg.source.type>>)>>
  <2>1. g = [version |-> 1, kind |-> "Pipeline", name |-> "pipeline", driver |-> Unset,
             pipelines |-> <<>>, sources |-> s, processors |-> p, sinks |-> k]
    BY DEF ConvertConfig
  <2>2. s \in Seq(Component) /\ p \in Seq(Component) /\ k \in Seq(Component)
    BY <1>5, <1>6, <1>7
  <2> HIDE DEF g, s, p, k
  <2>3. "Pipeline" \in Text /\ "pipeline" \in Text /\ 1 \in Nat BY TextAssumption
  <2> QED BY <1>8, <2>1, <2>2, <2>3 DEF PipelineFile
<1> QED BY <1>1, <1>9

LEMMA LegacyTranslates ==
  ASSUME NEW cfg \in LegacyFile PROVE LegacyIsTranslatable(cfg)
<1> DEFINE f == ConvertConfig(cfg)
           last == Len(cfg.processors)
           feeds == IF last > 0 THEN cfg.processors[last].name ELSE cfg.source.type
<1> SUFFICES ASSUME \A p \in LegacyParts(cfg) : "image" \in p.means /\ p.health # "portless",
                    cfg.source.type # <<>>, cfg.sink.type # <<>>,
                    \A p \in ToSet(cfg.processors) : p.name # <<>>
             PROVE  Translates(f)
  BY DEF LegacyIsTranslatable
<1>1. /\ f \in PipelineFile
      /\ cfg.source \in LegacyPart /\ cfg.sink \in LegacyPart /\ cfg.processors \in Seq(LegacyPart)
  BY ConvertedFile
<1>2. /\ f.version = 1 /\ f.kind = "Pipeline" /\ f.name = "pipeline" /\ f.driver = Unset
      /\ f.pipelines = <<>>
      /\ f.sources = <<Converted(cfg.source, cfg.source.type, <<>>)>>
      /\ f.processors = [i \in 1 .. last |->
           Converted(cfg.processors[i], cfg.processors[i].name, <<cfg.source.type>>)]
      /\ f.sinks = <<Converted(cfg.sink, cfg.sink.type, <<feeds>>)>>
  BY DEF ConvertConfig
<1> HIDE DEF f, feeds
<1>3. last \in Nat /\ DOMAIN cfg.processors = 1 .. last BY <1>1
<1>4. \A p \in LegacyPart : p.type \in Id /\ p.name \in Id BY DEF LegacyPart
<1>5. \A i \in 1 .. last : cfg.processors[i] \in LegacyPart /\ cfg.processors[i] \in ToSet(cfg.processors)
  BY <1>1, <1>3 DEF ToSet
<1>6. <<>> \in Seq(Id) /\ \A i \in Id : <<i>> \in Seq(Id) OBVIOUS
<1>7. feeds \in Id /\ feeds \in {cfg.source.type} \cup {cfg.processors[i].name : i \in 1 .. last}
  <2>1. last > 0 => last \in 1 .. last BY <1>3
  <2> QED BY <1>1, <1>4, <1>5, <2>1 DEF feeds
<1>8. Len(f.processors) = last /\ DOMAIN f.processors = 1 .. last BY <1>2, <1>3
<1>9. \A i \in DOMAIN f.processors :
        f.processors[i] = Converted(cfg.processors[i], cfg.processors[i].name, <<cfg.source.type>>)
  BY <1>2, <1>8
<1>10. ASSUME NEW c \in ToSet(f.sources) PROVE SourceAccepted(c) /\ c.id = cfg.source.type
  <2>1. c = Converted(cfg.source, cfg.source.type, <<>>)
    <3> DEFINE one == Converted(cfg.source, cfg.source.type, <<>>)
    <3>1. f.sources = <<one>> BY <1>2
    <3> HIDE DEF one
    <3>2. ToSet(f.sources) = {one} BY <3>1, OneElement
    <3> QED BY <3>2 DEF one
  <2>2. cfg.source \in LegacyParts(cfg) BY DEF LegacyParts
  <2>3. Keeps(c, cfg.source, cfg.source.type, <<>>) BY <1>1, <1>4, <1>6, <2>1, ConvertedPart
  <2> QED BY <2>2, <2>3 DEF SourceAccepted, Keeps
<1>11. ASSUME NEW i \in DOMAIN f.processors
       PROVE  /\ StageAccepted(f.processors[i]) /\ f.processors[i].id = cfg.processors[i].name
              /\ f.processors[i].inputs = <<cfg.source.type>>
  <2>1. cfg.processors[i] \in LegacyParts(cfg) BY <1>5, <1>8 DEF LegacyParts
  <2>2. Keeps(f.processors[i], cfg.processors[i], cfg.processors[i].name, <<cfg.source.type>>)
    BY <1>1, <1>4, <1>5, <1>6, <1>8, <1>9, ConvertedPart
  <2>3. cfg.processors[i].name # <<>> BY <1>5, <1>8
  <2>4. <<cfg.source.type>> # <<>> /\ 0 >= 0 OBVIOUS
  <2> QED BY <2>1, <2>2, <2>3, <2>4 DEF StageAccepted, Keeps
<1>12. ASSUME NEW c \in ToSet(f.sinks) PROVE StageAccepted(c) /\ c.inputs = <<feeds>>
  <2>1. c = Converted(cfg.sink, cfg.sink.type, <<feeds>>)
    <3> DEFINE one == Converted(cfg.sink, cfg.sink.type, <<feeds>>)
    <3>1. f.sinks = <<one>> BY <1>2
    <3> HIDE DEF one
    <3>2. ToSet(f.sinks) = {one} BY <3>1, OneElement
    <3> QED BY <3>2 DEF one
  <2>2. cfg.sink \in LegacyParts(cfg) BY DEF LegacyParts
  <2>3. Keeps(c, cfg.sink, cfg.sink.type, <<feeds>>)
    BY <1>1, <1>4, <1>6, <1>7, <2>1, ConvertedPart
  <2>4. <<feeds>> # <<>> /\ 0 >= 0 OBVIOUS
  <2> QED BY <2>2, <2>3, <2>4 DEF StageAccepted, Keeps
<1>13. \A c : c.inputs = <<feeds>> => InputsOf(c) = {feeds} BY OneElement DEF InputsOf
<1>14. \A c : c.inputs = <<cfg.source.type>> => InputsOf(c) = {cfg.source.type}
  BY OneElement DEF InputsOf
<1> DEFINE entered(i) == IdsOf(f.sources \o f.pipelines \o SubSeq(f.processors, 1, i))
<1>15. ASSUME NEW i \in 0 .. last
       PROVE  /\ cfg.source.type \in entered(i)
              /\ \A j \in 1 .. i : cfg.processors[j].name \in entered(i)
  <2>1. entered(i) = IdsOf(f.sources) \cup IdsOf(f.pipelines) \cup IdsOf(SubSeq(f.processors, 1, i))
    BY <1>1, <1>8, EnteredIds
  <2> HIDE DEF entered
  <2>2. cfg.source.type \in IdsOf(f.sources)
    <3>1. DOMAIN f.sources = {1} BY <1>2
    <3>2. f.sources[1] \in ToSet(f.sources) BY <3>1 DEF ToSet
    <3> QED BY <1>10, <3>1, <3>2 DEF IdsOf
  <2>3. ASSUME NEW j \in 1 .. i PROVE cfg.processors[j].name \in IdsOf(SubSeq(f.processors, 1, i))
    <3>1. f.processors \in Seq(Component) BY <1>1, ListsAreSequences
    <3>2. j \in 1 .. last BY <1>3
    <3> QED BY <1>8, <1>11, <3>1, <3>2, SubSeqIds
  <2> QED BY <2>1, <2>2, <2>3
<1>16. \A i \in DOMAIN f.processors : InputsOf(f.processors[i]) \subseteq entered(i)
  <2> HIDE DEF entered
  <2>1. \A i \in 1 .. last : i \in 0 .. last BY <1>3
  <2> QED BY <1>8, <1>11, <1>14, <1>15, <2>1
<1>17. \A c \in ToSet(f.sinks) : InputsOf(c) \subseteq entered(Len(f.processors))
  <2> HIDE DEF entered
  <2>1. last \in 0 .. last BY <1>3
  <2> QED BY <1>7, <1>8, <1>12, <1>13, <1>15, <2>1
<1>18. ASSUME NEW c \in ToSet(f.processors \o f.sinks) PROVE StageAccepted(c)
  <2>1. c \in ToSet(f.processors) \/ c \in ToSet(f.sinks) BY <1>1, ListMembers
  <2> QED BY <1>11, <1>12, <2>1 DEF ToSet
<1>19. \A c \in ToSet(f.pipelines) : PipelineAccepted(c) BY <1>2, EmptyList
<1>20. Versioned(f) /\ f.name # Unset /\ HasStart(f) /\ f.driver \in TranslatorDrivers \cup {Unset}
  <2>1. 1 \in 1 .. 1 OBVIOUS
  <2>2. <<Converted(cfg.source, cfg.source.type, <<>>)>> # <<>> OBVIOUS
  <2> QED BY <1>2, <2>1, <2>2, Texts DEF Versioned, Supported, MaxSupportedMajor, HasStart
<1>21. TranslatorAccepts(f)
  BY <1>10, <1>16, <1>17, <1>18, <1>19, <1>20 DEF TranslatorAccepts
<1>22. Parsed(f) = f
  <2>1. 1 # 0 OBVIOUS
  <2> QED BY <1>2, <2>1 DEF Parsed
<1> QED BY <1>21, <1>22 DEF Translates

LEMMA WizardTexts ==
  /\ DefaultName # Unset
  /\ StellarSource # ContractEvents /\ StellarSource # <<>> /\ ContractEvents # <<>>
  /\ \A d \in {"duckdb", "postgres"} :
       SinkOf(d) \in Id /\ SinkOf(d) # <<>> /\ SinkOf(d) # StellarSource /\ SinkOf(d) # ContractEvents
<1>1. \A a, b : a # b => <<a>> # <<b>> OBVIOUS
<1>2. DefaultName # Unset BY Zenon DEF DefaultName, Unset
<1>3. "stellar-source" # "contract-events" /\ "duckdb-sink" # "stellar-source"
      /\ "duckdb-sink" # "contract-events" /\ "postgres-sink" # "stellar-source"
      /\ "postgres-sink" # "contract-events"
  BY Zenon
<1>4. StellarSource # ContractEvents BY <1>1, <1>3, Zenon DEF StellarSource, ContractEvents
<1>5. ASSUME NEW d \in {"duckdb", "postgres"}
      PROVE  SinkOf(d) # StellarSource /\ SinkOf(d) # ContractEvents
  BY <1>1, <1>3, Zenon DEF StellarSource, ContractEvents, SinkOf
<1>6. \A d \in {"duckdb", "postgres"} : SinkOf(d) \in Id BY WizardAssumption, Zenon
<1>7. \A a : <<a>> # <<>> OBVIOUS
<1>8. StellarSource # <<>> /\ ContractEvents # <<>> /\ \A d : SinkOf(d) # <<>>
  BY <1>7, Zenon DEF StellarSource, ContractEvents, SinkOf
<1> QED BY <1>2, <1>4, <1>5, <1>6, <1>8

(* A file of one source, one processor that reads it and one sink that     *)
(* reads the processor.                                                    *)
IsChain(f, s, p, k) ==
  /\ f \in PipelineFile /\ s \in Component /\ p \in Component /\ k \in Component
  /\ f.sources = <<s>> /\ f.processors = <<p>> /\ f.sinks = <<k>> /\ f.pipelines = <<>>
  /\ s.id # p.id /\ s.id # k.id /\ p.id # k.id /\ <<>> \notin {s.id, p.id, k.id}
  /\ p.inputs = <<s.id>> /\ k.inputs = <<p.id>>
IsPlain(c) ==
  c.means # {} /\ c.health # "portless" /\ c.replicas = 0 /\ c.port = 0 /\ c.healthPort = 0

Three(w, s, p, k) == DOMAIN w = {1, 2, 3} /\ w[1] = s /\ w[2] = p /\ w[3] = k

LEMMA ChainLists ==
  ASSUME NEW f, NEW s, NEW p, NEW k, IsChain(f, s, p, k)
  PROVE  /\ Three(Wired(f), s, p, k) /\ Three(Components(f), s, p, k)
         /\ ToSet(f.sources) = {s} /\ ToSet(f.processors) = {p} /\ ToSet(f.sinks) = {k}
         /\ ToSet(f.pipelines) = {} /\ ToSet(Wired(f)) = {s, p, k}
         /\ ToSet(f.processors \o f.sinks) = {p, k}
         /\ IdsOf(f.sources) = {s.id} /\ IdsOf(f.processors) = {p.id}
         /\ IdsOf(Components(f)) = {s.id, p.id, k.id}
         /\ InputsOf(p) = {s.id} /\ InputsOf(k) = {p.id}
<1>1. /\ f \in PipelineFile /\ s \in Component /\ p \in Component /\ k \in Component
      /\ f.sources = <<s>> /\ f.processors = <<p>> /\ f.sinks = <<k>> /\ f.pipelines = <<>>
      /\ p.inputs = <<s.id>> /\ k.inputs = <<p.id>>
  BY DEF IsChain
<1>2. Len(f.sources) = 1 /\ Len(f.processors) = 1 /\ Len(f.sinks) = 1 BY <1>1
<1>3. Three(Wired(f), s, p, k)
  <2>1. /\ Wired(f) \in Seq(Component) /\ Len(Wired(f)) = 1 + 1 + 1
        /\ Wired(f)[1] = f.sources[1] /\ Wired(f)[1 + 1] = f.processors[1]
        /\ Wired(f)[1 + 1 + 1] = f.sinks[1]
    <3>1. 1 \in DOMAIN f.sources /\ 1 \in DOMAIN f.processors /\ 1 \in DOMAIN f.sinks BY <1>1
    <3>2. f \in PipelineFile BY <1>1
    <3>3. /\ Wired(f) \in Seq(Component)
          /\ Len(Wired(f)) = Len(f.sources) + Len(f.processors) + Len(f.sinks)
          /\ Wired(f)[1] = f.sources[1]
          /\ Wired(f)[Len(f.sources) + 1] = f.processors[1]
          /\ Wired(f)[Len(f.sources) + Len(f.processors) + 1] = f.sinks[1]
      BY <3>1, <3>2, WiredIndex
    <3> QED BY <1>2, <3>3
  <2> DEFINE w == Wired(f)
  <2>2. w \in Seq(Component) /\ Len(w) = 3 /\ w[1] = s /\ w[2] = p /\ w[3] = k
    BY <1>1, <2>1
  <2> HIDE DEF w
  <2>3. DOMAIN w = {1, 2, 3} BY <2>2
  <2> QED BY <2>2, <2>3 DEF Three, w
<1>6. Three(Components(f), s, p, k)
  <2> DEFINE w == Wired(f)
             none == f.pipelines
  <2>1. w \in Seq(Component) /\ none \in Seq(Component) /\ Len(none) = 0
    <3>1. f \in PipelineFile BY <1>1
    <3>2. w \in Seq(Component) /\ none \in Seq(Component) BY <3>1, WiredIndex, ListsAreSequences
    <3> QED BY <1>1, <3>2
  <2>2. Three(w, s, p, k) BY <1>3
  <2>3. Components(f) = w \o none BY DEF Components, Wired
  <2> HIDE DEF w, none
  <2>4. w \o none = w BY <2>1
  <2> QED BY <2>2, <2>3, <2>4
<1>4. /\ ToSet(f.sources) = {s} /\ ToSet(f.processors) = {p} /\ ToSet(f.sinks) = {k}
      /\ IdsOf(f.sources) = {s.id} /\ IdsOf(f.processors) = {p.id} /\ IdsOf(f.sinks) = {k.id}
      /\ ToSet(f.pipelines) = {} /\ IdsOf(f.pipelines) = {}
  BY <1>1, OneElement, EmptyList
<1>5. InputsOf(p) = {s.id} /\ InputsOf(k) = {p.id} BY <1>1, OneElement DEF InputsOf
<1> QED BY <1>1, <1>3, <1>4, <1>5, <1>6, ListMembers

LEMMA ChainIsValidated ==
  ASSUME NEW f, NEW s, NEW p, NEW k, IsChain(f, s, p, k), IsPlain(s), IsPlain(p), IsPlain(k),
         Versioned(f), f.name # Unset, f.driver \in Drivers \cup {Unset}
  PROVE  Validates(f) /\ Edges(f) = Declared(f)
<1>1. /\ f.sources = <<s>> /\ f.processors = <<p>> /\ f.sinks = <<k>> /\ f.pipelines = <<>>
      /\ s.id # p.id /\ s.id # k.id /\ p.id # k.id /\ <<>> \notin {s.id, p.id, k.id}
      /\ p.inputs # <<>> /\ k.inputs # <<>>
  BY DEF IsChain
<1>3. Three(Wired(f), s, p, k) /\ Three(Components(f), s, p, k) BY ChainLists
<1>4. \A w : Three(w, s, p, k) => Distinct(w) BY <1>1 DEF Distinct, Three
<1>2. Distinct(Wired(f)) /\ Distinct(Components(f)) BY <1>3, <1>4
<1>5. /\ IdsOf(f.sources) = {s.id} /\ IdsOf(f.processors) = {p.id}
      /\ InputsOf(p) = {s.id} /\ InputsOf(k) = {p.id}
  BY ChainLists
<1>6. /\ DOMAIN f.processors = {1} /\ f.processors[1] = p /\ Len(f.processors) = 1
      /\ DOMAIN f.sinks = {1} /\ f.sinks[1] = k
      /\ f.sources # <<>> /\ f.sinks # <<>> /\ f.processors # <<>>
  BY <1>1
<1>7. ASSUME NEW list \in {"processors", "sinks"}, NEW i \in DOMAIN f[list]
      PROVE  InputsOf(f[list][i]) \subseteq ReadUpTo(f, list, i)
  <2>1. CASE list = "processors"
    <3>1. f[list][i] = p BY <1>6, <2>1
    <3> QED BY <1>5, <2>1, <3>1 DEF ReadUpTo
  <2>2. CASE list = "sinks"
    <3>1. f[list][i] = k BY <1>6, <2>2
    <3> QED BY <1>5, <2>2, <3>1 DEF ReadUpTo
  <2> QED BY <2>1, <2>2
<1>8. Loads(f)
  <2>1. <<>> \notin IdsOf(Components(f)) BY <1>1, ChainLists
  <2>2. \A c \in ToSet(Wired(f)) : c.means # {} BY ChainLists DEF IsPlain
  <2>3. \A c \in ToSet(f.pipelines) : "image" \in c.means BY ChainLists
  <2>4. HasStart(f) BY <1>6 DEF HasStart
  <2> QED BY <1>2, <1>7, <2>1, <2>2, <2>3, <2>4 DEF Loads, Wired
<1>9. DetailErrors(f) = {}
  <2>1. \A c \in ToSet(f.sources) : c.health # "portless" BY ChainLists DEF IsPlain
  <2>2. \A c \in ToSet(f.processors \o f.sinks) : ~(c.replicas < 0)
    <3>1. ~(0 < 0) OBVIOUS
    <3> QED BY <3>1, ChainLists DEF IsPlain
  <2>3. \A i \in DOMAIN f.processors : ~InputsUnknown(f.processors[i], KnownTo(f, i))
    BY <1>1, <1>5, <1>6 DEF InputsUnknown, KnownTo
  <2>4. \A c \in ToSet(f.sinks) : ~InputsUnknown(c, KnownTo(f, Len(f.processors) + 1))
    <3>1. f.processors \in Seq(Component) BY ListsAreSequences DEF IsChain
    <3>2. (1 + 1) - 1 = 1 /\ 1 \in 0 .. 1 /\ 1 \in 1 .. 1 OBVIOUS
    <3>3. p.id \in IdsOf(SubSeq(f.processors, 1, 1)) BY <1>6, <3>1, <3>2, SubSeqIds
    <3>4. p.id \in KnownTo(f, Len(f.processors) + 1) BY <1>6, <3>2, <3>3 DEF KnownTo
    <3> QED BY SMTT(30), <1>1, <1>5, <3>4, ChainLists DEF InputsUnknown
  <2> QED BY <2>1, <2>2, <2>3, <2>4 DEF DetailErrors
<1>10. PortErrors(f) = {}
  <2> DEFINE w == Wired(f)
  <2>1. \A i \in DOMAIN w : w[i].port = 0 /\ w[i].healthPort = 0 BY <1>3 DEF IsPlain, Three
  <2> HIDE DEF w
  <2>2. \A v \in {"port", "healthPort"} : ~Clash(w, v) BY <2>1 DEF Clash
  <2> QED BY <2>2 DEF PortErrors, w
<1>11. CommandErrors(f) = {} BY ChainLists DEF CommandErrors, IsPlain
<1>12. MetadataErrors(f) = {} /\ DriverErrors(f) = {} /\ DuplicateErrors(f) = {}
  BY <1>2, Zenon DEF MetadataErrors, DriverErrors, DuplicateErrors
<1>13. ComponentErrors(f) = {} BY <1>6 DEF ComponentErrors
<1>14. Validates(f)
  BY <1>8, <1>9, <1>10, <1>11, <1>12, <1>13 DEF Validates, Errors
<1>15. Edges(f) = {<<s.id, p.id>>, <<p.id, k.id>>}
  <2>1. \A i : i \notin 1 .. 1 - 1 OBVIOUS
  <2>2. {<<f.processors[i].id, f.processors[i + 1].id>> : i \in 1 .. Len(f.processors) - 1} = {}
    BY <1>6, <2>1
  <2> DEFINE n == Len(f.processors)
             before == {<<a.id, f.processors[1].id>> : a \in ToSet(f.sources)}
             between == {<<f.processors[i].id, f.processors[i + 1].id>> : i \in 1 .. n - 1}
             after == {<<f.processors[n].id, b.id>> : b \in ToSet(f.sinks)}
  <2>3. Edges(f) = before \cup between \cup after BY <1>6, Zenon DEF Edges
  <2>4. before = {<<s.id, p.id>>}
    <3>1. ToSet(f.sources) = {s} BY ChainLists
    <3> QED BY <1>6, <3>1
  <2>5. after = {<<p.id, k.id>>}
    <3>1. ToSet(f.sinks) = {k} BY ChainLists
    <3> QED BY <1>6, <3>1
  <2> HIDE DEF before, between, after
  <2> QED BY <2>2, <2>3, <2>4, <2>5 DEF between
<1>16. Declared(f) = {<<s.id, p.id>>, <<p.id, k.id>>} BY <1>5, ChainLists DEF Declared
<1> QED BY <1>14, <1>15, <1>16

LEMMA ReferencedComponent ==
  ASSUME NEW id \in Id, NEW inputs \in Seq(Id)
  PROVE  /\ Referenced(id, inputs) \in Component /\ IsPlain(Referenced(id, inputs))
         /\ Referenced(id, inputs).id = id /\ Referenced(id, inputs).inputs = inputs
<1> DEFINE c == Referenced(id, inputs)
           type == id \o Version
<1>1. c = [Plain EXCEPT !.id = id, !.type = type, !.means = {"type"}, !.inputs = inputs]
  BY DEF Referenced
<1>2. type \in Id BY WizardAssumption DEF Id
<1> HIDE DEF c, type
<1>3. c = [id |-> id, means |-> {"type"}, inputs |-> inputs, replicas |-> 0, health |-> "none",
           port |-> 0, healthPort |-> 0, type |-> type, restart |-> Unset, depends |-> <<>>]
  BY <1>1 DEF Plain
<1>4. <<>> \in Seq(Id) /\ Unset \in Text /\ 0 \in Int /\ 0 \in Nat BY Texts
<1>5. c \in Component BY <1>2, <1>3, <1>4 DEF Component
<1>6. IsPlain(c) BY <1>3 DEF IsPlain
<1> QED BY <1>3, <1>5, <1>6 DEF c

LEMMA WizardWritesRunnable ==
  ASSUME NEW c \in InitCall PROVE InitIsRunnable(c)
<1> SUFFICES ASSUME ~InitRefuses(c)
             PROVE  LET file == GenerateIntent(c) IN
                    /\ Validates(file) /\ InputsComeFirst(file)
                    /\ WiresUp(file) /\ Edges(file) = Declared(file)
                    /\ SourceConfig(c).passphrase = ProcessorConfig(c).passphrase
                    /\ Network(c) \in {"testnet", "mainnet"} =>
                         SourceConfig(c).rpc = Reported(c).network
                    /\ ~Reported(c).continuous =>
                         SourceConfig(c).start = <<"given", LedgerRange(c)[1]>>
                    /\ SourceConfig(c).end # Unset => ~Reported(c).continuous
  BY DEF InitIsRunnable
<1> DEFINE f == GenerateIntent(c)
           d == Destination(c)
           s == Referenced(StellarSource, <<>>)
           p == Referenced(ContractEvents, <<StellarSource>>)
           k == Referenced(SinkOf(d), <<ContractEvents>>)
<1>1. d \in {"duckdb", "postgres"} /\ DestinationSupported(c)
  <2>1. CASE ~Interactive(c) BY <2>1 DEF InitRefuses, DestinationSupported
  <2>2. CASE Interactive(c)
    BY <2>2 DEF Interactive, DestinationSupported, Destination, PromptDestination
  <2> QED BY <2>1, <2>2
<1>2. /\ f.version = 1 /\ f.kind = "Pipeline" /\ f.name = Name(c) /\ f.driver = "process"
      /\ f.pipelines = <<>> /\ f.sources = <<s>> /\ f.processors = <<p>> /\ f.sinks = <<k>>
      /\ f = [version |-> 1, kind |-> "Pipeline", name |-> Name(c), driver |-> "process",
              pipelines |-> <<>>, sources |-> <<s>>, processors |-> <<p>>, sinks |-> <<k>>]
  BY <1>1 DEF GenerateIntent
<1>3. <<>> \in Seq(Id) /\ \A i \in Id : <<i>> \in Seq(Id) OBVIOUS
<1>4. StellarSource \in Id /\ ContractEvents \in Id /\ SinkOf(d) \in Id
  BY <1>1, WizardTexts, WizardAssumption
<1>5. /\ s \in Component /\ IsPlain(s) /\ s.id = StellarSource
      /\ p \in Component /\ IsPlain(p) /\ p.id = ContractEvents /\ p.inputs = <<StellarSource>>
      /\ k \in Component /\ IsPlain(k) /\ k.id = SinkOf(d) /\ k.inputs = <<ContractEvents>>
  BY <1>3, <1>4, ReferencedComponent
<1>6. Name(c) \in Text /\ Name(c) # Unset
  <2>1. c.lines[5] \in Text BY DEF InitCall
  <2> QED BY <2>1, WizardAssumption, WizardTexts DEF Name, PromptName
<1> HIDE DEF f, d, s, p, k
<1>7. f \in PipelineFile
  <2>1. /\ <<s>> \in Seq(Component) /\ <<p>> \in Seq(Component) /\ <<k>> \in Seq(Component)
        /\ <<>> \in Seq(Component) /\ 1 \in Nat
    BY <1>5
  <2>2. "Pipeline" \in Text /\ "process" \in Text BY TextAssumption
  <2> QED BY <1>2, <1>6, <2>1, <2>2 DEF PipelineFile
<1>8. IsChain(f, s, p, k)
  <2>1. <<>> \notin {StellarSource, ContractEvents, SinkOf(d)} BY <1>1, WizardTexts
  <2> QED BY <1>1, <1>2, <1>5, <1>7, <2>1, WizardTexts DEF IsChain
<1>9. Versioned(f) /\ f.name # Unset /\ f.driver \in Drivers \cup {Unset}
  <2>1. 1 \in 1 .. 1 OBVIOUS
  <2> QED BY <1>2, <1>6, <2>1 DEF Versioned, Supported, MaxSupportedMajor, Drivers
<1>10. Validates(f) /\ Edges(f) = Declared(f) BY <1>5, <1>8, <1>9, ChainIsValidated
<1>11. InputsComeFirst(f) /\ WiringIsDeclared(f)
  BY <1>7, <1>10, ValidatedInputsComeFirst, ValidatedWiringIsDeclared
<1>12. WiresUp(f)
  <2>1. <<p>> # <<>> OBVIOUS
  <2> QED BY <1>2, <1>11, <2>1 DEF WiringIsDeclared
<1>13. SourceConfig(c).passphrase = ProcessorConfig(c).passphrase
  BY DEF SourceConfig, ProcessorConfig
<1>14. ASSUME Network(c) \in {"testnet", "mainnet"}
       PROVE  SourceConfig(c).rpc = Reported(c).network
  BY <1>14 DEF SourceConfig, Reported, Passphrase
<1>15. ASSUME ~Reported(c).continuous
       PROVE  SourceConfig(c).start = <<"given", LedgerRange(c)[1]>>
  BY <1>15 DEF SourceConfig, Reported, StartLedger
<1>16. ASSUME SourceConfig(c).end # Unset PROVE ~Reported(c).continuous
  BY <1>16 DEF SourceConfig, Reported, LedgerRange, PromptLedgerRange
<1> QED BY <1>10, <1>11, <1>12, <1>13, <1>14, <1>15, <1>16 DEF f

-----------------------------------------------------------------------------
(* Where the lists of a file are among its components.                     *)
LEMMA ComponentIndex ==
  ASSUME NEW f \in PipelineFile
  PROVE  /\ Components(f) \in Seq(Component)
         /\ Len(Components(f)) = Len(Wired(f)) + Len(f.pipelines)
         /\ \A i \in DOMAIN Wired(f) : Components(f)[i] = Wired(f)[i]
         /\ \A i \in DOMAIN f.pipelines : Components(f)[Len(Wired(f)) + i] = f.pipelines[i]
<1> DEFINE w == Wired(f)
           l == f.pipelines
<1>1. w \in Seq(Component) /\ l \in Seq(Component) BY WiredIndex, ListsAreSequences
<1>2. Components(f) = w \o l BY DEF Components, Wired
<1> HIDE DEF w, l
<1>3. w \o l \in Seq(Component) BY <1>1
<1>4. Len(w \o l) = Len(w) + Len(l) BY <1>1
<1>5. \A i \in DOMAIN w : (w \o l)[i] = w[i] BY <1>1
<1>6. \A i \in DOMAIN l : (w \o l)[Len(w) + i] = l[i] BY <1>1
<1> QED BY <1>2, <1>3, <1>4, <1>5, <1>6 DEF w, l

(* What a service waits for is before it.                                  *)
LEMMA UpstreamIsBefore ==
  ASSUME NEW f \in PipelineFile, Validates(f), SoundDependencies(f),
         NEW i \in DOMAIN Components(f), NEW x \in Upstream(f, i)
  PROVE  \E j \in 1 .. i - 1 : x = Components(f)[j].id
<1> DEFINE cs == Components(f)
           w == Wired(f)
           ls == Len(f.sources)
           lp == Len(f.processors)
           lk == Len(f.sinks)
           ll == Len(f.pipelines)
           lw == Len(w)
<1>1. /\ f.sources \in Seq(Component) /\ f.processors \in Seq(Component)
      /\ f.sinks \in Seq(Component) /\ f.pipelines \in Seq(Component)
  BY ListsAreSequences
<1>2. /\ ls \in Nat /\ lp \in Nat /\ lk \in Nat /\ ll \in Nat
      /\ DOMAIN f.processors = 1 .. lp /\ DOMAIN f.sinks = 1 .. lk /\ DOMAIN f.pipelines = 1 .. ll
      /\ Len(f.sources \o f.processors) = ls + lp
  BY <1>1
<1>3. /\ w \in Seq(Component) /\ lw = ls + lp + lk
      /\ \A n \in 1 .. lp : w[ls + n] = f.processors[n] /\ w[ls + n].inputs # <<>>
      /\ \A n \in 1 .. lk : w[ls + lp + n] = f.sinks[n] /\ w[ls + lp + n].inputs # <<>>
  <2>1. /\ w \in Seq(Component) /\ lw = ls + lp + lk
        /\ \A n \in 1 .. lp : w[ls + n] = f.processors[n]
        /\ \A n \in 1 .. lk : w[ls + lp + n] = f.sinks[n]
    BY <1>2, WiredIndex
  <2>2. /\ \A n \in 1 .. lp : f.processors[n].inputs # <<>>
        /\ \A n \in 1 .. lk : f.sinks[n].inputs # <<>>
    BY <1>2, ValidatedInputs
  <2> HIDE DEF w, ls, lp, lk, lw
  <2> QED BY <2>1, <2>2
<1>4. w \in Seq(Component) /\ DOMAIN w = 1 .. lw /\ lw \in Nat
  <2>1. w \in Seq(Component) BY <1>3
  <2> HIDE DEF w
  <2> QED BY <2>1
<1>5. /\ cs \in Seq(Component) /\ Len(cs) = lw + ll
      /\ \A n \in 1 .. lw : cs[n] = w[n]
      /\ \A n \in 1 .. ll : cs[lw + n] = f.pipelines[n]
  BY <1>2, <1>4, ComponentIndex
<1>6. StageOf(f, i) = IF i <= ls THEN "source" ELSE IF i <= ls + lp THEN "processor"
                      ELSE IF i <= lw THEN "sink" ELSE "pipeline"
  BY <1>2 DEF StageOf
<1>7. /\ StageOf(f, i) # "source"
      /\ StageOf(f, i) = "pipeline" => x \in ToSet(cs[i].depends)
      /\ StageOf(f, i) # "pipeline" /\ cs[i].inputs # <<>> => x \in InputsOf(cs[i])
  BY DEF Upstream
<1>8. DOMAIN cs = 1 .. lw + ll BY <1>2, <1>4, <1>5
<1>9. i \in 1 .. lw + ll BY <1>8
<1>10. \A n \in DOMAIN w : n > ls => InputsOf(w[n]) \subseteq IdsOf(SubSeq(w, 1, n - 1))
  BY ValidatedInputsComeFirst DEF InputsComeFirst
<1>11. \A n \in 0 .. lw : \A y \in IdsOf(SubSeq(w, 1, n)) : \E j \in 1 .. n : y = w[j].id
  BY <1>4, SubSeqIds
<1>12. \A n \in 0 .. ll : \A y \in IdsOf(SubSeq(f.pipelines, 1, n)) :
         \E j \in 1 .. n : y = f.pipelines[j].id
  BY <1>1, SubSeqIds
<1>13. \A n \in 1 .. ll : ToSet(f.pipelines[n].depends) \subseteq
         IdsOf(w) \cup IdsOf(SubSeq(f.pipelines, 1, n - 1))
  BY <1>2 DEF SoundDependencies
<1> HIDE DEF cs, w, ls, lp, lk, ll, lw
<1>14. i > ls BY <1>2, <1>6, <1>7, <1>9
<1>15. CASE i <= lw
  <2>1. i \in 1 .. lw /\ i - 1 \in 0 .. lw /\ \A j \in 1 .. i - 1 : j \in 1 .. lw
    BY <1>4, <1>9, <1>15
  <2>2. w[i].inputs # <<>>
    <3>1. CASE i <= ls + lp
      <4>1. i - ls \in 1 .. lp /\ ls + (i - ls) = i BY <1>2, <1>14, <2>1, <3>1
      <4> QED BY <1>3, <4>1
    <3>2. CASE i > ls + lp
      <4>1. lw = ls + lp + lk BY <1>3
      <4>2. i - (ls + lp) \in 1 .. lk /\ ls + lp + (i - (ls + lp)) = i
        BY <1>2, <2>1, <3>2, <4>1
      <4> QED BY <1>3, <4>2
    <3> QED BY <1>2, <2>1, <3>1, <3>2
  <2>3. StageOf(f, i) # "pipeline" BY <1>6, <1>15
  <2>4. x \in InputsOf(w[i]) BY <1>5, <1>7, <2>1, <2>2, <2>3
  <2>5. x \in IdsOf(SubSeq(w, 1, i - 1)) BY <1>4, <1>10, <1>14, <2>1, <2>4
  <2>6. PICK j \in 1 .. i - 1 : x = w[j].id BY <1>11, <2>1, <2>5
  <2> QED BY <1>5, <2>1, <2>6 DEF cs
<1>16. CASE i > lw
  <2> DEFINE m == i - lw
  <2>1. m \in 1 .. ll /\ lw + m = i /\ m - 1 \in 0 .. ll BY <1>2, <1>4, <1>9, <1>16
  <2>2. i > ls + lp
    <3>1. lw = ls + lp + lk BY <1>3
    <3> QED BY <1>2, <1>9, <1>16, <3>1
  <2>3. ~(i <= ls) /\ ~(i <= ls + lp) /\ ~(i <= lw) BY <1>2, <1>4, <1>9, <1>14, <1>16, <2>2
  <2> HIDE DEF m
  <2>4. StageOf(f, i) = "pipeline" BY <1>6, <2>3
  <2>5. x \in ToSet(f.pipelines[m].depends) BY <1>5, <1>7, <2>1, <2>4
  <2>6. x \in IdsOf(w) \/ x \in IdsOf(SubSeq(f.pipelines, 1, m - 1)) BY <1>13, <2>1, <2>5
  <2>7. CASE x \in IdsOf(w)
    <3>1. PICK j \in DOMAIN w : x = w[j].id BY <2>7 DEF IdsOf
    <3>2. j \in 1 .. lw /\ j \in 1 .. i - 1 BY <1>4, <1>9, <1>16
    <3> QED BY <1>5, <3>1, <3>2 DEF cs
  <2>8. CASE x \in IdsOf(SubSeq(f.pipelines, 1, m - 1))
    <3>1. PICK n \in 1 .. m - 1 : x = f.pipelines[n].id BY <1>12, <2>1, <2>8
    <3>2. n \in 1 .. ll /\ lw + n \in 1 .. i - 1 BY <1>2, <1>4, <1>9, <2>1
    <3> QED BY <1>5, <3>1, <3>2 DEF cs
  <2> QED BY <2>6, <2>7, <2>8
<1> QED BY <1>4, <1>9, <1>15, <1>16

(* Distinct names count the sequence they are of.                          *)
LEMMA DistinctRanks ==
  ASSUME NEW n \in Nat, NEW names, DOMAIN names = 1 .. n,
         \A i, j \in 1 .. n : names[i] = names[j] => i = j
  PROVE  /\ Cardinality(ToSet(names)) = n
         /\ \E rank \in [ToSet(names) -> 1 .. n] : \A i \in 1 .. n : rank[names[i]] = i
<1> DEFINE range == ToSet(names)
           rank == [x \in range |-> CHOOSE i \in 1 .. n : names[i] = x]
           count == [i \in 1 .. n |-> names[i]]
<1>1. \A i \in 1 .. n : names[i] \in range BY DEF ToSet
<1>2. \A x \in range : \E i \in 1 .. n : names[i] = x BY DEF ToSet
<1>3. rank \in [range -> 1 .. n] BY <1>2
<1>4. \A i \in 1 .. n : rank[names[i]] = i BY <1>1
<1>5. count \in Bijection(1 .. n, range)
  BY <1>1, <1>2 DEF Bijection, Injection, Surjection, IsInjective
<1>6. IsFiniteSet(1 .. n) /\ Cardinality(1 .. n) = n BY FS_Interval
<1> HIDE DEF range, rank, count
<1>7. Cardinality(range) = n BY <1>5, <1>6, FS_Bijection DEF ExistsBijection
<1> QED BY <1>3, <1>4, <1>7 DEF range

LEMMA RestartsKnown ==
  /\ "unless-stopped" \in RestartPolicies \ {Unset} /\ "no" \in RestartPolicies \ {Unset}
BY Zenon DEF RestartPolicies, Unset

(* The services, if their names are distinct.                              *)
NamedApart(f, target, n, names) ==
  /\ n \in Nat /\ DOMAIN names = 1 .. n
  /\ \A i \in 1 .. n : i \in DOMAIN Components(f) /\ names[i] = ServiceName(Components(f)[i].id, target)
  /\ \A i, j \in 1 .. n : names[i] = names[j] => i = j

LEMMA NamesAreDistinct ==
  ASSUME NEW f \in PipelineFile, NEW target, DistinctNames(f, target)
  PROVE  NamedApart(f, target, Len(Translated(f, target)), NamesOf(f, target))
<1> DEFINE n == Len(Translated(f, target))
           names == NamesOf(f, target)
<1>1. /\ Wired(f) \in Seq(Component) /\ Components(f) \in Seq(Component)
      /\ f.pipelines \in Seq(Component)
      /\ Len(Components(f)) = Len(Wired(f)) + Len(f.pipelines)
  BY WiredIndex, ComponentIndex, ListsAreSequences
<1>2. n \in Nat /\ DOMAIN Translated(f, target) = 1 .. n /\ n <= Len(Components(f))
  <2>1. CASE target = "local"
    <3>1. Translated(f, target) = Wired(f) BY <2>1 DEF Translated
    <3>2. Len(Wired(f)) \in Nat /\ Len(f.pipelines) \in Nat BY <1>1
    <3> QED BY <1>1, <3>1, <3>2
  <2>2. CASE target # "local"
    <3>1. Translated(f, target) = Components(f) BY <2>2 DEF Translated
    <3> QED BY <1>1, <3>1
  <2> QED BY <2>1, <2>2
<1>3. DOMAIN names = 1 .. n /\ \A i \in 1 .. n : names[i] = ServiceName(Components(f)[i].id, target)
  <2>1. DOMAIN Translated(f, target) = 1 .. n BY <1>2
  <2> HIDE DEF n
  <2> QED BY <2>1 DEF NamesOf
<1>4. \A i, j \in 1 .. n : names[i] = names[j] => i = j BY <1>3 DEF DistinctNames
<1>5. \A i \in 1 .. n : i \in DOMAIN Components(f)
  <2> HIDE DEF n
  <2> QED BY <1>1, <1>2
<1> HIDE DEF n, names
<1> QED BY <1>2, <1>3, <1>4, <1>5 DEF NamedApart, n, names

LEMMA ServicesAre ==
  ASSUME NEW f \in PipelineFile, NEW target, NEW n, NEW names, names = NamesOf(f, target),
         NamedApart(f, target, n, names)
  PROVE  /\ DOMAIN Services(f, target) = ToSet(names)
         /\ \A i \in 1 .. n : Services(f, target)[names[i]] = Service(f, i, target)
<1> DEFINE last(x) == CHOOSE i \in DOMAIN names :
                        names[i] = x /\ \A j \in DOMAIN names : names[j] = x => j <= i
<1>1. Services(f, target) = [x \in ToSet(names) |-> Service(f, last(x), target)] BY DEF Services
<1>2. ASSUME NEW i \in 1 .. n PROVE last(names[i]) = i /\ names[i] \in ToSet(names)
  <2>1. DOMAIN names = 1 .. n /\ n \in Nat /\ \A j \in 1 .. n : names[j] = names[i] => j = i
    BY DEF NamedApart
  <2>2. names[i] = names[i] /\ \A j \in DOMAIN names : names[j] = names[i] => j <= i BY <2>1
  <2> QED BY <2>1, <2>2 DEF ToSet
<1> HIDE DEF last
<1> QED BY <1>1, <1>2

LEMMA RestartIsKnown ==
  ASSUME NEW f, NEW i, i <= Len(Wired(f)) \/ Components(f)[i].restart \in RestartPolicies
  PROVE  RestartOf(f, i) \in RestartPolicies \ {Unset}
BY RestartsKnown, Zenon DEF RestartOf

LEMMA TranslationKnowsRestarts ==
  ASSUME NEW f \in PipelineFile, NEW target, Validates(f), Generates(f, target),
         NEW i \in DOMAIN Components(f)
  PROVE  RestartOf(f, i) \in RestartPolicies \ {Unset}
<1>1. Parsed(f) = f
  <2>1. f.version \in 1 .. 1 /\ f.kind = "Pipeline"
    BY DEF Validates, Loads, Versioned, Supported, MaxSupportedMajor
  <2>2. f.version # 0 BY <2>1
  <2> QED BY <2>1, <2>2 DEF Parsed
<1>2. \A c \in ToSet(f.pipelines) : c.restart \in RestartPolicies
  BY <1>1 DEF Generates, Translates, TranslatorAccepts, PipelineAccepted
<1>3. i <= Len(Wired(f)) \/ Components(f)[i].restart \in RestartPolicies
  <2> DEFINE lw == Len(Wired(f))
             ll == Len(f.pipelines)
             cs == Components(f)
  <2>1. /\ lw \in Nat /\ ll \in Nat /\ DOMAIN f.pipelines = 1 .. ll /\ DOMAIN cs = 1 .. lw + ll
        /\ \A n \in 1 .. ll : cs[lw + n] = f.pipelines[n]
    <3>1. /\ Wired(f) \in Seq(Component) /\ f.pipelines \in Seq(Component)
          /\ cs \in Seq(Component) /\ Len(cs) = lw + ll
      BY WiredIndex, ComponentIndex, ListsAreSequences
    <3>2. \A n \in DOMAIN f.pipelines : cs[lw + n] = f.pipelines[n] BY ComponentIndex
    <3>3. DOMAIN f.pipelines = 1 .. ll /\ DOMAIN cs = 1 .. Len(cs) /\ lw \in Nat /\ ll \in Nat
      BY <3>1
    <3> HIDE DEF lw, ll, cs
    <3> QED BY <3>1, <3>2, <3>3
  <2>2. i \in 1 .. lw + ll BY <2>1
  <2> HIDE DEF lw, ll, cs
  <2>3. CASE i <= lw BY <2>3 DEF lw
  <2>4. CASE i > lw
    <3>1. i - lw \in 1 .. ll /\ lw + (i - lw) = i BY <2>1, <2>2, <2>4
    <3>2. cs[i] = f.pipelines[i - lw] BY <2>1, <3>1
    <3>3. f.pipelines[i - lw] \in ToSet(f.pipelines) BY <2>1, <3>1 DEF ToSet
    <3> QED BY <1>2, <3>2, <3>3 DEF cs
  <2> QED BY <2>1, <2>2, <2>3, <2>4
<1> QED BY <1>3, RestartIsKnown

LEMMA TranslationHasAll ==
  ASSUME NEW f \in PipelineFile PROVE TranslatesWhole(f)
<1> SUFFICES ASSUME NEW target \in Targets, Validates(f), Generates(f, target),
                    DistinctNames(f, target), SoundDependencies(f)
             PROVE  /\ Loadable(Services(f, target))
                    /\ \A i \in DOMAIN Translated(f, target) :
                         Components(f)[i].id \in {Services(f, target)[x].component :
                                                    x \in DOMAIN Services(f, target)}
                    /\ \A x \in DOMAIN Services(f, target) :
                         Services(f, target)[x].restart \in RestartPolicies \ {Unset}
  BY Zenon DEF TranslatesWhole
<1> DEFINE n == Len(Translated(f, target))
           names == NamesOf(f, target)
           services == Services(f, target)
<1>1. NamedApart(f, target, n, names) BY NamesAreDistinct
<1>2. /\ n \in Nat /\ DOMAIN names = 1 .. n
      /\ \A i \in 1 .. n : i \in DOMAIN Components(f) /\ names[i] = ServiceName(Components(f)[i].id, target)
      /\ \A i, j \in 1 .. n : names[i] = names[j] => i = j
  BY <1>1, Zenon DEF NamedApart
<1>3. DOMAIN services = ToSet(names) /\ \A i \in 1 .. n : services[names[i]] = Service(f, i, target)
  BY <1>1, ServicesAre, Zenon
<1>4. DOMAIN Translated(f, target) = 1 .. n
  <2>1. DOMAIN names = DOMAIN Translated(f, target) BY DEF NamesOf
  <2> QED BY <1>2, <2>1
<1> HIDE DEF n, names, services
<1>5. ASSUME NEW x \in DOMAIN services
      PROVE  \E i \in 1 .. n : x = names[i] /\ services[x] = Service(f, i, target)
  BY <1>2, <1>3 DEF ToSet
<1>6. ASSUME NEW i \in 1 .. n, NEW d \in Service(f, i, target).dependsOn
      PROVE  \E j \in 1 .. i - 1 : d = names[j]
  <2>1. d \in DependsOnServices(f, i, target) BY DEF Service
  <2>2. PICK x \in Upstream(f, i) : d = ServiceName(x, target)
    BY <2>1 DEF DependsOnServices, DependencyName
  <2>3. PICK j \in 1 .. i - 1 : x = Components(f)[j].id BY <1>2, UpstreamIsBefore
  <2>4. j \in 1 .. n BY <1>2
  <2> QED BY <1>2, <2>2, <2>3, <2>4
<1>7. Loadable(services)
  <2>1. PICK rank \in [ToSet(names) -> 1 .. n] : \A i \in 1 .. n : rank[names[i]] = i
    BY <1>2, DistinctRanks
  <2>2. Cardinality(ToSet(names)) = n BY <1>2, DistinctRanks
  <2>3. ASSUME NEW x \in DOMAIN services, NEW d \in services[x].dependsOn
        PROVE  d \in DOMAIN services /\ rank[d] < rank[x]
    <3>1. PICK i \in 1 .. n : x = names[i] /\ services[x] = Service(f, i, target) BY <1>5
    <3>2. PICK j \in 1 .. i - 1 : d = names[j] BY <1>6, <2>3, <3>1
    <3>3. j \in 1 .. n /\ j < i BY <1>2
    <3>4. d \in DOMAIN services BY <1>2, <1>3, <3>2, <3>3 DEF ToSet
    <3> QED BY <2>1, <3>1, <3>2, <3>3, <3>4
  <2> QED BY <1>3, <2>1, <2>2, <2>3 DEF Loadable
<1>8. ASSUME NEW i \in 1 .. n
      PROVE  Components(f)[i].id \in {services[x].component : x \in DOMAIN services}
  <2>1. names[i] \in DOMAIN services BY <1>2, <1>3 DEF ToSet
  <2>2. services[names[i]] = Service(f, i, target) BY <1>3
  <2>3. Service(f, i, target).component = Components(f)[i].id BY DEF Service
  <2> QED BY <2>1, <2>2, <2>3
<1>9. ASSUME NEW x \in DOMAIN services PROVE services[x].restart \in RestartPolicies \ {Unset}
  <2>1. PICK i \in 1 .. n : services[x] = Service(f, i, target) BY <1>5
  <2>2. services[x].restart = RestartOf(f, i) BY <2>1 DEF Service
  <2> QED BY <1>2, <2>2, TranslationKnowsRestarts
<1> QED BY <1>4, <1>7, <1>8, <1>9 DEF services

-----------------------------------------------------------------------------
(* Whatever validate accepts, of any size: the inputs of every processor   *)
(* and sink start before it, the wiring takes a pipeline of one source or  *)
(* with processors, and without processors makes the declared connections  *)
(* and no other; translate does not refuse it if it has images, and what   *)
(* comes of it Compose can start (validator.go:200,                        *)
(* stream_orchestrator.go:100, docker_compose.go:58).                      *)
THEOREM ValidatedFilesRun ==
  \A f \in PipelineFile :
    ValidatedIsRunnable(f) /\ ValidatedIsTranslatable(f) /\ TranslatesWhole(f)
BY ValidatedInputsComeFirst, ValidatedWiringIsDeclared, ValidatedTranslates, TranslationHasAll
   DEF ValidatedIsRunnable

(* A file that validate accepts, a legacy file with what it needs, and a   *)
(* file that init writes can be run and translated as they say             *)
(* (validator.go:48, loader.go:142, parser.go:175, init.go:314); and what  *)
(* translate makes of the first Compose can start, with every component    *)
(* (docker_compose.go:58, local_docker_compose.go:45).                     *)
THEOREM FilesRun == OperatorSpec => []FilesAreRunnable
<1>1. OperatorInit => FilesAreRunnable
  <2> SUFFICES ASSUME OperatorInit PROVE FilesAreRunnable OBVIOUS
  <2>1. CASE input = NoInput BY <2>1 DEF FilesAreRunnable, Is, NoInput
  <2>2. CASE InputGiven
    <3>1. ASSUME NEW f \in Files, input = <<"file", f>> PROVE FilesAreRunnable
      <4>1. ValidatedIsRunnable(f) /\ ValidatedIsTranslatable(f) /\ TranslatesWhole(f)
        BY InputsAssumption, ValidatedFilesRun
      <4> QED BY <3>1, <4>1 DEF FilesAreRunnable, Is
    <3>2. ASSUME NEW f \in LegacyFiles, input = <<"legacy", f>> PROVE FilesAreRunnable
      BY <3>2, InputsAssumption, LegacyTranslates DEF FilesAreRunnable, Is
    <3>3. ASSUME NEW c \in InitCalls, input = <<"init", c>> PROVE FilesAreRunnable
      BY <3>3, InputsAssumption, WizardWritesRunnable DEF FilesAreRunnable, Is
    <3> QED BY <2>2, <3>1, <3>2, <3>3 DEF InputGiven, FilesAreRunnable, Is
  <2> QED BY <2>1, <2>2 DEF OperatorInit
<1>2. FilesAreRunnable /\ [OperatorNext]_operatorVars => FilesAreRunnable'
  BY DEF OperatorNext, operatorVars, FilesAreRunnable, Is
<1> QED BY <1>1, <1>2, PTL DEF OperatorSpec

-----------------------------------------------------------------------------
(* Names of images: where tokens are in what is joined and parted, then the *)
(* two parsers.                                                             *)
LEMMA ConcatAssociates ==
  ASSUME NEW Values, NEW s \in Seq(Values), NEW t \in Seq(Values), NEW u \in Seq(Values)
  PROVE  (s \o t) \o u = s \o (t \o u)
OBVIOUS

(* A place where a token is found has a first and a last among its likes.  *)
LEMMA LeastPlace ==
  ASSUME NEW n \in Nat, NEW P, P \subseteq 1 .. n, P # {}
  PROVE  \E i \in P : \A j \in P : i <= j
<1> DEFINE D(i) == {j \in P : j < i}
           Lower == {D(i) : i \in P}
           R == StrictSubsetOrdering(P)
<1>1. IsFiniteSet(P)
  <2>1. IsFiniteSet(1 .. n) BY FS_Interval
  <2> QED BY <2>1, FS_Subset
<1>2. Lower \subseteq FiniteSubsetsOf(P)
  <2>1. \A i \in P : D(i) \subseteq P OBVIOUS
  <2>2. \A i \in P : IsFiniteSet(D(i)) BY <1>1, <2>1, FS_Subset
  <2> QED BY <2>1, <2>2 DEF FiniteSubsetsOf
<1>3. IsWellFoundedOn(R, FiniteSubsetsOf(P)) BY FS_StrictSubsetOrderingWellFounded
<1>4. Lower # {} OBVIOUS
<1> HIDE DEF Lower, R
<1>5. PICK x \in Lower : \A y \in Lower : ~(<<y, x>> \in R)
  BY <1>2, <1>3, <1>4, WFMin
<1>6. PICK i \in P : x = D(i) BY DEF Lower
<1>7. SUFFICES ASSUME NEW j \in P, j < i PROVE FALSE
  <2>1. \A j \in P : i \in Nat /\ j \in Nat OBVIOUS
  <2>2. \A j \in P : ~(j < i) => i <= j BY <2>1
  <2> QED BY <2>2
<1>8. D(j) \subseteq D(i) /\ j \in D(i) /\ j \notin D(j) /\ D(i) \subseteq P
  <2>1. \A k \in P : i \in Nat /\ j \in Nat /\ k \in Nat OBVIOUS
  <2>2. \A k \in P : k < j => k < i BY <1>7, <2>1
  <2>3. ~(j < j) BY <2>1
  <2> QED BY <1>7, <2>2, <2>3
<1>9. <<D(j), D(i)>> \in R BY <1>8 DEF R, StrictSubsetOrdering
<1>10. D(j) \in Lower BY DEF Lower
<1> QED BY <1>5, <1>6, <1>9, <1>10

LEMMA GreatestPlace ==
  ASSUME NEW n \in Nat, NEW P, P \subseteq 1 .. n, P # {}
  PROVE  \E i \in P : \A j \in P : i >= j
<1> DEFINE Q == {n + 1 - i : i \in P}
<1>1. \A i \in P : i \in 1 .. n OBVIOUS
<1>2. Q \subseteq 1 .. n /\ Q # {}
  <2>1. \A i \in P : n + 1 - i \in 1 .. n BY <1>1
  <2> QED BY <2>1
<1>3. PICK q \in Q : \A k \in Q : q <= k BY <1>2, LeastPlace
<1>4. PICK i \in P : q = n + 1 - i OBVIOUS
<1>5. \A j \in P : n + 1 - j \in Q OBVIOUS
<1> HIDE DEF Q
<1>6. \A j \in P : n + 1 - i <= n + 1 - j BY <1>3, <1>4, <1>5
<1> QED BY <1>1, <1>4, <1>6

(* What the places of a token are, in any name.                            *)
LEMMA FirstIs ==
  ASSUME NEW Token, NEW s \in Seq(Token), NEW t
  PROVE  /\ FirstOf(s, t) \in 0 .. Len(s)
         /\ FirstOf(s, t) = 0 <=> t \notin ToSet(s)
         /\ FirstOf(s, t) # 0 => s[FirstOf(s, t)] = t
         /\ \A i \in DOMAIN s : i < FirstOf(s, t) => s[i] # t
         /\ \A k \in DOMAIN s : s[k] = t /\ (\A i \in 1 .. k - 1 : s[i] # t) => FirstOf(s, t) = k
<1> DEFINE P == PlacesOf(s, t)
           first == FirstOf(s, t)
<1>1. DOMAIN s = 1 .. Len(s) /\ Len(s) \in Nat OBVIOUS
<1>2. P \subseteq 1 .. Len(s) /\ \A i : i \in P <=> i \in 1 .. Len(s) /\ s[i] = t
  BY <1>1 DEF PlacesOf
<1>3. P = {} <=> t \notin ToSet(s) BY <1>1, <1>2 DEF ToSet
<1>4. CASE P = {}
  <2>1. first = 0 BY <1>4 DEF FirstOf
  <2> HIDE DEF P, first
  <2>2. \A k \in DOMAIN s : s[k] # t BY <1>1, <1>2, <1>4
  <2> QED BY <1>1, <1>3, <1>4, <2>1, <2>2 DEF first
<1>5. CASE P # {}
  <2>1. \E i \in P : \A j \in P : i <= j BY <1>1, <1>2, <1>5, LeastPlace
  <2>2. first = CHOOSE i \in P : \A j \in P : i <= j BY <1>5 DEF FirstOf
  <2> HIDE DEF P, first
  <2>3. first \in P /\ \A j \in P : first <= j BY <2>1, <2>2
  <2>4. first \in 1 .. Len(s) /\ s[first] = t BY <1>2, <2>3
  <2>5. \A i \in 1 .. Len(s) : i < first => s[i] # t BY <1>2, <2>3, <2>4
  <2>6. ASSUME NEW k \in 1 .. Len(s), s[k] = t, \A i \in 1 .. k - 1 : s[i] # t PROVE first = k
    <3>1. k \in P BY <1>2, <2>6
    <3>2. first <= k BY <2>3, <3>1
    <3>3. ~(first \in 1 .. k - 1) BY <2>4, <2>6
    <3> QED BY <1>1, <2>4, <3>2, <3>3
  <2> QED BY <1>1, <1>3, <1>5, <2>4, <2>5, <2>6 DEF first
<1> QED BY <1>4, <1>5

LEMMA LastIs ==
  ASSUME NEW Token, NEW s \in Seq(Token), NEW t
  PROVE  /\ LastOf(s, t) \in 0 .. Len(s)
         /\ LastOf(s, t) = 0 <=> t \notin ToSet(s)
         /\ LastOf(s, t) # 0 => s[LastOf(s, t)] = t
         /\ \A k \in DOMAIN s : s[k] = t /\ (\A i \in k + 1 .. Len(s) : s[i] # t) => LastOf(s, t) = k
<1> DEFINE P == PlacesOf(s, t)
           last == LastOf(s, t)
<1>1. DOMAIN s = 1 .. Len(s) /\ Len(s) \in Nat OBVIOUS
<1>2. P \subseteq 1 .. Len(s) /\ \A i : i \in P <=> i \in 1 .. Len(s) /\ s[i] = t
  BY <1>1 DEF PlacesOf
<1>3. P = {} <=> t \notin ToSet(s) BY <1>1, <1>2 DEF ToSet
<1>4. CASE P = {}
  <2>1. last = 0 BY <1>4 DEF LastOf
  <2> HIDE DEF P, last
  <2>2. \A k \in DOMAIN s : s[k] # t BY <1>1, <1>2, <1>4
  <2> QED BY <1>1, <1>3, <1>4, <2>1, <2>2 DEF last
<1>5. CASE P # {}
  <2>1. \E i \in P : \A j \in P : i >= j BY <1>1, <1>2, <1>5, GreatestPlace
  <2>2. last = CHOOSE i \in P : \A j \in P : i >= j BY <1>5 DEF LastOf
  <2> HIDE DEF P, last
  <2>3. last \in P /\ \A j \in P : last >= j BY <2>1, <2>2
  <2>4. last \in 1 .. Len(s) /\ s[last] = t BY <1>2, <2>3
  <2>6. ASSUME NEW k \in 1 .. Len(s), s[k] = t, \A i \in k + 1 .. Len(s) : s[i] # t PROVE last = k
    <3>1. k \in P BY <1>2, <2>6
    <3>2. last >= k BY <2>3, <3>1
    <3>3. ~(last \in k + 1 .. Len(s)) BY <2>4, <2>6
    <3> QED BY <1>1, <2>4, <3>2, <3>3
  <2> QED BY <1>1, <1>3, <1>5, <2>4, <2>6 DEF last
<1> QED BY <1>4, <1>5

LEMMA FirstIsAt ==
  ASSUME NEW Token, NEW s \in Seq(Token), NEW t, NEW k \in DOMAIN s,
         s[k] = t, \A i \in 1 .. k - 1 : s[i] # t
  PROVE  FirstOf(s, t) = k
BY FirstIs

LEMMA LastIsAt ==
  ASSUME NEW Token, NEW s \in Seq(Token), NEW t, NEW k \in DOMAIN s,
         s[k] = t, \A i \in k + 1 .. Len(s) : s[i] # t
  PROVE  LastOf(s, t) = k
BY LastIs

(* What is joined by a separator is parted there again.                    *)
LEMMA PartedAt ==
  ASSUME NEW Token, NEW a \in Seq(Token), NEW b \in Seq(Token), NEW t \in Token
  PROVE  LET s == a \o <<t>> \o b
             n == Len(a) + 1 IN
         /\ s \in Seq(Token) /\ Len(s) = n + Len(b)
         /\ Before(s, n) = a /\ After(s, n) = b
         /\ t \notin ToSet(a) => FirstOf(s, t) = n
         /\ t \notin ToSet(b) => LastOf(s, t) = n
         /\ ToSet(s) = ToSet(a) \cup {t} \cup ToSet(b)
         /\ n \in DOMAIN s /\ s[n] = t
<1> DEFINE whole == a \o <<t>> \o b
           spot == Len(a) + 1
<1> SUFFICES ASSUME NEW s, s = whole
             PROVE  /\ s \in Seq(Token) /\ Len(s) = spot + Len(b)
                    /\ Before(s, spot) = a /\ After(s, spot) = b
                    /\ t \notin ToSet(a) => FirstOf(s, t) = spot
                    /\ t \notin ToSet(b) => LastOf(s, t) = spot
                    /\ ToSet(s) = ToSet(a) \cup {t} \cup ToSet(b)
                    /\ spot \in DOMAIN s /\ s[spot] = t
  OBVIOUS
<1> DEFINE n == Len(a)
           m == Len(b)
<1>1. n \in Nat /\ m \in Nat /\ DOMAIN a = 1 .. n /\ DOMAIN b = 1 .. m OBVIOUS
<1>2. s \in Seq(Token) /\ Len(s) = n + 1 + m /\ DOMAIN s = 1 .. n + 1 + m OBVIOUS
<1>3. (\A i \in 1 .. n : s[i] = a[i]) /\ s[n + 1] = t /\ (\A i \in 1 .. m : s[n + 1 + i] = b[i])
  OBVIOUS
<1>4. Before(s, n + 1) = a
  <2>1. Before(s, n + 1) = SubSeq(s, 1, n) BY <1>1 DEF Before
  <2>2. SubSeq(s, 1, n) = [i \in 1 .. n |-> s[i]] BY <1>1, <1>2
  <2>3. a = [i \in 1 .. n |-> a[i]] OBVIOUS
  <2> HIDE DEF n, m
  <2> QED BY <1>3, <2>1, <2>2, <2>3
<1>5. After(s, n + 1) = b
  <2>1. After(s, n + 1) = SubSeq(s, n + 2, n + 1 + m) BY <1>1, <1>2 DEF After
  <2>2. SubSeq(s, n + 2, n + 1 + m) = [i \in 1 .. m |-> s[n + 1 + i]]
    <3> HIDE DEF n, m
    <3>1. SubSeq(s, n + 2, n + 1 + m) = [i \in 1 .. (n + 1 + m) - (n + 2) + 1 |-> s[(n + 2) + i - 1]]
      BY <1>1, <1>2
    <3>2. (n + 1 + m) - (n + 2) + 1 = m /\ \A i \in 1 .. m : (n + 2) + i - 1 = n + 1 + i BY <1>1
    <3> QED BY <3>1, <3>2
  <2>3. b = [i \in 1 .. m |-> b[i]] OBVIOUS
  <2> HIDE DEF n, m
  <2> QED BY <1>3, <2>1, <2>2, <2>3
<1> HIDE DEF n, m
<1>6. n + 1 \in DOMAIN s BY <1>1, <1>2
<1>7. ASSUME t \notin ToSet(a) PROVE FirstOf(s, t) = n + 1
  <2>1. \A i \in 1 .. n : a[i] # t BY <1>1, <1>7 DEF ToSet
  <2>2. \A i \in 1 .. (n + 1) - 1 : s[i] # t BY <1>1, <1>3, <2>1
  <2> QED BY <1>2, <1>3, <1>6, <2>2, FirstIsAt
<1>8. ASSUME t \notin ToSet(b) PROVE LastOf(s, t) = n + 1
  <2>1. \A i \in 1 .. m : b[i] # t BY <1>1, <1>8 DEF ToSet
  <2>2. \A i \in (n + 1) + 1 .. n + 1 + m : i - (n + 1) \in 1 .. m /\ n + 1 + (i - (n + 1)) = i
    BY <1>1
  <2>3. \A i \in (n + 1) + 1 .. n + 1 + m : s[i] # t
    <3> TAKE i \in (n + 1) + 1 .. n + 1 + m
    <3> DEFINE k == i - (n + 1)
    <3>1. k \in 1 .. m /\ n + 1 + k = i BY <2>2
    <3> HIDE DEF k
    <3>2. s[n + 1 + k] = b[k] /\ b[k] # t BY <1>3, <2>1, <3>1
    <3> QED BY <3>1, <3>2
  <2> QED BY <1>2, <1>3, <1>6, <2>3, LastIsAt
<1>9. ToSet(s) = ToSet(a) \cup {t} \cup ToSet(b)
  <2>0. <<t>> \in Seq(Token) OBVIOUS
  <2>1. ToSet(a \o <<t>>) = ToSet(a) \cup ToSet(<<t>>) BY ZenonT(60), <2>0, ConcatSet
  <2>2. ToSet(<<t>>) = {t} BY DEF ToSet
  <2>3. a \o <<t>> \in Seq(Token) OBVIOUS
  <2>4. ToSet((a \o <<t>>) \o b) = ToSet(a \o <<t>>) \cup ToSet(b)
    <3> DEFINE start == a \o <<t>>
    <3>1. start \in Seq(Token) BY <2>3
    <3> HIDE DEF start
    <3>2. ToSet(start \o b) = ToSet(start) \cup ToSet(b) BY <3>1, ConcatSet
    <3> QED BY <3>2 DEF start
  <2> QED BY <2>1, <2>2, <2>4
<1> QED BY <1>2, <1>3, <1>4, <1>5, <1>6, <1>7, <1>8, <1>9 DEF n, m

(* What is before and after a spot is of the name's tokens.               *)
LEMMA PartsOf ==
  ASSUME NEW Token, NEW s \in Seq(Token), NEW i \in 1 .. Len(s)
  PROVE  /\ Before(s, i) \in Seq(Token) /\ ToSet(Before(s, i)) \subseteq ToSet(s)
         /\ After(s, i) \in Seq(Token) /\ ToSet(After(s, i)) \subseteq ToSet(s)
         /\ Len(Before(s, i)) = i - 1 /\ \A k \in 1 .. i - 1 : Before(s, i)[k] = s[k]
         /\ \A k \in i + 1 .. Len(s) : s[k] \in ToSet(After(s, i))
<1> DEFINE n == Len(s)
           b == Before(s, i)
           a == After(s, i)
<1>1. n \in Nat /\ DOMAIN s = 1 .. n /\ i \in Nat /\ 1 <= i /\ i <= n OBVIOUS
<1>2. b \in Seq(Token) /\ Len(b) = i - 1 /\ \A k \in 1 .. i - 1 : b[k] = s[k]
  BY <1>1 DEF Before
<1>3. a \in Seq(Token) /\ Len(a) = n - i /\ \A k \in 1 .. n - i : a[k] = s[i + k]
  <2>1. a \in Seq(Token) BY <1>1 DEF After
  <2>2. SubSeq(s, i + 1, n) = [k \in 1 .. n - (i + 1) + 1 |-> s[(i + 1) + k - 1]]
    <3> HIDE DEF n
    <3> QED BY <1>1
  <2>3. n - (i + 1) + 1 = n - i /\ n - i \in Nat /\ \A k \in 1 .. n - i : (i + 1) + k - 1 = i + k
    <3> HIDE DEF n
    <3> QED BY <1>1
  <2>4. a = SubSeq(s, i + 1, n) BY DEF After
  <2> HIDE DEF n, a
  <2>5. a = [k \in 1 .. n - i |-> s[i + k]] BY <2>2, <2>3, <2>4
  <2>6. Len(a) = n - i BY <2>1, <2>3, <2>5
  <2> QED BY <2>1, <2>5, <2>6
<1> HIDE DEF n, b, a
<1>4. DOMAIN b = 1 .. i - 1 /\ DOMAIN a = 1 .. n - i BY <1>2, <1>3
<1>5. ToSet(b) \subseteq ToSet(s)
  <2>1. \A k \in 1 .. i - 1 : k \in 1 .. n BY <1>1
  <2> QED BY <1>1, <1>2, <1>4, <2>1 DEF ToSet
<1>6. ToSet(a) \subseteq ToSet(s)
  <2>1. \A k \in 1 .. n - i : i + k \in 1 .. n BY <1>1
  <2> QED BY <1>1, <1>3, <1>4, <2>1 DEF ToSet
<1>7. \A k \in i + 1 .. n : s[k] \in ToSet(a)
  <2>1. \A k \in i + 1 .. n : k - i \in 1 .. n - i /\ i + (k - i) = k BY <1>1
  <2>2. \A k \in i + 1 .. n : a[k - i] = s[k] BY <1>3, <2>1
  <2> QED BY <1>4, <2>1, <2>2 DEF ToSet
<1> QED BY <1>2, <1>3, <1>5, <1>6, <1>7 DEF n, a, b

LEMMA AfterIt ==
  ASSUME NEW Token, NEW s \in Seq(Token), NEW i \in 1 .. Len(s), NEW k \in i + 1 .. Len(s)
  PROVE  s[k] \in ToSet(After(s, i))
BY PartsOf

(* A host, a slash and a repository are located as those; a colon in the   *)
(* host is none of a tag.                                                  *)
LEMMA LocatedAgain ==
  ASSUME NEW Token, "/" \in Token, ":" \in Token, NEW host \in Seq(Token), NEW repository \in Seq(Token),
         "/" \notin ToSet(host), IsRegistryHost(host)
  PROVE  LET path == host \o <<"/">> \o repository IN
         /\ path \in Seq(Token) /\ path # <<>> /\ Located(path) = <<host, repository>>
         /\ ":" \notin ToSet(repository) => TagAt(path) = 0
         /\ ToSet(path) = ToSet(host) \cup {"/"} \cup ToSet(repository)
<1> DEFINE n == Len(host) + 1
           path == host \o <<"/">> \o repository
<1>1. /\ path \in Seq(Token) /\ Before(path, n) = host /\ After(path, n) = repository
      /\ FirstOf(path, "/") = n /\ n \in DOMAIN path /\ path[n] = "/"
      /\ ToSet(path) = ToSet(host) \cup {"/"} \cup ToSet(repository)
      /\ Len(path) = n + Len(repository)
  <2>1. path \in Seq(Token) /\ Len(path) = n + Len(repository) BY PartedAt
  <2>2. Before(path, n) = host /\ After(path, n) = repository BY PartedAt
  <2>3. FirstOf(path, "/") = n BY PartedAt
  <2>4. n \in DOMAIN path /\ path[n] = "/" BY PartedAt
  <2>5. ToSet(path) = ToSet(host) \cup {"/"} \cup ToSet(repository) BY PartedAt
  <2> QED BY <2>1, <2>2, <2>3, <2>4, <2>5
<1> HIDE DEF path
<1>2. n \in Nat /\ n # 0 /\ n \in 1 .. Len(path) /\ path # <<>> BY <1>1
<1> HIDE DEF n
<1>3. Located(path) = <<host, repository>> BY <1>1, <1>2 DEF Located
<1>4. ASSUME ":" \notin ToSet(repository) PROVE TagAt(path) = 0
  <2> DEFINE last == LastOf(path, ":")
  <2>1. SUFFICES ASSUME last # 0 PROVE "/" \in ToSet(After(path, last))
    BY DEF TagAt, TagColon
  <2>2. last \in 1 .. Len(path) /\ path[last] = ":"
    <3>1. last \in 0 .. Len(path) /\ (last # 0 => path[last] = ":") BY <1>1, LastIs
    <3> HIDE DEF last
    <3> QED BY <1>1, <2>1, <3>1
  <2>3. \A k \in n + 1 .. Len(path) : path[k] \in ToSet(After(path, n))
    BY <1>1, <1>2, AfterIt
  <2> HIDE DEF last
  <2>4. last # n /\ last \notin n + 1 .. Len(path)
    <3>1. path[n] = "/" /\ path[last] = ":" /\ After(path, n) = repository BY <1>1, <2>2
    <3> QED BY <1>4, <2>3, <3>1
  <2>5. n \in last + 1 .. Len(path) BY <1>2, <2>2, <2>4
  <2>6. path[n] \in ToSet(After(path, last)) BY <1>1, <2>2, <2>5, AfterIt
  <2> QED BY <1>1, <2>6
<1> QED BY <1>1, <1>2, <1>3, <1>4 DEF path

Separators == {"/", ":", "@"}
Words == Separators \cup {Docker, Library, Latest}
Digests == {<<"sha256", ":", "hex">>, <<"sha512", ":", "hex">>}

(* What a reference that is accepted is made of.                           *)
LEMMA ReferenceParts ==
  ASSUME NEW Token, Words \subseteq Token, NEW raw \in Seq(Token),
         NEW r, r = ParseImageReference(raw), r # NoReference
  PROVE  /\ r.registry \in Seq(Token) /\ "/" \notin ToSet(r.registry) /\ "@" \notin ToSet(r.registry)
         /\ IsRegistryHost(r.registry)
         /\ r.repository \in Seq(Token) /\ "@" \notin ToSet(r.repository) /\ r.repository # <<>>
         /\ r.digest \in Digests \/ (r.digest = <<>> /\ \E word \in TagWords : r.tag = <<word>>)
         /\ r = Reference(r.registry, r.repository, r.tag, r.digest)
<1> DEFINE sign == FirstOf(raw, "@")
           digest == IF sign = 0 THEN <<>> ELSE After(raw, sign)
           ref == IF sign = 0 THEN raw ELSE Before(raw, sign)
           colon == TagAt(ref)
           path == IF colon = 0 THEN ref ELSE Before(ref, colon)
           given == IF colon = 0 THEN <<>> ELSE After(ref, colon)
           tag == IF given = <<>> /\ digest = <<>> THEN <<Latest>> ELSE given
           slash == FirstOf(path, "/")
           host == Before(path, slash)
           Fine(l) == /\ l[1] \in Seq(Token) /\ "/" \notin ToSet(l[1]) /\ "@" \notin ToSet(l[1])
                      /\ IsRegistryHost(l[1]) /\ l[2] \in Seq(Token) /\ "@" \notin ToSet(l[2])
<1>1. /\ sign # 0 => IsValidDigest(digest)
      /\ Located(path)[2] # <<>> /\ IsValidTag(tag)
      /\ r = Reference(Located(path)[1], Located(path)[2], tag, digest)
  BY DEF ParseImageReference
<1>2. sign \in 0 .. Len(raw) /\ (sign = 0 <=> "@" \notin ToSet(raw)) /\ \A i \in DOMAIN raw : i < sign => raw[i] # "@"
  BY FirstIs
<1>3. ref \in Seq(Token) /\ "@" \notin ToSet(ref)
  <2> HIDE DEF sign
  <2>1. CASE sign = 0 BY <1>2, <2>1
  <2>2. CASE sign # 0
    <3>1. sign \in 1 .. Len(raw) BY <1>2, <2>2
    <3>2. /\ Before(raw, sign) \in Seq(Token) /\ \A k \in 1 .. sign - 1 : Before(raw, sign)[k] = raw[k]
          /\ \A k \in 1 .. sign - 1 : Len(Before(raw, sign)) = sign - 1
      BY <3>1, PartsOf
    <3>3. Len(Before(raw, sign)) = sign - 1 BY <3>1 DEF Before
    <3>4. \A k \in 1 .. sign - 1 : k \in DOMAIN raw /\ k < sign BY <3>1
    <3>5. \A k \in 1 .. sign - 1 : Before(raw, sign)[k] # "@" BY <1>2, <3>2, <3>4
    <3>6. DOMAIN Before(raw, sign) = 1 .. sign - 1 BY <3>2, <3>3
    <3> QED BY <2>2, <3>2, <3>5, <3>6 DEF ToSet
  <2> QED BY <2>1, <2>2
<1> HIDE DEF sign, ref, digest
<1>4. path \in Seq(Token) /\ "@" \notin ToSet(path)
  <2>1. colon \in 0 .. Len(ref) BY <1>3, LastIs DEF TagAt, TagColon
  <2> HIDE DEF colon
  <2>2. CASE colon = 0 BY <1>3, <2>2
  <2>3. CASE colon # 0
    <3>1. colon \in 1 .. Len(ref) BY <2>1, <2>3, <1>3
    <3> QED BY <1>3, <2>3, <3>1, PartsOf
  <2> QED BY <2>2, <2>3
<1>12. given \in Seq(Token)
  <2>1. colon \in 0 .. Len(ref) BY <1>3, LastIs DEF TagAt, TagColon
  <2> HIDE DEF colon
  <2>2. CASE colon # 0
    <3>1. colon \in 1 .. Len(ref) BY <2>1, <2>2, <1>3
    <3> QED BY <1>3, <2>2, <3>1, PartsOf
  <2> QED BY <2>2
<1> HIDE DEF path, given, colon
<1>5. slash \in 0 .. Len(path) /\ (\A i \in DOMAIN path : i < slash => path[i] # "/") BY <1>4, FirstIs
<1>7. <<Docker>> \in Seq(Token) /\ "/" \notin ToSet(<<Docker>>) /\ "@" \notin ToSet(<<Docker>>) /\ IsRegistryHost(<<Docker>>)
  <2>1. Docker \in Token /\ Docker # "/" /\ Docker # "@" BY DEF Words, Docker
  <2>2. ToSet(<<Docker>>) = {Docker} BY DEF ToSet
  <2>3. Docker \in DottedWords BY WordsAssumption
  <2> HIDE DEF Docker
  <2>4. <<Docker>> \in Seq(Token) BY <2>1
  <2> QED BY <2>1, <2>2, <2>3, <2>4 DEF IsRegistryHost
<1>6. ASSUME slash = 0 PROVE Fine(Located(path))
  <2>1. Located(path) = <<<<Docker>>, <<Library, "/">> \o path>> BY <1>6 DEF Located
  <2>2. <<Library, "/">> \in Seq(Token) BY DEF Words, Separators
  <2>3. ToSet(<<Library, "/">>) = {Library, "/"} BY DEF ToSet
  <2>4. ToSet(<<Library, "/">> \o path) = {Library, "/"} \cup ToSet(path)
    <3> DEFINE start == <<Library, "/">>
    <3>1. start \in Seq(Token) /\ ToSet(start) = {Library, "/"} BY <2>2, <2>3
    <3> HIDE DEF start
    <3>2. ToSet(start \o path) = ToSet(start) \cup ToSet(path) BY <1>4, <3>1, ConcatSet
    <3> QED BY <3>1, <3>2 DEF start
  <2>5. <<Library, "/">> \o path \in Seq(Token) BY <1>4, <2>2
  <2>6. "@" \notin {Library, "/"} BY DEF Library
  <2> HIDE DEF Library
  <2>7. "@" \notin ToSet(<<Library, "/">> \o path) BY <1>4, <2>4, <2>6
  <2> HIDE DEF path, Docker
  <2>8. Located(path)[1] = <<Docker>> /\ Located(path)[2] = <<Library, "/">> \o path BY <2>1
  <2> QED BY <1>7, <2>5, <2>7, <2>8
<1>8. ASSUME slash # 0, ~IsRegistryHost(host) PROVE Fine(Located(path))
  <2>1. Located(path) = <<<<Docker>>, path>> BY <1>8 DEF Located
  <2> QED BY <1>4, <1>7, <2>1
<1>9. ASSUME slash # 0, IsRegistryHost(host) PROVE Fine(Located(path))
  <2>1. Located(path) = <<host, After(path, slash)>> BY <1>9 DEF Located
  <2>2. slash \in 1 .. Len(path) BY <1>4, <1>5, <1>9
  <2>3. /\ host \in Seq(Token) /\ ToSet(host) \subseteq ToSet(path)
        /\ After(path, slash) \in Seq(Token) /\ ToSet(After(path, slash)) \subseteq ToSet(path)
        /\ Len(host) = slash - 1 /\ \A k \in 1 .. slash - 1 : host[k] = path[k]
    BY <1>4, <2>2, PartsOf
  <2>4. \A k \in 1 .. slash - 1 : k \in DOMAIN path /\ k < slash BY <1>4, <2>2
  <2> HIDE DEF slash, host
  <2>5. DOMAIN host = 1 .. slash - 1 BY <2>2, <2>3
  <2>6. "/" \notin ToSet(host) BY <1>5, <2>3, <2>4, <2>5 DEF ToSet
  <2> QED BY <1>4, <1>9, <2>1, <2>3, <2>6
<1>10. Located(path)[1] = r.registry /\ Located(path)[2] = r.repository /\ tag = r.tag /\ digest = r.digest
  BY <1>1 DEF Reference
<1>11. r.digest \in Digests \/ (r.digest = <<>> /\ \E word \in TagWords : r.tag = <<word>>)
  <2>1. CASE sign # 0 BY <1>1, <1>10, <2>1 DEF IsValidDigest, Digests
  <2>2. CASE sign = 0
    <3>1. digest = <<>> BY <2>2 DEF digest
    <3>2. tag # <<>> /\ tag = (IF given = <<>> THEN <<Latest>> ELSE given) BY <3>1
    <3>3. Len(tag) = 1 /\ tag[1] \in TagWords BY <1>1, <3>2 DEF IsValidTag
    <3>4. given \in Seq(Token) BY <1>12
    <3>5. tag \in Seq(Token) BY <3>2, <3>4 DEF Words
    <3> HIDE DEF tag
    <3>6. tag = <<tag[1]>> BY <3>3, <3>5
    <3> QED BY <1>10, <3>1, <3>3, <3>6
  <2> QED BY SMTT(30), <2>1, <2>2
<1> QED
  <2>1. r = Reference(r.registry, r.repository, r.tag, r.digest) BY <1>1, <1>10
  <2>3. Fine(Located(path)) BY SMTT(30), <1>6, <1>8, <1>9
  <2> HIDE DEF tag, slash, host
  <2>2. r.repository # <<>> BY <1>1, <1>10
  <2> QED BY SMTT(30), <1>10, <1>11, <2>1, <2>2, <2>3

(* The parser, part by part.                                               *)
LEMMA WithoutDigest ==
  ASSUME NEW raw, FirstOf(raw, "@") = 0, raw # <<>>, NEW colon, colon = TagAt(raw), colon # 0,
         NEW l, l = Located(Before(raw, colon)), l[2] # <<>>,
         After(raw, colon) # <<>>, IsValidTag(After(raw, colon))
  PROVE  ParseImageReference(raw) = Reference(l[1], l[2], After(raw, colon), <<>>)
BY DEF ParseImageReference

LEMMA WithDigest ==
  ASSUME NEW raw, raw # <<>>, NEW sign, sign = FirstOf(raw, "@"), sign # 0, IsValidDigest(After(raw, sign)),
         NEW ref, ref = Before(raw, sign), TagAt(ref) = 0, NEW l, l = Located(ref), l[2] # <<>>
  PROVE  ParseImageReference(raw) = Reference(l[1], l[2], <<>>, After(raw, sign))
<1>1. After(raw, sign) # <<>> BY DEF IsValidDigest
<1> QED BY <1>1 DEF ParseImageReference, IsValidTag

LEMMA DigestsAre ==
  ASSUME NEW digest \in Digests
  PROVE  digest # <<>> /\ digest \in Seq({":", "sha256", "sha512", "hex"})
<1>1. CASE digest = <<"sha256", ":", "hex">> BY <1>1
<1>2. CASE digest = <<"sha512", ":", "hex">> BY <1>2
<1> QED BY <1>1, <1>2 DEF Digests

(* The canonical string of a reference is read as that reference.          *)
LEMMA ReadBack ==
  ASSUME NEW Token, Words \cup TagWords \subseteq Token, NEW raw \in Seq(Token)
  PROVE  StringIsReadBack(raw)
<1> DEFINE r == ParseImageReference(raw)
           path == r.registry \o <<"/">> \o r.repository
<1> SUFFICES ASSUME r # NoReference, ":" \notin ToSet(r.repository)
             PROVE  ParseImageReference(StringOf(r)) =
                      (IF r.digest # <<>> THEN [r EXCEPT !.tag = <<>>] ELSE r)
  BY DEF StringIsReadBack
<1>1. /\ r.registry \in Seq(Token) /\ "/" \notin ToSet(r.registry) /\ "@" \notin ToSet(r.registry)
      /\ IsRegistryHost(r.registry)
      /\ r.repository \in Seq(Token) /\ "@" \notin ToSet(r.repository) /\ r.repository # <<>>
      /\ r.digest \in Digests \/ (r.digest = <<>> /\ \E word \in TagWords : r.tag = <<word>>)
      /\ r = Reference(r.registry, r.repository, r.tag, r.digest)
  BY ReferenceParts
<1> HIDE DEF r
<1>2. "/" \in Token /\ ":" \in Token /\ "@" \in Token BY DEF Words, Separators
<1>3. /\ path \in Seq(Token) /\ path # <<>> /\ Located(path) = <<r.registry, r.repository>>
      /\ TagAt(path) = 0 /\ ToSet(path) = ToSet(r.registry) \cup {"/"} \cup ToSet(r.repository)
  BY <1>1, <1>2, LocatedAgain
<1>4. "@" \notin ToSet(path) BY <1>1, <1>3
<1> HIDE DEF path
<1>5. CASE r.digest \in Digests
  <2> DEFINE w == path \o <<"@">> \o r.digest
             n == Len(path) + 1
  <2>1. r.digest # <<>> BY <1>5, DigestsAre
  <2>2. r.digest \in Seq(Token \cup {"sha256", "sha512", "hex"})
    <3>1. r.digest \in Seq({":", "sha256", "sha512", "hex"}) BY <1>5, DigestsAre
    <3> QED BY <1>2, <3>1
  <2>3. path \in Seq(Token \cup {"sha256", "sha512", "hex"}) BY <1>3
  <2>4. StringOf(r) = w
    <3>1. StringOf(r) = path \o (<<"@">> \o r.digest) BY <2>1 DEF StringOf, path
    <3>2. <<"@">> \in Seq(Token \cup {"sha256", "sha512", "hex"}) BY <1>2
    <3>3. (path \o <<"@">>) \o r.digest = path \o (<<"@">> \o r.digest)
      <4> DEFINE mark == <<"@">>
                 digest == r.digest
                 All == Token \cup {"sha256", "sha512", "hex"}
      <4>1. path \in Seq(All) /\ mark \in Seq(All) /\ digest \in Seq(All) BY <2>2, <2>3, <3>2
      <4> HIDE DEF mark, digest, All
      <4>2. (path \o mark) \o digest = path \o (mark \o digest) BY <4>1, ConcatAssociates
      <4> QED BY <4>2 DEF mark, digest
    <3> QED BY <3>1, <3>3
  <2>5. /\ Len(w) = n + Len(r.digest) /\ Before(w, n) = path /\ After(w, n) = r.digest
        /\ FirstOf(w, "@") = n
    <3>1. "@" \in Token \cup {"sha256", "sha512", "hex"} BY <1>2
    <3> QED BY <1>4, <2>2, <2>3, <3>1, PartedAt
  <2>6. n # 0 /\ n \in Nat BY <1>3
  <2>7. w # <<>> BY <2>1, <2>5, <2>6, <2>2, <2>3
  <2> HIDE DEF w, n
  <2>8. IsValidDigest(After(w, n)) BY <1>5, <2>5 DEF IsValidDigest, Digests
  <2>9. ParseImageReference(w) = Reference(r.registry, r.repository, <<>>, r.digest)
    <3> DEFINE l == Located(path)
    <3>1. l[1] = r.registry /\ l[2] = r.repository BY <1>3
    <3> HIDE DEF l
    <3>2. ParseImageReference(w) = Reference(l[1], l[2], <<>>, After(w, n))
      BY <1>1, <1>3, <2>5, <2>6, <2>7, <2>8, <3>1, WithDigest DEF l
    <3> QED BY <2>5, <3>1, <3>2
  <2>10. [r EXCEPT !.tag = <<>>] = Reference(r.registry, r.repository, <<>>, r.digest)
    BY <1>1 DEF Reference
  <2> QED BY <2>1, <2>4, <2>9, <2>10
<1>6. CASE r.digest = <<>> /\ \E word \in TagWords : r.tag = <<word>>
  <2> DEFINE w == path \o <<":">> \o r.tag
             n == Len(path) + 1
  <2>1. PICK word \in TagWords : r.tag = <<word>> BY <1>6
  <2>2. word \notin Separators BY WordsAssumption DEF Separators
  <2>3. r.tag \in Seq(Token) /\ ToSet(r.tag) = {word} /\ r.tag # <<>> BY <2>1 DEF ToSet
  <2>4. StringOf(r) = w
    <3>1. StringOf(r) = path \o (<<":">> \o r.tag) BY <1>6 DEF StringOf, path
    <3>2. <<":">> \in Seq(Token) BY <1>2
    <3>3. (path \o <<":">>) \o r.tag = path \o (<<":">> \o r.tag)
      <4> DEFINE mark == <<":">>
                 tag == r.tag
      <4>1. path \in Seq(Token) /\ mark \in Seq(Token) /\ tag \in Seq(Token) BY <1>3, <2>3, <3>2
      <4> HIDE DEF mark, tag
      <4>2. (path \o mark) \o tag = path \o (mark \o tag) BY <4>1, ConcatAssociates
      <4> QED BY <4>2 DEF mark, tag
    <3> QED BY <3>1, <3>3
  <2>5. /\ w \in Seq(Token) /\ Len(w) = n + Len(r.tag) /\ Before(w, n) = path /\ After(w, n) = r.tag
        /\ ":" \notin ToSet(r.tag) => LastOf(w, ":") = n
        /\ ToSet(w) = ToSet(path) \cup {":"} \cup ToSet(r.tag)
    BY <1>2, <1>3, <2>3, PartedAt
  <2>6. n # 0 /\ n \in Nat BY <1>3
  <2>7. w # <<>> BY <2>3, <2>5, <2>6
  <2> HIDE DEF w, n
  <2>8. FirstOf(w, "@") = 0
    <3>1. "@" \notin ToSet(w) BY <1>4, <2>2, <2>3, <2>5 DEF Separators
    <3> QED BY <2>5, <3>1, FirstIs
  <2>9. TagAt(w) = n
    <3>1. ":" \notin ToSet(r.tag) /\ "/" \notin ToSet(r.tag) BY <2>2, <2>3 DEF Separators
    <3> QED BY <2>5, <2>6, <3>1 DEF TagAt, TagColon
  <2>10. IsValidTag(r.tag) BY <2>1 DEF IsValidTag
  <2>11. ParseImageReference(w) = Reference(r.registry, r.repository, r.tag, <<>>)
    <3> DEFINE l == Located(path)
    <3>1. l[1] = r.registry /\ l[2] = r.repository BY <1>3
    <3> HIDE DEF l
    <3>2. ParseImageReference(w) = Reference(l[1], l[2], After(w, n), <<>>)
      BY <1>1, <2>3, <2>5, <2>6, <2>7, <2>8, <2>9, <2>10, <3>1, WithoutDigest DEF l
    <3> QED BY <2>5, <3>1, <3>2
  <2> QED BY <1>1, <1>6, <2>4, <2>11
<1> QED BY <1>1, <1>5, <1>6

(* The image of a component bears the version asked for.                   *)
LEMMA VersionTagged ==
  ASSUME NEW Token, Words \subseteq Token, "withobsrvr" \in Token, NEW ref \in Seq(Token)
  PROVE  VersionIsTheTag(ref)
<1> DEFINE c == ParseComponentRef(ref)
           r == BuildImageReference(c[1], c[2])
           sign == FirstOf(ref, "@")
           org == IF "/" \in ToSet(c[1]) THEN <<>> ELSE <<"withobsrvr", "/">>
<1> SUFFICES ASSUME c # <<>>, Len(c[2]) = 1, c[2][1] \notin {"/", ":"}, r # NoReference
             PROVE  r.tag = c[2] /\ r.registry = <<Docker>>
  BY DEF VersionIsTheTag
<1>1. Cardinality(PlacesOf(ref, "@")) = 1 /\ c[1] = Before(ref, sign) /\ c[2] = After(ref, sign)
  BY DEF ParseComponentRef
<1>2. sign \in 1 .. Len(ref) /\ ref[sign] = "@" /\ \A i \in 1 .. Len(ref) : ref[i] = "@" => i = sign
  <2>1. PlacesOf(ref, "@") \subseteq 1 .. Len(ref) /\ \A i : i \in PlacesOf(ref, "@") <=> i \in 1 .. Len(ref) /\ ref[i] = "@"
    BY DEF PlacesOf
  <2>2. IsFiniteSet(PlacesOf(ref, "@"))
    <3>1. IsFiniteSet(1 .. Len(ref)) BY FS_Interval
    <3> QED BY <2>1, <3>1, FS_Subset
  <2>3. PICK i : PlacesOf(ref, "@") = {i} BY <1>1, <2>2, FS_Singleton
  <2>4. i \in 1 .. Len(ref) /\ ref[i] = "@" /\ \A k \in 1 .. i - 1 : ref[k] # "@" BY <2>1, <2>3
  <2>5. sign = i BY <2>4, FirstIsAt
  <2> QED BY <2>1, <2>3, <2>4, <2>5
<1>3. /\ c[1] \in Seq(Token) /\ c[2] \in Seq(Token) /\ Len(c[1]) = sign - 1
      /\ \A k \in 1 .. sign - 1 : c[1][k] = ref[k]
  <2>1. /\ Before(ref, sign) \in Seq(Token) /\ After(ref, sign) \in Seq(Token) /\ Len(Before(ref, sign)) = sign - 1
        /\ \A k \in 1 .. sign - 1 : Before(ref, sign)[k] = ref[k]
    <3> HIDE DEF sign
    <3> QED BY <1>2, PartsOf
  <2> QED BY <1>1, <2>1
<1>4. "@" \notin ToSet(c[1])
  <2> HIDE DEF sign, c
  <2>1. DOMAIN c[1] = 1 .. sign - 1 BY <1>2, <1>3
  <2>2. \A k \in 1 .. sign - 1 : ref[k] # "@" BY <1>2
  <2> QED BY <1>3, <2>1, <2>2 DEF ToSet
<1>5. PICK version \in Token : c[2] = <<version>>
  <2> HIDE DEF c
  <2>1. c[2] = <<c[2][1]>> /\ c[2][1] \in Token BY <1>3
  <2> QED BY <2>1
<1>6. ToSet(c[2]) = {version} /\ version \notin Separators
  <2>1. ToSet(c[2]) = {version} BY <1>5 DEF ToSet
  <2>2. version \notin {"/", ":"} BY <1>5
  <2>3. version # "@"
    <3> HIDE DEF sign, c
    <3>1. Len(After(ref, sign)) = 1 BY <1>1, <1>5
    <3>2. After(ref, sign)[1] = version BY <1>1, <1>5
    <3>3. sign + 1 \in 1 .. Len(ref) /\ ref[sign + 1] = version
      <4>1. After(ref, sign) = SubSeq(ref, sign + 1, Len(ref)) BY DEF After
      <4> QED BY <1>2, <3>1, <3>2, <4>1
    <3> QED BY <1>2, <3>3
  <2> QED BY <2>1, <2>2, <2>3 DEF Separators
<1> HIDE DEF c, sign
<1> DEFINE rest == org \o c[1]
           path == <<Docker>> \o <<"/">> \o rest
           raw == path \o <<":">> \o c[2]
           n == Len(path) + 1
<1>7. "/" \in Token /\ ":" \in Token /\ Docker \in Token BY DEF Words, Separators
<1>8. rest \in Seq(Token) /\ "@" \notin ToSet(rest)
  <2>1. org \in Seq(Token) /\ ToSet(org) \subseteq {"withobsrvr", "/"}
    <3>1. <<"withobsrvr", "/">> \in Seq(Token) BY <1>7
    <3>2. ToSet(<<"withobsrvr", "/">>) = {"withobsrvr", "/"} BY DEF ToSet
    <3>3. <<>> \in Seq(Token) /\ ToSet(<<>>) = {} BY DEF ToSet
    <3> QED BY <3>1, <3>2, <3>3
  <2> HIDE DEF org
  <2>2. ToSet(rest) = ToSet(org) \cup ToSet(c[1]) BY <1>3, <2>1, ConcatSet
  <2> QED BY <1>3, <1>4, <2>1, <2>2
<1>9. r = ParseImageReference(raw)
  <2>1. r = ParseImageReference(<<Docker, "/">> \o org \o c[1] \o <<":">> \o c[2])
    BY DEF BuildImageReference
  <2>2. <<Docker, "/">> = <<Docker>> \o <<"/">> OBVIOUS
  <2>3. <<Docker, "/">> \o org \o c[1] = path
    <3>1. <<Docker, "/">> \in Seq(Token) BY <1>7
    <3>2. org \in Seq(Token)
      <4>1. <<"withobsrvr", "/">> \in Seq(Token) BY <1>7
      <4> QED BY <4>1
    <3> DEFINE start == <<Docker, "/">>
               name == c[1]
    <3>3. start \in Seq(Token) /\ org \in Seq(Token) /\ name \in Seq(Token) BY <1>3, <3>1, <3>2
    <3> HIDE DEF org, start, name
    <3>4. (start \o org) \o name = start \o (org \o name) BY SMTT(30), <3>3, ConcatAssociates
    <3> QED BY <2>2, <3>4 DEF start, name
  <2> HIDE DEF path, r
  <2> QED BY <2>1, <2>3
<1> HIDE DEF r, org, rest
<1>10. <<Docker>> \in Seq(Token) /\ ToSet(<<Docker>>) = {Docker} /\ IsRegistryHost(<<Docker>>)
       /\ Docker \notin Separators
  <2>1. Docker \notin Separators BY DEF Docker, Separators
  <2> HIDE DEF Docker
  <2>2. ToSet(<<Docker>>) = {Docker} BY DEF ToSet
  <2>3. Docker \in DottedWords BY WordsAssumption
  <2>4. <<Docker>> \in Seq(Token) BY <1>7
  <2> QED BY <2>1, <2>2, <2>3, <2>4 DEF IsRegistryHost
<1>11. /\ path \in Seq(Token) /\ Located(path) = <<<<Docker>>, rest>>
       /\ ToSet(path) = ToSet(<<Docker>>) \cup {"/"} \cup ToSet(rest)
  <2> DEFINE host == <<Docker>>
  <2>1. host \in Seq(Token) /\ IsRegistryHost(host) BY <1>10
  <2>2. "/" \notin ToSet(host) BY <1>10 DEF Separators
  <2> HIDE DEF host
  <2>3. LET p == host \o <<"/">> \o rest IN
        /\ p \in Seq(Token) /\ Located(p) = <<host, rest>>
        /\ ToSet(p) = ToSet(host) \cup {"/"} \cup ToSet(rest)
    BY <1>7, <1>8, <2>1, <2>2, LocatedAgain
  <2> QED BY <2>3 DEF host
<1> HIDE DEF path
<1>12. /\ raw \in Seq(Token) /\ Before(raw, n) = path /\ After(raw, n) = c[2]
       /\ ":" \notin ToSet(c[2]) => LastOf(raw, ":") = n
       /\ ToSet(raw) = ToSet(path) \cup {":"} \cup ToSet(c[2])
  <2> DEFINE version2 == c[2]
  <2>1. version2 \in Seq(Token) /\ path \in Seq(Token) /\ ":" \in Token BY <1>3, <1>7, <1>11
  <2> HIDE DEF version2
  <2>2. LET s == path \o <<":">> \o version2
            m == Len(path) + 1 IN
        /\ s \in Seq(Token) /\ Before(s, m) = path /\ After(s, m) = version2
        /\ ":" \notin ToSet(version2) => LastOf(s, ":") = m
        /\ ToSet(s) = ToSet(path) \cup {":"} \cup ToSet(version2)
    BY <2>1, PartedAt
  <2> QED BY <2>2 DEF version2
<1>13. n \in Nat /\ n # 0 BY <1>11
<1> HIDE DEF raw, n
<1>14. FirstOf(raw, "@") = 0
  <2> HIDE DEF Docker
  <2>1. "@" \notin ToSet(raw) BY <1>6, <1>8, <1>10, <1>11, <1>12 DEF Separators
  <2> QED BY <1>12, <2>1, FirstIs
<1>15. TagAt(raw) = n BY <1>6, <1>12, <1>13 DEF TagAt, TagColon, Separators
<1>16. c[2] # <<>> BY <1>5
<1>17. r = Reference(Located(path)[1], Located(path)[2], c[2], <<>>)
  <2>1. r # NoReference OBVIOUS
  <2> QED BY <1>9, <1>12, <1>13, <1>14, <1>15, <1>16, <2>1 DEF ParseImageReference
<1> QED BY <1>11, <1>17 DEF Reference, r

LEMMA NamesAreSequences ==
  \A name \in ImageNames : name \in Seq(Tokens \cup {"/", ":", "@", "a", "b", "v1", "sha256", "hex"})
<1> DEFINE Endings == {"/", ":", "@", "a", "b", "v1", "sha256", "hex"}
           All == Tokens \cup Endings
           Starts == UNION {[1 .. l -> Tokens] : l \in 0 .. 4}
<1> TAKE name \in ImageNames
<1>1. \E n \in Starts, e \in Ends : name = n \o e BY DEF ImageNames
<1>2. \A e \in Ends : e \in Seq(Endings)
  <2>1. <<>> \in Seq(Endings) /\ <<"@">> \in Seq(Endings) /\ <<"@", ":">> \in Seq(Endings) OBVIOUS
  <2>2. <<"@", "v1">> \in Seq(Endings) /\ <<"@", "sha256", ":", "hex">> \in Seq(Endings) OBVIOUS
  <2>3. <<"@", "a", "/", "b">> \in Seq(Endings) /\ <<"@", "a", ":", "b">> \in Seq(Endings) OBVIOUS
  <2> HIDE DEF Endings
  <2> QED BY <2>1, <2>2, <2>3 DEF Ends
<1> HIDE DEF Tokens, Endings
<1>3. ASSUME NEW n \in Starts PROVE n \in Seq(Tokens)
  <2>1. PICK l \in 0 .. 4 : n \in [1 .. l -> Tokens] BY DEF Starts
  <2>2. l \in Nat OBVIOUS
  <2> QED BY <2>1, <2>2
<1> HIDE DEF Starts
<1>4. PICK n \in Starts, e \in Ends : name = n \o e BY <1>1
<1>5. n \in Seq(All) /\ e \in Seq(All) BY <1>2, <1>3
<1> QED BY <1>4, <1>5 DEF Endings

(* Every name is read back as it was read, and a component's image has the  *)
(* version asked for, whatever the words of the name.                       *)
THEOREM NamesMeanTheSame ==
  ASSUME NEW Token, NEW name \in Seq(Token)
  PROVE  StringIsReadBack(name) /\ VersionIsTheTag(name)
<1> DEFINE All == Token \cup Words \cup TagWords \cup {"withobsrvr"}
<1>1. name \in Seq(All) OBVIOUS
<1>2. Words \cup TagWords \subseteq All /\ "withobsrvr" \in All OBVIOUS
<1> HIDE DEF All
<1>3. StringIsReadBack(name) BY <1>1, <1>2, ReadBack
<1>4. VersionIsTheTag(name) BY <1>1, <1>2, VersionTagged
<1> QED BY <1>3, <1>4

(* A name means the same to everyone who reads it.                          *)
THEOREM ImagesAreNamed == OperatorSpec => []ImagesAreWhatIsNamed
<1>1. OperatorInit => ImagesAreWhatIsNamed
  <2> SUFFICES ASSUME OperatorInit, Is("name")
               PROVE  StringIsReadBack(input[2]) /\ VersionIsTheTag(input[2])
    BY DEF ImagesAreWhatIsNamed
  <2>1. input[2] \in ImageNames BY DEF OperatorInit, InputGiven, NoInput, Is
  <2> QED BY <2>1, NamesAreSequences, NamesMeanTheSame
<1>2. ImagesAreWhatIsNamed /\ [OperatorNext]_operatorVars => ImagesAreWhatIsNamed'
  <2> SUFFICES ASSUME ImagesAreWhatIsNamed, [OperatorNext]_operatorVars PROVE ImagesAreWhatIsNamed'
    OBVIOUS
  <2>1. input' = input BY DEF OperatorNext, operatorVars
  <2> QED BY <2>1 DEF ImagesAreWhatIsNamed, Is
<1> QED BY <1>1, <1>2, PTL DEF OperatorSpec

-----------------------------------------------------------------------------
(* Exit codes and settings.                                                *)
(* The code of an error is told by the places of its links.               *)
LEMMA FirstLink ==
  ASSUME NEW Piece, NEW err \in Seq(Piece), NEW kind,
         NEW i \in Commands!Links(err, kind), \A j \in Commands!Links(err, kind) : i <= j
  PROVE  Commands!FirstOf(err, kind) = err[i][2]
<1> DEFINE P == Commands!Links(err, kind)
           c == CHOOSE x \in P : \A j \in P : x <= j
<1>1. c \in P /\ \A j \in P : c <= j OBVIOUS
<1>2. P \subseteq Nat BY DEF Commands!Links
<1> HIDE DEF P, c
<1>3. c <= i /\ i <= c /\ c \in Nat /\ i \in Nat BY <1>1, <1>2 DEF P
<1>4. c = i BY <1>3
<1> QED BY <1>4 DEF Commands!FirstOf, c, P

LEMMA OnlyLink ==
  ASSUME NEW Piece, NEW err \in Seq(Piece), NEW kind, NEW i \in DOMAIN err, err[i][1] = kind,
         \A j \in DOMAIN err : err[j][1] = kind => j = i
  PROVE  Commands!Links(err, kind) # {} /\ Commands!FirstOf(err, kind) = err[i][2]
<1>1. i \in Commands!Links(err, kind) BY DEF Commands!Links
<1>2. i \in Nat OBVIOUS
<1>3. \A j \in Commands!Links(err, kind) : i <= j BY <1>2 DEF Commands!Links
<1> QED BY <1>1, <1>3, FirstLink

(* Wrapping an error with %w moves its links one place.                   *)
LEMMA WrappedIs ==
  ASSUME NEW Piece, NEW err \in Seq(Piece)
  PROVE  LET e == Commands!Wrapped(err) IN
         /\ e \in Seq(Piece \cup {<<"text">>}) /\ Len(e) = Len(err) + 1
         /\ e[1] = <<"text">> /\ \A i \in 1 .. Len(err) : e[i + 1] = err[i]
<1> DEFINE More == Piece \cup {<<"text">>}
           h == <<<<"text">>>>
           e == h \o err
<1>1. h \in Seq(More) /\ err \in Seq(More) /\ Len(h) = 1 /\ h[1] = <<"text">> OBVIOUS
<1>2. Len(err) \in Nat OBVIOUS
<1> HIDE DEF h, More
<1>3. /\ e \in Seq(More) /\ Len(e) = Len(h) + Len(err)
      /\ \A i \in 1 .. Len(h) + Len(err) : e[i] = IF i <= Len(h) THEN h[i] ELSE err[i - Len(h)]
  BY <1>1, ConcatProperties
<1> HIDE DEF e
<1>4. e[1] = <<"text">> BY <1>1, <1>2, <1>3
<1>5. ASSUME NEW i \in 1 .. Len(err) PROVE e[i + 1] = err[i]
  <2>1. i + 1 \in 1 .. Len(h) + Len(err) /\ ~(i + 1 <= Len(h)) /\ (i + 1) - Len(h) = i BY <1>1, <1>2
  <2> QED BY <1>3, <2>1
<1> QED BY <1>1, <1>2, <1>3, <1>4, <1>5 DEF Commands!Wrapped, e, h, More

LEMMA WrappedLinks ==
  ASSUME NEW Piece, NEW err \in Seq(Piece), NEW kind, kind # "text"
  PROVE  LET e == Commands!Wrapped(err) IN
         /\ Commands!Links(e, kind) = {} <=> Commands!Links(err, kind) = {}
         /\ Commands!Links(err, kind) # {} =>
              Commands!FirstOf(e, kind) = Commands!FirstOf(err, kind)
<1> DEFINE e == Commands!Wrapped(err)
           P == Commands!Links(err, kind)
           R == Commands!Links(e, kind)
           n == Len(err)
<1>1. n \in Nat /\ DOMAIN err = 1 .. n OBVIOUS
<1>2. /\ e \in Seq(Piece \cup {<<"text">>}) /\ Len(e) = n + 1 /\ e[1] = <<"text">>
      /\ \A i \in 1 .. n : e[i + 1] = err[i]
  BY WrappedIs
<1> HIDE DEF e
<1>3. DOMAIN e = 1 .. n + 1 BY <1>1, <1>2
<1>4. P \subseteq 1 .. n /\ \A i \in 1 .. n : i \in P <=> err[i][1] = kind BY <1>1 DEF Commands!Links
<1>5. R \subseteq 1 .. n + 1 /\ \A i \in 1 .. n + 1 : i \in R <=> e[i][1] = kind
  BY <1>3 DEF Commands!Links
<1> HIDE DEF P, R, n
<1>6. 1 \notin R
  <2>1. e[1][1] = "text" BY <1>2
  <2> QED BY <1>1, <1>5, <2>1
<1>7. ASSUME NEW i \in P PROVE i \in 1 .. n /\ i + 1 \in R
  <2>1. i \in 1 .. n /\ i + 1 \in 1 .. n + 1 BY <1>1, <1>4
  <2> QED BY <1>2, <1>4, <1>5, <2>1
<1>8. ASSUME NEW j \in R PROVE j - 1 \in P /\ j \in Nat /\ j - 1 + 1 = j
  <2>1. j \in 1 .. n + 1 /\ j # 1 BY <1>5, <1>6
  <2>2. j - 1 \in 1 .. n /\ (j - 1) + 1 = j BY <1>1, <2>1
  <2>3. e[j] = err[j - 1] BY <1>2, <2>2
  <2> QED BY <1>4, <1>5, <2>1, <2>2, <2>3
<1>9. R = {} <=> P = {} BY <1>7, <1>8
<1>10. ASSUME P # {} PROVE Commands!FirstOf(e, kind) = Commands!FirstOf(err, kind)
  <2>1. PICK i \in P : \A j \in P : i <= j BY <1>1, <1>4, <1>10, LeastPlace
  <2>2. i \in 1 .. n /\ i + 1 \in R BY <1>7
  <2>3. ASSUME NEW j \in R PROVE i + 1 <= j
    <3>1. j - 1 \in P /\ j \in Nat BY <1>8
    <3>2. i <= j - 1 BY <2>1, <3>1
    <3> QED BY <1>1, <2>2, <3>1, <3>2
  <2>4. Commands!FirstOf(err, kind) = err[i][2] BY <2>1, FirstLink DEF P
  <2>5. Commands!FirstOf(e, kind) = e[i + 1][2] BY <1>2, <2>2, <2>3, FirstLink DEF R
  <2>6. e[i + 1] = err[i] BY <1>2, <2>2
  <2> QED BY <2>4, <2>5, <2>6
<1> QED BY <1>9, <1>10 DEF e, P, R

(* Wrapping an error does not change its exit code.                       *)
THEOREM WrappingKeepsTheCode ==
  ASSUME NEW Piece, NEW err \in Seq(Piece), err # <<>>
  PROVE  Commands!Wrapped(err) # <<>> /\ Commands!Of(Commands!Wrapped(err)) = Commands!Of(err)
<1> DEFINE e == Commands!Wrapped(err)
<1>1. e # <<>>
  <2>1. Len(e) = Len(err) + 1 BY WrappedIs
  <2>2. Len(err) \in Nat OBVIOUS
  <2> HIDE DEF e
  <2> QED BY <2>1, <2>2
<1>2. \A k \in {"code", "signal", "grpc", "cause"} :
        /\ Commands!Links(e, k) = {} <=> Commands!Links(err, k) = {}
        /\ Commands!Links(err, k) # {} => Commands!FirstOf(e, k) = Commands!FirstOf(err, k)
  BY WrappedLinks
<1> HIDE DEF e
<1>3. Commands!Of(e) = Commands!Of(err) BY <1>1, <1>2 DEF Commands!Of
<1> QED BY <1>1, <1>3 DEF e

(* The errors the commands start from, and their codes.                   *)
ChainLink == {<<"text">>} \cup ({"code"} \X Nat) \cup ({"grpc"} \X RPCAnswers)

LEMMA NothingIsFine == Commands!Of(<<>>) = 0
BY DEF Commands!Of, Commands!OK

LEMMA PlainCode ==
  /\ Commands!Plain \in Seq(ChainLink) /\ Commands!Plain # <<>> /\ Commands!Of(Commands!Plain) = 1
<1> DEFINE e == Commands!Plain
<1>1. e \in Seq(ChainLink) /\ DOMAIN e = {1} /\ e[1][1] = "text" /\ e # <<>> BY DEF Commands!Plain, ChainLink
<1> HIDE DEF e
<1>2. \A k \in {"code", "signal", "grpc", "cause"} : Commands!Links(e, k) = {}
  BY <1>1 DEF Commands!Links
<1>3. Commands!Of(e) = 1 BY <1>1, <1>2 DEF Commands!Of, Commands!Failure
<1> QED BY <1>1, <1>3 DEF e

LEMMA ErrorfCode ==
  ASSUME NEW code \in Nat
  PROVE  /\ Commands!Errorf(code) \in Seq(ChainLink) /\ Commands!Errorf(code) # <<>>
         /\ Commands!Of(Commands!Errorf(code)) = code
<1> DEFINE e == Commands!Errorf(code)
<1>1. <<"code", code>> \in ChainLink /\ <<"text">> \in ChainLink BY DEF ChainLink
<1>2. e \in Seq(ChainLink) /\ DOMAIN e = {1, 2} /\ e # <<>> BY <1>1 DEF Commands!Errorf
<1>3. e[1][1] = "code" /\ e[1][2] = code /\ e[2][1] = "text" BY DEF Commands!Errorf
<1> HIDE DEF e
<1>4. Commands!Links(e, "code") # {} /\ Commands!FirstOf(e, "code") = code
  <2>1. \A j \in DOMAIN e : e[j][1] = "code" => j = 1 BY <1>2, <1>3
  <2>2. 1 \in DOMAIN e BY <1>2
  <2> QED BY <1>2, <1>3, <2>1, <2>2, OnlyLink
<1>5. Commands!Of(e) = code BY <1>2, <1>4 DEF Commands!Of
<1> QED BY <1>2, <1>5 DEF e

LEMMA GrpcCode ==
  ASSUME NEW c \in RPCAnswers
  PROVE  LET e == <<<<"grpc", c>>>> IN
         e \in Seq(ChainLink) /\ e # <<>> /\ Commands!Of(e) = Commands!CodeOfStatus(c)
<1> DEFINE e == <<<<"grpc", c>>>>
<1>1. e \in Seq(ChainLink) /\ DOMAIN e = {1} /\ e[1][1] = "grpc" /\ e[1][2] = c /\ e # <<>> BY DEF ChainLink
<1> HIDE DEF e
<1>2. Commands!Links(e, "code") = {} /\ Commands!Links(e, "signal") = {}
  BY <1>1 DEF Commands!Links
<1>3. Commands!Links(e, "grpc") # {} /\ Commands!FirstOf(e, "grpc") = c
  <2>1. 1 \in DOMAIN e /\ \A j \in DOMAIN e : e[j][1] = "grpc" => j = 1 BY <1>1
  <2> QED BY <1>1, <2>1, OnlyLink
<1>4. Commands!Of(e) = Commands!CodeOfStatus(c) BY <1>1, <1>2, <1>3 DEF Commands!Of
<1> QED BY <1>1, <1>4 DEF e

(* What an answer of the control plane comes out as.                      *)
CodeOfAnswer(a) ==
  IF a = "OK" THEN 0 ELSE IF a \in {"refused", "broken"} THEN 7
  ELSE IF a = "DeadlineExceeded" THEN 6 ELSE 1

LEMMA HintCode ==
  ASSUME NEW a \in RPCAnswers
  PROVE  LET e == Commands!UnreachableHint(a) IN
         /\ e \in Seq(ChainLink) /\ (e = <<>> <=> a = "OK")
         /\ Commands!Of(e) = CodeOfAnswer(a)
<1> DEFINE e == Commands!UnreachableHint(a)
<1>1. CASE a = "OK"
  <2>1. e = <<>> BY <1>1 DEF Commands!UnreachableHint, Commands!Outages
  <2> HIDE DEF e
  <2>2. e \in Seq(ChainLink) BY <2>1
  <2> QED BY <1>1, <2>1, <2>2, NothingIsFine DEF CodeOfAnswer, e
<1>2. CASE a \in {"refused", "broken"}
  <2>1. e = Commands!Errorf(7)
    BY <1>2 DEF Commands!UnreachableHint, Commands!Outages, Commands!Unavailable
  <2> HIDE DEF e
  <2> QED BY <1>2, <2>1, ErrorfCode DEF CodeOfAnswer, e
<1>3. CASE a \in {"Unknown", "DeadlineExceeded"}
  <2>1. e = <<<<"grpc", a>>>> BY <1>3 DEF Commands!UnreachableHint, Commands!Outages
  <2> HIDE DEF e
  <2>3. e \in Seq(ChainLink) /\ e # <<>> /\ Commands!Of(e) = Commands!CodeOfStatus(a)
    BY <2>1, GrpcCode
  <2>4. Commands!CodeOfStatus(a) = CodeOfAnswer(a)
    BY <1>3 DEF Commands!CodeOfStatus, CodeOfAnswer, Commands!Timeout, Commands!Failure
  <2> QED BY <1>3, <2>3, <2>4 DEF e
<1> QED BY <1>1, <1>2, <1>3 DEF RPCAnswers

(* The first error of a list of steps is the one that comes out.          *)
LEMMA FirstError ==
  ASSUME NEW L, DOMAIN L \subseteq Nat, NEW i \in DOMAIN L, L[i] # <<>>,
         \A j \in 1 .. i - 1 : L[j] = <<>>, \A j \in DOMAIN L : j >= 1
  PROVE  Commands!First(L) = L[i]
<1> DEFINE c == CHOOSE x \in DOMAIN L : L[x] # <<>> /\ \A j \in 1 .. x - 1 : L[j] = <<>>
<1>1. c \in DOMAIN L /\ L[c] # <<>> /\ \A j \in 1 .. c - 1 : L[j] = <<>> OBVIOUS
<1>2. Commands!First(L) = L[c] BY DEF Commands!First
<1> HIDE DEF c
<1>3. c \in Nat /\ i \in Nat /\ c >= 1 /\ i >= 1 BY <1>1
<1>4. ~(c \in 1 .. i - 1) /\ ~(i \in 1 .. c - 1) BY <1>1
<1>5. c = i BY <1>3, <1>4
<1> QED BY <1>2, <1>5

LEMMA FirstOfTwo ==
  ASSUME NEW a, NEW b
  PROVE  Commands!First(<<a, b>>) = IF a # <<>> THEN a ELSE b
<1> DEFINE L == <<a, b>>
<1>1. DOMAIN L = {1, 2} /\ L[1] = a /\ L[2] = b OBVIOUS
<1> HIDE DEF L
<1>2. ASSUME a # <<>> PROVE Commands!First(L) = a
  <2>1. \A j \in 1 .. 1 - 1 : L[j] = <<>> OBVIOUS
  <2> QED BY <1>1, <1>2, <2>1, FirstError
<1>3. ASSUME a = <<>>, b # <<>> PROVE Commands!First(L) = b
  <2>1. \A j \in 1 .. 2 - 1 : L[j] = <<>> BY <1>1, <1>3
  <2> QED BY <1>1, <1>3, <2>1, FirstError
<1>4. ASSUME a = <<>>, b = <<>> PROVE Commands!First(L) = <<>>
  BY <1>1, <1>4 DEF Commands!First
<1> QED BY <1>2, <1>3, <1>4 DEF L

LEMMA FirstOfThree ==
  ASSUME NEW a, NEW b, NEW c
  PROVE  Commands!First(<<a, b, c>>) = IF a # <<>> THEN a ELSE IF b # <<>> THEN b ELSE c
<1> DEFINE L == <<a, b, c>>
<1>1. DOMAIN L = {1, 2, 3} /\ L[1] = a /\ L[2] = b /\ L[3] = c OBVIOUS
<1> HIDE DEF L
<1>2. ASSUME a # <<>> PROVE Commands!First(L) = a
  <2>1. \A j \in 1 .. 1 - 1 : L[j] = <<>> OBVIOUS
  <2> QED BY <1>1, <1>2, <2>1, FirstError
<1>3. ASSUME a = <<>>, b # <<>> PROVE Commands!First(L) = b
  <2>1. \A j \in 1 .. 2 - 1 : L[j] = <<>> BY <1>1, <1>3
  <2> QED BY <1>1, <1>3, <2>1, FirstError
<1>4. ASSUME a = <<>>, b = <<>>, c # <<>> PROVE Commands!First(L) = c
  <2>1. \A j \in 1 .. 3 - 1 : L[j] = <<>> BY <1>1, <1>4
  <2> QED BY <1>1, <1>4, <2>1, FirstError
<1>5. ASSUME a = <<>>, b = <<>>, c = <<>> PROVE Commands!First(L) = <<>>
  BY <1>1, <1>5 DEF Commands!First
<1> QED BY <1>2, <1>3, <1>4, <1>5 DEF L

LEMMA FirstOfFour ==
  ASSUME NEW a, NEW b, NEW c, NEW d
  PROVE  Commands!First(<<a, b, c, d>>) =
           IF a # <<>> THEN a ELSE IF b # <<>> THEN b ELSE IF c # <<>> THEN c ELSE d
<1> DEFINE L == <<a, b, c, d>>
<1>1. DOMAIN L = {1, 2, 3, 4} /\ L[1] = a /\ L[2] = b /\ L[3] = c /\ L[4] = d OBVIOUS
<1> HIDE DEF L
<1>2. ASSUME a # <<>> PROVE Commands!First(L) = a
  <2>1. \A j \in 1 .. 1 - 1 : L[j] = <<>> OBVIOUS
  <2> QED BY <1>1, <1>2, <2>1, FirstError
<1>3. ASSUME a = <<>>, b # <<>> PROVE Commands!First(L) = b
  <2>1. \A j \in 1 .. 2 - 1 : L[j] = <<>> BY <1>1, <1>3
  <2> QED BY <1>1, <1>3, <2>1, FirstError
<1>4. ASSUME a = <<>>, b = <<>>, c # <<>> PROVE Commands!First(L) = c
  <2>1. \A j \in 1 .. 3 - 1 : L[j] = <<>> BY <1>1, <1>4
  <2> QED BY <1>1, <1>4, <2>1, FirstError
<1>5. ASSUME a = <<>>, b = <<>>, c = <<>>, d # <<>> PROVE Commands!First(L) = d
  <2>1. \A j \in 1 .. 4 - 1 : L[j] = <<>> BY <1>1, <1>5
  <2> QED BY <1>1, <1>5, <2>1, FirstError
<1>6. ASSUME a = <<>>, b = <<>>, c = <<>>, d = <<>> PROVE Commands!First(L) = <<>>
  BY <1>1, <1>6 DEF Commands!First
<1> QED BY <1>2, <1>3, <1>4, <1>5, <1>6 DEF L

(* What a command meets.                                                  *)
CommandWorld(w) ==
  /\ w.answers \in [1 .. 3 -> RPCAnswers] /\ w.matches \in Nat
  /\ w.given \in BOOLEAN /\ w.wellFormed \in BOOLEAN /\ w.machine \in BOOLEAN
  /\ w.configured \in BOOLEAN /\ w.component \in {"processor", "missing", "other"}
  /\ w.file \in {"fine", "missing", "unreadable", "invalid"}

(* The steps of the commands and their codes.                             *)
LEMMA StepCodes ==
  ASSUME NEW w, CommandWorld(w)
  PROVE  /\ \A n \in 1 .. 3 : /\ Commands!Ask(w, n) = <<>> <=> w.answers[n] = "OK"
                              /\ Commands!Of(Commands!Ask(w, n)) = CodeOfAnswer(w.answers[n])
         /\ Commands!Connect(w) = <<>> <=> w.wellFormed
         /\ ~w.wellFormed => Commands!Of(Commands!Connect(w)) = 1
         /\ Commands!Dial(w) = <<>> <=> w.wellFormed
         /\ ~w.wellFormed => Commands!Of(Commands!Dial(w)) = 7
<1>1. ASSUME NEW n \in 1 .. 3
      PROVE  /\ Commands!Ask(w, n) = <<>> <=> w.answers[n] = "OK"
             /\ Commands!Of(Commands!Ask(w, n)) = CodeOfAnswer(w.answers[n])
  <2>1. w.answers[n] \in RPCAnswers BY DEF CommandWorld
  <2> QED BY <2>1, HintCode DEF Commands!Ask
<1>2. /\ Commands!Connect(w) = <<>> <=> w.wellFormed
      /\ ~w.wellFormed => Commands!Of(Commands!Connect(w)) = 1
  <2>1. /\ Commands!Wrapped(Commands!Plain) # <<>>
        /\ Commands!Of(Commands!Wrapped(Commands!Plain)) = 1
    BY PlainCode, WrappingKeepsTheCode
  <2> QED BY <2>1 DEF Commands!Connect, Commands!If, CommandWorld
<1>3. /\ Commands!Dial(w) = <<>> <=> w.wellFormed
      /\ ~w.wellFormed => Commands!Of(Commands!Dial(w)) = 7
  <2>1. Commands!Errorf(7) # <<>> /\ Commands!Of(Commands!Errorf(7)) = 7 BY ErrorfCode
  <2> QED BY <2>1 DEF Commands!Dial, Commands!If, Commands!Unavailable, CommandWorld
<1> QED BY <1>1, <1>2, <1>3

(* The run an argument stands for: the first answer that is an error is   *)
(* forgotten, the second counts, then the number of runs does.            *)
LEMMA ResolveCode ==
  ASSUME NEW w, CommandWorld(w)
  PROVE  LET e == Commands!ResolveRunID(w) IN
         /\ e = <<>> <=> w.answers[1] = "OK" \/ (w.answers[2] = "OK" /\ w.matches = 1)
         /\ e # <<>> => Commands!Of(e) = IF w.answers[2] = "OK" THEN 1 ELSE CodeOfAnswer(w.answers[2])
<1> DEFINE e == Commands!ResolveRunID(w)
           h1 == Commands!UnreachableHint(w.answers[1])
           h2 == Commands!UnreachableHint(w.answers[2])
<1>1. w.answers[1] \in RPCAnswers /\ w.answers[2] \in RPCAnswers BY DEF CommandWorld
<1>2. h1 = <<>> <=> w.answers[1] = "OK" BY <1>1, HintCode
<1>3. h2 \in Seq(ChainLink) /\ (h2 = <<>> <=> w.answers[2] = "OK")
      /\ Commands!Of(h2) = CodeOfAnswer(w.answers[2])
  BY <1>1, HintCode
<1>4. e = IF h1 = <<>> THEN <<>> ELSE IF h2 # <<>> THEN Commands!Wrapped(h2)
          ELSE IF w.matches = 1 THEN <<>> ELSE Commands!Plain
  BY DEF Commands!ResolveRunID
<1>5. h2 # <<>> => Commands!Wrapped(h2) # <<>> /\ Commands!Of(Commands!Wrapped(h2)) = Commands!Of(h2)
  BY <1>3, WrappingKeepsTheCode
<1> HIDE DEF e, h1, h2
<1> QED BY <1>2, <1>3, <1>4, <1>5, PlainCode DEF e

(* The exit code of each command.                                         *)
Right(command, w) ==
  LET code == IF w.configured THEN Commands!Of(Commands!Run(command, w)) ELSE 2
      all(some) == \A n \in 1 .. 3 : w.answers[n] \in some IN
  /\ command \in Commands!Remote \ {"status"} /\ w.wellFormed
     /\ ~Commands!TakesAllForNotFound(command, w) /\ ~Commands!LastingReason(command, w)
     => /\ all({"refused", "broken"}) => code = 7
        /\ all({"DeadlineExceeded"}) => code = 6
        /\ all({"OK"}) => code \in {0, 5}
  /\ code \in {6, 7} /\ w.wellFormed => ~all({"OK", "Unknown"})
  /\ code \in {2, 3, 4, 8} =>
       Commands!LastingReason(command, w) \/ Commands!TakesAllForNotFound(command, w)

LEMMA RightTellsWhy ==
  ASSUME NEW w, CommandWorld(w), NEW command, Right(command, w)
  PROVE  Commands!ExitTellsWhy(command, w)
<1>1. Commands!ExitCode(command, w) = IF w.configured THEN Commands!Of(Commands!Run(command, w)) ELSE 2
  <2>1. Commands!Errorf(2) # <<>> /\ Commands!Of(Commands!Errorf(2)) = 2 BY ErrorfCode
  <2> QED BY <2>1, FirstOfTwo DEF Commands!ExitCode, Commands!If, Commands!Usage, CommandWorld
<1>2. DOMAIN w.answers = 1 .. 3 BY DEF CommandWorld
<1> QED BY <1>1, <1>2 DEF Right, Commands!ExitTellsWhy, Commands!Outages, Commands!Unavailable,
  Commands!Timeout, Commands!OK, Commands!Conflict, Commands!NeverRetry, Commands!Usage,
  Commands!NotFound, Commands!Unauthorized, Commands!DataInvalid

(* Commands of one call.                                                  *)
LEMMA OneCall ==
  ASSUME NEW w, CommandWorld(w),
         NEW command \in {"pipelines_list", "pipelines_runs", "pipelines_active", "list", "processors_list"}
  PROVE  Right(command, w)
<1> DEFINE code == IF w.configured THEN Commands!Of(Commands!Run(command, w)) ELSE 2
<1>1. CASE command \in {"pipelines_list", "pipelines_runs", "pipelines_active"}
  <2>1. Commands!Run(command, w) = Commands!First(<<Commands!Connect(w), Commands!Ask(w, 1)>>)
    BY <1>1 DEF Commands!Run, Commands!PipelinesList, Commands!PipelinesRuns, Commands!PipelinesActive
  <2>2. Commands!Of(Commands!Run(command, w)) =
          IF w.wellFormed THEN CodeOfAnswer(w.answers[1]) ELSE 1
    BY <2>1, FirstOfTwo, StepCodes
  <2>3. w.answers[1] \in RPCAnswers BY DEF CommandWorld
  <2> QED BY <1>1, <2>2, <2>3 DEF Right, CodeOfAnswer, RPCAnswers, Commands!LastingReason
<1>2. CASE command \in {"list", "processors_list"}
  <2>1. Commands!Run(command, w) = Commands!First(<<Commands!Dial(w), Commands!Ask(w, 1)>>)
    BY <1>2 DEF Commands!Run, Commands!List, Commands!ProcessorsList
  <2>2. Commands!Of(Commands!Run(command, w)) =
          IF w.wellFormed THEN CodeOfAnswer(w.answers[1]) ELSE 7
    BY <2>1, FirstOfTwo, StepCodes
  <2>3. w.answers[1] \in RPCAnswers BY DEF CommandWorld
  <2> QED BY <1>2, <2>2, <2>3 DEF Right, CodeOfAnswer, RPCAnswers, Commands!LastingReason
<1> QED BY <1>1, <1>2

(* The others, each by its steps.                                         *)
LEMMA FindCommand ==
  ASSUME NEW w, CommandWorld(w)
  PROVE  Right("processors_find", w)
<1>1. Commands!Run("processors_find", w) =
        Commands!First(<<Commands!If(~w.given, Commands!Errorf(Commands!Usage)), Commands!Dial(w), Commands!Ask(w, 1)>>)
  BY DEF Commands!Run, Commands!ProcessorsFind
<1>2. Commands!Of(Commands!Run("processors_find", w)) =
        IF ~w.given THEN 2 ELSE IF ~w.wellFormed THEN 7 ELSE CodeOfAnswer(w.answers[1])
  BY <1>1, FirstOfThree, StepCodes, ErrorfCode DEF Commands!If, Commands!Usage
<1>3. \A n \in 1 .. 3 : w.answers[n] \in RPCAnswers BY DEF CommandWorld
<1> QED
  BY <1>2, <1>3 DEF Right, CodeOfAnswer, RPCAnswers, CommandWorld, Commands!LastingReason,
     Commands!TakesAllForNotFound

LEMMA ShowCommand ==
  ASSUME NEW w, CommandWorld(w)
  PROVE  Right("processors_show", w)
<1>1. Commands!Run("processors_show", w) =
        Commands!First(<<Commands!Dial(w), Commands!If(Commands!Ask(w, 1) # <<>>, Commands!Errorf(Commands!NotFound)),
          Commands!If(w.component = "missing", Commands!Errorf(Commands!NotFound)),
          Commands!If(w.component = "other", Commands!Errorf(Commands!Conflict))>>)
  BY DEF Commands!Run, Commands!ProcessorsShow
<1>2. Commands!Of(Commands!Run("processors_show", w)) =
        IF ~w.wellFormed THEN 7 ELSE IF w.answers[1] # "OK" \/ w.component = "missing" THEN 3
        ELSE IF w.component = "other" THEN 5 ELSE 0
  <2> DEFINE a == Commands!Dial(w)
             b == Commands!If(Commands!Ask(w, 1) # <<>>, Commands!Errorf(3))
             c == Commands!If(w.component = "missing", Commands!Errorf(3))
             d == Commands!If(w.component = "other", Commands!Errorf(5))
  <2>1. Commands!Run("processors_show", w) = Commands!First(<<a, b, c, d>>)
    BY <1>1 DEF Commands!NotFound, Commands!Conflict
  <2>2. /\ Commands!Errorf(3) # <<>> /\ Commands!Of(Commands!Errorf(3)) = 3
        /\ Commands!Errorf(5) # <<>> /\ Commands!Of(Commands!Errorf(5)) = 5
    BY ErrorfCode
  <2>3. (a = <<>> <=> w.wellFormed) /\ (~w.wellFormed => Commands!Of(a) = 7) BY StepCodes
  <2>4. b = IF w.answers[1] = "OK" THEN <<>> ELSE Commands!Errorf(3)
    BY StepCodes DEF Commands!If
  <2>5. /\ c = IF w.component = "missing" THEN Commands!Errorf(3) ELSE <<>>
        /\ d = IF w.component = "other" THEN Commands!Errorf(5) ELSE <<>>
    BY DEF Commands!If
  <2> HIDE DEF a, b, c, d
  <2>6. Commands!Run("processors_show", w) =
          IF a # <<>> THEN a ELSE IF b # <<>> THEN b ELSE IF c # <<>> THEN c ELSE d
    BY <2>1, FirstOfFour
  <2>7. w.wellFormed \in BOOLEAN BY DEF CommandWorld
  <2> QED BY <2>2, <2>3, <2>4, <2>5, <2>6, <2>7, NothingIsFine
<1>3. \A n \in 1 .. 3 : w.answers[n] \in RPCAnswers BY DEF CommandWorld
<1> QED
  BY <1>2, <1>3 DEF Right, CodeOfAnswer, RPCAnswers, CommandWorld, Commands!LastingReason,
     Commands!TakesAllForNotFound

LEMMA RunInfoCommand ==
  ASSUME NEW w, CommandWorld(w)
  PROVE  Right("pipelines_run_info", w)
<1>1. Commands!Run("pipelines_run_info", w) =
        Commands!First(<<Commands!Connect(w), Commands!ResolveRunID(w),
          Commands!If(Commands!Ask(w, 3) # <<>>, Commands!Errorf(Commands!NotFound))>>)
  BY DEF Commands!Run, Commands!PipelinesRunInfo
<1>2. Commands!Of(Commands!Run("pipelines_run_info", w)) =
        IF ~w.wellFormed THEN 1
        ELSE IF ~(w.answers[1] = "OK" \/ (w.answers[2] = "OK" /\ w.matches = 1))
             THEN IF w.answers[2] = "OK" THEN 1 ELSE CodeOfAnswer(w.answers[2])
        ELSE IF w.answers[3] # "OK" THEN 3 ELSE 0
  BY SMTT(30), <1>1, FirstOfThree, StepCodes, ResolveCode, ErrorfCode, NothingIsFine DEF Commands!If, Commands!NotFound
<1>3. \A n \in 1 .. 3 : w.answers[n] \in RPCAnswers BY DEF CommandWorld
<1> QED
  BY <1>2, <1>3 DEF Right, CodeOfAnswer, RPCAnswers, CommandWorld, Commands!LastingReason,
     Commands!TakesAllForNotFound

LEMMA StopCommand ==
  ASSUME NEW w, CommandWorld(w)
  PROVE  Right("pipelines_stop", w)
<1>1. Commands!Run("pipelines_stop", w) =
        Commands!First(<<Commands!Connect(w), Commands!ResolveRunID(w), Commands!Ask(w, 3)>>)
  BY DEF Commands!Run, Commands!PipelinesStop
<1>2. Commands!Of(Commands!Run("pipelines_stop", w)) =
        IF ~w.wellFormed THEN 1
        ELSE IF ~(w.answers[1] = "OK" \/ (w.answers[2] = "OK" /\ w.matches = 1))
             THEN IF w.answers[2] = "OK" THEN 1 ELSE CodeOfAnswer(w.answers[2])
        ELSE CodeOfAnswer(w.answers[3])
  BY <1>1, FirstOfThree, StepCodes, ResolveCode
<1>3. \A n \in 1 .. 3 : w.answers[n] \in RPCAnswers BY DEF CommandWorld
<1> QED
  BY <1>2, <1>3 DEF Right, CodeOfAnswer, RPCAnswers, CommandWorld, Commands!LastingReason,
     Commands!TakesAllForNotFound

LEMMA ChunksListCommand ==
  ASSUME NEW w, CommandWorld(w)
  PROVE  Right("chunks_list", w)
<1>1. Commands!Run("chunks_list", w) =
        Commands!First(<<Commands!Connect(w), Commands!If(w.file = "invalid", Commands!Plain),
          Commands!If(w.given, Commands!ResolveRunID(w)), Commands!Ask(w, 3)>>)
  BY DEF Commands!Run, Commands!ChunksList
<1>2. Commands!Of(Commands!Run("chunks_list", w)) =
        IF ~w.wellFormed \/ w.file = "invalid" THEN 1
        ELSE IF w.given /\ ~(w.answers[1] = "OK" \/ (w.answers[2] = "OK" /\ w.matches = 1))
             THEN IF w.answers[2] = "OK" THEN 1 ELSE CodeOfAnswer(w.answers[2])
        ELSE CodeOfAnswer(w.answers[3])
  BY <1>1, FirstOfFour, StepCodes, ResolveCode, PlainCode DEF Commands!If
<1>3. \A n \in 1 .. 3 : w.answers[n] \in RPCAnswers BY DEF CommandWorld
<1> QED
  BY <1>2, <1>3 DEF Right, CodeOfAnswer, RPCAnswers, CommandWorld, Commands!LastingReason,
     Commands!TakesAllForNotFound

LEMMA ChunksShowCommand ==
  ASSUME NEW w, CommandWorld(w)
  PROVE  Right("chunks_show", w)
<1>1. Commands!Run("chunks_show", w) =
        Commands!First(<<Commands!Connect(w), Commands!If(Commands!Ask(w, 1) # <<>>, Commands!Errorf(Commands!NotFound))>>)
  BY DEF Commands!Run, Commands!ChunksShow
<1>2. Commands!Of(Commands!Run("chunks_show", w)) =
        IF ~w.wellFormed THEN 1 ELSE IF w.answers[1] # "OK" THEN 3 ELSE 0
  BY SMTT(30), <1>1, FirstOfTwo, StepCodes, ErrorfCode, NothingIsFine DEF Commands!If, Commands!NotFound
<1>3. \A n \in 1 .. 3 : w.answers[n] \in RPCAnswers BY DEF CommandWorld
<1> QED
  BY <1>2, <1>3 DEF Right, CodeOfAnswer, RPCAnswers, CommandWorld, Commands!LastingReason,
     Commands!TakesAllForNotFound

LEMMA StatusCommand ==
  ASSUME NEW w, CommandWorld(w)
  PROVE  Right("status", w)
<1> DEFINE f == Commands!FormatControlPlaneError(w.answers[2])
<1>1. \A n \in 1 .. 3 : w.answers[n] \in RPCAnswers BY DEF CommandWorld
<1>2. w.answers[2] # "OK" => /\ f # <<>>
                             /\ w.answers[2] = "Unknown" => Commands!Of(f) = 1
                             /\ w.answers[2] \in {"refused", "DeadlineExceeded"} => Commands!Of(f) = 1
                             /\ Commands!Of(f) \in {1, 7}
  <2>1. CASE w.answers[2] \in {"DeadlineExceeded", "refused"}
    BY <2>1, PlainCode DEF Commands!FormatControlPlaneError
  <2>2. CASE w.answers[2] \in {"Unknown", "broken"}
    <3> DEFINE g == <<<<"grpc", w.answers[2]>>>>
    <3>1. g \in Seq(ChainLink) /\ g # <<>> /\ Commands!Of(g) = Commands!CodeOfStatus(w.answers[2])
      BY <1>1, GrpcCode
    <3> HIDE DEF g
    <3>2. Commands!Wrapped(g) # <<>> /\ Commands!Of(Commands!Wrapped(g)) = Commands!CodeOfStatus(w.answers[2])
      BY <3>1, WrappingKeepsTheCode
    <3>3. f = Commands!Wrapped(g) BY <2>2 DEF Commands!FormatControlPlaneError, g
    <3>4. Commands!CodeOfStatus(w.answers[2]) = IF w.answers[2] = "broken" THEN 7 ELSE 1
      BY <2>2 DEF Commands!CodeOfStatus, Commands!Unavailable, Commands!Failure
    <3> QED BY <2>2, <3>2, <3>3, <3>4
  <2> QED BY <1>1, <2>1, <2>2 DEF RPCAnswers
<1> HIDE DEF f
<1>3. Commands!Run("status", w) =
        Commands!First(<<Commands!If(~w.wellFormed \/ w.answers[1] \in {"DeadlineExceeded", "refused"}, Commands!Plain),
                         Commands!If(w.given /\ w.machine, Commands!Errorf(Commands!Usage)),
                         Commands!If(w.answers[2] # "OK", f)>>)
  BY DEF Commands!Run, Commands!Status, f
<1>4. Commands!Of(Commands!Run("status", w)) =
        IF ~w.wellFormed \/ w.answers[1] \in {"DeadlineExceeded", "refused"} THEN 1
        ELSE IF w.given /\ w.machine THEN 2 ELSE IF w.answers[2] # "OK" THEN Commands!Of(f) ELSE 0
  <2> DEFINE a == Commands!If(~w.wellFormed \/ w.answers[1] \in {"DeadlineExceeded", "refused"}, Commands!Plain)
             b == Commands!If(w.given /\ w.machine, Commands!Errorf(2))
             c == Commands!If(w.answers[2] # "OK", f)
  <2>1. Commands!Run("status", w) = Commands!First(<<a, b, c>>) BY <1>3 DEF Commands!Usage
  <2>2. Commands!Errorf(2) # <<>> /\ Commands!Of(Commands!Errorf(2)) = 2 BY ErrorfCode
  <2>3. /\ a = IF ~w.wellFormed \/ w.answers[1] \in {"DeadlineExceeded", "refused"} THEN Commands!Plain ELSE <<>>
        /\ b = IF w.given /\ w.machine THEN Commands!Errorf(2) ELSE <<>>
        /\ c = IF w.answers[2] # "OK" THEN f ELSE <<>>
    BY DEF Commands!If
  <2> HIDE DEF a, b, c
  <2>4. Commands!Run("status", w) = IF a # <<>> THEN a ELSE IF b # <<>> THEN b ELSE c
    BY <2>1, FirstOfThree
  <2> QED BY <1>2, <2>2, <2>3, <2>4, PlainCode, NothingIsFine
<1> QED
  BY <1>1, <1>2, <1>4 DEF Right, RPCAnswers, CommandWorld, Commands!LastingReason

LEMMA LocalCommands ==
  ASSUME NEW w, CommandWorld(w), NEW command \in {"dashboard", "validate"}
  PROVE  Right(command, w)
<1>1. command \notin Commands!Remote BY DEF Commands!Remote
<1>2. CASE command = "dashboard"
  <2>1. Commands!Run(command, w) = IF w.machine THEN Commands!Errorf(2) ELSE <<>>
    BY <1>2 DEF Commands!Run, Commands!Dashboard, Commands!If, Commands!Usage
  <2>2. Commands!Of(Commands!Run(command, w)) = IF w.machine THEN 2 ELSE 0
    BY <2>1, ErrorfCode, NothingIsFine
  <2> QED BY <1>1, <1>2, <2>2 DEF Right, Commands!LastingReason, CommandWorld
<1>3. CASE command = "validate"
  <2>1. Commands!Run(command, w) = IF w.file = "missing" THEN Commands!Errorf(3)
                                   ELSE IF w.file = "fine" THEN <<>> ELSE Commands!Errorf(8)
    BY <1>3 DEF Commands!Run, Commands!ValidateFile, Commands!NotFound, Commands!DataInvalid, CommandWorld
  <2>2. Commands!Of(Commands!Run(command, w)) = IF w.file = "missing" THEN 3
                                                ELSE IF w.file = "fine" THEN 0 ELSE 8
    BY <2>1, ErrorfCode, NothingIsFine
  <2> QED BY <1>1, <1>3, <2>2 DEF Right, Commands!LastingReason, CommandWorld
<1> QED BY <1>2, <1>3

(* Whatever a command meets, its exit code tells why it ended.            *)
THEOREM CommandsAreRight ==
  ASSUME NEW w, CommandWorld(w), NEW command \in Commands!CommandNames
  PROVE  Commands!ExitTellsWhy(command, w)
<1>1. Right(command, w)
  BY OneCall, FindCommand, ShowCommand, RunInfoCommand, StopCommand, ChunksListCommand,
     ChunksShowCommand, StatusCommand, LocalCommands DEF Commands!CommandNames, Commands!Remote
<1> QED BY <1>1, RightTellsWhy

(* The layers of a setting.                                               *)
SettingsLayer(s) ==
  /\ s.flag \in {"unset", "set"} /\ s.env \in {"unset", "empty", "set"}
  /\ s.user \in Contents /\ s.yaml \in Contents /\ s.yml \in Contents
  /\ s.named \in Contents \cup {"none"}

LEMMA NamedFile ==
  ASSUME NEW s, SettingsLayer(s), s.named # "none"
  PROVE  /\ DOMAIN Layers!SearchOrder(s) = {1} /\ Layers!SearchOrder(s)[1] = "named"
         /\ s[Layers!SearchOrder(s)[1]] = s.named
BY DEF Layers!SearchOrder

LEMMA SearchedFiles ==
  ASSUME NEW s, SettingsLayer(s), s.named = "none"
  PROVE  /\ DOMAIN Layers!SearchOrder(s) = {1, 2, 3}
         /\ Layers!SearchOrder(s)[1] = "user" /\ Layers!SearchOrder(s)[2] = "yaml"
         /\ Layers!SearchOrder(s)[3] = "yml"
         /\ s[Layers!SearchOrder(s)[1]] = s.user /\ s[Layers!SearchOrder(s)[2]] = s.yaml
         /\ s[Layers!SearchOrder(s)[3]] = s.yml
BY DEF Layers!SearchOrder

(* The last of the places.                                                *)
LEMMA LastPlace ==
  ASSUME NEW s, NEW P, NEW i \in P, \A j \in P : j <= i, P \subseteq {1, 2, 3}
  PROVE  Layers!LastOf(s, P) = Layers!SearchOrder(s)[i]
<1> DEFINE c == CHOOSE x \in P : \A j \in P : j <= x
<1>1. c \in P /\ \A j \in P : j <= c OBVIOUS
<1> HIDE DEF c
<1>2. c <= i /\ i <= c /\ c \in Int /\ i \in Int BY <1>1
<1>3. c = i BY <1>2
<1> QED BY <1>3 DEF Layers!LastOf, c

LEMMA FileInEffect ==
  ASSUME NEW s, SettingsLayer(s), Layers!InitConfig(s), Layers!InConfig(s)
  PROVE  LET last == Layers!LastOf(s, Layers!Setting(s)) IN
         /\ s.named = "sets" => last = "named"
         /\ s.named = "none" /\ s.yml = "sets" => last = "yml"
         /\ s.named = "none" /\ s.yml # "sets" /\ s.yaml = "sets" => last = "yaml"
         /\ s.named = "none" /\ s.yml # "sets" /\ s.yaml # "sets" => last = "user" /\ s.user = "sets"
         /\ s.named \in {"none", "sets"}
         /\ Layers!Setting(s) \subseteq Layers!Found(s)
         /\ Layers!Found(s) \subseteq {1, 2, 3}
<1> DEFINE P == Layers!Setting(s)
<1>1. CASE s.named # "none"
  <2>1. P = (IF s.named = "sets" THEN {1} ELSE {}) BY <1>1, NamedFile DEF Layers!Setting
  <2>2. s.named = "sets" /\ P = {1} BY <2>1 DEF Layers!InConfig
  <2>3. Layers!LastOf(s, P) = Layers!SearchOrder(s)[1] BY <2>2, LastPlace
  <2>4. Layers!Found(s) = {1} BY <1>1, <2>2, NamedFile DEF Layers!Found
  <2> QED BY <1>1, <2>2, <2>3, <2>4, NamedFile
<1>2. CASE s.named = "none"
  <2>1. /\ P \subseteq {1, 2, 3}
        /\ 1 \in P <=> s.user = "sets"
        /\ 2 \in P <=> s.yaml = "sets"
        /\ 3 \in P <=> s.yml = "sets"
    BY <1>2, SearchedFiles DEF Layers!Setting
  <2>2. /\ Layers!Found(s) \subseteq {1, 2, 3}
        /\ 1 \in Layers!Found(s) <=> s.user # "absent"
        /\ 2 \in Layers!Found(s) <=> s.yaml # "absent"
        /\ 3 \in Layers!Found(s) <=> s.yml # "absent"
    BY <1>2, SearchedFiles DEF Layers!Found
  <2>3. P # {} BY DEF Layers!InConfig
  <2> HIDE DEF P
  <2>4. ASSUME s.yml = "sets" PROVE Layers!LastOf(s, P) = Layers!SearchOrder(s)[3]
    <3>1. 3 \in P /\ \A j \in P : j <= 3 BY <2>1, <2>4
    <3> QED BY <2>1, <3>1, LastPlace
  <2>5. ASSUME s.yml # "sets", s.yaml = "sets"
        PROVE  Layers!LastOf(s, P) = Layers!SearchOrder(s)[2]
    <3>1. \A j \in P : j \in {1, 2} BY <2>1, <2>5
    <3>2. 2 \in P /\ \A j \in P : j <= 2 BY <2>1, <2>5, <3>1
    <3> QED BY <2>1, <3>2, LastPlace
  <2>6. ASSUME s.yml # "sets", s.yaml # "sets"
        PROVE  Layers!LastOf(s, P) = Layers!SearchOrder(s)[1] /\ s.user = "sets"
    <3>1. \A j \in P : j = 1 BY <2>1, <2>6
    <3>2. 1 \in P /\ \A j \in P : j <= 1 BY <2>3, <3>1
    <3> QED BY <2>1, <3>2, LastPlace
  <2>7. P \subseteq Layers!Found(s) BY <2>1, <2>2
  <2> QED BY <1>2, <2>2, <2>4, <2>5, <2>6, <2>7, SearchedFiles DEF P
<1> QED BY <1>1, <1>2

(* What is shown of a setting, whatever the layers.                       *)
THEOREM SettingShown ==
  ASSUME NEW s, SettingsLayer(s)
  PROVE  Layers!ShownWhereItIsFrom(s)
<1> SUFFICES ASSUME Layers!InitConfig(s)
             PROVE  /\ Layers!Resolve(s)[1] = Layers!Documented(s)[1]
                    /\ s.env # "empty" => Layers!Resolve(s)[2] = Layers!Documented(s)[2]
                    /\ (\A i, j \in Layers!Found(s) : i = j) =>
                         Layers!Resolve(s)[3] \in {"flag", "env", "default", Layers!Resolve(s)[1]}
  BY DEF Layers!ShownWhereItIsFrom
<1> DEFINE last == Layers!LastOf(s, Layers!Setting(s))
<1>1. ~Layers!InConfig(s) => /\ s.named # "sets"
                             /\ s.named = "none" => s.yml # "sets" /\ s.yaml # "sets" /\ s.user # "sets"
  <2> SUFFICES ASSUME ~Layers!InConfig(s)
               PROVE  /\ s.named # "sets"
                      /\ s.named = "none" => s.yml # "sets" /\ s.yaml # "sets" /\ s.user # "sets"
    OBVIOUS
  <2>1. Layers!Setting(s) = {} BY DEF Layers!InConfig
  <2>2. CASE s.named # "none"
    <3>1. 1 \notin Layers!Setting(s) BY <2>1
    <3> QED BY <2>2, <3>1, NamedFile DEF Layers!Setting
  <2>3. CASE s.named = "none"
    <3>1. 1 \notin Layers!Setting(s) /\ 2 \notin Layers!Setting(s) /\ 3 \notin Layers!Setting(s) BY <2>1
    <3> QED BY <2>3, <3>1, SearchedFiles DEF Layers!Setting
  <2> QED BY <2>2, <2>3
<1>2. CASE s.flag = "set" BY <1>2 DEF Layers!Resolve, Layers!GetString, Layers!Documented
<1>3. CASE s.flag # "set" /\ s.env = "set"
  BY <1>3 DEF Layers!Resolve, Layers!GetString, Layers!Documented
<1>4. CASE s.flag # "set" /\ s.env # "set" /\ ~Layers!InConfig(s)
  BY <1>1, <1>4 DEF Layers!Resolve, Layers!GetString, Layers!Documented, SettingsLayer
<1>5. CASE s.flag # "set" /\ s.env # "set" /\ Layers!InConfig(s)
  <2>1. /\ s.named = "sets" => last = "named"
        /\ s.named = "none" /\ s.yml = "sets" => last = "yml"
        /\ s.named = "none" /\ s.yml # "sets" /\ s.yaml = "sets" => last = "yaml"
        /\ s.named = "none" /\ s.yml # "sets" /\ s.yaml # "sets" => last = "user" /\ s.user = "sets"
        /\ s.named \in {"none", "sets"}
        /\ Layers!Setting(s) \subseteq Layers!Found(s)
    BY <1>5, FileInEffect
  <2>2. Layers!GetString(s) = last BY <1>5 DEF Layers!GetString
  <2>3. (\A i, j \in Layers!Found(s) : i = j) => Layers!ConfigFileUsed(s) = last
    <3>1. Layers!Setting(s) # {} BY <1>5 DEF Layers!InConfig
    <3>2. (\A i, j \in Layers!Found(s) : i = j) => Layers!Found(s) = Layers!Setting(s) BY <2>1, <3>1
    <3> QED BY <3>2 DEF Layers!ConfigFileUsed
  <2>4. s.env = "unset" \/ s.env = "empty" BY <1>5 DEF SettingsLayer
  <2>5. Layers!Documented(s) = <<last, "file">>
    <3> HIDE DEF last
    <3> QED BY <1>5, <2>1 DEF Layers!Documented
  <2>6. Layers!Resolve(s)[1] = last /\ (s.env = "unset" => Layers!Resolve(s)[2] = "file" /\ Layers!Resolve(s)[3] = Layers!ConfigFileUsed(s))
        /\ (s.env = "empty" => Layers!Resolve(s)[3] = "env")
    BY <1>5, <2>2, <2>4 DEF Layers!Resolve
  <2> HIDE DEF last
  <2> QED BY <2>3, <2>4, <2>5, <2>6
<1> QED BY <1>2, <1>3, <1>4, <1>5

LEMMA WorldsAreWorlds == \A w \in Worlds : CommandWorld(w)
<1> SUFFICES ASSUME NEW w \in Worlds PROVE CommandWorld(w) OBVIOUS
<1>1. CASE w \in World([1 .. 3 -> RPCAnswers], {1, 2}, {TRUE}, {TRUE}, {FALSE},
                       {"processor", "missing"}, {"fine"}, {TRUE})
  <2> DEFINE A == [1 .. 3 -> RPCAnswers]
  <2>1. w \in World(A, {1, 2}, {TRUE}, {TRUE}, {FALSE}, {"processor", "missing"}, {"fine"}, {TRUE})
    BY <1>1
  <2>2. /\ w.answers \in A /\ w.matches \in {1, 2} /\ w.given \in BOOLEAN /\ w.wellFormed \in BOOLEAN
        /\ w.machine \in BOOLEAN /\ w.component \in {"processor", "missing"} /\ w.file = "fine"
        /\ w.configured \in BOOLEAN
    <3> HIDE DEF A
    <3> QED BY <2>1 DEF World
  <2> QED BY <2>2 DEF CommandWorld
<1>2. CASE w \notin World([1 .. 3 -> RPCAnswers], {1, 2}, {TRUE}, {TRUE}, {FALSE},
                          {"processor", "missing"}, {"fine"}, {TRUE})
  <2> DEFINE A == {[i \in 1 .. 3 |-> "OK"], [i \in 1 .. 3 |-> IF i = 1 THEN "refused" ELSE "OK"]}
  <2>1. w \in World(A, {0, 1}, BOOLEAN, BOOLEAN, BOOLEAN, {"processor", "other"},
                    {"fine", "missing", "unreadable", "invalid"}, BOOLEAN)
    BY <1>2 DEF Worlds
  <2>2. A \subseteq [1 .. 3 -> RPCAnswers] BY DEF RPCAnswers
  <2> HIDE DEF A
  <2> QED BY <2>1, <2>2 DEF World, CommandWorld
<1> QED BY <1>1, <1>2

(* Exit codes and `config show` tell the truth.                           *)
THEOREM CommandsTell == OperatorSpec => []CommandsTellTheTruth
<1>1. OperatorInit => CommandsTellTheTruth
  <2> SUFFICES ASSUME OperatorInit PROVE CommandsTellTheTruth OBVIOUS
  <2>1. ASSUME Is("command") PROVE Commands!ExitTellsWhy(input[2], input[3])
    <3>1. input[2] \in Commands!CommandNames /\ input[3] \in Worlds
      BY <2>1 DEF OperatorInit, InputGiven, NoInput, Is
    <3> QED BY <3>1, WorldsAreWorlds, CommandsAreRight
  <2>2. ASSUME Is("settings") PROVE Layers!ShownWhereItIsFrom(input[2])
    <3>1. input[2] \in SettingLayers BY <2>2 DEF OperatorInit, InputGiven, NoInput, Is
    <3>2. SettingsLayer(input[2]) BY <3>1 DEF SettingLayers, SettingsLayer
    <3> QED BY <3>2, SettingShown
  <2> QED BY <2>1, <2>2 DEF CommandsTellTheTruth
<1>2. CommandsTellTheTruth /\ [OperatorNext]_operatorVars => CommandsTellTheTruth'
  <2> SUFFICES ASSUME CommandsTellTheTruth, [OperatorNext]_operatorVars PROVE CommandsTellTheTruth'
    OBVIOUS
  <2>1. input' = input BY DEF OperatorNext, operatorVars
  <2> QED BY <2>1 DEF CommandsTellTheTruth, Is
<1> QED BY <1>1, <1>2, PTL DEF OperatorSpec

-----------------------------------------------------------------------------
(* What a component is started with.                                       *)
(* Both lists are there, and nothing else.                                *)
LEMMA JoinedIs ==
  ASSUME NEW f, NEW g
  PROVE  /\ Container!Range(f) \subseteq Container!Range(Container!Joined(f, g))
         /\ Container!Range(g) \subseteq Container!Range(Container!Joined(f, g))
         /\ Container!Range(Container!Joined(f, g)) \subseteq Container!Range(f) \cup Container!Range(g)
<1> DEFINE places == ({1} \X DOMAIN f) \cup ({2} \X DOMAIN g)
           h == Container!Joined(f, g)
<1>1. DOMAIN h = places BY DEF Container!Joined
<1>2. ASSUME NEW i \in DOMAIN f PROVE <<1, i>> \in DOMAIN h /\ h[<<1, i>>] = f[i]
  BY DEF Container!Joined
<1>3. ASSUME NEW i \in DOMAIN g PROVE <<2, i>> \in DOMAIN h /\ h[<<2, i>>] = g[i]
  BY DEF Container!Joined
<1>4. ASSUME NEW n \in DOMAIN h
      PROVE  \/ \E i \in DOMAIN f : h[n] = f[i]
             \/ \E i \in DOMAIN g : h[n] = g[i]
  <2>1. CASE n \in {1} \X DOMAIN f
    <3>1. PICK i \in DOMAIN f : n = <<1, i>> BY <2>1
    <3> QED BY <1>2, <3>1
  <2>2. CASE n \in {2} \X DOMAIN g
    <3>1. PICK i \in DOMAIN g : n = <<2, i>> BY <2>2
    <3> QED BY <1>3, <3>1
  <2> QED BY <1>1, <2>1, <2>2
<1> HIDE DEF h
<1>5. Container!Range(f) \subseteq Container!Range(h) BY <1>2 DEF Container!Range
<1>6. Container!Range(g) \subseteq Container!Range(h) BY <1>3 DEF Container!Range
<1>7. Container!Range(h) \subseteq Container!Range(f) \cup Container!Range(g) BY <1>4 DEF Container!Range
<1> QED BY <1>5, <1>6, <1>7 DEF h

(* What docker creates is what it was given.                              *)
LEMMA CreatedIs ==
  ASSUME NEW config, Container!CreateContainer(config) # Container!Refused
  PROVE  Container!CreateContainer(config) = config /\ config # Container!Refused
BY DEF Container!CreateContainer

LEMMA BuiltIs ==
  ASSUME NEW c, NEW world, Container!BuildContainerConfig(c, world) # Container!Refused
  PROVE  LET k == Container!BuildContainerConfig(c, world)
             volumes == [i \in DOMAIN c.volumes |-> Container!ProcessVolume(c.volumes[i])]
             secrets == Container!ProcessSecrets(c.secrets, world)
         IN /\ Container!Refused \notin Container!Range(volumes) /\ secrets # Container!Refused
            /\ k.volumes = Container!Joined(volumes, secrets.volumes)
            /\ \A v \in DOMAIN secrets.env : k.env[v] = secrets.env[v]
BY DEF Container!BuildContainerConfig

(* A volume that is not refused is mounted as it is declared, and is no    *)
(* system directory.                                                       *)
LEMMA ProcessedIs ==
  ASSUME NEW v, Container!ProcessVolume(v) # Container!Refused
  PROVE  /\ Container!ProcessVolume(v) = [host |-> Container!ResolveHostPath(v.host), at |-> v.at, readonly |-> v.readonly]
         /\ Container!ProcessVolume(v).host \notin Container!SystemDirectories
BY DEF Container!ProcessVolume, Container!PathsAreValid

(* What the secrets add.                                                  *)
UsedSecrets(secrets, world) == {i \in DOMAIN secrets : ~Container!Unusable(secrets[i], world)}

LEMMA SecretsAre ==
  ASSUME NEW secrets, NEW world, Container!ProcessSecrets(secrets, world) # Container!Refused
  PROVE  /\ \A i \in DOMAIN secrets : ~Container!RefusesAll(secrets[i], world)
         /\ Container!ProcessSecrets(secrets, world).volumes =
              [i \in {n \in UsedSecrets(secrets, world) : Container!Mounted(secrets[n])} |-> Container!SecretVolume(secrets[i])]
BY DEF Container!ProcessSecrets, UsedSecrets

(* The last secret of a variable sets it.                                 *)
LEMMA LastSets ==
  ASSUME NEW secrets, NEW world, Container!ProcessSecrets(secrets, world) # Container!Refused,
         DOMAIN secrets \subseteq Nat,
         NEW i \in UsedSecrets(secrets, world), Container!SetsVariable(secrets[i]),
         \A j \in DOMAIN secrets : secrets[j].env = secrets[i].env => j <= i
  PROVE  LET env == Container!ProcessSecrets(secrets, world).env
         IN secrets[i].env \in DOMAIN env /\ env[secrets[i].env] = Container!SecretValue(secrets[i])
<1> DEFINE setting == {n \in UsedSecrets(secrets, world) : Container!SetsVariable(secrets[n])}
           Setter(v) == CHOOSE n \in setting : /\ secrets[n].env = v
                                               /\ \A j \in setting : secrets[j].env = v => j <= n
           v == secrets[i].env
           env == [w \in {secrets[n].env : n \in setting} |-> Container!SecretValue(secrets[Setter(w)])]
<1>1. Container!ProcessSecrets(secrets, world).env = env BY DEF Container!ProcessSecrets, UsedSecrets
<1>2. setting \subseteq DOMAIN secrets /\ i \in setting BY DEF UsedSecrets
<1> HIDE DEF setting
<1>3. \A j \in setting : (/\ secrets[j].env = v
                          /\ \A n \in setting : secrets[n].env = v => n <= j) => j = i
  BY <1>2
<1>4. secrets[i].env = v /\ \A j \in setting : secrets[j].env = v => j <= i BY <1>2
<1>5. Setter(v) = i BY <1>2, <1>3, <1>4
<1>6. v \in DOMAIN env /\ env[v] = Container!SecretValue(secrets[Setter(v)])
  <2> HIDE DEF Setter
  <2> QED BY <1>2
<1> QED BY <1>1, <1>5, <1>6

LEMMA NoSecrets ==
  ASSUME NEW world, Container!ProcessSecrets(<<>>, world) # Container!Refused
  PROVE  Container!Range(Container!ProcessSecrets(<<>>, world).volumes) = {}
<1> DEFINE none == <<>>
           k == Container!ProcessSecrets(none, world)
           used == UsedSecrets(none, world)
<1>1. used = {} BY DEF UsedSecrets
<1> HIDE DEF none
<1>2. k # Container!Refused BY DEF none
<1>3. k.volumes = [i \in {n \in used : Container!Mounted(none[n])} |-> Container!SecretVolume(none[i])]
  BY <1>2, SecretsAre
<1>4. DOMAIN k.volumes = {} BY <1>1, <1>3
<1> QED BY <1>4 DEF Container!Range, none

(* Whatever volumes and secrets a component declares.                     *)
THEOREM DeclaredMounts ==
  ASSUME NEW c, NEW world PROVE Container!DeclaredIsMounted(c, world)
<1> DEFINE d == Container!ConvertedComponent(c)
           b == Container!BuildContainerConfig(d, world)
           k == Container!CreateContainer(b)
           volumes == [i \in DOMAIN d.volumes |-> Container!ProcessVolume(d.volumes[i])]
<1> SUFFICES ASSUME k # Container!Refused
             PROVE  /\ \A v \in Container!Range(c.volumes) :
                         [host |-> Container!ResolveHostPath(v.host), at |-> v.at, readonly |-> v.readonly]
                           \in Container!Range(k.volumes)
                    /\ \A s \in Container!Range(c.secrets) : Container!Mounted(s) =>
                         [host |-> Container!ResolveHostPath(s.host), at |-> s.at, readonly |-> TRUE]
                           \in Container!Range(k.volumes)
                    /\ \A m \in Container!Range(k.volumes) : m.host \notin Container!SystemDirectories
  BY DEF Container!DeclaredIsMounted
<1>1. k = b /\ b # Container!Refused BY CreatedIs
<1>2. d.secrets = <<>> /\ d.volumes = Container!Joined(c.volumes, Container!SecretVolumes(c.secrets))
  BY DEF Container!ConvertedComponent
<1> HIDE DEF d
<1>3. /\ Container!Refused \notin Container!Range(volumes) /\ Container!ProcessSecrets(<<>>, world) # Container!Refused
      /\ k.volumes = Container!Joined(volumes, Container!ProcessSecrets(<<>>, world).volumes)
  BY <1>1, <1>2, BuiltIs
<1>4. Container!Range(k.volumes) = Container!Range(volumes) BY <1>3, JoinedIs, NoSecrets
<1>5. ASSUME NEW i \in DOMAIN d.volumes
      PROVE  /\ volumes[i] = Container!ProcessVolume(d.volumes[i]) /\ volumes[i] \in Container!Range(volumes)
             /\ Container!ProcessVolume(d.volumes[i]) # Container!Refused
  <2>1. volumes[i] = Container!ProcessVolume(d.volumes[i]) /\ i \in DOMAIN volumes OBVIOUS
  <2> HIDE DEF volumes
  <2>2. volumes[i] \in Container!Range(volumes) BY <2>1 DEF Container!Range
  <2> QED BY <1>3, <2>1, <2>2
<1>6. ASSUME NEW v \in Container!Range(d.volumes)
      PROVE  [host |-> Container!ResolveHostPath(v.host), at |-> v.at, readonly |-> v.readonly] \in Container!Range(k.volumes)
  <2>1. PICK i \in DOMAIN d.volumes : v = d.volumes[i] BY DEF Container!Range
  <2> QED BY <1>4, <1>5, <2>1, ProcessedIs
<1>7. ASSUME NEW m \in Container!Range(volumes) PROVE m.host \notin Container!SystemDirectories
  <2>1. PICK i \in DOMAIN volumes : m = volumes[i] BY DEF Container!Range
  <2>2. i \in DOMAIN d.volumes OBVIOUS
  <2> HIDE DEF volumes
  <2> QED BY <1>5, <2>1, <2>2, ProcessedIs
<1>8. Container!Range(c.volumes) \cup Container!Range(Container!SecretVolumes(c.secrets)) \subseteq Container!Range(d.volumes)
  BY <1>2, JoinedIs
<1>9. ASSUME NEW s \in Container!Range(c.secrets), Container!Mounted(s)
      PROVE  [host |-> Container!ResolveHostPath(s.host), at |-> s.at, readonly |-> TRUE] \in Container!Range(k.volumes)
  <2> DEFINE v == [host |-> s.host, at |-> s.at, readonly |-> TRUE]
             w == Container!SecretVolumes(c.secrets)
  <2>1. PICK i \in DOMAIN c.secrets : s = c.secrets[i] BY DEF Container!Range
  <2>2. i \in DOMAIN w /\ w[i] = v BY <1>9, <2>1 DEF Container!SecretVolumes
  <2>3. v.host = s.host /\ v.at = s.at /\ v.readonly = TRUE OBVIOUS
  <2> HIDE DEF v, w
  <2>4. v \in Container!Range(w) BY <2>2 DEF Container!Range
  <2>5. v \in Container!Range(d.volumes) BY <1>8, <2>4 DEF w
  <2> QED BY <1>6, <2>3, <2>5
<1> HIDE DEF k, volumes
<1> QED BY <1>4, <1>6, <1>7, <1>8, <1>9

(* Whatever secrets it requires.                                          *)
THEOREM RequiredSecrets ==
  ASSUME NEW c, NEW world, DOMAIN c.secrets \subseteq Nat
  PROVE  Container!RequiredSecretArrives(c, world)
<1> DEFINE b == Container!BuildContainerConfig(c, world)
           k == Container!CreateContainer(b)
           p == Container!ProcessSecrets(c.secrets, world)
           used == UsedSecrets(c.secrets, world)
           Later(i) == \E j \in DOMAIN c.secrets : j > i /\ c.secrets[j].env = c.secrets[i].env
<1> SUFFICES ASSUME k # Container!Refused, NEW i \in DOMAIN c.secrets, c.secrets[i].required
             PROVE  LET s == c.secrets[i] IN
               /\ Container!Mounted(s) =>
                    [host |-> Container!ResolveHostPath(s.host), at |-> Container!SecretPlace(s), readonly |-> TRUE]
                      \in Container!Range(k.volumes)
               /\ s.type \in {"env", Container!Unset} /\ s.env # Container!Unset /\ s.host # Container!NoPath /\ ~Later(i) =>
                    /\ Container!ResolveHostPath(s.host) \in world.files \ world.unreadable
                    /\ k.env[s.env] = <<"content", Container!ResolveHostPath(s.host)>>
  BY DEF Container!RequiredSecretArrives
<1> DEFINE s == c.secrets[i]
<1>1. k = b /\ b # Container!Refused BY CreatedIs
<1>2. /\ p # Container!Refused
      /\ k.volumes = Container!Joined([n \in DOMAIN c.volumes |-> Container!ProcessVolume(c.volumes[n])], p.volumes)
      /\ \A v \in DOMAIN p.env : k.env[v] = p.env[v]
  BY <1>1, BuiltIs
<1>3. /\ ~Container!RefusesAll(s, world)
      /\ p.volumes = [n \in {m \in used : Container!Mounted(c.secrets[m])} |-> Container!SecretVolume(c.secrets[n])]
  BY <1>2, SecretsAre
<1>4. Container!Range(p.volumes) \subseteq Container!Range(k.volumes) BY <1>2, JoinedIs
<1>5. ~Container!Unusable(s, world) BY <1>3 DEF Container!RefusesAll
<1>6. i \in used BY <1>5 DEF UsedSecrets
<1>7. ASSUME Container!Mounted(s)
      PROVE  [host |-> Container!ResolveHostPath(s.host), at |-> Container!SecretPlace(s), readonly |-> TRUE]
               \in Container!Range(k.volumes)
  <2>1. i \in DOMAIN p.volumes /\ p.volumes[i] = Container!SecretVolume(s) BY <1>3, <1>6, <1>7
  <2>2. Container!SecretVolume(s) \in Container!Range(p.volumes) BY <2>1 DEF Container!Range
  <2> QED BY <1>4, <2>2 DEF Container!SecretVolume
<1>8. ASSUME s.type \in {"env", Container!Unset}, s.env # Container!Unset, s.host # Container!NoPath, ~Later(i)
      PROVE  /\ Container!ResolveHostPath(s.host) \in world.files \ world.unreadable
             /\ k.env[s.env] = <<"content", Container!ResolveHostPath(s.host)>>
  <2>1. Container!SetsVariable(s) BY <1>8 DEF Container!SetsVariable
  <2>2. Container!Readable(s, world) BY <1>5, <2>1 DEF Container!Unusable
  <2>3. \A j \in DOMAIN c.secrets : c.secrets[j].env = s.env => j <= i BY <1>8
  <2>4. s.env \in DOMAIN p.env /\ p.env[s.env] = Container!SecretValue(s)
    BY <1>2, <1>6, <2>1, <2>3, LastSets
  <2>5. ~Container!Mounted(s)
    BY <1>8 DEF Container!Mounted, Container!Unset
  <2> QED BY <1>2, <2>2, <2>4, <2>5 DEF Container!SecretValue, Container!Readable
<1> QED BY <1>7, <1>8

LEMMA WithIs ==
  ASSUME NEW f, NEW g
  PROVE  /\ DOMAIN With(f, g) = DOMAIN f \cup DOMAIN g
         /\ \A x \in DOMAIN g : With(f, g)[x] = g[x]
         /\ \A x \in DOMAIN f : x \notin DOMAIN g => With(f, g)[x] = f[x]
BY DEF With

(* flowctl's three variables come last.                                   *)
LEMMA FlowctlEnvIs ==
  ASSUME NEW env, NEW id, NEW endpoint
  PROVE  LET e == AddFlowctlEnv(env, id, endpoint) IN
         /\ e["FLOWCTL_COMPONENT_ID"] = id /\ e["FLOWCTL_ENDPOINT"] = endpoint
         /\ \A v \in DOMAIN env : v \notin FlowctlNames => e[v] = env[v]
<1> DEFINE own == [ENABLE_FLOWCTL |-> "true", FLOWCTL_ENDPOINT |-> endpoint,
                   FLOWCTL_COMPONENT_ID |-> id]
           e == With(env, own)
<1>1. DOMAIN own = FlowctlNames BY DEF FlowctlNames
<1>2. own["FLOWCTL_COMPONENT_ID"] = id /\ own["FLOWCTL_ENDPOINT"] = endpoint OBVIOUS
<1>3. "FLOWCTL_COMPONENT_ID" \in FlowctlNames /\ "FLOWCTL_ENDPOINT" \in FlowctlNames
  BY DEF FlowctlNames
<1> HIDE DEF own
<1>4. /\ \A x \in DOMAIN own : e[x] = own[x]
      /\ \A x \in DOMAIN env : x \notin DOMAIN own => e[x] = env[x]
  BY ZenonT(60), WithIs
<1>5. AddFlowctlEnv(env, id, endpoint) = e BY DEF AddFlowctlEnv, own
<1> HIDE DEF e
<1> QED BY <1>1, <1>2, <1>3, <1>4, <1>5

(* A key whose variable is its own gets it.                               *)
LEMMA TranslatedKey ==
  ASSUME NEW config, NEW m, NEW e \in TranslateConfig(config, m), NEW k \in DOMAIN config,
         KeysOf(config, m, VariableOf(k, m)) = {k}
  PROVE  VariableOf(k, m) \in DOMAIN e /\ e[VariableOf(k, m)] = config[k]
<1> DEFINE vs == {VariableOf(key, m) : key \in DOMAIN config}
           v == VariableOf(k, m)
<1>1. PICK last \in [vs -> DOMAIN config] :
        /\ \A x \in DOMAIN last : last[x] \in KeysOf(config, m, x)
        /\ e = [x \in DOMAIN last |-> config[last[x]]]
  BY DEF TranslateConfig
<1>2. v \in vs OBVIOUS
<1> HIDE DEF vs, v
<1>3. DOMAIN last = vs BY <1>1
<1>4. last[v] \in KeysOf(config, m, v) BY <1>1, <1>2, <1>3
<1>5. last[v] = k BY <1>4 DEF v
<1>6. v \in DOMAIN e /\ e[v] = config[k] BY <1>1, <1>2, <1>3, <1>5
<1> QED BY <1>6 DEF v

(* A component has the fields of one, of whatever values.                 *)
IsComponent(c) ==
  c = [id |-> c.id, type |-> c.type, config |-> c.config, env |-> c.env,
       consumes |-> c.consumes, produces |-> c.produces, command |-> c.command]

(* What is resolved of a component of the registry.                       *)
LEMMA ResolvedIs ==
  ASSUME NEW c, IsComponent(c),
         NEW found, NEW endpoint, NEW r \in Resolved(c, found, endpoint)
  PROVE  \E e \in TranslateConfig(c.config, found.metadata) :
           /\ r.command = found.binary
           /\ r.consumes = Default(c.consumes, Consumes(found.metadata))
           /\ r.env = AddFlowctlEnv(MergeEnv(e, c.env), c.id, endpoint)
<1>1. PICK e \in TranslateConfig(c.config, found.metadata) :
        r = [c EXCEPT !.command = found.binary,
                      !.consumes = Default(c.consumes, Consumes(found.metadata)),
                      !.produces = Default(c.produces, Produces(found.metadata)),
                      !.env = AddFlowctlEnv(MergeEnv(e, c.env), c.id, endpoint)]
  BY DEF Resolved
<1>2. /\ r.command = found.binary
      /\ r.consumes = Default(c.consumes, Consumes(found.metadata))
      /\ r.env = AddFlowctlEnv(MergeEnv(e, c.env), c.id, endpoint)
  BY <1>1 DEF IsComponent
<1> QED BY <1>2

THEOREM ConfigReaches ==
  ASSUME NEW declared, NEW found, NEW endpoint, \A i \in DOMAIN declared : IsComponent(declared[i])
  PROVE  ConfigReachesTheProcess(declared, found, endpoint)
<1> SUFFICES ASSUME NEW i \in DOMAIN declared,
                    NEW r \in Outcomes(declared[i], found[i], endpoint)
             PROVE  LET c == declared[i]
                        m == found[i].metadata
                    IN /\ \A v \in DOMAIN c.env :
                            (IsRegistryReference(c) /\ v \in FlowctlNames) \/ r.env[v] = c.env[v]
                       /\ IsRegistryReference(c) =>
                            /\ \A k \in DOMAIN c.config :
                                 LET v == VariableOf(k, m) IN
                                 v \notin DOMAIN c.env \cup FlowctlNames /\ KeysOf(c.config, m, v) = {k}
                                   => r.env[v] = c.config[k]
                            /\ r.env["FLOWCTL_COMPONENT_ID"] = c.id /\ r.env["FLOWCTL_ENDPOINT"] = endpoint
                            /\ r.command = found[i].binary
                            /\ c.consumes # <<>> => r.consumes = c.consumes
                            /\ c.consumes = <<>> /\ m.consumes # <<>> => r.consumes = m.consumes
                       /\ ~IsRegistryReference(c) => r = c
  BY DEF ConfigReachesTheProcess
<1> DEFINE c == declared[i]
           m == found[i].metadata
<1>1. CASE ~IsRegistryReference(c) BY <1>1 DEF Outcomes
<1>2. CASE IsRegistryReference(c)
  <2>1. r \in Resolved(c, found[i], endpoint) BY <1>2 DEF Outcomes
  <2>2. PICK e \in TranslateConfig(c.config, m) :
          /\ r.command = found[i].binary
          /\ r.consumes = Default(c.consumes, Consumes(m))
          /\ r.env = AddFlowctlEnv(MergeEnv(e, c.env), c.id, endpoint)
    BY <2>1, ResolvedIs
  <2> DEFINE merged == MergeEnv(e, c.env)
  <2>3. /\ DOMAIN merged = DOMAIN e \cup DOMAIN c.env
        /\ \A x \in DOMAIN c.env : merged[x] = c.env[x]
        /\ \A x \in DOMAIN e : x \notin DOMAIN c.env => merged[x] = e[x]
    BY WithIs DEF MergeEnv
  <2>4. /\ r.env["FLOWCTL_COMPONENT_ID"] = c.id /\ r.env["FLOWCTL_ENDPOINT"] = endpoint
        /\ \A v \in DOMAIN merged : v \notin FlowctlNames => r.env[v] = merged[v]
    BY <2>2, FlowctlEnvIs
  <2> HIDE DEF merged, c, m
  <2>5. ASSUME NEW v \in DOMAIN c.env, v \notin FlowctlNames PROVE r.env[v] = c.env[v]
    BY <2>3, <2>4, <2>5
  <2>6. ASSUME NEW k \in DOMAIN c.config, VariableOf(k, m) \notin DOMAIN c.env \cup FlowctlNames,
               KeysOf(c.config, m, VariableOf(k, m)) = {k}
        PROVE  r.env[VariableOf(k, m)] = c.config[k]
    <3>1. VariableOf(k, m) \in DOMAIN e /\ e[VariableOf(k, m)] = c.config[k] BY <2>6, TranslatedKey
    <3> QED BY <2>3, <2>4, <2>6, <3>1
  <2>7. /\ c.consumes # <<>> => r.consumes = c.consumes
        /\ c.consumes = <<>> /\ m.consumes # <<>> => r.consumes = m.consumes
    BY <2>2 DEF Default, Consumes
  <2> QED BY <1>2, <2>2, <2>4, <2>5, <2>6, <2>7 DEF c, m
<1> QED BY <1>1, <1>2

(* Every component is started with what its file configures for it: the    *)
(* volumes and secrets of a container, the config of a process.            *)
THEOREM ConfigurationIsThere == OperatorSpec => []ConfigurationArrives
<1>1. OperatorInit => ConfigurationArrives
  <2> SUFFICES ASSUME OperatorInit PROVE ConfigurationArrives OBVIOUS
  <2>1. ASSUME Is("container")
        PROVE  /\ Container!DeclaredIsMounted(input[2], input[3])
               /\ Container!RequiredSecretArrives(input[2], input[3])
    <3>1. input[2] \in ContainerComponents
      BY <2>1 DEF OperatorInit, InputGiven, NoInput, Is
    <3>2. DOMAIN input[2].secrets \subseteq Nat
      <4> DEFINE one == {<<s>> : s \in SecretsGiven}
                 two == {<<Password, s>> : s \in SecretsGiven} \cup {<<s, GonePassword>> : s \in SecretsGiven}
      <4>1. \/ input[2] \in Given({<<v>> : v \in VolumesGiven}, one)
            \/ input[2] \in Given({<<>>}, two)
        BY <3>1 DEF ContainerComponents
      <4>2. input[2].secrets \in one \cup two
        <5> HIDE DEF one, two
        <5> QED BY <4>1 DEF Given
      <4>3. \A s \in one : DOMAIN s \subseteq Nat OBVIOUS
      <4>4. \A s \in two : DOMAIN s \subseteq Nat OBVIOUS
      <4> QED BY <4>2, <4>3, <4>4
    <3> QED BY <3>2, DeclaredMounts, RequiredSecrets
  <2>2. ASSUME Is("component")
        PROVE  ConfigReachesTheProcess(<<input[2]>>, <<input[3]>>, "here")
    <3>1. input[2] \in Configured
      BY <2>2 DEF OperatorInit, InputGiven, NoInput, Is
    <3>2. IsComponent(input[2]) BY <3>1 DEF Configured, IsComponent
    <3>3. \A i \in DOMAIN <<input[2]>> : IsComponent(<<input[2]>>[i]) BY <3>2
    <3> QED BY <3>3, ConfigReaches
  <2> QED BY <2>1, <2>2 DEF ConfigurationArrives
<1>2. ConfigurationArrives /\ [OperatorNext]_operatorVars => ConfigurationArrives'
  <2> SUFFICES ASSUME ConfigurationArrives, [OperatorNext]_operatorVars
               PROVE  ConfigurationArrives'
    OBVIOUS
  <2>1. input' = input BY DEF OperatorNext, operatorVars
  <2> QED BY <2>1 DEF ConfigurationArrives, Is
<1> QED BY <1>1, <1>2, PTL DEF OperatorSpec
===============================================================================
