------------------------------ MODULE ImageLayers ------------------------------
(***************************************************************************)
(* The extraction of an image's layers into a directory (extractTar and    *)
(* extractImageLayers, internal/registry/client.go), beside what the OCI   *)
(* specification the code refers to says a layer means.                    *)
(*                                                                         *)
(* A path is a sequence of names.  An entry of a layer is a directory, a   *)
(* file, a symbolic or a hard link, a whiteout of a path or an opaque      *)
(* whiteout of a directory.  A link leads to a path of the directory: one  *)
(* that leads out of it, or has a name that does, ends the extraction.     *)
(* The operating system follows the links on the way to a path, and not    *)
(* only those of the layer.                                                *)
(***************************************************************************)
EXTENDS Naturals, Sequences, SequencesExt

CONSTANTS
  Paths,   \* the paths, closed under prefixes and under what the links lead to
  Images,  \* the images, sequences of layers, to extract
  Hops     \* how many links the operating system follows on one way

EntryKinds == {"dir", "file", "symlink", "hardlink", "whiteout", "opaque"}
LayerEntries == [kind : EntryKinds, path : Paths, target : Paths]
ASSUME LayersAssumption ==
  /\ \A p \in Paths : p \in Seq({p[i] : i \in DOMAIN p})
  /\ Images \subseteq Seq(Seq(LayerEntries))
  /\ Hops \in Nat

VARIABLES
  image, layer,
  next,     \* the entry of the layer that comes next
  tree,     \* the directory: what is at each path
  lower,    \* the directory as it was before this layer
  crossed,  \* did an entry of this layer meet a link that changed what it does?
  failed    \* has the extraction ended with an error?

layerVars == <<image, layer, next, tree, lower, crossed, failed>>

(* A file has the layer whose contents it has, and the entry that created  *)
(* it: what its hard links share.                                          *)
Nothing == [kind |-> "nothing"]
Regular(l, inode) == [kind |-> "file", from |-> l, inode |-> inode]
Link(p) == [kind |-> "symlink", to |-> p]
Empty == [p \in Paths |-> Nothing]

NodeKinds == {"nothing", "dir", "file", "symlink"}
TreeOK(t) == DOMAIN t = Paths /\ \A p \in Paths : t[p].kind \in NodeKinds
LayersTypeOK ==
  /\ image \in Images
  /\ layer \in 1..Len(image) + 1 /\ next \in Nat
  /\ TreeOK(tree) /\ TreeOK(lower)
  /\ crossed \in BOOLEAN /\ failed \in BOOLEAN

LayersInit ==
  /\ image \in Images
  /\ layer = 1 /\ next = 1
  /\ tree = Empty /\ lower = Empty
  /\ crossed = FALSE /\ failed = FALSE

Under(p) == {q \in Paths : IsStrictPrefix(p, q)}
Above(p) == {q \in Paths : IsStrictPrefix(q, p)}
At(t, p) == IF p \in Paths THEN t[p].kind ELSE "nothing"
Removed(t, S) == [p \in Paths |-> IF p \in S THEN Nothing ELSE t[p]]

-----------------------------------------------------------------------------
(* Where a path leads: link after link is replaced by what it leads to,    *)
(* those above the path and, where the last name is followed too, one at   *)
(* it.  A way that still has a link after Hops of them is a loop.          *)
Links(t, p, last) == {q \in Above(p) \cup (IF last THEN {p} ELSE {}) : At(t, q) = "symlink"}
Hop(t, p, last) ==
  LET link == CHOOSE q \in Links(t, p, last) : \A r \in Links(t, p, last) : Len(q) <= Len(r)
  IN  t[link].to \o SubSeq(p, Len(link) + 1, Len(p))
Followed(t, p, last) ==
  LET after[n \in 0 .. Hops] ==
        IF n = 0 THEN p
        ELSE IF Links(t, after[n - 1], last) = {} THEN after[n - 1]
        ELSE Hop(t, after[n - 1], last)
  IN  IF Links(t, p, last) = {} THEN p ELSE after[Hops]
Place(t, p) == Followed(t, p, FALSE)
Reached(t, p) == Followed(t, p, TRUE)

(* MkdirAll: what is missing of a path becomes directories.                *)
Made(t, S) ==
  LET places == {Place(t, q) : q \in S} IN
    [p \in Paths |-> IF p \in places /\ At(t, p) = "nothing" THEN [kind |-> "dir"] ELSE t[p]]
Blocked(t, S) ==
  \E p \in S : At(t, Place(t, p)) \in {"file", "symlink"} /\ At(t, Reached(t, p)) # "dir"

(* RemoveAll: of a link only the link; a file on the way is an error.      *)
Gone(t, p) == Removed(t, {Place(t, p)} \cup Under(Place(t, p)))
CannotRemove(t, p) ==
  LET q == Place(t, p) IN
    Links(t, q, FALSE) # {} \/ \E r \in Above(q) : At(t, r) = "file"

(* OpenFile: what is there is emptied and written, under all its names.    *)
SameFile(t, p, q) ==
  At(t, p) = "file" /\ At(t, q) = "file" /\ t[p].inode = t[q].inode
Written(t, p, l, inode) ==
  [q \in Paths |->
     IF SameFile(t, p, q) THEN Regular(l, t[q].inode)
     ELSE IF q = p THEN Regular(l, inode) ELSE t[q]]
CannotOpen(t, p) ==
  LET q == Reached(t, p) IN
    \/ Links(t, q, TRUE) # {} \/ At(t, q) = "dir"
    \/ \E r \in Above(q) : At(t, r) # "dir"

(* Symlink and Link, once Remove has taken a file, a link or an empty      *)
(* directory out of the way.                                               *)
Cleared(t, p) == Removed(t, {Place(t, p)})
CannotPut(t, p) ==
  At(t, Place(t, p)) = "dir" /\ \E q \in Under(Place(t, p)) : At(t, q) # "nothing"
CannotLink(t, p) ==
  Links(t, Place(t, p), FALSE) # {} \/ At(t, Place(t, p)) \in {"nothing", "dir"}

-----------------------------------------------------------------------------
EntryFails(t, entry) ==
  LET p == entry.path
      made == Made(t, Above(p))
      gone == Gone(t, p)
  IN \/ entry.kind \in {"file", "symlink", "hardlink"} /\ Blocked(t, Above(p))
     \/ entry.kind = "dir" /\ Blocked(t, Above(p) \cup {p})
     \/ entry.kind = "file" /\ CannotOpen(made, p)
     \/ entry.kind \in {"symlink", "hardlink"} /\ CannotPut(made, p)
     \/ entry.kind = "hardlink" /\ CannotLink(Cleared(made, p), entry.target)
     \/ entry.kind \in {"whiteout", "opaque"} /\ CannotRemove(t, p)
     \/ entry.kind = "opaque" /\ Blocked(gone, Above(p) \cup {p})

(* A mutant: an opaque whiteout leaves what the layers below have in the   *)
(* directory.                                                              *)
Applied_KeepsLower(t, entry, l, inode) ==
  LET p == entry.path
      made == Made(t, Above(p))
  IN CASE entry.kind \in {"dir", "opaque"} -> Made(t, Above(p) \cup {p})
       [] entry.kind = "file" -> Written(made, Reached(made, p), l, inode)
       [] entry.kind = "symlink" -> [made EXCEPT ![Place(made, p)] = Link(entry.target)]
       [] entry.kind = "hardlink" ->
            [made EXCEPT ![Place(made, p)] = made[Place(Cleared(made, p), entry.target)]]
       [] OTHER -> Gone(t, p)

Applied(t, entry, l, inode) ==
  LET p == entry.path
      made == Made(t, Above(p))
  IN CASE entry.kind = "dir" -> Made(t, Above(p) \cup {p})
       [] entry.kind = "file" -> Written(made, Reached(made, p), l, inode)
       [] entry.kind = "symlink" -> [made EXCEPT ![Place(made, p)] = Link(entry.target)]
       [] entry.kind = "hardlink" ->
            [made EXCEPT ![Place(made, p)] = made[Place(Cleared(made, p), entry.target)]]
       [] entry.kind = "whiteout" -> Gone(t, p)
       [] OTHER -> Made(Gone(t, p), Above(p) \cup {p})

(* An entry that no link leads elsewhere: none is above its path, nor at   *)
(* that of a directory or of a file; the file it writes over has no second *)
(* name; and a hard link is one of a file of the directory.                *)
Straight(t, entry) ==
  LET p == entry.path IN
    /\ Links(t, p, entry.kind \in {"dir", "file"}) = {}
    /\ entry.kind = "file" => \A q \in Paths \ {p} : ~SameFile(t, p, q)
    /\ entry.kind = "hardlink" =>
         Links(t, entry.target, FALSE) = {} /\ At(t, entry.target) = "file"

Extracting == ~failed /\ layer <= Len(image)
Current == image[layer]

ExtractEntry ==
  /\ Extracting /\ next <= Len(Current)
  /\ IF EntryFails(tree, Current[next])
       THEN failed' = TRUE /\ UNCHANGED <<tree, next, crossed>>
       ELSE /\ tree' = Applied(tree, Current[next], layer, <<layer, next>>)
            /\ crossed' = (crossed \/ ~Straight(tree, Current[next]))
            /\ next' = next + 1
            /\ UNCHANGED failed
  /\ UNCHANGED <<image, layer, lower>>

NextLayer ==
  /\ Extracting /\ next > Len(Current)
  /\ layer' = layer + 1 /\ next' = 1
  /\ lower' = tree /\ crossed' = FALSE
  /\ UNCHANGED <<image, tree, failed>>

LayersNext == ExtractEntry \/ NextLayer
LayersSpec == LayersInit /\ [][LayersNext]_layerVars

-----------------------------------------------------------------------------
(* The specification: the whiteouts of a layer hide what the layers below  *)
(* it have, and never what the layer itself brings.                        *)
Entries(l, kinds) == {i \in DOMAIN l : l[i].kind \in kinds}
Named(l, kinds) == {l[i].path : i \in Entries(l, kinds)}
Hidden(l) ==
  (UNION {{l[i].path} \cup Under(l[i].path) : i \in Entries(l, {"whiteout"})})
  \cup (UNION {Under(l[i].path) : i \in Entries(l, {"opaque"})})
Linked(l) == Named(l, {"symlink"})
Brought(l) == Named(l, {"file", "hardlink"})
Directories(l) ==
  Named(l, {"dir", "opaque"})
  \cup UNION {Above(l[i].path) : i \in Entries(l, EntryKinds \ {"whiteout"})}

Meaning(t, l) ==
  [p \in Paths |->
     IF p \in Linked(l) THEN "symlink"
     ELSE IF p \in Brought(l) THEN "file"
     ELSE IF p \in Directories(l) THEN "dir"
     ELSE IF p \in Hidden(l) THEN "nothing" ELSE At(t, p)]

(* Every file has the contents its layer brings, or those it had below; a  *)
(* hard link has those of some other file.                                 *)
HasContents(t, low, l, n) ==
  \A p \in Paths \ Named(l, {"hardlink"}) :
    At(t, p) = "file" =>
      t[p].from = IF p \in Named(l, {"file"}) THEN n ELSE low[p].from

(* Whiteouts before everything else, as the OCI specification recommends,  *)
(* none of what the layer itself brings, and no path that is both kinds of *)
(* link.                                                                   *)
Sorted(l) ==
  /\ \A i, j \in DOMAIN l :
       l[i].kind \in {"whiteout", "opaque"} /\ l[j].kind \notin {"whiteout", "opaque"} => i < j
  /\ \A i \in Entries(l, {"whiteout"}), j \in Entries(l, {"opaque"}) :
       l[j].path \notin {l[i].path} \cup Under(l[i].path)
  /\ \A i, j \in Entries(l, {"opaque"}) : i < j => l[i].path \notin Under(l[j].path)
  /\ \A i \in Entries(l, {"symlink"}), j \in Entries(l, {"hardlink"}) : l[i].path # l[j].path

(* A layer in the recommended order none of whose entries met a link that  *)
(* led it elsewhere has left the directory it means, kinds and contents    *)
(* (client.go:193).  In any other order a whiteout may take away what its  *)
(* own layer has just brought; and of a layer that writes through a link   *)
(* nothing is promised: a file over a symbolic link replaces what the link *)
(* leads to, and one over a file with two names changes both.              *)
LayerMeansWhatItSays ==
  Extracting /\ next > Len(Current) /\ Sorted(Current) /\ ~crossed =>
    /\ [p \in Paths |-> At(tree, p)] = Meaning(lower, Current)
    /\ HasContents(tree, lower, Current, layer)
===============================================================================
