------------------------------ MODULE ImageCache ------------------------------
(***************************************************************************)
(* The path from an image to a component's binary: the image cache         *)
(* (internal/registry/client.go) and the component cache on top of it      *)
(* (internal/components/resolver.go; the one of processors,                *)
(* internal/registry/processor_resolver.go, takes the same steps).  Both   *)
(* are directories that flowctl processes share and that outlive them; a   *)
(* file or directory that exists is taken for a complete one.              *)
(***************************************************************************)
EXTENDS Naturals, FiniteSets

CONSTANTS
  Resolvers,    \* flowctl processes, each of which resolves one image
  Tries,        \* bound: how often each of them does
  Disturbances  \* sets of "crash", "overlap" and "copy": what may disturb a resolve
                \* besides a download or an extraction that fails

VARIABLES
  disturbances,  \* the set of this behaviour
  place,         \* where each process is
  tried,         \* how often it has begun
  tarball,       \* the cached image: "none", "partial", "whole"
  extracted,     \* its file system: "none", "partial", "whole"
  binary,        \* the component's file: "none", "partial", "plain", "executable"
  resolved       \* the processes whose last Resolve returned the binary

cacheVars == <<disturbances, place, tried, tarball, extracted, binary, resolved>>

Locations == {"idle", "stat", "extract", "pull", "download", "write", "load", "layers", "find", "copy",
           "chmod", "verify"}

CacheTypeOK ==
  /\ disturbances \in Disturbances
  /\ place \in [Resolvers -> Locations]
  /\ tried \in [Resolvers -> Nat]
  /\ tarball \in {"none", "partial", "whole"} /\ extracted \in {"none", "partial", "whole"}
  /\ binary \in {"none", "partial", "plain", "executable"}
  /\ resolved \subseteq Resolvers

CacheInit ==
  /\ disturbances \in Disturbances
  /\ place = [p \in Resolvers |-> "idle"]
  /\ tried = [p \in Resolvers |-> 0]
  /\ tarball = "none" /\ extracted = "none" /\ binary = "none"
  /\ resolved = {}

Move(p, from, to) == place[p] = from /\ place' = [place EXCEPT ![p] = to]
Caches == <<tarball, extracted, binary>>
Rest == UNCHANGED <<disturbances, tried, resolved>>

-----------------------------------------------------------------------------
(* Resolve: a binary that is there is returned as it is. *)
Resolve(p) ==
  /\ tried[p] < Tries
  /\ "overlap" \in disturbances \/ \A q \in Resolvers : place[q] = "idle"
  /\ Move(p, "idle", "stat")
  /\ tried' = [tried EXCEPT ![p] = @ + 1]
  /\ resolved' = resolved \ {p}
  /\ UNCHANGED <<disturbances, Caches>>

Return(p, from) == Move(p, from, "idle") /\ resolved' = resolved \cup {p}

FindCached(p) ==
  /\ \/ binary # "none" /\ Return(p, "stat")
     \/ binary = "none" /\ Move(p, "stat", "extract") /\ UNCHANGED resolved
  /\ UNCHANGED <<disturbances, tried, Caches>>

(* Extract, and Pull under it. *)
FindExtracted(p) ==
  /\ \/ extracted # "none" /\ Move(p, "extract", "find")
     \/ extracted = "none" /\ Move(p, "extract", "pull")
  /\ Rest /\ UNCHANGED Caches

FindTarball(p) ==
  /\ \/ tarball # "none" /\ Move(p, "pull", "load")
     \/ tarball = "none" /\ Move(p, "pull", "download")
     \/ Move(p, "pull", "idle")  \* the registry does not answer
  /\ Rest /\ UNCHANGED Caches

(* saveImageToCache: the file is created, then written; it is removed when *)
(* that fails.                                                             *)
BeginDownload(p) ==
  /\ Move(p, "download", "write")
  /\ tarball' = "partial"
  /\ Rest /\ UNCHANGED <<extracted, binary>>

(* A mutant: a download that failed is left where it is. *)
AfterFailedDownload_Kept == tarball
AfterFailedDownload == "none"

EndDownload(p) ==
  /\ \/ Move(p, "write", "load") /\ tarball' = "whole"
     \/ Move(p, "write", "idle") /\ tarball' = AfterFailedDownload
  /\ Rest /\ UNCHANGED <<extracted, binary>>

(* An image that was cut off cannot be loaded, and it stays in the cache.  *)
LoadTarball(p) ==
  /\ \/ /\ tarball = "whole"
        /\ Move(p, "load", "layers")
        /\ extracted' = "partial"
     \/ /\ tarball # "whole"
        /\ Move(p, "load", "idle")
        /\ UNCHANGED extracted
  /\ Rest /\ UNCHANGED <<tarball, binary>>

(* A mutant: the directory of an extraction that failed is left. *)
AfterFailedExtraction_Kept == extracted
AfterFailedExtraction == "none"

ExtractLayers(p) ==
  /\ \/ Move(p, "layers", "find") /\ extracted' = "whole"
     \/ Move(p, "layers", "idle") /\ extracted' = AfterFailedExtraction
  /\ Rest /\ UNCHANGED <<tarball, binary>>

-----------------------------------------------------------------------------
(* download of the resolver: the binary, if the image has one, is copied   *)
(* to the component cache and made executable.                             *)
BeginCopy(p) ==
  /\ \/ /\ extracted # "none"
        /\ Move(p, "find", "copy")
        /\ binary' = "partial"
     \/ /\ Move(p, "find", "idle")
        /\ UNCHANGED binary
  /\ Rest /\ UNCHANGED <<tarball, extracted>>

(* What is copied is as complete as what it is copied from. *)
EndCopy(p) ==
  /\ \/ /\ Move(p, "copy", "chmod")
        /\ binary' = IF extracted = "whole" THEN "plain" ELSE "partial"
     \/ /\ "copy" \in disturbances
        /\ Move(p, "copy", "idle")
        /\ UNCHANGED binary
  /\ Rest /\ UNCHANGED <<tarball, extracted>>

MakeExecutable(p) ==
  /\ \/ /\ Move(p, "chmod", "verify")
        /\ binary' = IF binary = "plain" THEN "executable" ELSE binary
     \/ /\ "copy" \in disturbances
        /\ Move(p, "chmod", "idle")
        /\ UNCHANGED binary
  /\ Rest /\ UNCHANGED <<tarball, extracted>>

VerifyBinary(p) ==
  /\ \/ binary # "none" /\ Return(p, "verify")
     \/ binary = "none" /\ Move(p, "verify", "idle") /\ UNCHANGED resolved
  /\ UNCHANGED <<disturbances, tried, Caches>>

(* The process is killed; what it has written stays. *)
Crash(p) ==
  /\ "crash" \in disturbances /\ place[p] # "idle"
  /\ place' = [place EXCEPT ![p] = "idle"]
  /\ Rest /\ UNCHANGED Caches

CacheNext ==
  \E p \in Resolvers :
    \/ Resolve(p) \/ FindCached(p) \/ FindExtracted(p) \/ FindTarball(p) \/ BeginDownload(p)
    \/ EndDownload(p) \/ LoadTarball(p) \/ ExtractLayers(p) \/ BeginCopy(p) \/ EndCopy(p)
    \/ MakeExecutable(p) \/ VerifyBinary(p) \/ Crash(p)

CacheSpec == CacheInit /\ [][CacheNext]_cacheVars

-----------------------------------------------------------------------------
(* "Resolver resolves component references to executable binary paths"     *)
(* (resolver.go:13).                                                       *)
ResolvedIsExecutable == resolved # {} => binary = "executable"

(* Where processes resolve one after the other and are not killed, every   *)
(* download and extraction that fails is cleaned up: the next try neither  *)
(* takes its remains for the real thing nor is blocked by them.  A copy    *)
(* that fails, and a chmod, are not cleaned up: the next try returns what  *)
(* they left (resolver.go:80), so that only where neither fails what is    *)
(* returned is known to be executable.                                     *)
CleanupSuffices ==
  disturbances \cap {"crash", "overlap"} = {} =>
    /\ (\A p \in Resolvers : place[p] = "idle") => tarball # "partial" /\ extracted # "partial"
    /\ "copy" \notin disturbances => ResolvedIsExecutable
===============================================================================
