----------------------------- MODULE Singletons -----------------------------
(***************************************************************************)
(* The accessors of dependencies.py that lru_cache is to make singletons.  *)
(* FastAPI calls them for each request, one after the other, in threads of *)
(* their own.  lru_cache does not lock while the accessor runs: two first  *)
(* calls may both build an instance; the first one to return is cached,    *)
(* the other is given to its own caller only.                              *)
(*                                                                         *)
(* An instance is named after the request that built it.                   *)
(***************************************************************************)
EXTENDS Naturals, Sequences

CONSTANTS
  Requests,   \* the callers
  Accessors,  \* how many accessors there are; they are called in order
  Nobody      \* what is in an empty cache

ASSUME SingletonsAssumption ==
  /\ Accessors \in Nat
  /\ Nobody \notin Requests

VARIABLES
  cached,  \* cached[a]: the instance that accessor a returns from its cache
  held     \* held[r]: the instances r has been given, in order of the accessors

singletons == <<cached, held>>

EmptyCaches ==
  /\ cached = [a \in 1..Accessors |-> Nobody]
  /\ held = [r \in Requests |-> <<>>]

(* The accessor that r calls next.                                         *)
Wanted(r) == Len(held[r]) + 1
Resolved(r) == Wanted(r) > Accessors

Hit(r) ==
  /\ ~Resolved(r)
  /\ cached[Wanted(r)] # Nobody
  /\ held' = [held EXCEPT ![r] = Append(@, cached[Wanted(r)])]
  /\ UNCHANGED cached

(* Mutant of Miss: a placeholder is cached before the instance is built.   *)
MissReserves(r) ==
  /\ ~Resolved(r)
  /\ cached[Wanted(r)] = Nobody
  /\ cached' = [cached EXCEPT ![Wanted(r)] = r]
  /\ UNCHANGED held

Miss(r) ==
  /\ ~Resolved(r)
  /\ cached[Wanted(r)] = Nobody
  /\ UNCHANGED singletons

(* Mutant of Build: the last one to return is cached.                      *)
BuildReplaces(r) ==
  /\ held' = [held EXCEPT ![r] = Append(@, r)]
  /\ cached' = [cached EXCEPT ![Wanted(r)] = r]

(* The instance r has been building is ready; what is cached stays cached. *)
Build(r) ==
  /\ held' = [held EXCEPT ![r] = Append(@, r)]
  /\ cached' = [cached EXCEPT ![Wanted(r)] = IF @ = Nobody THEN r ELSE @]

=============================================================================
