------------------------------- MODULE TopoBuild -------------------------------
(***************************************************************************)
(* What a package build promises, without shells, staging directories or   *)
(* temporary files: a package is produced in one step, out of complete     *)
(* outputs of all its dependencies, and the output remembers exactly which *)
(* generation of each dependency it was made from.  PkgBuild implements it.*)
(***************************************************************************)
EXTENDS Naturals

CONSTANTS
  Pkg,      \* the packages
  DepSet    \* DepSet[p]: the packages named in p's dependencies.txt

VARIABLES
  out,      \* the packages whose complete output directory exists
  gen,      \* gen[p]: the generation of p's newest attempt
  from      \* from[p]: what p's output was made of, pairs <<package, generation>>

vars == <<out, gen, from>>

Init == /\ out = {}
        /\ gen = [p \in Pkg |-> 0]
        /\ from = [p \in Pkg |-> {}]

(* The output of p is deleted: by a clean, or because it is to be rebuilt. *)
Remove(p) == /\ out' = out \ {p}
             /\ UNCHANGED <<gen, from>>

(* p is attempted, with nothing of it left over: every dependency is       *)
(* complete, and its current generation, and nothing outdated or partial,  *)
(* is what goes in.                                                        *)
Attempt(p) == /\ p \notin out
              /\ gen' = [gen EXCEPT ![p] = @ + 1]
              /\ \A d \in DepSet[p] : d \in out /\ <<d, gen[d]>> \in from'[p]
              /\ \A u \in from'[p] : u[1] \in out /\ u[2] = gen[u[1]]
              /\ from' = [from EXCEPT ![p] = from'[p]]
              /\ UNCHANGED out

(* The attempt succeeds. *)
Produce(p) == /\ DepSet[p] \subseteq out
              /\ \A u \in from[p] : u[1] \in out /\ u[2] = gen[u[1]]
              /\ out' = out \cup {p}
              /\ UNCHANGED <<gen, from>>

Next == \E p \in Pkg : Remove(p) \/ Attempt(p) \/ Produce(p)

Spec == Init /\ [][Next]_vars
================================================================================
