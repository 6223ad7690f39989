-------------------------------- MODULE MCAtCalls --------------------------------
(* Instances of AtCalls.  One thread asks for anything, the other one for  *)
(* what disturbs it most: a call that makes the name and keeps descriptors.*)
EXTENDS AtCalls, TLC

CONSTANTS t1, t2, d1, d2

Ask(f, op, x) == [fn |-> f, op |-> op, fd |-> x]

MCAsks == t1 :> Request
       @@ t2 :> {Ask("openat", "creat", d1)}

MCTrees == {d1 :> k @@ d2 :> "none" : k \in Kind}
================================================================================
