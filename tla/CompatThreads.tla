------------------------------ MODULE CompatThreads ------------------------------
(***************************************************************************)
(* What the threads of a process share, in a program that calls the        *)
(* functions of compat/: the user and group IDs, and the file system.      *)
(***************************************************************************)
EXTENDS Naturals, FiniteSets

CONSTANTS
  Thread, Dir,
  Place,      \* where a directory can be in the tree
  File, Link, \* what a name can be; those that are symbolic links
  NoFile,
  Cwd,        \* the working directory
  Owner,      \* Owner[d]: the user who may write in directory d
  Asks,       \* Asks[t]: the requests of thread t
  MaxCalls, MaxMoves  \* bounds: calls of each thread, directories renamed

ASSUME ThreadsAssumption == /\ Cwd \in Dir /\ Link \subseteq File /\ NoFile \notin File
                            /\ IsFiniteSet(Dir) /\ MaxCalls \in [Thread -> Nat] /\ MaxMoves \in Nat

VARIABLES
  req, pc, errno, \* of each thread
  calls,
  ids,        \* ids.ruid, ids.euid, ids.rgid, ids.egid
  entry,      \* entry[d]: what the one name in directory d is
  where       \* where[d]: the place of d

threads == <<req, pc, errno, calls>>

At(t, l) == pc[t] = l
Goto(t, l) == pc' = [pc EXCEPT ![t] = l]
Set(f, t, v) == [f EXCEPT ![t] = v]

(* A path is given relative to a descriptor, to the working directory, or  *)
(* as an absolute one: a place.                                            *)
Descriptor == Dir \cup {"file", "closed"}
Given == Descriptor \cup {"AT_FDCWD"} \cup Place

Relative(x) == x \in Descriptor

(* fstat, and S_ISDIR of what it found *)
Refusal(x) == IF x = "file" THEN "ENOTDIR" ELSE "EBADF"

OK == "0"

Return(t, e) == errno' = Set(errno, t, e) /\ Goto(t, "idle")
================================================================================
