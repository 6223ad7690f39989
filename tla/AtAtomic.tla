-------------------------------- MODULE AtAtomic --------------------------------
(***************************************************************************)
(* What openat, mkdirat, unlinkat and the others promise: a call has its   *)
(* effect at one instant, in the directory its descriptor refers to, and   *)
(* reports what it met there, or what is wrong with the descriptor.        *)
(***************************************************************************)
EXTENDS PathCalls

CONSTANTS
  Thread, Dir,
  Request,      \* records with fields fn, op and fd
  Private,      \* threads may have directories of their own
  NoResult

VARIABLES
  kind,         \* kind[d]: what the name is in directory d
  req, phase, outcome,
  back          \* back[t]: t has a directory of its own to go back to

vars == <<kind, req, phase, outcome, back>>

Init == /\ kind \in [Dir -> Kind]
        /\ req \in [Thread -> Request]
        /\ phase = [t \in Thread |-> "idle"]
        /\ outcome = [t \in Thread |-> NoResult]
        /\ back \in [Thread -> BOOLEAN]

Call(t) == /\ phase[t] = "idle"
           /\ \E r \in Request : req' = [req EXCEPT ![t] = r]
           /\ phase' = [phase EXCEPT ![t] = "called"]
           /\ outcome' = [outcome EXCEPT ![t] = NoResult]
           /\ \E b \in BOOLEAN : back' = [back EXCEPT ![t] = b]
           /\ UNCHANGED kind

(* Its directory cannot be opened. *)
Lose(t) == /\ phase[t] = "called"
           /\ back' = [back EXCEPT ![t] = FALSE]
           /\ UNCHANGED <<kind, req, phase, outcome>>

Finish(t, e) == /\ phase[t] = "called"
                /\ phase' = [phase EXCEPT ![t] = "acted"]
                /\ outcome' = [outcome EXCEPT ![t] = e]
                /\ UNCHANGED <<req, back>>

(* A path that is not relative to a descriptor is the system's business. *)
Targets(r) == IF r.fd \in {"AT_FDCWD", "absolute"} THEN Dir ELSE {r.fd} \cap Dir

Act(t) == \E d \in Targets(req[t]) :
            /\ Finish(t, Result(req[t].op, kind[d]))
            /\ kind' = [kind EXCEPT ![d] = After(req[t].op, @)]

(* Reasons of a failure that are not the name's.  A file in place of a     *)
(* directory is reported as a closed descriptor only by a thread that has  *)
(* nothing to go back to.  With an empty path the descriptor is read.      *)
Refusal(t, e) ==
  LET r == req[t] IN
    \/ e = "EMFILE"  /\ r.op \in {"open", "creat"} /\ r.fd \notin {"file", "closed"}
    \/ e = "EBADF"   /\ r.fd = "closed"
    \/ e = "ENOTDIR" /\ r.fd = "file"
    \/ e = "EBADF"   /\ r.fd = "file" /\ Private /\ ~back[t]
    \/ e = "EINVAL"  /\ r.op = "readself" /\ r.fd \in Dir \cup {"file"}
    \/ e = "ENOENT"  /\ r.op = "readself" /\ r.fd \in Dir

Refuse(t) == /\ \E e \in {"EMFILE", "EBADF", "ENOTDIR", "EINVAL", "ENOENT"} :
                  Refusal(t, e) /\ Finish(t, e)
             /\ UNCHANGED kind

Return(t) == /\ phase[t] = "acted"
             /\ phase' = [phase EXCEPT ![t] = "idle"]
             /\ UNCHANGED <<kind, req, outcome, back>>

Next == \E t \in Thread : Call(t) \/ Lose(t) \/ Act(t) \/ Refuse(t) \/ Return(t)

Spec == Init /\ [][Next]_vars
================================================================================
