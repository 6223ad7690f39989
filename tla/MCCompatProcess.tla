----------------------------- MODULE MCCompatProcess -----------------------------
(* A program with the user and group IDs of the owner of two directories:   *)
(* one thread checks access in every way, the other renames and links.      *)
EXTENDS CompatProcess, TLC

CONSTANTS t1, t2, d1, d2, p1, p2, p3, f1, f2, lnk, owner, caller

MCOwner == [d \in Dir |-> owner]

MCTrees == {(d1 :> f1) @@ (d2 :> NoFile), (d1 :> f1) @@ (d2 :> f2),
            (d1 :> f1) @@ (d2 :> f1), (d1 :> lnk) @@ (d2 :> NoFile)}

(* Set to another user and group, or to only one of them. *)
MCIds == {[ruid |-> caller, euid |-> owner, rgid |-> caller, egid |-> owner],
          [ruid |-> caller, euid |-> owner, rgid |-> caller, egid |-> caller],
          [ruid |-> caller, euid |-> caller, rgid |-> caller, egid |-> owner]}

Checks == {r \in FaccessatRequest : r.fd \in {d1, "file", "AT_FDCWD"}}

Renames == {r \in TwoPathsRequest :
  /\ r.old \in {d1, "AT_FDCWD", "file", p1}
  /\ r.new \in {d2, "closed", p2}
  /\ r.fn = "renameat" => ~r.follow}

MCAsks == (t1 :> Checks) @@ (t2 :> Renames \cup {r \in Checks : r.fd = d1})
MCMaxCalls == (t1 :> 2) @@ (t2 :> 1)

(* Directories are renamed under a thread that has the program for itself. *)
MCNext == Next /\ (moves' = 0 \/ calls'[t1] = 0)

MCSpec == Init /\ [][MCNext]_vars

(* One thread that renames and links, and nobody else. *)
OneAsks == (t1 :> Renames) @@ (t2 :> {})
================================================================================
