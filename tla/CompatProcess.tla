------------------------------ MODULE CompatProcess ------------------------------
(***************************************************************************)
(* A program with threads in renameat, linkat and faccessat together: the  *)
(* IDs that faccessat swaps are those by which rename and link are judged. *)
(***************************************************************************)
EXTENDS TwoPaths, Faccessat

CONSTANTS Trees, Ids   \* what the names, and the IDs of the program, can be at first

Request == TwoPathsRequest \cup FaccessatRequest

ASSUME ProcessAssumption == /\ Asks \in [Thread -> SUBSET Request]
                            /\ Trees \subseteq [Dir -> File \cup {NoFile}]
                            /\ \A i \in Ids : DOMAIN i = ReadsIds /\ i = [k \in ReadsIds |-> i[k]]

VARIABLES
  moves,
  undisturbed  \* undisturbed[t]: t's rename or link met no swapped IDs

vars == <<threads, ids, entry, where, paths, access, moves, undisturbed>>

Call(t) == /\ At(t, "idle") /\ calls[t] < MaxCalls[t]
           /\ \E r \in Asks[t] :
                /\ req' = Set(req, t, r)
                /\ \/ r.fn = "faccessat" /\ CallFaccessat(t, r) /\ UNCHANGED paths
                   \/ r.fn # "faccessat" /\ CallTwoPaths(t, r) /\ UNCHANGED access
           /\ errno' = Set(errno, t, "none")
           /\ calls' = Set(calls, t, calls[t] + 1)
           /\ UNCHANGED <<ids, entry, where, moves, undisturbed>>

Step(t) == \/ /\ renameat(t) \/ linkat(t)
              /\ undisturbed' = Set(undisturbed, t, \A u \in Thread : ~Swapping(u))
              /\ UNCHANGED <<access, moves>>
           \/ faccessat(t) /\ UNCHANGED <<paths, moves, undisturbed>>

Move == /\ moves < MaxMoves /\ moves' = moves + 1
        /\ MoveDir /\ UNCHANGED <<access, undisturbed>>

Init == /\ entry \in Trees
        /\ where = CHOOSE w \in [Dir -> Place] : Distinct(w)
        /\ ids \in Ids /\ own = ids
        /\ req \in [Thread -> {CHOOSE r \in FaccessatRequest : TRUE}]
        /\ pc = [t \in Thread |-> "idle"]
        /\ errno = [t \in Thread |-> "none"]
        /\ calls = [t \in Thread |-> 0] /\ moves = 0
        /\ oldpath = [t \in Thread |-> "relative"] /\ newpath = oldpath
        /\ did = [t \in Thread |-> Nothing] /\ moved = [t \in Thread |-> FALSE]
        /\ local = [t \in Thread |-> ids]
        /\ judged = [t \in Thread |-> [uid |-> ids.ruid, gid |-> ids.rgid]]
        /\ alone = [t \in Thread |-> FALSE] /\ marred = FALSE
        /\ undisturbed = [t \in Thread |-> TRUE]

Next == Move \/ \E t \in Thread : Call(t) \/ Step(t)

Spec == Init /\ [][Next]_vars

--------------------------------------------------------------------------------
(* Properties. *)

Label == Swaps \cup {"idle", "old", "getold", "lstat", "new", "getnew", "act"}

Error == {"none", OK, "EINVAL", "EBADF", "ENOTDIR", "ENOENT", "EACCES", "EEXIST"}

Swapped == [ruid |-> own.euid, euid |-> own.ruid, rgid |-> own.egid, egid |-> own.rgid]

(* As the swaps of overlapping calls can leave them. *)
Mixed == {f \in [ReadsIds -> {own[i] : i \in ReadsIds}] :
            \A i \in ReadsIds : f[i] \in {own[i], Swapped[i]}}

TypeOK == /\ req \in [Thread -> Request] /\ pc \in [Thread -> Label]
          /\ errno \in [Thread -> Error] /\ calls \in [Thread -> Nat] /\ moves \in Nat
          /\ own \in Ids /\ ids \in Mixed /\ local \in [Thread -> Mixed]
          /\ entry \in [Dir -> File \cup {NoFile}] /\ where \in [Dir -> Place]
          /\ undisturbed \in [Thread -> BOOLEAN]
          /\ TwoPathsTypeOK /\ FaccessatTypeOK

(* Whether a rename or a link is allowed is a matter of the program's own  *)
(* effective user, in whichever order threads check their access, unless   *)
(* one is doing so for AT_EACCESS at that time.  It is asked of whichever  *)
(* directories of Dir the two paths led to.                                *)
OwnUserDecides == \A t \in Thread :
  /\ At(t, "idle") /\ req[t].fn = "renameat" /\ errno[t] \in {OK, "EACCES"}
  /\ did[t].old # {} /\ did[t].new # {}
  /\ undisturbed[t] /\ ~marred
  => (errno[t] = OK <=> \A d \in did[t].old \cup did[t].new : Owner[d] = own.euid)

(* Each call is judged by the IDs that are meant for it.                   *)
RightIds == JudgedRight /\ OwnUserDecides
================================================================================
