--------------------------------- MODULE TwoPaths ---------------------------------
(***************************************************************************)
(* renameat and linkat of compat/: paths are made of the two descriptors   *)
(* one after the other, then rename or link is called on them.             *)
(***************************************************************************)
EXTENDS CompatThreads

(* No two directories are in one place. *)
Distinct(w) == \A d, e \in Dir : w[d] = w[e] => d = e

ASSUME PlacesAssumption == /\ {"relative", "garbage"} \cap Place = {}
                           /\ \E w \in [Dir -> Place] : Distinct(w)

VARIABLES
  oldpath, newpath,  \* of each thread: "relative", or the place it names
  did,               \* did[t]: the directories the call of t acted in, and the paths
                     \* that were no longer what had been put there
  moved              \* moved[t]: a directory was renamed since t's call began

paths == <<oldpath, newpath, did, moved>>

TwoPathsRequest == [fn : {"renameat", "linkat"}, old : Given, new : Given, follow : BOOLEAN]

Text(x) == IF x \in Place THEN x ELSE "relative"

(* The directory a path leads to, if there is one. *)
Resolve(x) == IF x = "relative" THEN {Cwd} ELSE {d \in Dir : where[d] = x}

Nothing == [old |-> {}, new |-> {}, stale |-> {}]

CallTwoPaths(t, r) == /\ Goto(t, "old")
                      /\ oldpath' = Set(oldpath, t, Text(r.old))
                      /\ newpath' = Set(newpath, t, Text(r.new))
                      /\ did' = Set(did, t, Nothing) /\ moved' = Set(moved, t, FALSE)

--------------------------------------------------------------------------------
(* The block for olddirfd, then the one for newdirfd.                      *)

Fstat(t, x, here, getpath, next) ==
  /\ At(t, here)
  /\ \/ Relative(x) /\ x \in {"file", "closed"} /\ Return(t, Refusal(x))
     \/ /\ \/ Relative(x) /\ x \notin {"file", "closed"} /\ Goto(t, getpath)
           \/ ~Relative(x) /\ Goto(t, next)
        /\ UNCHANGED errno
  /\ UNCHANGED <<req, calls, ids, entry, where, paths>>

FstatOld(t, next) == Fstat(t, req[t].old, "old", "getold", next)
FstatNew(t) == Fstat(t, req[t].new, "new", "getnew", "act")

(* fcntl(fd, F_GETPATH, fdpath); strcat *)
GetOld(t, next) == /\ At(t, "getold")
                   /\ oldpath' = Set(oldpath, t, where[req[t].old])
                   /\ Goto(t, next)
                   /\ UNCHANGED <<req, errno, calls, ids, entry, where, newpath, did, moved>>

GetNew_FromOld(t) == /\ At(t, "getnew")
                     /\ newpath' = Set(newpath, t, oldpath[t])
                     /\ Goto(t, "act")
                     /\ UNCHANGED <<req, errno, calls, ids, entry, where, oldpath, did, moved>>

GetNew(t) == /\ At(t, "getnew")
             /\ newpath' = Set(newpath, t, where[req[t].new])
             /\ Goto(t, "act")
             /\ UNCHANGED <<req, errno, calls, ids, entry, where, oldpath, did, moved>>

(* The arrays oldpath and newpath point to are those of the blocks for     *)
(* olddirfd and newdirfd, which have ended: what is there may be the path  *)
(* still, the other path, or any text, also one that leads out of Dir.     *)
Anything == Place \cup {"relative", "garbage"}

OldNow(t) == IF Relative(req[t].old) THEN Anything ELSE {oldpath[t]}
NewNow(t) == IF Relative(req[t].new) THEN Anything ELSE {newpath[t]}

Holds(ds) == {d \in ds : entry[d] # NoFile}

(* linkat with AT_SYMLINK_FOLLOW *)
Lstat(t) == /\ At(t, "lstat")
            /\ \/ ~req[t].follow /\ Goto(t, "new") /\ UNCHANGED errno
               \/ req[t].follow /\ \E x \in OldNow(t) : LET ds == Holds(Resolve(x)) IN
                    \/ ds = {} /\ Return(t, "ENOENT")
                    \/ (\E d \in ds : entry[d] \in Link) /\ Return(t, "EINVAL")
                    \/ (\E d \in ds : entry[d] \notin Link) /\ Goto(t, "new") /\ UNCHANGED errno
                    \/ x = "garbage" /\ Return(t, "EINVAL")
                    \/ x = "garbage" /\ Goto(t, "new") /\ UNCHANGED errno
            /\ UNCHANGED <<req, calls, ids, entry, where, paths>>

--------------------------------------------------------------------------------
(* rename and link: external.  Two names of one file stay as they are when *)
(* one is renamed to the other; link may or may not follow a link.         *)
MayWrite(ds) == \A d \in ds : Owner[d] = ids.euid

rename(t, od, nd) ==
  \/ ~MayWrite({od, nd}) /\ Return(t, "EACCES") /\ UNCHANGED entry
  \/ /\ MayWrite({od, nd}) /\ Return(t, OK)
     /\ entry' = IF entry[od] = entry[nd] THEN entry
                 ELSE [entry EXCEPT ![nd] = entry[od], ![od] = NoFile]

link(t, od, nd) ==
  \/ entry[nd] # NoFile /\ Return(t, "EEXIST") /\ UNCHANGED entry
  \/ entry[nd] = NoFile /\ ~MayWrite({nd}) /\ Return(t, "EACCES") /\ UNCHANGED entry
  \/ entry[od] \in Link /\ Return(t, "ENOENT") /\ UNCHANGED entry
  \/ /\ entry[nd] = NoFile /\ MayWrite({nd}) /\ Return(t, OK)
     /\ entry' = [entry EXCEPT ![nd] = entry[od]]

(* Of a file that is not in Dir, or to such a name. *)
elsewhere(t, ds) ==
  \/ Return(t, OK) /\ \E f \in File \cup {NoFile} :
       entry' = [d \in Dir |-> IF d \in ds THEN f ELSE entry[d]]
  \/ (Return(t, "EACCES") \/ Return(t, "EEXIST")) /\ UNCHANGED entry

Stale(t, x, y) == {s \in {"old", "new"} : IF s = "old" THEN x # oldpath[t] ELSE y # newpath[t]}

(* The call on what the two paths are now. *)
Act(t) ==
  /\ At(t, "act")
  /\ \E x \in OldNow(t), y \in NewNow(t) : LET os == Holds(Resolve(x)) ns == Resolve(y) IN
       \/ /\ os = {} \/ ns = {}
          /\ Return(t, "ENOENT") /\ UNCHANGED <<entry, did>>
       \/ /\ \/ \E od \in os, nd \in ns :
                  \/ req[t].fn = "renameat" /\ rename(t, od, nd)
                  \/ req[t].fn = "linkat" /\ link(t, od, nd)
             \/ /\ "garbage" \in {x, y} /\ (os # {} \/ x = "garbage") /\ (ns # {} \/ y = "garbage")
                /\ elsewhere(t, os \cup ns)
          /\ did' = Set(did, t, [old |-> os, new |-> ns, stale |-> Stale(t, x, y)])
  /\ UNCHANGED <<req, calls, ids, where, oldpath, newpath, moved>>

renameat(t) == /\ req[t].fn = "renameat"
               /\ \/ FstatOld(t, "new") \/ GetOld(t, "new")
                  \/ FstatNew(t) \/ GetNew(t) \/ Act(t)

linkat(t) == /\ req[t].fn = "linkat"
             /\ \/ FstatOld(t, "lstat") \/ GetOld(t, "lstat") \/ Lstat(t)
                \/ FstatNew(t) \/ GetNew(t) \/ Act(t)

(* Another program renames a directory. *)
MoveDir == /\ \E d \in Dir, p \in Place \ {where[e] : e \in Dir} : where' = Set(where, d, p)
           /\ moved' = [t \in Thread |-> TRUE]
           /\ UNCHANGED <<threads, ids, entry, oldpath, newpath, did>>

--------------------------------------------------------------------------------
(* Properties. *)

TwoPathsTypeOK ==
  /\ oldpath \in [Thread -> Place \cup {"relative"}]
  /\ newpath \in [Thread -> Place \cup {"relative"}]
  /\ did \in [Thread -> [old : SUBSET Dir, new : SUBSET Dir, stale : SUBSET {"old", "new"}]]
  /\ moved \in [Thread -> BOOLEAN]

(* What the caller named. *)
Meant(x) == IF x \in Dir THEN {x} ELSE Resolve(Text(x))

Acted(t) == At(t, "idle") /\ errno[t] = OK /\ req[t].fn \in {"renameat", "linkat"}

(* Unless a directory is renamed under it, a call that succeeds has acted  *)
(* where it was told by each path that is still what the function put      *)
(* there, or the caller's own.  For a path in an array of an ended block   *)
(* the code guarantees nothing.                                            *)
ActsOnNamed == \A t \in Thread : Acted(t) /\ ~moved[t] =>
  /\ (Relative(req[t].old) => "old" \notin did[t].stale) => did[t].old = Meant(req[t].old)
  /\ (Relative(req[t].new) => "new" \notin did[t].stale) => did[t].new = Meant(req[t].new)

(* The comment says that race conditions are what the functions lack:      *)
(* without any, a call that succeeds does what it was asked to do.         *)
RightWithoutRaces == \A t \in Thread : Acted(t) /\ ~moved[t] =>
  did[t].old = Meant(req[t].old) /\ did[t].new = Meant(req[t].new)
================================================================================
