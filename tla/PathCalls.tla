-------------------------------- MODULE PathCalls --------------------------------
(***************************************************************************)
(* The system calls that take a path, on the one name a directory has.     *)
(* The kernel is not part of the repository: this is what compat/ relies   *)
(* on.  Links dangle, directories are empty.                               *)
(***************************************************************************)

Kind == {"none", "file", "dir", "link"}

Exists == Kind \ {"none"}
Followed == {"file", "dir"}

(* What the name must be for the call to succeed. *)
Takes == [open    |-> Followed,  creat    |-> {"none", "file"}, mkdir       |-> {"none"},
          unlink  |-> {"file", "link"}, rmdir |-> {"dir"},      symlink     |-> {"none"},
          stat    |-> Followed,  lstat    |-> Exists,           readlink    |-> {"link"},
          access  |-> Followed,  setattrlist |-> Followed, readself |-> {}]   \* of ""

Op == DOMAIN Takes

(* What the name is after a call that succeeded. *)
Leaves(op, k) == CASE op = "creat"             -> "file"
                   [] op = "mkdir"             -> "dir"
                   [] op = "symlink"           -> "link"
                   [] op \in {"unlink", "rmdir"} -> "none"
                   [] OTHER                    -> k

OK == "0"

Errno(op, k) == CASE k = "none" \/ op = "readself" -> "ENOENT"
                  [] op \in {"mkdir", "symlink"}   -> "EEXIST"
                  [] op = "creat"                  -> IF k = "dir" THEN "EISDIR" ELSE "ENOENT"
                  [] op = "unlink"                 -> "EPERM"
                  [] op = "rmdir"                  -> "ENOTDIR"
                  [] op = "readlink"                  -> "EINVAL"
                  [] OTHER                         -> "ENOENT"

(* The call succeeds or not, on a name that is k. *)
After(op, k) == IF k \in Takes[op] THEN Leaves(op, k) ELSE k
Result(op, k) == IF k \in Takes[op] THEN OK ELSE Errno(op, k)
================================================================================
