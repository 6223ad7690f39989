--------------------------------- MODULE AtCalls ---------------------------------
(***************************************************************************)
(* The functions of compat/ that take a directory descriptor, on a system  *)
(* without them: threads of one process, with a working directory for the  *)
(* process and one a thread may set for itself (pthread_fchdir_np).        *)
(***************************************************************************)
EXTENDS PathCalls, Naturals, FiniteSets

CONSTANTS
  Thread, Dir, NoDir,
  Place,        \* where a directory can be in the tree
  Asks,         \* Asks[t]: the requests of thread t
  Trees,        \* what the names can be at first
  InSystem,     \* those libSystem has
  Private,      \* FALSE in builds for Mac OS X 10.4 and iPhone OS 1
  Readable,     \* directories open(".") may open
  Limit,        \* descriptors the process may still open
  MaxCalls,     \* bound: calls of a thread
  MaxMoves, MaxChdirs, \* bounds: directories renamed, chdirs of the process
  NoResult

VARIABLES
  kind,         \* kind[d]: what the name is in directory d
  where,        \* where[d]: the place of d
  cwd,          \* of the process
  own,          \* own[t]: of thread t, NoDir if it has none
  used,         \* descriptors opened
  req, pc,
  saved,        \* saved[t]: what t's descriptor cwd refers to, NoDir for -1
  text,         \* text[t]: the place F_GETPATH gave
  errno,
  given,        \* descriptors openat has given to callers
  before, lost, \* own[t] when the call began; open(".") failed in it
  calls, moves, chdirs

fs == <<kind, where, cwd>>
ghosts == <<given, before, lost, calls, moves, chdirs>>
vars == <<fs, own, used, req, pc, saved, text, errno, ghosts>>

--------------------------------------------------------------------------------
(* Requests.                                                               *)

OpsOf == [openat     |-> {"open", "creat"},  mkdirat       |-> {"mkdir"},
          unlinkat   |-> {"unlink", "rmdir"}, fstatat      |-> {"stat", "lstat"},
          symlinkat  |-> {"symlink"},        readlinkat    |-> {"readlink", "readself"},
          faccessat  |-> {"access"},         setattrlistat |-> {"setattrlist"}]

Descriptor == Dir \cup {"AT_FDCWD", "absolute", "file", "closed"}

Request == {r \in UNION {[fn : {f}, op : OpsOf[f], fd : Descriptor] : f \in DOMAIN OpsOf} :
              ~(r.op = "readself" /\ r.fd = "absolute")}     \* its path is empty

Distinct(w) == \A d, e \in Dir : w[d] = w[e] => d = e

ASSUME AtAssumption == /\ IsFiniteSet(Thread)
                       /\ \E w \in [Dir -> Place] : Distinct(w)
                       /\ Trees \subseteq [Dir -> Kind]
                       /\ Asks \in [Thread -> SUBSET Request]
                       /\ Limit \in Nat /\ NoDir \notin Dir /\ Readable \subseteq Dir
                       /\ Dir \cap {"AT_FDCWD", "absolute", "file", "closed"} = {}

fd(t) == req[t].fd

At(t, l) == pc[t] = l
Goto(t, l) == pc' = [pc EXCEPT ![t] = l]
Set(f, t, v) == [f EXCEPT ![t] = v]

Call(t) == /\ At(t, "idle") /\ calls[t] < MaxCalls
           /\ \E r \in Asks[t] : req' = Set(req, t, r)
           /\ Goto(t, "call")
           /\ errno' = Set(errno, t, NoResult)
           /\ before' = Set(before, t, own[t]) /\ lost' = Set(lost, t, FALSE)
           /\ calls' = Set(calls, t, calls[t] + 1)
           /\ UNCHANGED <<fs, own, used, saved, text, given, moves, chdirs>>

--------------------------------------------------------------------------------
(* The system calls.                                                       *)

Here(t) == IF own[t] = NoDir THEN cwd ELSE own[t]

Room == used < Limit

(* The call itself, on a relative path, when the directory it starts from  *)
(* is one of ds.  It gives up at a name, or for want of a descriptor.      *)
Syscall(t, op, ds, next) ==
  /\ \/ /\ op \in {"open", "creat"} /\ ~Room
        /\ errno' = Set(errno, t, "EMFILE")
        /\ UNCHANGED <<kind, used, given>>
     \/ /\ op \in {"open", "creat"} => Room
        /\ \E d \in ds : LET got == IF op \in {"open", "creat"} /\ Result(op, kind[d]) = OK
                                    THEN 1 ELSE 0 IN
             /\ errno' = Set(errno, t, Result(op, kind[d]))
             /\ kind' = Set(kind, d, After(op, kind[d]))
             /\ used' = used + got /\ given' = given + got
     \/ /\ ds = {} /\ errno' = Set(errno, t, "ENOENT")
        /\ UNCHANGED <<kind, used, given>>
  /\ Goto(t, next)
  /\ UNCHANGED <<where, cwd, own, req, saved, text, before, lost, calls, moves, chdirs>>

(* pthread_fchdir_np(-1) and pthread_fchdir_np of a descriptor *)
Leaving(t) == IF own[t] = NoDir THEN "EBADF" ELSE OK
Entering(x) == IF x \in Dir THEN OK ELSE IF x = "file" THEN "ENOTDIR" ELSE "EBADF"

--------------------------------------------------------------------------------
(* Steps of the functions.                                                 *)

Relative(t) == fd(t) \notin {"AT_FDCWD", "absolute"}

(* The call fails before anything is done. *)
Refused(t, e, next) == /\ errno' = Set(errno, t, e)
                       /\ Goto(t, next)
                       /\ UNCHANGED <<fs, own, used, req, saved, text, ghosts>>

(* The flag init and the pointer func are not ordered: a thread may see    *)
(* the one without the other and emulate a function the system has.        *)
Native(t, op) == /\ At(t, "call") /\ req[t].fn \in InSystem /\ Relative(t)
                 /\ \/ fd(t) \in Dir /\ Syscall(t, op, {fd(t)}, "return")
                    \/ fd(t) \notin Dir /\ Refused(t, Entering(fd(t)), "return")

Direct(t, op) == /\ At(t, "call")
                 /\ \/ fd(t) = "AT_FDCWD" /\ Syscall(t, op, {Here(t)}, "return")
                    \/ fd(t) = "absolute" /\ \E d \in Dir : Syscall(t, op, {d}, "return")

(* An empty path: readlink of the descriptor's own path. *)
Empty(t) == /\ At(t, "call") /\ req[t].op = "readself" /\ Relative(t)
            /\ \/ fd(t) \in Dir /\ text' = Set(text, t, where[fd(t)])
                                /\ Goto(t, "readself") /\ UNCHANGED errno
               \/ fd(t) = "file" /\ Goto(t, "return") /\ UNCHANGED text
                                 /\ errno' = Set(errno, t, "EINVAL")
               \/ fd(t) = "closed" /\ Goto(t, "return") /\ UNCHANGED text
                                   /\ errno' = Set(errno, t, "EBADF")
            /\ UNCHANGED <<fs, own, used, req, saved, ghosts>>

ReadSelf(t) == /\ At(t, "readself")
               /\ Refused(t, IF \E d \in Dir : where[d] = text[t] THEN "EINVAL" ELSE "ENOENT",
                          "return")

(* int cwd = open(".", O_RDONLY) *)
SaveCwd(t) == /\ At(t, "call") /\ Private /\ Relative(t) /\ req[t].op # "readself"
              /\ IF Room /\ Here(t) \in Readable
                 THEN /\ saved' = Set(saved, t, Here(t)) /\ used' = used + 1
                      /\ UNCHANGED <<errno, lost>>
                 ELSE /\ errno' = Set(errno, t, IF Room THEN "EACCES" ELSE "EMFILE")
                      /\ lost' = Set(lost, t, TRUE)
                      /\ UNCHANGED <<saved, used>>
              /\ Goto(t, "leave")
              /\ UNCHANGED <<fs, own, req, text, given, before, calls, moves, chdirs>>

(* The thread had no directory of its own: there is nothing to go back to. *)
Discard(t) == IF saved[t] = NoDir THEN UNCHANGED <<saved, used>>
              ELSE saved' = Set(saved, t, NoDir) /\ used' = used - 1

NoneToSave_Keep(t) == own[t] = NoDir /\ UNCHANGED <<own, errno, saved, used>>
NoneToSave(t) == /\ own[t] = NoDir
                 /\ Discard(t)
                 /\ errno' = Set(errno, t, "EBADF")
                 /\ UNCHANGED own

Leave(t) == /\ At(t, "leave")
            /\ \/ NoneToSave(t)
               \/ own[t] # NoDir /\ own' = Set(own, t, NoDir) /\ UNCHANGED <<errno, saved, used>>
            /\ Goto(t, "enter")
            /\ UNCHANGED <<fs, req, text, ghosts>>

Enter_Unchecked(t) == /\ At(t, "enter")
                      /\ own' = IF fd(t) \in Dir THEN Set(own, t, fd(t)) ELSE own
                      /\ Goto(t, "operate")
                      /\ UNCHANGED <<fs, used, req, saved, text, errno, ghosts>>

Enter(t) == /\ At(t, "enter")
            /\ IF fd(t) \in Dir
               THEN own' = Set(own, t, fd(t)) /\ Goto(t, "operate") /\ UNCHANGED errno
               ELSE errno' = Set(errno, t, Entering(fd(t))) /\ Goto(t, "undo") /\ UNCHANGED own
            /\ UNCHANGED <<fs, used, req, saved, text, ghosts>>

Operate(t, op) == At(t, "operate") /\ Syscall(t, op, {Here(t)}, "restore")

(* pthread_fchdir_np(cwd) *)
Restored(t) == IF saved[t] # NoDir
               THEN own' = Set(own, t, saved[t]) /\ UNCHANGED errno
               ELSE /\ own' = Set(own, t, NoDir)
                    /\ errno' = IF Leaving(t) = OK THEN errno ELSE Set(errno, t, Leaving(t))

Restore(t) == /\ At(t, "restore") \/ At(t, "undo")
              /\ Restored(t)
              /\ Goto(t, "close")
              /\ UNCHANGED <<fs, used, req, saved, text, ghosts>>

Close_Never(t) == At(t, "close") /\ Goto(t, "return")
                   /\ UNCHANGED <<fs, own, used, req, saved, text, errno, ghosts>>

Close_Unguarded(t) == /\ At(t, "close")
                      /\ Discard(t)
                      /\ errno' = IF saved[t] = NoDir THEN Set(errno, t, "EBADF") ELSE errno
                      /\ Goto(t, "return")
                      /\ UNCHANGED <<fs, own, req, text, ghosts>>

Close(t) == /\ At(t, "close")
            /\ Discard(t)
            /\ Goto(t, "return")
            /\ UNCHANGED <<fs, own, req, text, errno, ghosts>>

(* The builds without pthread_fchdir_np. *)
Fstat(t) == /\ At(t, "call") /\ ~Private /\ Relative(t) /\ req[t].op # "readself"
            /\ \/ fd(t) \in Dir /\ Goto(t, "getpath")
                                /\ UNCHANGED <<fs, own, used, req, saved, text, errno, ghosts>>
               \/ fd(t) \notin Dir /\ Refused(t, Entering(fd(t)), "return")

GetPath(t) == /\ At(t, "getpath")
              /\ text' = Set(text, t, where[fd(t)])
              /\ Goto(t, "onpath")
              /\ UNCHANGED <<fs, own, used, req, saved, errno, ghosts>>

OnPath_Relative(t, op) == At(t, "onpath") /\ Syscall(t, op, {Here(t)}, "return")
OnPath(t, op) == At(t, "onpath") /\ Syscall(t, op, {d \in Dir : where[d] = text[t]}, "return")

Return(t) == /\ At(t, "return")
             /\ Goto(t, "idle")
             /\ UNCHANGED <<fs, own, used, req, saved, text, errno, ghosts>>

--------------------------------------------------------------------------------
(* One function: op is the call its flags ask for.                         *)

Body(t, f, op) ==
  /\ req[t].fn = f
  /\ \/ Native(t, op) \/ Direct(t, op)
     \/ SaveCwd(t) \/ Leave(t) \/ Enter(t) \/ Operate(t, op) \/ Restore(t) \/ Close(t)
     \/ Fstat(t) \/ GetPath(t) \/ OnPath(t, op) \/ Return(t)

Flag(t, op) == req[t].op = op     \* O_CREAT, AT_REMOVEDIR, AT_SYMLINK_NOFOLLOW

openat(t)        == Body(t, "openat", IF Flag(t, "creat") THEN "creat" ELSE "open")
mkdirat(t)       == Body(t, "mkdirat", "mkdir")
unlinkat(t)      == Body(t, "unlinkat", IF Flag(t, "rmdir") THEN "rmdir" ELSE "unlink")
fstatat(t)       == Body(t, "fstatat", IF Flag(t, "lstat") THEN "lstat" ELSE "stat")
symlinkat(t)     == Body(t, "symlinkat", "symlink")
readlinkat(t)    == \/ Body(t, "readlinkat", IF Flag(t, "readself") THEN "readself" ELSE "readlink")
                    \/ Empty(t) \/ ReadSelf(t)
faccessat(t)     == Body(t, "faccessat", "access")
setattrlistat(t) == Body(t, "setattrlistat", "setattrlist")

Step(t) == \/ openat(t) \/ mkdirat(t) \/ unlinkat(t) \/ fstatat(t)
           \/ symlinkat(t) \/ readlinkat(t) \/ faccessat(t) \/ setattrlistat(t)
--------------------------------------------------------------------------------
(* Other programs rename directories, other threads call chdir.            *)

Move == /\ moves < MaxMoves
        /\ \E d \in Dir, p \in Place \ {where[e] : e \in Dir} : where' = Set(where, d, p)
        /\ moves' = moves + 1
        /\ UNCHANGED <<kind, cwd, own, used, req, pc, saved, text, errno, given, before, lost,
                       calls, chdirs>>

Chdir == /\ chdirs < MaxChdirs
         /\ \E d \in Dir \ {cwd} : cwd' = d
         /\ chdirs' = chdirs + 1
         /\ UNCHANGED <<kind, where, own, used, req, pc, saved, text, errno, given, before, lost,
                        calls, moves>>

Init == /\ kind \in Trees
        /\ where = CHOOSE w \in [Dir -> Place] : Distinct(w)
        /\ cwd \in Dir
        /\ own \in [Thread -> Dir \cup {NoDir}]
        /\ used = 0 /\ given = 0 /\ moves = 0 /\ chdirs = 0
        /\ req \in [Thread -> {CHOOSE r \in Request : TRUE}]
        /\ pc = [t \in Thread |-> "idle"]
        /\ saved = [t \in Thread |-> NoDir]
        /\ text \in [Thread -> {CHOOSE p \in Place : TRUE}]
        /\ errno = [t \in Thread |-> NoResult]
        /\ before = own
        /\ lost = [t \in Thread |-> FALSE]
        /\ calls = [t \in Thread |-> 0]

Next == Move \/ Chdir \/ \E t \in Thread : Call(t) \/ Step(t)

Spec == Init /\ [][Next]_vars

--------------------------------------------------------------------------------
(* Properties.                                                             *)

Label == {"idle", "call", "leave", "enter", "operate", "restore", "undo", "close",
          "getpath", "onpath", "readself", "return"}
Errors == {OK, NoResult, "EMFILE", "EACCES", "EBADF", "ENOTDIR", "ENOENT", "EEXIST", "EISDIR",
           "EPERM", "EINVAL"}

TypeOK ==
  /\ kind \in [Dir -> Kind] /\ where \in [Dir -> Place] /\ cwd \in Dir
  /\ own \in [Thread -> Dir \cup {NoDir}]
  /\ used \in 0 .. Limit /\ given \in 0 .. Limit
  /\ req \in [Thread -> Request]
  /\ pc \in [Thread -> Label]
  /\ saved \in [Thread -> Dir \cup {NoDir}]
  /\ text \in [Thread -> Place]
  /\ errno \in [Thread -> Errors]

(* After a call, whatever its result, a thread is in the directory it was  *)
(* in before: its own, or none of its own.  Only a call that could not     *)
(* open "." may leave it without the one it had.                           *)
CwdKept == \A t \in Thread : At(t, "idle") =>
             \/ own[t] = before[t]
             \/ lost[t] /\ own[t] = NoDir

(* The descriptors of a process are those openat has given away and, for   *)
(* each call under way, at most the one it goes back by: none is leaked or *)
(* closed twice on any path through a function.                            *)
Held == {t \in Thread : saved[t] # NoDir /\ pc[t] \in
                         {"leave", "enter", "operate", "restore", "undo", "close"}}
NoLeak == used = given + Cardinality(Held)

(* A call has its effect at one instant in the directory its descriptor    *)
(* refers to, wherever that is in the tree by then and whatever other      *)
(* threads do, or none; and it reports the result of that instant, or what *)
(* the descriptor is instead of a directory.  Going back overwrites neither *)
(* but for ENOTDIR, which a thread that has no directory of its own, or    *)
(* could not open it, turns into EBADF (openat.c:76).                      *)
PhaseOf(l) == IF l = "idle" THEN "idle"
              ELSE IF l \in {"restore", "close", "return"} THEN "acted" ELSE "called"
OutcomeOf(l, e) == IF PhaseOf(l) = "called" THEN NoResult ELSE e

phaseBar == [t \in Thread |-> PhaseOf(pc[t])]
outcomeBar == [t \in Thread |-> OutcomeOf(pc[t], errno[t])]

backBar == [t \in Thread |-> before[t] # NoDir /\ ~lost[t]]

Atomic == INSTANCE AtAtomic WITH phase <- phaseBar, outcome <- outcomeBar, back <- backBar

ImplementsAtomic == Atomic!Spec
================================================================================
