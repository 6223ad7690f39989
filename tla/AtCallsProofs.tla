----------------------------- MODULE AtCallsProofs -----------------------------
(***************************************************************************)
(* Proofs about AtCalls: the builds with pthread_fchdir_np implement       *)
(* AtAtomic and keep the working directory, for all threads, directories,  *)
(* requests, limits of descriptors and functions the system has.           *)
(***************************************************************************)
EXTENDS AtCalls, FiniteSetTheorems, TLAPS

Types == /\ kind \in [Dir -> Kind]
         /\ own \in [Thread -> Dir \cup {NoDir}]
         /\ req \in [Thread -> Request]
         /\ pc \in [Thread -> Label]
         /\ saved \in [Thread -> Dir \cup {NoDir}]
         /\ errno \in [Thread -> Errors]
         /\ cwd \in Dir

(* Where a thread is when it calls the system, and when it goes back; in   *)
(* the other builds, where the path leads as long as nothing is renamed.   *)
DirOf(t) ==
  /\ pc[t] = "operate" => fd(t) \in Dir /\ own[t] = fd(t)
  /\ pc[t] = "restore" => own[t] # NoDir
  /\ pc[t] \in {"leave", "enter", "undo"} => Private /\ fd(t) \notin {"AT_FDCWD", "absolute"}
  /\ pc[t] = "undo" => fd(t) \notin Dir /\ errno[t] = Entering(fd(t))
  /\ pc[t] = "readself" => req[t].op = "readself" /\ fd(t) \in Dir
  /\ pc[t] \in {"getpath", "onpath"} => ~Private /\ fd(t) \in Dir
  /\ pc[t] = "onpath" /\ moves = 0 => text[t] = where[fd(t)]

Dirs == \A t \in Thread : DirOf(t)

(* Each function makes the call that is asked for.                         *)
StepOf(t, op) ==
  \/ Native(t, op) \/ Direct(t, op) \/ Empty(t) \/ ReadSelf(t)
  \/ SaveCwd(t) \/ Leave(t) \/ Enter(t) \/ Operate(t, op) \/ Restore(t) \/ Close(t)
  \/ Fstat(t) \/ GetPath(t) \/ OnPath(t, op) \/ Return(t)

LEMMA RequestField ==
  ASSUME NEW r \in Request
  PROVE  /\ r.fn \in DOMAIN OpsOf /\ r.op \in OpsOf[r.fn] /\ r.fd \in Descriptor
         /\ r.op \in Op
<1>1. PICK f \in DOMAIN OpsOf : r \in [fn : {f}, op : OpsOf[f], fd : Descriptor]
  BY DEF Request
<1>2. r.fn = f /\ r.op \in OpsOf[f] /\ r.fd \in Descriptor
  BY <1>1
<1>3. OpsOf[f] \subseteq Op
  BY DEF OpsOf, Op, Takes
<1> QED
  BY <1>1, <1>2, <1>3

LEMMA OneOp ==
  ASSUME NEW t \in Thread, req[t] \in Request, Step(t)
  PROVE  StepOf(t, req[t].op)
<1>1. req[t].op \in OpsOf[req[t].fn]
  BY RequestField
<1>2. CASE openat(t)
  <2>1. req[t].op = IF Flag(t, "creat") THEN "creat" ELSE "open"
    BY <1>1, <1>2 DEF openat, Body, OpsOf, Flag
  <2> QED
    BY <1>2, <2>1 DEF openat, Body, StepOf
<1>3. CASE mkdirat(t)
  <2>1. req[t].op = "mkdir"
    BY <1>1, <1>3 DEF mkdirat, Body, OpsOf
  <2> QED
    BY <1>3, <2>1 DEF mkdirat, Body, StepOf
<1>4. CASE unlinkat(t)
  <2>1. req[t].op = IF Flag(t, "rmdir") THEN "rmdir" ELSE "unlink"
    BY <1>1, <1>4 DEF unlinkat, Body, OpsOf, Flag
  <2> QED
    BY <1>4, <2>1 DEF unlinkat, Body, StepOf
<1>5. CASE fstatat(t)
  <2>1. req[t].op = IF Flag(t, "lstat") THEN "lstat" ELSE "stat"
    BY <1>1, <1>5 DEF fstatat, Body, OpsOf, Flag
  <2> QED
    BY <1>5, <2>1 DEF fstatat, Body, StepOf
<1>6. CASE symlinkat(t)
  <2>1. req[t].op = "symlink"
    BY <1>1, <1>6 DEF symlinkat, Body, OpsOf
  <2> QED
    BY <1>6, <2>1 DEF symlinkat, Body, StepOf
<1>7. CASE readlinkat(t)
  <2>1. CASE Empty(t) \/ ReadSelf(t)
    BY <2>1 DEF StepOf
  <2>2. CASE Body(t, "readlinkat", IF Flag(t, "readself") THEN "readself" ELSE "readlink")
    <3>1. req[t].op = IF Flag(t, "readself") THEN "readself" ELSE "readlink"
      BY <1>1, <2>2 DEF Body, OpsOf, Flag
    <3> QED
      BY <2>2, <3>1 DEF Body, StepOf
  <2> QED
    BY <1>7, <2>1, <2>2 DEF readlinkat
<1>8. CASE faccessat(t)
  <2>1. req[t].op = "access"
    BY <1>1, <1>8 DEF faccessat, Body, OpsOf
  <2> QED
    BY <1>8, <2>1 DEF faccessat, Body, StepOf
<1>9. CASE setattrlistat(t)
  <2>1. req[t].op = "setattrlist"
    BY <1>1, <1>9 DEF setattrlistat, Body, OpsOf
  <2> QED
    BY <1>9, <2>1 DEF setattrlistat, Body, StepOf
<1> QED
  BY <1>2, <1>3, <1>4, <1>5, <1>6, <1>7, <1>8, <1>9 DEF Step

--------------------------------------------------------------------------------
(* Types.                                                                  *)

LEMMA KernelTypes ==
  ASSUME NEW op \in Op, NEW k \in Kind
  PROVE  After(op, k) \in Kind /\ Result(op, k) \in Errors
<1>1. Leaves(op, k) \in Kind
  BY DEF Leaves, Kind
<1>2. Errno(op, k) \in Errors
  BY DEF Errno, Errors
<1> QED
  BY <1>1, <1>2 DEF After, Result, Errors

LEMMA SyscallTypes ==
  ASSUME Types, NEW t \in Thread, NEW op \in Op, NEW ds \in SUBSET Dir, NEW next \in Label,
         Syscall(t, op, ds, next)
  PROVE  Types'
<1>1. pc' \in [Thread -> Label]
  BY DEF Syscall, Types, Goto
<1>2. kind' \in [Dir -> Kind]
  <2>1. CASE UNCHANGED kind
    BY <2>1 DEF Types
  <2>2. ASSUME NEW d \in ds, kind' = Set(kind, d, After(op, kind[d]))
        PROVE  kind' \in [Dir -> Kind]
    <3>1. After(op, kind[d]) \in Kind
      BY KernelTypes DEF Types
    <3> QED
      BY <2>2, <3>1 DEF Types, Set
  <2> QED
    BY <2>1, <2>2 DEF Syscall
<1>3. errno' \in [Thread -> Errors]
  <2>1. \E e \in Errors : errno' = Set(errno, t, e)
    <3>1. {"EMFILE", "ENOENT"} \subseteq Errors
      BY DEF Errors
    <3>2. ASSUME NEW d \in ds PROVE Result(op, kind[d]) \in Errors
      BY KernelTypes DEF Types
    <3> QED
      BY <3>1, <3>2 DEF Syscall
  <2> QED
    BY <2>1 DEF Types, Set
<1> QED
  BY <1>1, <1>2, <1>3 DEF Syscall, Types

LEMMA RefusedTypes ==
  ASSUME Types, NEW t \in Thread, NEW e \in Errors, NEW next \in Label, Refused(t, e, next)
  PROVE  Types'
BY DEF Refused, Types, Goto, Set, fs

LEMMA EnteringType == \A x : Entering(x) \in Errors
BY DEF Entering, Errors

LEMMA TypesStep ==
  ASSUME Types, NEW t \in Thread, StepOf(t, req[t].op)
  PROVE  Types'
<1>1. req[t].op \in Op /\ Here(t) \in Dir
  BY RequestField DEF Types, Here
<1>2. {"call", "leave", "enter", "operate", "restore", "undo", "close", "idle",
       "getpath", "onpath", "readself", "return"} \subseteq Label
  BY DEF Label
<1>3. {"EMFILE", "EACCES", "EBADF", "EINVAL", "ENOENT"} \subseteq Errors
  BY DEF Errors
<1>4. CASE Native(t, req[t].op)
  BY <1>1, <1>2, <1>4, SyscallTypes, RefusedTypes, EnteringType DEF Native
<1>5. CASE Direct(t, req[t].op)
  BY <1>1, <1>2, <1>5, SyscallTypes DEF Direct
<1>6. CASE Empty(t)
  BY <1>2, <1>3, <1>6 DEF Empty, Types, Goto, Set, fs
<1>7. CASE ReadSelf(t)
  BY <1>2, <1>3, <1>7, RefusedTypes DEF ReadSelf
<1>8. CASE SaveCwd(t)
  <2>1. saved' \in [Thread -> Dir \cup {NoDir}]
    BY <1>1, <1>8 DEF SaveCwd, Types, Set
  <2>2. errno' \in [Thread -> Errors]
    BY <1>3, <1>8 DEF SaveCwd, Types, Set
  <2> QED
    BY <1>2, <1>8, <2>1, <2>2 DEF SaveCwd, Types, Goto, fs
<1>9. CASE Leave(t)
  <2>1. saved' \in [Thread -> Dir \cup {NoDir}]
    BY <1>9 DEF Leave, NoneToSave, Discard, Types, Set
  <2>2. errno' \in [Thread -> Errors]
    BY <1>3, <1>9 DEF Leave, NoneToSave, Types, Set
  <2>3. own' \in [Thread -> Dir \cup {NoDir}]
    BY <1>9 DEF Leave, NoneToSave, Types, Set
  <2> QED
    BY <1>2, <1>9, <2>1, <2>2, <2>3 DEF Leave, Types, Goto, fs
<1>10. CASE Enter(t)
  <2>1. errno' \in [Thread -> Errors]
    BY <1>10, EnteringType DEF Enter, Types, Set
  <2>2. own' \in [Thread -> Dir \cup {NoDir}]
    BY <1>10 DEF Enter, Types, Set
  <2>3. pc' \in [Thread -> Label]
    BY <1>2, <1>10 DEF Enter, Types, Goto
  <2> QED
    BY <1>10, <2>1, <2>2, <2>3 DEF Enter, Types, fs
<1>11. CASE Operate(t, req[t].op)
  BY <1>1, <1>2, <1>11, SyscallTypes DEF Operate
<1>12. CASE Restore(t)
  <2>1. errno' \in [Thread -> Errors]
    BY <1>3, <1>12 DEF Restore, Restored, Leaving, Types, Set
  <2>2. own' \in [Thread -> Dir \cup {NoDir}]
    BY <1>12 DEF Restore, Restored, Types, Set
  <2> QED
    BY <1>2, <1>12, <2>1, <2>2 DEF Restore, Types, Goto, fs
<1>13. CASE Close(t)
  <2>1. saved' \in [Thread -> Dir \cup {NoDir}]
    BY <1>13 DEF Close, Discard, Types, Set
  <2> QED
    BY <1>2, <1>13, <2>1 DEF Close, Types, Goto, fs
<1>14. CASE Fstat(t)
  <2>1. CASE Refused(t, Entering(fd(t)), "return")
    BY <1>2, <2>1, RefusedTypes, EnteringType
  <2>2. CASE Goto(t, "getpath") /\ UNCHANGED <<fs, own, used, req, saved, text, errno, ghosts>>
    BY <1>2, <2>2 DEF Types, Goto, fs
  <2> QED
    BY <1>14, <2>1, <2>2 DEF Fstat
<1>15. CASE GetPath(t)
  BY <1>2, <1>15 DEF GetPath, Types, Goto, fs
<1>16. CASE OnPath(t, req[t].op)
  BY <1>1, <1>2, <1>16, SyscallTypes DEF OnPath
<1>17. CASE Return(t)
  BY <1>2, <1>17 DEF Return, Types, Goto, fs
<1> QED
  BY <1>4, <1>5, <1>6, <1>7, <1>8, <1>9, <1>10, <1>11, <1>12, <1>13, <1>14, <1>15, <1>16, <1>17
  DEF StepOf

LEMMA TypesCall ==
  ASSUME Types, NEW t \in Thread, Call(t)
  PROVE  Types'
<1>1. Asks[t] \subseteq Request
  BY AtAssumption
<1>2. "call" \in Label /\ NoResult \in Errors
  BY DEF Label, Errors
<1> QED
  BY <1>1, <1>2 DEF Call, Types, Goto, Set, fs

LEMMA TypesNext == ASSUME Types, [Next]_vars PROVE Types'
<1>1. CASE UNCHANGED vars
  BY <1>1 DEF vars, fs, Types
<1>2. CASE Move
  BY <1>2 DEF Move, Types
<1>3. CASE Chdir
  BY <1>3 DEF Chdir, Types
<1>4. ASSUME NEW t \in Thread, Call(t) PROVE Types'
  BY <1>4, TypesCall
<1>5. ASSUME NEW t \in Thread, Step(t) PROVE Types'
  BY <1>5, OneOp, TypesStep DEF Types
<1> QED
  BY <1>1, <1>2, <1>3, <1>4, <1>5 DEF Next

LEMMA TypesInit == Init => Types
<1>1. (CHOOSE r \in Request : TRUE) \in Request
  <2>1. [fn |-> "openat", op |-> "open", fd |-> "file"] \in Request
    BY DEF Request, OpsOf, Descriptor
  <2> QED
    BY <2>1
<1>2. "idle" \in Label /\ NoResult \in Errors
  BY DEF Label, Errors
<1>3. Trees \subseteq [Dir -> Kind]
  BY AtAssumption
<1> QED
  BY <1>1, <1>2, <1>3 DEF Init, Types

--------------------------------------------------------------------------------
(* The tree: no two directories are in one place.                          *)

Placed == /\ where \in [Dir -> Place] /\ Distinct(where)
          /\ text \in [Thread -> Place]
          /\ moves \in Nat

LEMMA StepPlaced ==
  ASSUME NEW t \in Thread, DirOf(t), StepOf(t, req[t].op)
  PROVE  /\ where' = where /\ moves' = moves
         /\ \/ UNCHANGED text
            \/ \E d \in Dir : text' = Set(text, t, where[d])
<1>1. CASE Native(t, req[t].op) \/ Direct(t, req[t].op) \/ Operate(t, req[t].op)
             \/ OnPath(t, req[t].op)
  BY <1>1 DEF Native, Direct, Operate, OnPath, Syscall, Refused, fs, ghosts
<1>2. CASE Empty(t) \/ ReadSelf(t) \/ Fstat(t)
  <2>1. where' = where /\ moves' = moves
    BY <1>2 DEF Empty, ReadSelf, Fstat, Refused, fs, ghosts
  <2>2. \/ UNCHANGED text
        \/ \E d \in Dir : text' = Set(text, t, where[d])
    BY <1>2 DEF Empty, ReadSelf, Fstat, Refused, fs, ghosts
  <2> QED
    BY <2>1, <2>2
<1>3. CASE SaveCwd(t) \/ Leave(t) \/ Enter(t) \/ Restore(t) \/ Close(t) \/ Return(t)
  BY <1>3 DEF SaveCwd, Leave, Enter, Restore, Close, Return, fs, ghosts
<1>4. CASE GetPath(t)
  <2>1. fd(t) \in Dir
    BY <1>4 DEF GetPath, At, DirOf
  <2> QED
    BY <1>4, <2>1 DEF GetPath, fs, ghosts
<1> QED
  BY <1>1, <1>2, <1>3, <1>4 DEF StepOf

LEMMA PlacedNext == ASSUME Types, Placed, Dirs, [Next]_vars PROVE Placed'
<1>1. CASE UNCHANGED vars \/ Chdir
  BY <1>1 DEF vars, fs, ghosts, Chdir, Placed, Distinct
<1>2. CASE Move
  <2>1. PICK d \in Dir, p \in Place \ {where[e] : e \in Dir} : where' = Set(where, d, p)
    BY <1>2 DEF Move
  <2>2. where' \in [Dir -> Place] /\ Distinct(where')
    BY <2>1 DEF Placed, Distinct, Set
  <2> QED
    BY <1>2, <2>2 DEF Move, Placed
<1>3. ASSUME NEW t \in Thread, Call(t) PROVE Placed'
  BY <1>3 DEF Call, Placed, Distinct, fs, ghosts
<1>4. ASSUME NEW t \in Thread, Step(t) PROVE Placed'
  <2>1. StepOf(t, req[t].op) /\ DirOf(t)
    BY <1>4, OneOp DEF Types, Dirs
  <2>2. where' = where /\ moves' = moves
    BY <2>1, StepPlaced
  <2>3. text' \in [Thread -> Place]
    <3>1. CASE UNCHANGED text
      BY <3>1 DEF Placed
    <3>2. ASSUME NEW d \in Dir, text' = Set(text, t, where[d]) PROVE text' \in [Thread -> Place]
      BY <3>2 DEF Placed, Set
    <3> QED
      BY <2>1, <3>1, <3>2, StepPlaced
  <2> QED
    BY <2>2, <2>3 DEF Placed, Distinct
<1> QED
  BY <1>1, <1>2, <1>3, <1>4 DEF Next

LEMMA PlacedInit == Init => Placed
<1> SUFFICES ASSUME Init PROVE Placed
  OBVIOUS
<1>1. where \in [Dir -> Place] /\ Distinct(where)
  BY AtAssumption DEF Init
<1>2. (CHOOSE p \in Place : TRUE) \in Place
  <2>1. where[cwd] \in Place
    BY <1>1 DEF Init
  <2> QED
    BY <2>1
<1> QED
  BY <1>1, <1>2 DEF Init, Placed

--------------------------------------------------------------------------------
(* A thread that calls the system is in the directory it was told.         *)

(* A step leaves alone what DirOf says of the other threads.               *)
LEMMA Others ==
  ASSUME Types, NEW t \in Thread, Call(t) \/ StepOf(t, req[t].op), NEW u \in Thread, u # t
  PROVE  pc'[u] = pc[u] /\ own'[u] = own[u] /\ req'[u] = req[u] /\ errno'[u] = errno[u]
<1>1. pc'[u] = pc[u]
  BY DEF Types, Call, StepOf, Native, Direct, Empty, ReadSelf, SaveCwd, Leave, Enter, Operate,
         Restore, Close, Fstat, GetPath, OnPath, Return, Syscall, Refused, Goto
<1>2. own'[u] = own[u]
  BY DEF Types, Call, StepOf, Native, Direct, Empty, ReadSelf, SaveCwd, Leave, NoneToSave, Enter,
         Operate, Restore, Restored, Close, Fstat, GetPath, OnPath, Return, Syscall, Refused, Set
<1>3. req'[u] = req[u]
  BY DEF Types, Call, StepOf, Native, Direct, Empty, ReadSelf, SaveCwd, Leave, Enter,
         Operate, Restore, Close, Fstat, GetPath, OnPath, Return, Syscall, Refused, Set
<1>4. errno'[u] = errno[u]
  BY DEF Types, Call, StepOf, Native, Direct, Empty, ReadSelf, SaveCwd, Leave, NoneToSave, Enter,
         Operate, Restore, Restored, Close, Fstat, GetPath, OnPath, Return, Syscall, Refused, Set
<1> QED
  BY <1>1, <1>2, <1>3, <1>4

(* Few steps lead to places that DirOf speaks of.                          *)
LEMMA DirOwn ==
  ASSUME Types, Placed, NEW t \in Thread, DirOf(t), Call(t) \/ StepOf(t, req[t].op)
  PROVE  DirOf(t)'
<1>0. pc \in [Thread -> Label] /\ own \in [Thread -> Dir \cup {NoDir}]
      /\ errno \in [Thread -> Errors] /\ req \in [Thread -> Request] /\ NoDir \notin Dir
  BY AtAssumption DEF Types
<1>1. CASE pc'[t] \notin {"leave", "enter", "operate", "restore", "undo", "readself", "getpath",
                       "onpath"}
  BY <1>1 DEF DirOf
<1>2. CASE Enter(t)
  <2>1. CASE fd(t) \in Dir
    <3>1. pc'[t] = "operate" /\ own'[t] = fd(t) /\ fd(t)' = fd(t)
      BY <1>0, <1>2, <2>1 DEF Enter, Set, Goto, fd
    <3> QED
      BY <2>1, <3>1 DEF DirOf
  <2>2. CASE fd(t) \notin Dir
    <3>1. pc[t] = "enter" /\ pc'[t] = "undo" /\ errno'[t] = Entering(fd(t)) /\ fd(t)' = fd(t)
      BY <1>0, <1>2, <2>2 DEF Enter, Set, Goto, At, fd
    <3> QED
      BY <2>2, <3>1 DEF DirOf
  <2> QED
    BY <2>1, <2>2
<1>3. CASE Operate(t, req[t].op)
  <2>1. pc[t] = "operate" /\ pc'[t] = "restore" /\ own' = own
    BY <1>0, <1>3 DEF Operate, Syscall, At, Goto
  <2> QED
    BY <1>0, <2>1 DEF DirOf
<1>4. CASE Empty(t)
  <2>1. /\ pc'[t] \in {"readself", "return"} /\ fd(t)' = fd(t) /\ req'[t].op = "readself"
        /\ pc'[t] = "readself" => fd(t) \in Dir
    BY <1>0, <1>4 DEF Empty, Goto, fd
  <2> QED
    BY <2>1 DEF DirOf
<1>5. CASE Fstat(t)
  <2>1. CASE fd(t) \in Dir
    <3>1. pc'[t] \in {"getpath", "return"} /\ fd(t)' = fd(t) /\ ~Private
      BY <1>0, <1>5, <2>1 DEF Fstat, Refused, Goto, fd
    <3> QED
      BY <2>1, <3>1 DEF DirOf
  <2>2. CASE fd(t) \notin Dir
    <3>1. pc'[t] = "return"
      BY <1>0, <1>5, <2>2 DEF Fstat, Refused, Goto
    <3> QED
      BY <3>1 DEF DirOf
  <2> QED
    BY <2>1, <2>2
<1>6. CASE GetPath(t)
  <2>1. pc[t] = "getpath" /\ pc'[t] = "onpath" /\ fd(t)' = fd(t) /\ where' = where
    BY <1>0, <1>6 DEF GetPath, At, Goto, fd, fs
  <2>2. text'[t] = where[fd(t)]
    BY <1>6 DEF GetPath, Placed, Set
  <2> QED
    BY <2>1, <2>2 DEF DirOf
<1>8. CASE SaveCwd(t) \/ Leave(t)
  <2>1. /\ SaveCwd(t) => Private /\ Relative(t) /\ pc'[t] = "leave" /\ fd(t)' = fd(t)
        /\ Leave(t) => pc[t] = "leave" /\ pc'[t] = "enter" /\ fd(t)' = fd(t)
    BY <1>0 DEF SaveCwd, Leave, At, Goto, fd
  <2> QED
    BY <1>8, <2>1 DEF DirOf, Relative
<1>7. CASE ~(\/ Enter(t) \/ Operate(t, req[t].op) \/ Empty(t) \/ Fstat(t) \/ GetPath(t)
             \/ SaveCwd(t) \/ Leave(t))
  <2>1. pc'[t] \in {"call", "close", "return", "idle"}
    BY <1>0, <1>7 DEF DirOf, Call, StepOf, Native, Direct, ReadSelf, Restore, Close, OnPath, Return, Syscall, Refused, Goto, At
  <2> QED
    BY <2>1, <1>1
<1> QED
  BY <1>2, <1>3, <1>4, <1>5, <1>6, <1>7, <1>8

LEMMA DirsNext == ASSUME Types, Placed, Dirs, [Next]_vars PROVE Dirs'
<1>1. CASE UNCHANGED vars \/ Chdir
  BY <1>1 DEF vars, fs, ghosts, Chdir, Dirs, DirOf, fd
<1>2. CASE Move
  <2>1. moves' # 0
    BY <1>2 DEF Move, Placed
  <2> QED
    BY <1>2, <2>1 DEF Move, Dirs, DirOf, fd
<1>3. ASSUME NEW t \in Thread, Call(t) \/ StepOf(t, req[t].op), NEW u \in Thread
      PROVE  DirOf(u)'
  <2>1. CASE u = t
    BY <1>3, <2>1, DirOwn DEF Dirs
  <2>2. CASE u # t
    <3>1. DirOf(u) /\ DirOf(t)
      BY DEF Dirs
    <3>2. text'[u] = text[u] /\ where' = where /\ moves' = moves
      <4>1. CASE Call(t)
        BY <4>1 DEF Call, fs, ghosts
      <4>2. CASE StepOf(t, req[t].op)
        BY <2>2, <3>1, <4>2, StepPlaced DEF Placed, Set
      <4> QED
        BY <1>3, <4>1, <4>2
    <3> QED
      BY <1>3, <2>2, <3>1, <3>2, Others DEF DirOf, fd
  <2> QED
    BY <2>1, <2>2
<1>4. ASSUME NEW t \in Thread, Call(t) \/ Step(t) PROVE Call(t) \/ StepOf(t, req[t].op)
  BY <1>4, OneOp DEF Types
<1> QED
  BY <1>1, <1>2, <1>3, <1>4 DEF Next, Dirs

LEMMA DirsInit == Init => Dirs
BY DEF Init, Dirs, DirOf

--------------------------------------------------------------------------------
(* The working directory.                                                  *)

(* Before its call of the system a thread has saved the directory it had,  *)
(* unless it had none or could not open it.                                *)
Saved(t) == saved[t] = before[t] \/ (lost[t] /\ saved[t] = NoDir)
Kept(t) == own[t] = before[t] \/ (lost[t] /\ own[t] = NoDir)

CwdOf(t) ==
  /\ pc[t] \in {"call", "getpath", "onpath", "readself"} => own[t] = before[t]
  /\ pc[t] = "leave" => own[t] = before[t] /\ (own[t] # NoDir => Saved(t))
  /\ pc[t] \in {"enter", "operate", "restore", "undo"} => Saved(t)
  /\ pc[t] \in {"close", "return", "idle"} => Kept(t)
  /\ pc[t] \in {"idle", "call", "getpath", "onpath", "readself", "return"} => saved[t] = NoDir

Cwds == \A t \in Thread : CwdOf(t)

GhostTypes == before \in [Thread -> Dir \cup {NoDir}] /\ lost \in [Thread -> BOOLEAN]

LEMMA GhostTypesNext ==
  ASSUME Types, GhostTypes, [Next]_vars PROVE GhostTypes'
<1>1. CASE UNCHANGED vars \/ Move \/ Chdir
  BY <1>1 DEF vars, ghosts, Move, Chdir, GhostTypes
<1>2. ASSUME NEW t \in Thread, Call(t) PROVE GhostTypes'
  BY <1>2 DEF Call, GhostTypes, Types, Set
<1>3. ASSUME NEW t \in Thread, Step(t) PROVE GhostTypes'
  <2>1. StepOf(t, req[t].op)
    BY <1>3, OneOp DEF Types
  <2>2. CASE SaveCwd(t)
    BY <2>2 DEF SaveCwd, GhostTypes, Set
  <2>3. CASE ~SaveCwd(t)
    BY <2>1, <2>3 DEF StepOf, Native, Direct, Empty, ReadSelf, Leave, Enter, Operate, Restore,
       Close, Fstat, GetPath, OnPath, Return, Syscall, Refused, GhostTypes, ghosts
  <2> QED
    BY <2>2, <2>3
<1> QED
  BY <1>1, <1>2, <1>3 DEF Next

LEMMA OthersCwd ==
  ASSUME Types, GhostTypes, NEW t \in Thread, Call(t) \/ StepOf(t, req[t].op),
         NEW u \in Thread, u # t
  PROVE  before'[u] = before[u] /\ lost'[u] = lost[u] /\ saved'[u] = saved[u]
<1>1. before'[u] = before[u] /\ lost'[u] = lost[u]
  BY DEF Types, GhostTypes, Call, StepOf, Native, Direct, Empty, ReadSelf, SaveCwd, Leave, Enter,
         Operate, Restore, Close, Fstat, GetPath, OnPath, Return, Syscall, Refused, Set, ghosts
<1>2. saved'[u] = saved[u]
  BY DEF Types, Call, StepOf, Native, Direct, Empty, ReadSelf, SaveCwd, Leave, NoneToSave,
         Discard, Enter, Operate, Restore, Close, Fstat, GetPath, OnPath, Return, Syscall,
         Refused, Set
<1> QED
  BY <1>1, <1>2

(* Steps that touch no directory: on the way to the call, or out of it.    *)
LEMMA CwdStill ==
  ASSUME NEW t, CwdOf(t), NEW l, pc'[t] = l,
         own'[t] = own[t], saved'[t] = saved[t], before'[t] = before[t], lost'[t] = lost[t],
         \/ pc[t] = "call" /\ l \in {"getpath", "readself", "return"}
         \/ pc[t] \in {"getpath", "onpath", "readself"} /\ l \in {"onpath", "return"}
         \/ pc[t] = "operate" /\ l = "restore"
         \/ pc[t] = "return" /\ l = "idle"
  PROVE  CwdOf(t)'
<1>1. Saved(t)' <=> Saved(t)
  BY DEF Saved
<1>2. Kept(t)' <=> Kept(t)
  BY DEF Kept
<1>3. own[t] = before[t] => Kept(t)
  BY DEF Kept
<1>4. CASE pc[t] \in {"call", "getpath", "onpath", "readself"}
  BY <1>3, <1>4 DEF CwdOf, Kept
<1>5. CASE pc[t] = "operate"
  BY <1>1, <1>5 DEF CwdOf
<1>6. CASE pc[t] = "return"
  BY <1>2, <1>6 DEF CwdOf
<1> QED
  BY <1>4, <1>5, <1>6

LEMMA CwdOwn ==
  ASSUME Types, GhostTypes, NEW t \in Thread, CwdOf(t), Call(t) \/ StepOf(t, req[t].op)
  PROVE  CwdOf(t)'
<1>0. /\ pc \in [Thread -> Label] /\ own \in [Thread -> Dir \cup {NoDir}]
      /\ saved \in [Thread -> Dir \cup {NoDir}] /\ NoDir \notin Dir
      /\ before \in [Thread -> Dir \cup {NoDir}] /\ lost \in [Thread -> BOOLEAN]
  BY AtAssumption DEF Types, GhostTypes
<1>1. CASE Call(t)
  <2>1. pc[t] = "idle" /\ pc'[t] = "call" /\ own' = own /\ saved' = saved /\ before'[t] = own[t]
    BY <1>0, <1>1 DEF Call, At, Goto, Set
  <2> QED
    BY <2>1 DEF CwdOf
<1>2. CASE Native(t, req[t].op) \/ Direct(t, req[t].op) \/ Operate(t, req[t].op)
           \/ OnPath(t, req[t].op) \/ ReadSelf(t)
  <2>1. own' = own /\ saved' = saved /\ before' = before /\ lost' = lost
    BY <1>2 DEF Native, Direct, Operate, OnPath, ReadSelf, Syscall, Refused, ghosts
  <2>2. \/ pc[t] \in {"call", "onpath", "readself"} /\ pc'[t] = "return"
        \/ pc[t] = "operate" /\ pc'[t] = "restore"
    BY <1>0, <1>2 DEF Native, Direct, Operate, OnPath, ReadSelf, Syscall, Refused, At, Goto
  <2> QED
    BY <2>1, <2>2, CwdStill
<1>3. CASE Empty(t) \/ Fstat(t) \/ GetPath(t) \/ Return(t)
  <2>1. own' = own /\ saved' = saved /\ before' = before /\ lost' = lost
    BY <1>3 DEF Empty, Fstat, GetPath, Return, Refused, ghosts
  <2>2. \/ pc[t] = "call" /\ pc'[t] \in {"getpath", "readself", "return"}
        \/ pc[t] = "getpath" /\ pc'[t] = "onpath"
        \/ pc[t] = "return" /\ pc'[t] = "idle"
    BY <1>0, <1>3 DEF Empty, Fstat, GetPath, Return, Refused, At, Goto
  <2> QED
    BY <2>1, <2>2, CwdStill
<1>4. CASE SaveCwd(t)
  <2>1. pc[t] = "call" /\ pc'[t] = "leave" /\ own' = own /\ before' = before
    BY <1>0, <1>4 DEF SaveCwd, At, Goto
  <2>2. saved'[t] = Here(t) \/ (lost' = Set(lost, t, TRUE) /\ saved'[t] = saved[t])
    BY <1>0, <1>4 DEF SaveCwd, Set
  <2>3. lost' = Set(lost, t, TRUE) => lost'[t]
    BY <1>0 DEF Set
  <2>4. own[t] # NoDir => Saved(t)'
    BY <2>1, <2>2, <2>3 DEF CwdOf, Saved, Here
  <2> QED
    BY <2>1, <2>4 DEF CwdOf
<1>5. CASE Leave(t)
  <2>1. pc[t] = "leave" /\ pc'[t] = "enter" /\ before' = before /\ lost' = lost
    BY <1>0, <1>5 DEF Leave, At, Goto, ghosts
  <2>2. CASE own[t] = NoDir
    <3>1. saved'[t] = NoDir
      BY <1>0, <1>5, <2>2 DEF Leave, NoneToSave, Discard, Set
    <3> QED
      BY <2>1, <2>2, <3>1 DEF CwdOf, Saved
  <2>3. CASE own[t] # NoDir
    <3>1. saved' = saved
      BY <1>5, <2>3 DEF Leave, NoneToSave
    <3> QED
      BY <2>1, <2>3, <3>1 DEF CwdOf, Saved
  <2> QED
    BY <2>2, <2>3
<1>6. CASE Enter(t)
  <2>1. pc[t] = "enter" /\ pc'[t] \in {"operate", "undo"}
    BY <1>0, <1>6 DEF Enter, At, Goto
  <2>2. saved' = saved /\ before' = before /\ lost' = lost
    BY <1>6 DEF Enter, ghosts
  <2> QED
    BY <2>1, <2>2 DEF CwdOf, Saved
<1>7. CASE Restore(t)
  <2>1. pc[t] \in {"restore", "undo"} /\ pc'[t] = "close"
    BY <1>0, <1>7 DEF Restore, At, Goto
  <2>2. saved' = saved /\ before' = before /\ lost' = lost
    BY <1>7 DEF Restore, ghosts
  <2>3. own'[t] = saved[t]
    BY <1>0, <1>7 DEF Restore, Restored, Set
  <2> QED
    BY <2>1, <2>2, <2>3 DEF CwdOf, Saved, Kept
<1>8. CASE Close(t)
  <2>1. pc[t] = "close" /\ pc'[t] = "return" /\ own' = own /\ before' = before /\ lost' = lost
    BY <1>0, <1>8 DEF Close, At, Goto, ghosts
  <2>2. saved'[t] = NoDir
    BY <1>0, <1>8 DEF Close, Discard, Set
  <2> QED
    BY <2>1, <2>2 DEF CwdOf, Kept
<1> QED
  BY <1>1, <1>2, <1>3, <1>4, <1>5, <1>6, <1>7, <1>8 DEF StepOf

LEMMA CwdsNext == ASSUME Types, GhostTypes, Cwds, [Next]_vars PROVE Cwds'
<1>1. CASE UNCHANGED vars \/ Move \/ Chdir
  BY <1>1 DEF vars, ghosts, Move, Chdir, Cwds, CwdOf, Saved, Kept
<1>2. ASSUME NEW t \in Thread, Call(t) \/ StepOf(t, req[t].op), NEW u \in Thread
      PROVE  CwdOf(u)'
  <2>1. CASE u = t
    BY <1>2, <2>1, CwdOwn DEF Cwds
  <2>2. CASE u # t
    <3>1. CwdOf(u)
      BY DEF Cwds
    <3> QED
      BY <1>2, <2>2, <3>1, Others, OthersCwd DEF CwdOf, Saved, Kept
  <2> QED
    BY <2>1, <2>2
<1>3. ASSUME NEW t \in Thread, Call(t) \/ Step(t) PROVE Call(t) \/ StepOf(t, req[t].op)
  BY <1>3, OneOp DEF Types
<1> QED
  BY <1>1, <1>2, <1>3 DEF Next, Cwds

LEMMA CwdsInit == Init => GhostTypes /\ Cwds
<1> SUFFICES ASSUME Init PROVE GhostTypes /\ Cwds
  OBVIOUS
<1>1. GhostTypes
  BY DEF Init, GhostTypes
<1>2. ASSUME NEW t \in Thread PROVE CwdOf(t)
  <2>1. pc[t] = "idle" /\ saved[t] = NoDir /\ own[t] = before[t]
    BY DEF Init
  <2>2. Kept(t)
    BY <2>1 DEF Kept
  <2> QED
    BY <2>1, <2>2 DEF CwdOf
<1> QED
  BY <1>1, <1>2 DEF Cwds

(* CwdKept: in every build a thread comes back from a call with the        *)
(* working directory it had, unless that could not be opened.              *)
THEOREM AtCallsKeepCwd == Spec => []CwdKept
<1>1. Types /\ GhostTypes /\ Cwds /\ [Next]_vars => Types' /\ GhostTypes' /\ Cwds'
  BY TypesNext, GhostTypesNext, CwdsNext
<1>2. Cwds => CwdKept
  BY DEF Cwds, CwdOf, Kept, CwdKept, At
<1> QED
  BY <1>1, <1>2, TypesInit, CwdsInit, PTL DEF Spec

--------------------------------------------------------------------------------
(* Each step is one of AtAtomic, or none.                                  *)

LEMMA Bars ==
  ASSUME Types, NEW t \in Thread, NEW l, NEW e, pc' = Set(pc, t, l), errno' = Set(errno, t, e)
  PROVE  /\ phaseBar' = [phaseBar EXCEPT ![t] = PhaseOf(l)]
         /\ outcomeBar' = [outcomeBar EXCEPT ![t] = OutcomeOf(l, e)]
<1>1. phaseBar' = [phaseBar EXCEPT ![t] = PhaseOf(l)]
  BY DEF phaseBar, Types, Set
<1>2. outcomeBar' = [outcomeBar EXCEPT ![t] = OutcomeOf(l, e)]
  BY DEF outcomeBar, Types, Set
<1> QED
  BY <1>1, <1>2

(* The call ends at l with errno e: what Finish asks for. *)
LEMMA Finishes ==
  ASSUME Types, NEW t \in Thread, NEW l, NEW e, Goto(t, l), errno' = Set(errno, t, e),
         PhaseOf(pc[t]) = "called", PhaseOf(l) = "acted", req' = req, backBar' = backBar
  PROVE  Atomic!Finish(t, e)
<1>1. phaseBar[t] = "called"
  BY DEF phaseBar
<1>2. pc' = Set(pc, t, l)
  BY DEF Goto, Set
<1>3. OutcomeOf(l, e) = e
  BY DEF OutcomeOf
<1> QED
  BY <1>1, <1>2, <1>3, Bars DEF Atomic!Finish

(* Both modules have the kernel of PathCalls. *)
LEMMA SameKernel ==
  \A op, k : Atomic!After(op, k) = After(op, k) /\ Atomic!Result(op, k) = Result(op, k)
BY DEF Atomic!After, Atomic!Result, Atomic!Leaves, Atomic!Errno, Atomic!Takes, Atomic!OK,
       Atomic!Followed, Atomic!Exists, Atomic!Kind,
       After, Result, Leaves, Errno, Takes, OK, Followed, Exists, Kind

LEMMA SyscallActs ==
  ASSUME Types, NEW t \in Thread, NEW d \in Atomic!Targets(req[t]), NEW l,
         req[t].fd \notin {"file", "closed"},
         Syscall(t, req[t].op, {d}, l), PhaseOf(pc[t]) = "called", PhaseOf(l) = "acted"
  PROVE  Atomic!Next
<1>1. req' = req /\ Goto(t, l) /\ backBar' = backBar
  BY DEF Syscall, backBar
<1>2. CASE req[t].op \in {"open", "creat"} /\ errno' = Set(errno, t, "EMFILE") /\ UNCHANGED kind
  <2>1. Atomic!Refusal(t, "EMFILE")
    BY <1>2 DEF Atomic!Refusal
  <2>2. Atomic!Finish(t, "EMFILE")
    BY <1>1, <1>2, Finishes
  <2> QED
    BY <1>2, <2>1, <2>2 DEF Atomic!Refuse, Atomic!Next
<1>3. CASE /\ errno' = Set(errno, t, Result(req[t].op, kind[d]))
           /\ kind' = Set(kind, d, After(req[t].op, kind[d]))
  <2>1. Atomic!Finish(t, Result(req[t].op, kind[d]))
    BY <1>1, <1>3, Finishes
  <2>2. kind' = [kind EXCEPT ![d] = After(req[t].op, @)]
    BY <1>3 DEF Set
  <2>3. Atomic!Act(t)
    BY <2>1, <2>2, SameKernel DEF Atomic!Act
  <2> QED
    BY <2>3 DEF Atomic!Next
<1> QED
  BY <1>2, <1>3 DEF Syscall

LEMMA RefusedActs ==
  ASSUME Types, NEW t \in Thread, NEW e \in {"EMFILE", "EBADF", "ENOTDIR", "EINVAL", "ENOENT"},
         Atomic!Refusal(t, e), NEW l, Goto(t, l), errno' = Set(errno, t, e), req' = req,
         kind' = kind, backBar' = backBar,
         PhaseOf(pc[t]) = "called", PhaseOf(l) = "acted"
  PROVE  Atomic!Next
<1>1. Atomic!Finish(t, e)
  BY Finishes
<1> QED
  BY <1>1 DEF Atomic!Refuse, Atomic!Next

(* A step inside a phase. *)
LEMMA SamePhase ==
  ASSUME Types, NEW t \in Thread, NEW l, NEW e, Goto(t, l), errno' = Set(errno, t, e),
         req' = req, kind' = kind, PhaseOf(l) = PhaseOf(pc[t]),
         PhaseOf(l) = "called" \/ e = errno[t]
  PROVE  phaseBar' = phaseBar /\ outcomeBar' = outcomeBar
<1>0. pc' = Set(pc, t, l)
  BY DEF Goto, Set
<1>1. phaseBar' = [phaseBar EXCEPT ![t] = PhaseOf(l)]
      /\ outcomeBar' = [outcomeBar EXCEPT ![t] = OutcomeOf(l, e)]
  BY <1>0, Bars
<1>2. phaseBar[t] = PhaseOf(l) /\ outcomeBar[t] = OutcomeOf(l, e)
  BY DEF phaseBar, outcomeBar, OutcomeOf
<1>3. phaseBar' = phaseBar
  BY <1>1, <1>2 DEF phaseBar
<1>4. outcomeBar' = outcomeBar
  BY <1>1, <1>2 DEF outcomeBar
<1> QED
  BY <1>3, <1>4

LEMMA Stutters ==
  ASSUME Types, NEW t \in Thread, NEW l, NEW e, Goto(t, l), errno' = Set(errno, t, e),
         req' = req, kind' = kind, backBar' = backBar, PhaseOf(l) = PhaseOf(pc[t]),
         PhaseOf(l) = "called" \/ e = errno[t]
  PROVE  UNCHANGED Atomic!vars
BY SamePhase DEF Atomic!vars

LEMMA CallActs == ASSUME Types, GhostTypes, NEW t \in Thread, Call(t) PROVE Atomic!Next
<1>1. PICK r \in Asks[t] : req' = Set(req, t, r)
  BY DEF Call
<1>2. r \in Request
  BY <1>1, AtAssumption
<1>3. pc[t] = "idle" /\ pc' = Set(pc, t, "call") /\ errno' = Set(errno, t, NoResult) /\ kind' = kind
  BY DEF Call, At, Goto, Set, fs
<1>4. phaseBar[t] = "idle"
  BY <1>3 DEF phaseBar, PhaseOf
<1>5. phaseBar' = [phaseBar EXCEPT ![t] = "called"] /\ outcomeBar' = [outcomeBar EXCEPT ![t] = NoResult]
  BY <1>3, Bars DEF PhaseOf, OutcomeOf
<1>6. before' = Set(before, t, own[t]) /\ lost' = Set(lost, t, FALSE)
  BY DEF Call
<1>7. backBar' = [backBar EXCEPT ![t] = own[t] # NoDir]
  BY <1>6 DEF backBar, GhostTypes, Set
<1>8. \E b \in BOOLEAN : backBar' = [backBar EXCEPT ![t] = b]
  BY <1>7, Zenon
<1>9. Atomic!Call(t)
  BY <1>1, <1>2, <1>3, <1>4, <1>5, <1>8 DEF Atomic!Call, Set
<1> QED
  BY <1>9 DEF Atomic!Next

LEMMA StepActs ==
  ASSUME NEW t \in Thread, Types, GhostTypes, CwdOf(t), Placed, Private \/ moves = 0,
         DirOf(t), StepOf(t, req[t].op)
  PROVE  Atomic!Next \/ UNCHANGED Atomic!vars
<1>0. errno = Set(errno, t, errno[t])
  BY DEF Types, Set
<1>1. fd(t) \in Descriptor
  BY RequestField DEF Types, fd
<1>a. ASSUME Empty(t) \/ ReadSelf(t) \/ Leave(t) \/ Enter(t) \/ Restore(t) \/ Close(t) \/ Fstat(t)
             \/ GetPath(t) \/ Return(t) \/ \E e, l : Refused(t, e, l)
      PROVE  backBar' = backBar
  BY <1>a DEF Empty, ReadSelf, Leave, Enter, Restore, Close, Fstat, GetPath, Return, Refused, ghosts,
         backBar
<1>b. fd(t) \in Dir => req[t].fd \notin {"file", "closed"} /\ Relative(t)
  BY AtAssumption DEF fd, Relative
<1>2. Relative(t) /\ fd(t) \notin Dir =>
        /\ Entering(fd(t)) \in {"EBADF", "ENOTDIR"} /\ Atomic!Refusal(t, Entering(fd(t)))
        /\ fd(t) = "file" => Entering(fd(t)) = "ENOTDIR"
        /\ fd(t) \in {"file", "closed"}
  BY <1>1 DEF Relative, Entering, Atomic!Refusal, Descriptor, fd
<1>3. Relative(t) /\ fd(t) \in Dir => fd(t) \in Atomic!Targets(req[t])
  BY DEF Relative, Atomic!Targets, fd
<1>4. CASE Native(t, req[t].op)
  <2>1. PhaseOf(pc[t]) = "called" /\ PhaseOf("return") = "acted"
    BY <1>4 DEF Native, At, PhaseOf
  <2>2. CASE fd(t) \in Dir
    BY <1>b, <1>3, <1>4, <2>1, <2>2, SyscallActs DEF Native
  <2>3. CASE fd(t) \notin Dir
    <3>1. Refused(t, Entering(fd(t)), "return") /\ Relative(t)
      BY <1>4, <2>3 DEF Native
    <3>2. backBar' = backBar
      BY <1>a, <3>1
    <3> QED
      BY <1>2, <2>1, <2>3, <3>1, <3>2, RefusedActs DEF Refused, fs
  <2> QED
    BY <2>2, <2>3
<1>5. CASE Direct(t, req[t].op)
  <2>1. PhaseOf(pc[t]) = "called" /\ PhaseOf("return") = "acted"
    BY <1>5 DEF Direct, At, PhaseOf
  <2>2. PICK d \in Dir : Syscall(t, req[t].op, {d}, "return")
    BY <1>5 DEF Direct, Here, Types
  <2>3. d \in Atomic!Targets(req[t]) /\ req[t].fd \notin {"file", "closed"}
    BY <1>5 DEF Direct, Atomic!Targets, fd
  <2> QED
    BY <2>1, <2>2, <2>3, SyscallActs
<1>6. CASE Empty(t)
  <2>1. PhaseOf(pc[t]) = "called" /\ PhaseOf("return") = "acted" /\ PhaseOf("readself") = "called"
    BY <1>6 DEF Empty, At, PhaseOf
  <2>2. backBar' = backBar /\ req' = req /\ kind' = kind /\ req[t].op = "readself"
    BY <1>a, <1>6 DEF Empty, fs
  <2>3. CASE Goto(t, "readself") /\ UNCHANGED errno
    BY <1>0, <2>1, <2>2, <2>3, Stutters
  <2>4. CASE fd(t) = "file" /\ Goto(t, "return") /\ errno' = Set(errno, t, "EINVAL")
    <3>1. Atomic!Refusal(t, "EINVAL")
      BY <2>2, <2>4 DEF Atomic!Refusal, fd
    <3> QED
      BY <2>1, <2>2, <2>4, <3>1, RefusedActs
  <2>5. CASE fd(t) = "closed" /\ Goto(t, "return") /\ errno' = Set(errno, t, "EBADF")
    <3>1. Atomic!Refusal(t, "EBADF")
      BY <2>5 DEF Atomic!Refusal, fd
    <3> QED
      BY <2>1, <2>2, <2>5, <3>1, RefusedActs
  <2> QED
    BY <1>6, <2>3, <2>4, <2>5 DEF Empty
<1>7. CASE ReadSelf(t)
  <2>1. PhaseOf(pc[t]) = "called" /\ PhaseOf("return") = "acted"
    BY <1>7 DEF ReadSelf, At, PhaseOf
  <2>2. req[t].op = "readself" /\ fd(t) \in Dir
    BY <1>7 DEF ReadSelf, At, DirOf
  <2>3. PICK e \in {"EINVAL", "ENOENT"} : Refused(t, e, "return")
    BY <1>7 DEF ReadSelf
  <2>4. Atomic!Refusal(t, e)
    BY <2>2 DEF Atomic!Refusal, fd
  <2> QED
    BY <1>a, <1>7, <2>1, <2>3, <2>4, RefusedActs DEF Refused, fs
<1>8. CASE SaveCwd(t)
  <2>1. PhaseOf("leave") = PhaseOf(pc[t]) /\ PhaseOf("leave") = "called"
    BY <1>8 DEF SaveCwd, At, PhaseOf
  <2>2. /\ Goto(t, "leave") /\ req' = req /\ kind' = kind /\ before' = before
        /\ \E e : errno' = Set(errno, t, e)
    BY <1>0, <1>8 DEF SaveCwd, fs
  <2>3. phaseBar' = phaseBar /\ outcomeBar' = outcomeBar
    BY <2>1, <2>2, SamePhase
  <2>4. CASE lost' = lost
    <3>1. backBar' = backBar
      BY <2>2, <2>4 DEF backBar
    <3> QED
      BY <2>2, <2>3, <3>1 DEF Atomic!vars
  <2>5. CASE lost' = Set(lost, t, TRUE)
    <3>1. lost'[t] /\ \A u \in Thread : u # t => lost'[u] = lost[u]
      BY <2>5 DEF GhostTypes, Set
    <3>2. backBar' = [backBar EXCEPT ![t] = FALSE]
      BY <2>2, <3>1, Zenon DEF backBar
    <3>3. phaseBar[t] = "called"
      BY <2>1 DEF phaseBar
    <3>4. Atomic!Lose(t)
      BY <2>2, <2>3, <3>2, <3>3 DEF Atomic!Lose
    <3> QED
      BY <3>4 DEF Atomic!Next
  <2> QED
    BY <1>8, <2>4, <2>5 DEF SaveCwd
<1>9. CASE Leave(t)
  <2>1. PhaseOf("enter") = PhaseOf(pc[t]) /\ PhaseOf("enter") = "called"
    BY <1>9 DEF Leave, At, PhaseOf
  <2>2. \E e : errno' = Set(errno, t, e)
    BY <1>0, <1>9 DEF Leave, NoneToSave
  <2> QED
    BY <1>a, <1>9, <2>1, <2>2, Stutters DEF Leave, fs
<1>10. CASE Enter(t)
  <2>1. /\ PhaseOf("operate") = PhaseOf(pc[t]) /\ PhaseOf("operate") = "called"
        /\ PhaseOf("undo") = PhaseOf(pc[t]) /\ PhaseOf("undo") = "called"
    BY <1>10 DEF Enter, At, PhaseOf
  <2>2. \E e : errno' = Set(errno, t, e)
    BY <1>0, <1>10 DEF Enter
  <2> QED
    BY <1>a, <1>10, <2>1, <2>2, Stutters DEF Enter, fs
<1>11. CASE Operate(t, req[t].op)
  <2>1. PhaseOf(pc[t]) = "called" /\ PhaseOf("restore") = "acted"
    BY <1>11 DEF Operate, At, PhaseOf
  <2>2. fd(t) \in Dir /\ Here(t) = fd(t)
    BY <1>11, AtAssumption DEF Operate, At, DirOf, Here
  <2>3. fd(t) \in Atomic!Targets(req[t])
    BY <2>2, AtAssumption DEF Atomic!Targets, fd
  <2> QED
    BY <1>b, <1>11, <2>1, <2>2, <2>3, SyscallActs DEF Operate
<1>12. CASE Restore(t)
  <2>1. CASE pc[t] = "restore"
    <3>1. PhaseOf("close") = PhaseOf(pc[t])
      BY <2>1 DEF PhaseOf
    <3>2. errno' = errno
      BY <1>12, <2>1 DEF Restore, Restored, DirOf, Leaving, OK
    <3> QED
      BY <1>0, <1>a, <1>12, <3>1, <3>2, Stutters DEF Restore, fs
  <2>2. CASE pc[t] = "undo"
    <3>1. PhaseOf(pc[t]) = "called" /\ PhaseOf("close") = "acted"
      BY <2>2 DEF PhaseOf
    <3>2. /\ Private /\ fd(t) \notin Dir /\ errno[t] = Entering(fd(t)) /\ Saved(t)
          /\ fd(t) \in {"file", "closed"}
      BY <1>2, <2>2 DEF DirOf, CwdOf, Relative
    <3>3. CASE errno' = errno
      <4>1. CASE fd(t) = "file"
        <5>1. Atomic!Refusal(t, "ENOTDIR") /\ errno[t] = "ENOTDIR"
          BY <3>2, <4>1 DEF Atomic!Refusal, fd, Entering
        <5> QED
          BY <1>0, <1>a, <1>12, <3>1, <3>3, <5>1, RefusedActs DEF Restore, fs
      <4>2. CASE fd(t) = "closed"
        <5>1. Atomic!Refusal(t, "EBADF") /\ errno[t] = "EBADF"
          BY <3>2, <4>2 DEF Atomic!Refusal, fd, Entering
        <5> QED
          BY <1>0, <1>a, <1>12, <3>1, <3>3, <5>1, RefusedActs DEF Restore, fs
      <4> QED
        BY <3>2, <4>1, <4>2
    <3>4. CASE saved[t] = NoDir /\ errno' = Set(errno, t, "EBADF")
      <4>1. ~backBar[t]
        BY <3>2, <3>4 DEF backBar, Saved
      <4>2. Atomic!Refusal(t, "EBADF")
        BY <3>2, <4>1, Zenon DEF Atomic!Refusal, fd
      <4> QED
        BY <1>a, <1>12, <3>1, <3>4, <4>2, RefusedActs DEF Restore, fs
    <3> QED
      BY <1>12, <3>3, <3>4 DEF Restore, Restored, Leaving
  <2> QED
    BY <1>12, <2>1, <2>2 DEF Restore, At
<1>13. CASE Close(t)
  <2>1. PhaseOf("return") = PhaseOf(pc[t])
    BY <1>13 DEF Close, At, PhaseOf
  <2> QED
    BY <1>0, <1>a, <1>13, <2>1, Stutters DEF Close, fs
<1>14. CASE Return(t)
  <2>1. pc[t] = "return" /\ pc' = Set(pc, t, "idle") /\ errno' = Set(errno, t, errno[t])
    BY <1>0, <1>14 DEF Return, At, Goto, Set
  <2>2. phaseBar[t] = "acted" /\ outcomeBar[t] = errno[t]
    BY <2>1 DEF phaseBar, outcomeBar, PhaseOf, OutcomeOf
  <2>3. /\ phaseBar' = [phaseBar EXCEPT ![t] = "idle"]
        /\ outcomeBar' = [outcomeBar EXCEPT ![t] = errno[t]]
    BY <2>1, Bars DEF PhaseOf, OutcomeOf
  <2>4. outcomeBar' = outcomeBar
    BY <2>2, <2>3 DEF outcomeBar
  <2>5. Atomic!Return(t)
    BY <1>a, <1>14, <2>2, <2>3, <2>4 DEF Return, Atomic!Return, fs
  <2> QED
    BY <2>5 DEF Atomic!Next
<1>15. CASE Fstat(t)
  <2>1. /\ PhaseOf(pc[t]) = "called" /\ PhaseOf("return") = "acted"
        /\ PhaseOf("getpath") = "called"
    BY <1>15 DEF Fstat, At, PhaseOf
  <2>2. CASE fd(t) \in Dir /\ Goto(t, "getpath") /\ errno' = errno
    BY <1>0, <1>a, <1>15, <2>1, <2>2, Stutters DEF Fstat, Refused, fs
  <2>3. CASE fd(t) \notin Dir /\ Refused(t, Entering(fd(t)), "return")
    BY <1>2, <1>a, <1>15, <2>1, <2>3, RefusedActs DEF Fstat, Refused, fs
  <2> QED
    BY <1>15, <2>2, <2>3 DEF Fstat
<1>16. CASE GetPath(t)
  <2>1. PhaseOf("onpath") = PhaseOf(pc[t]) /\ PhaseOf("onpath") = "called"
    BY <1>16 DEF GetPath, At, PhaseOf
  <2> QED
    BY <1>0, <1>a, <1>16, <2>1, Stutters DEF GetPath, fs
<1>17. CASE OnPath(t, req[t].op)
  <2>1. PhaseOf(pc[t]) = "called" /\ PhaseOf("return") = "acted"
    BY <1>17 DEF OnPath, At, PhaseOf
  <2>2. fd(t) \in Dir /\ text[t] = where[fd(t)]
    BY <1>17 DEF OnPath, At, DirOf
  <2>3. {d \in Dir : where[d] = text[t]} = {fd(t)}
    BY <2>2 DEF Placed, Distinct
  <2>4. fd(t) \in Atomic!Targets(req[t])
    BY <2>2, AtAssumption DEF Atomic!Targets, fd
  <2> QED
    BY <1>b, <1>17, <2>1, <2>2, <2>3, <2>4, SyscallActs DEF OnPath
<1> QED
  BY <1>4, <1>5, <1>6, <1>7, <1>8, <1>9, <1>10, <1>11, <1>12, <1>13, <1>14, <1>15, <1>16, <1>17
  DEF StepOf

LEMMA NextActs ==
  ASSUME Types, Placed, Dirs, GhostTypes, Cwds, Private \/ moves = 0, [Next]_vars
  PROVE  [Atomic!Next]_(Atomic!vars)
<1>1. CASE UNCHANGED vars \/ Move \/ Chdir
  BY <1>1 DEF vars, fs, ghosts, Move, Chdir, Atomic!vars, phaseBar, outcomeBar, backBar
<1>2. ASSUME NEW t \in Thread, Call(t) PROVE Atomic!Next
  BY <1>2, CallActs
<1>3. ASSUME NEW t \in Thread, Step(t) PROVE Atomic!Next \/ UNCHANGED Atomic!vars
  <2>1. StepOf(t, req[t].op) /\ DirOf(t) /\ CwdOf(t)
    BY <1>3, OneOp DEF Types, Dirs, Cwds
  <2> QED
    BY <2>1, StepActs
<1> QED
  BY <1>1, <1>2, <1>3 DEF Next

LEMMA InitActs == Init => Atomic!Init
<1> SUFFICES ASSUME Init PROVE Atomic!Init
  OBVIOUS
<1>1. phaseBar = [t \in Thread |-> "idle"]
  BY DEF Init, phaseBar, PhaseOf
<1>2. outcomeBar = [t \in Thread |-> NoResult]
  BY DEF Init, outcomeBar, OutcomeOf, PhaseOf
<1>3. kind \in [Dir -> Atomic!Kind] /\ req \in [Thread -> Request]
  BY TypesInit DEF Types, Kind, Atomic!Kind
<1>4. backBar \in [Thread -> BOOLEAN]
  <2>1. GhostTypes
    BY CwdsInit
  <2>2. ASSUME NEW t \in Thread PROVE (before[t] # NoDir /\ ~lost[t]) \in BOOLEAN
    BY Zenon
  <2> QED
    BY <2>2, Zenon DEF backBar
<1> QED
  BY <1>1, <1>2, <1>3, <1>4 DEF Atomic!Init

(* ImplementsAtomic, in the builds with pthread_fchdir_np: whatever other  *)
(* threads do, wherever directories are moved and whichever descriptors    *)
(* run out, a call has its effect in the directory of its descriptor and   *)
(* reports what it met there, or it has none and reports the want of       *)
(* descriptors or what the descriptor is; only a thread that has nothing   *)
(* to go back to is told EBADF of a file.                                  *)
THEOREM AtCallsAtomic == ASSUME Private PROVE Spec => ImplementsAtomic
<1>1. Types /\ Placed /\ Dirs /\ GhostTypes /\ Cwds /\ [Next]_vars
        => Types' /\ Placed' /\ Dirs' /\ GhostTypes' /\ Cwds'
  BY TypesNext, PlacedNext, DirsNext, GhostTypesNext, CwdsNext
<1>2. Types /\ Placed /\ Dirs /\ GhostTypes /\ Cwds /\ [Next]_vars
        => [Atomic!Next]_(Atomic!vars)
  BY NextActs
<1> QED
  BY <1>1, <1>2, TypesInit, PlacedInit, DirsInit, CwdsInit, InitActs, PTL
  DEF Spec, ImplementsAtomic, Atomic!Spec

(* ImplementsAtomic also by path, in the other builds, as long as nobody   *)
(* renames a directory: the path F_GETPATH gives is then that of the one   *)
(* directory the descriptor refers to, and a file is always ENOTDIR.       *)
THEOREM AtCallsByPath == Spec /\ [](moves = 0) => ImplementsAtomic
<1>1. Types /\ Placed /\ Dirs /\ GhostTypes /\ Cwds /\ [Next]_vars
        => Types' /\ Placed' /\ Dirs' /\ GhostTypes' /\ Cwds'
  BY TypesNext, PlacedNext, DirsNext, GhostTypesNext, CwdsNext
<1>2. Types /\ Placed /\ Dirs /\ GhostTypes /\ Cwds /\ moves = 0 /\ [Next]_vars
        => [Atomic!Next]_(Atomic!vars)
  BY NextActs
<1> QED
  BY <1>1, <1>2, TypesInit, PlacedInit, DirsInit, CwdsInit, InitActs, PTL
  DEF Spec, ImplementsAtomic, Atomic!Spec

--------------------------------------------------------------------------------
(* Descriptors.                                                            *)

Counted == given \in Nat /\ used = given + Cardinality(Held)

LEMMA HeldFinite == IsFiniteSet(Held) /\ Cardinality(Held) \in Nat
<1>1. Held \subseteq Thread
  BY DEF Held
<1> QED
  BY <1>1, AtAssumption, FS_Subset, FS_CardinalityType

(* A step of t decides only whether t itself holds a descriptor.           *)
LEMMA HeldOthers ==
  ASSUME Types, GhostTypes, NEW t \in Thread, Call(t) \/ StepOf(t, req[t].op)
  PROVE  Held' \ {t} = Held \ {t}
<1>1. ASSUME NEW u \in Thread, u # t PROVE u \in Held' <=> u \in Held
  <2>1. pc'[u] = pc[u] /\ saved'[u] = saved[u]
    BY <1>1, Others, OthersCwd
  <2> QED
    BY <2>1 DEF Held
<1>2. Held \subseteq Thread /\ Held' \subseteq Thread
  BY DEF Held
<1> QED
  BY <1>1, <1>2

LEMMA HeldStill ==
  ASSUME Types, GhostTypes, NEW t \in Thread, Call(t) \/ StepOf(t, req[t].op),
         t \in Held' <=> t \in Held
  PROVE  Held' = Held
BY HeldOthers

LEMMA HeldMore ==
  ASSUME Types, GhostTypes, NEW t \in Thread, Call(t) \/ StepOf(t, req[t].op),
         t \in Held', t \notin Held
  PROVE  Cardinality(Held') = Cardinality(Held) + 1
<1>1. Held' = Held \cup {t}
  BY HeldOthers
<1> QED
  BY <1>1, HeldFinite, FS_AddElement

LEMMA HeldLess ==
  ASSUME Types, GhostTypes, NEW t \in Thread, Call(t) \/ StepOf(t, req[t].op),
         t \notin Held', t \in Held
  PROVE  Cardinality(Held') = Cardinality(Held) - 1
<1>1. Held' = Held \ {t}
  BY HeldOthers
<1> QED
  BY <1>1, HeldFinite, FS_RemoveElement

LEMMA CountedStep ==
  ASSUME Types, GhostTypes, Counted, NEW t \in Thread, CwdOf(t),
         Call(t) \/ StepOf(t, req[t].op)
  PROVE  Counted'
<1>0. /\ pc \in [Thread -> Label] /\ saved \in [Thread -> Dir \cup {NoDir}]
      /\ NoDir \notin Dir /\ Here(t) \in Dir
  BY AtAssumption DEF Types, Here
<1>1. Cardinality(Held) \in Nat
  BY HeldFinite
<1>2. CASE Call(t) \/ Empty(t) \/ ReadSelf(t) \/ Fstat(t) \/ GetPath(t) \/ Return(t)
  <2>1. t \notin Held /\ t \notin Held'
    BY <1>0, <1>2 DEF Held, Call, Empty, ReadSelf, Refused, Fstat, GetPath, Return, At, Goto
  <2>2. used' = used /\ given' = given
    BY <1>2 DEF Call, Empty, ReadSelf, Refused, Fstat, GetPath, Return, ghosts
  <2> QED
    BY <2>1, <2>2, HeldStill DEF Counted
<1>3. CASE Native(t, req[t].op) \/ Direct(t, req[t].op) \/ OnPath(t, req[t].op)
           \/ Operate(t, req[t].op)
  <2>1. t \in Held' <=> t \in Held
    BY <1>0, <1>3 DEF Held, Native, Direct, OnPath, Operate, Syscall, Refused, At, Goto
  <2>2. \/ used' = used /\ given' = given
        \/ used' = used + 1 /\ given' = given + 1
        \/ used' = used + 0 /\ given' = given + 0
    BY <1>3 DEF Native, Direct, OnPath, Operate, Syscall, Refused, ghosts
  <2>3. Held' = Held
    BY <2>1, HeldStill
  <2> QED
    BY <1>1, <2>2, <2>3 DEF Counted
<1>4. CASE SaveCwd(t)
  <2>1. pc[t] = "call" /\ pc'[t] = "leave" /\ given' = given /\ saved[t] = NoDir
    BY <1>0, <1>4 DEF SaveCwd, At, Goto, CwdOf
  <2>2. CASE saved' = Set(saved, t, Here(t)) /\ used' = used + 1
    <3>1. t \notin Held /\ t \in Held'
      BY <1>0, <2>1, <2>2 DEF Held, Set
    <3> QED
      BY <1>1, <1>4, <2>1, <2>2, <3>1, HeldMore DEF Counted
  <2>3. CASE saved' = saved /\ used' = used
    <3>1. t \notin Held /\ t \notin Held'
      BY <2>1, <2>3 DEF Held
    <3> QED
      BY <1>4, <2>1, <2>3, <3>1, HeldStill DEF Counted
  <2> QED
    BY <1>4, <2>2, <2>3 DEF SaveCwd
<1>5. CASE Leave(t) \/ Close(t)
  <2>1. /\ pc[t] \in {"leave", "close"} /\ given' = given
        /\ pc'[t] = "enter" \/ pc'[t] = "return"
    BY <1>0, <1>5 DEF Leave, Close, At, Goto, ghosts
  <2>2. CASE saved[t] = NoDir /\ saved' = saved /\ used' = used
    <3>1. t \notin Held /\ t \notin Held'
      BY <2>2 DEF Held
    <3> QED
      BY <1>5, <2>1, <2>2, <3>1, HeldStill DEF Counted
  <2>3. CASE saved[t] # NoDir /\ saved' = Set(saved, t, NoDir) /\ used' = used - 1
    <3>1. t \in Held /\ t \notin Held'
      BY <1>0, <2>1, <2>3 DEF Held, Set
    <3> QED
      BY <1>1, <1>5, <2>1, <2>3, <3>1, HeldLess DEF Counted
  <2>4. CASE Leave(t) /\ own[t] # NoDir
    <3>1. saved' = saved /\ used' = used /\ pc[t] = "leave" /\ pc'[t] = "enter"
      BY <1>0, <2>4 DEF Leave, NoneToSave, At, Goto
    <3>2. t \in Held' <=> t \in Held
      BY <3>1 DEF Held
    <3> QED
      BY <2>1, <3>1, <3>2, <1>5, HeldStill DEF Counted
  <2> QED
    BY <1>5, <2>2, <2>3, <2>4 DEF Leave, NoneToSave, Close, Discard
<1>6. CASE Enter(t) \/ Restore(t)
  <2>1. /\ pc[t] \in {"enter", "restore", "undo"} /\ pc'[t] \in {"operate", "undo", "close"}
        /\ saved' = saved /\ used' = used /\ given' = given
    BY <1>0, <1>6 DEF Enter, Restore, At, Goto, ghosts
  <2>2. t \in Held' <=> t \in Held
    BY <2>1 DEF Held
  <2> QED
    BY <1>6, <2>1, <2>2, HeldStill DEF Counted
<1> QED
  BY <1>2, <1>3, <1>4, <1>5, <1>6 DEF StepOf

LEMMA CountedNext == ASSUME Types, GhostTypes, Cwds, Counted, [Next]_vars PROVE Counted'
<1>1. CASE UNCHANGED vars \/ Move \/ Chdir
  <2>1. used' = used /\ given' = given /\ Held' = Held
    BY <1>1 DEF vars, ghosts, Move, Chdir, Held
  <2> QED
    BY <2>1 DEF Counted
<1>2. ASSUME NEW t \in Thread, Call(t) \/ Step(t) PROVE Counted'
  <2>1. Call(t) \/ StepOf(t, req[t].op)
    BY <1>2, OneOp DEF Types
  <2> QED
    BY <2>1, CountedStep DEF Cwds
<1> QED
  BY <1>1, <1>2 DEF Next

LEMMA CountedInit == Init => Counted
<1> SUFFICES ASSUME Init PROVE Counted
  OBVIOUS
<1>1. Held = {} /\ used = 0 /\ given = 0
  BY DEF Init, Held
<1> QED
  BY <1>1, FS_EmptySet DEF Counted

(* NoLeak: in every build, whichever step of a call fails, the descriptors *)
(* in use are those openat has given away and one for each call that has   *)
(* yet to go back.                                                         *)
THEOREM AtCallsNoLeak == Spec => []NoLeak
<1>1. Types /\ GhostTypes /\ Cwds /\ Counted /\ [Next]_vars
        => Types' /\ GhostTypes' /\ Cwds' /\ Counted'
  BY TypesNext, GhostTypesNext, CwdsNext, CountedNext
<1>2. Counted => NoLeak
  BY DEF Counted, NoLeak
<1> QED
  BY <1>1, <1>2, TypesInit, CwdsInit, CountedInit, PTL DEF Spec

--------------------------------------------------------------------------------
(* The limit of descriptors.                                               *)

Limited == used \in Int /\ used <= Limit

LEMMA LimitedStep ==
  ASSUME Limited, NEW t \in Thread, Call(t) \/ StepOf(t, req[t].op)
  PROVE  Limited'
<1>1. CASE Call(t) \/ Empty(t) \/ ReadSelf(t) \/ Enter(t) \/ Restore(t) \/ Fstat(t)
             \/ GetPath(t) \/ Return(t)
  BY <1>1 DEF Call, Empty, ReadSelf, Enter, Restore, Fstat, GetPath, Return, Refused, Limited
<1>2. ASSUME NEW op, NEW ds, NEW next, Syscall(t, op, ds, next) PROVE Limited'
  BY <1>2, AtAssumption DEF Syscall, Room, Limited
<1>3. CASE Native(t, req[t].op) \/ Direct(t, req[t].op) \/ Operate(t, req[t].op)
             \/ OnPath(t, req[t].op)
  BY <1>2, <1>3 DEF Native, Direct, Operate, OnPath, Refused, Limited
<1>4. CASE SaveCwd(t)
  <2>1. (Room /\ used' = used + 1) \/ used' = used
    BY <1>4 DEF SaveCwd
  <2> QED
    BY <2>1, AtAssumption DEF Room, Limited
<1>5. CASE Leave(t) \/ Close(t)
  BY <1>5, AtAssumption DEF Leave, NoneToSave, Close, Discard, Limited
<1> QED
  BY <1>1, <1>3, <1>4, <1>5 DEF StepOf

LEMMA LimitedNext == ASSUME Types, Limited, [Next]_vars PROVE Limited'
<1>1. CASE UNCHANGED vars \/ Move \/ Chdir
  BY <1>1 DEF vars, Move, Chdir, Limited
<1>2. ASSUME NEW t \in Thread, Call(t) \/ Step(t) PROVE Limited'
  <2>1. Call(t) \/ StepOf(t, req[t].op)
    BY <1>2, OneOp DEF Types
  <2> QED
    BY <2>1, LimitedStep
<1> QED
  BY <1>1, <1>2 DEF Next

(* Every variable keeps its type, and the process never has more           *)
(* descriptors open than it may.                                           *)
THEOREM TypeCorrect == Spec => []TypeOK
<1>1. Init => Limited
  BY AtAssumption DEF Init, Limited
<1>2. Types /\ Placed /\ Dirs /\ GhostTypes /\ Cwds /\ Counted /\ Limited /\ [Next]_vars
        => Types' /\ Placed' /\ Dirs' /\ GhostTypes' /\ Cwds' /\ Counted' /\ Limited'
  BY TypesNext, PlacedNext, DirsNext, GhostTypesNext, CwdsNext, CountedNext, LimitedNext
<1>3. Types /\ Placed /\ Counted /\ Limited => TypeOK
  <2>1. Cardinality(Held) \in Nat
    BY HeldFinite
  <2>2. Counted /\ Limited => used \in 0 .. Limit /\ given \in 0 .. Limit
    BY <2>1, AtAssumption DEF Counted, Limited
  <2> QED
    BY <2>2 DEF Types, Placed, TypeOK
<1> QED
  BY <1>1, <1>2, <1>3, TypesInit, PlacedInit, DirsInit, CwdsInit, CountedInit, PTL DEF Spec
================================================================================
