-------------------------------- MODULE Descriptors --------------------------------
(***************************************************************************)
(* open, fdopendir and dirfd of compat/ in a program with threads, one of  *)
(* which starts other programs.  open makes up for what older systems do   *)
(* not know: O_CLOEXEC by a second call, O_SYMLINK by O_NOFOLLOW.          *)
(* fdopendir puts the caller's descriptor into a directory stream of `/'.  *)
(***************************************************************************)
EXTENDS TargetInfo, FiniteSets, FiniteSetsExt

CONSTANTS
  Targets,    \* what programs are built for
  Opener,     \* threads that open and close
  Table,      \* the descriptors a process can have
  MaxOpens, MaxExecs  \* bounds: calls of open by a thread, programs started

ASSUME DescriptorsAssumption == /\ \A t \in Targets : Existing(t)
                                /\ Table \subseteq Nat /\ "nobody" \notin Opener
                                /\ MaxOpens \in Nat /\ MaxExecs \in Nat

NoFd == -1
NULLDIR == [fd |-> -2]

VARIABLES
  target,     \* what the program was built for
  system,     \* the version of the system it runs on
  ver,        \* static enum version ver of _open
  init,       \* the thread that has set the static init of fdopendir
  table,      \* table[fd]: what is open there
  at, flags, cloexec,  \* of each thread: where it is in a call, arguments and locals
  hand,       \* hand[t]: the descriptor t has of open
  dir,        \* dir[t]: the directory stream of t, and the descriptor in it
  followed,   \* a call that asked for O_SYMLINK has followed a link
  inherited,  \* what programs that were started have got
  opens, execs

locals == <<at, flags, cloexec>>
outcome == <<followed, inherited>>
descriptors == <<target, system, ver, init, table, locals, hand, dir, outcome, opens, execs>>

Unused == [by |-> "nobody"]
Entry(t, fn, asked, set, done) ==
  [by |-> t, fn |-> fn, asked |-> asked, cloexec |-> set, done |-> done]

IsOpen(fd) == fd \in Table /\ table[fd] # Unused

(* The lowest descriptor that is free: external *)
Lowest == IF \E fd \in Table : table[fd] = Unused THEN Min({fd \in Table : table[fd] = Unused}) ELSE NoFd

Without(fd) == IF IsOpen(fd) THEN [table EXCEPT ![fd] = Unused] ELSE table    \* close

To(t, l) == at' = [at EXCEPT ![t] = l]

(* What the kernel of a version knows. *)
Knows(v, since) == v >= From(target, since)
leopard_since == <<1050, 20000, 0>>
Kernel == IF Knows(system, open_since) THEN "lion"
          ELSE IF Knows(system, leopard_since) THEN "leopard" ELSE "tiger"

--------------------------------------------------------------------------------
(* open *)

OpenCall(t) == /\ at[t] = "idle" /\ hand[t] = NoFd /\ dir[t] = NULLDIR /\ opens[t] < MaxOpens
               /\ opens' = [opens EXCEPT ![t] = @ + 1]
               /\ \E f \in SUBSET {"O_CLOEXEC", "O_SYMLINK"} : flags' = [flags EXCEPT ![t] = f]
               /\ cloexec' = [cloexec EXCEPT ![t] = FALSE]
               /\ To(t, "version")
               /\ UNCHANGED <<target, system, init, ver, table, hand, dir, outcome, execs>>

(* How the build finds the version of the system *)
Determined ==
  IF ~MAXVER_GE(target, leopard_since) THEN "tiger"
  ELSE IF ~MAXVER_GE(target, open_since) /\ ~MINVER_LT(target, leopard_since) THEN "leopard"
  ELSE "runtime"

(* What uname finds is assigned to a variable of the inner block, and the  *)
(* static one stays as it is; MINVER, which it gets when uname fails, is   *)
(* more than any enumerated version.                                       *)
Version(t) == /\ at[t] = "version"
              /\ \/ Determined # "runtime" /\ UNCHANGED ver
                 \/ Determined = "runtime" /\ ver # "unset" /\ UNCHANGED ver
                 \/ Determined = "runtime" /\ ver = "unset" /\ ver' \in {"unset", "MINVER"}
              /\ To(t, "flags")
              /\ UNCHANGED <<target, system, init, table, flags, cloexec, hand, dir, outcome, opens, execs>>

Ver == IF Determined = "runtime" THEN ver ELSE Determined

NeedsFcntl_OnTiger(f) == Ver = "tiger" /\ "O_CLOEXEC" \in f
NeedsFcntl(f) == Ver \in {"unset", "tiger", "leopard"} /\ "O_CLOEXEC" \in f

Flags(f) == LET g == IF NeedsFcntl(f) THEN f \ {"O_CLOEXEC"} ELSE f IN
              IF Ver = "tiger" /\ "O_SYMLINK" \in g THEN (g \ {"O_SYMLINK"}) \cup {"O_NOFOLLOW"} ELSE g

ChangeFlags(t) == /\ at[t] = "flags"
                  /\ cloexec' = [cloexec EXCEPT ![t] = NeedsFcntl(flags[t])]
                  /\ To(t, "open")
                  /\ UNCHANGED <<target, system, init, ver, table, flags, hand, dir, outcome, opens, execs>>

Understood == CASE Kernel = "tiger" -> {"O_NOFOLLOW"}
                [] Kernel = "leopard" -> {"O_NOFOLLOW", "O_SYMLINK"}
                [] Kernel = "lion" -> {"O_NOFOLLOW", "O_SYMLINK", "O_CLOEXEC"}

(* func(path, flags, mode), external: a flag the kernel does not know is   *)
(* as if it were not there.  It may also fail.                             *)
KernelOpens(t) ==
  /\ at[t] = "open"
  /\ LET known == Flags(flags[t]) \cap Understood
     IN \/ /\ Lowest # NoFd
           /\ table' = [table EXCEPT ![Lowest] =
                          Entry(t, "open", "O_CLOEXEC" \in flags[t], "O_CLOEXEC" \in known, ~cloexec[t])]
           /\ hand' = [hand EXCEPT ![t] = Lowest]
           /\ followed' = (followed \/ ("O_SYMLINK" \in flags[t] /\ known \cap {"O_SYMLINK", "O_NOFOLLOW"} = {}))
           /\ To(t, IF cloexec[t] THEN "fcntl" ELSE "idle")
        \/ /\ To(t, "failed") /\ UNCHANGED <<table, hand, followed>>
  /\ UNCHANGED <<target, system, init, ver, flags, cloexec, dir, inherited, opens, execs>>

SetCloexec(t) == /\ at[t] = "fcntl"
                 /\ table' = [table EXCEPT ![hand[t]].cloexec = TRUE, ![hand[t]].done = TRUE]
                 /\ To(t, "idle")
                 /\ UNCHANGED <<target, system, init, ver, flags, cloexec, hand, dir, outcome, opens, execs>>

open(t) == OpenCall(t) \/ Version(t) \/ ChangeFlags(t) \/ KernelOpens(t) \/ SetCloexec(t)

--------------------------------------------------------------------------------
(* fdopendir.  A program may well hand it the -1 of an open that failed.   *)

(* The system may have it; but a thread that finds init set by another one *)
(* may not find func yet, and does without.                                *)
Lacks == ~Knows(system, fdopendir_since) \/ ~MAXVER_GE(target, fdopendir_since)

Fdopendir(t) ==
  /\ at[t] \in {"idle", "failed"} /\ dir[t] = NULLDIR
  /\ (at[t] = "idle") = (hand[t] # NoFd)
  /\ init' = IF init = "nobody" THEN t ELSE init
  /\ \/ (Lacks \/ init' # t) /\ To(t, "opendir") /\ UNCHANGED <<table, hand, dir>>
     \/ /\ ~Lacks /\ hand[t] # NoFd /\ To(t, "idle")
        /\ table' = [table EXCEPT ![hand[t]] = Entry(t, "fdopendir", TRUE, TRUE, TRUE)]
        /\ dir' = [dir EXCEPT ![t] = [fd |-> hand[t]]]
        /\ hand' = [hand EXCEPT ![t] = NoFd]
     \/ ~Lacks /\ hand[t] = NoFd /\ To(t, "idle") /\ UNCHANGED <<table, hand, dir>>
  /\ UNCHANGED <<target, system, ver, flags, cloexec, outcome, opens, execs>>

(* func("/"): external; it needs a descriptor, and sets its FD_CLOEXEC.    *)
Opendir(t) ==
  /\ at[t] = "opendir"
  /\ \/ /\ Lowest # NoFd
        /\ table' = [table EXCEPT ![Lowest] = Entry(t, "opendir", TRUE, TRUE, TRUE)]
        /\ dir' = [dir EXCEPT ![t] = [fd |-> Lowest]]
        /\ To(t, "close")
     \/ /\ To(t, IF hand[t] = NoFd THEN "failed" ELSE "idle")
        /\ UNCHANGED <<table, dir>>
  /\ UNCHANGED <<target, system, init, ver, flags, cloexec, hand, outcome, opens, execs>>

CloseOwn_Late(t) == /\ at[t] = "close"
                    /\ table' = Without(hand[t]) /\ To(t, "store")
                    /\ UNCHANGED <<target, system, init, ver, flags, cloexec, hand, dir, outcome, opens, execs>>

CloseOwn(t) == /\ at[t] = "close"
               /\ table' = Without(dir[t].fd) /\ To(t, "store")
               /\ UNCHANGED <<target, system, init, ver, flags, cloexec, hand, dir, outcome, opens, execs>>

(* The stream has the descriptor from now on. *)
StoreFd(t) == /\ at[t] = "store"
            /\ dir' = [dir EXCEPT ![t] = [fd |-> hand[t]]] /\ hand' = [hand EXCEPT ![t] = NoFd]
            /\ To(t, "setfd")
            /\ UNCHANGED <<target, system, init, ver, table, flags, cloexec, outcome, opens, execs>>

SetFd(t) == /\ at[t] = "setfd"
            /\ table' = IF IsOpen(dir[t].fd)
                        THEN [table EXCEPT ![dir[t].fd] = Entry(t, "fdopendir", TRUE, TRUE, TRUE)]
                        ELSE table
            /\ To(t, "idle")
            /\ UNCHANGED <<target, system, init, ver, flags, cloexec, hand, dir, outcome, opens, execs>>

fdopendir(t) == Fdopendir(t) \/ Opendir(t) \/ CloseOwn(t) \/ StoreFd(t) \/ SetFd(t)

dirfd(d) == IF d = NULLDIR \/ d.fd < 0 THEN NoFd ELSE d.fd

--------------------------------------------------------------------------------
(* close and closedir by the program, and fork and exec by another thread: *)
(* external.                                                               *)
Close(t) == /\ at[t] = "idle" /\ hand[t] # NoFd
            /\ table' = Without(hand[t]) /\ hand' = [hand EXCEPT ![t] = NoFd]
            /\ UNCHANGED <<target, system, init, ver, locals, dir, outcome, opens, execs>>

Closedir(t) == /\ at[t] = "idle" /\ dir[t] # NULLDIR
               /\ table' = Without(dir[t].fd) /\ dir' = [dir EXCEPT ![t] = NULLDIR]
               /\ UNCHANGED <<target, system, init, ver, locals, hand, outcome, opens, execs>>

GiveUp(t) == /\ at[t] = "failed" /\ To(t, "idle")
             /\ UNCHANGED <<target, system, init, ver, table, flags, cloexec, hand, dir, outcome, opens, execs>>

Exec == /\ execs < MaxExecs /\ execs' = execs + 1
        /\ inherited' = inherited \cup {table[fd] : fd \in {e \in Table : IsOpen(e) /\ ~table[e].cloexec}}
        /\ UNCHANGED <<target, system, init, ver, table, locals, hand, dir, followed, opens>>

(* Programs are not started on systems older than they were built for. *)
DescriptorsInit ==
  /\ target \in Targets /\ system \in MINVER(target) .. MAXVER(target)
  /\ ver = "unset" /\ init = "nobody"
  /\ table = [fd \in Table |-> Unused]
  /\ at = [t \in Opener |-> "idle"] /\ flags = [t \in Opener |-> {}]
  /\ cloexec = [t \in Opener |-> FALSE]
  /\ hand = [t \in Opener |-> NoFd] /\ dir = [t \in Opener |-> NULLDIR]
  /\ followed = FALSE /\ inherited = {}
  /\ opens = [t \in Opener |-> 0] /\ execs = 0

DescriptorsNext == \/ Exec
                   \/ \E t \in Opener : open(t) \/ fdopendir(t) \/ Close(t) \/ Closedir(t) \/ GiveUp(t)

DescriptorsSpec == DescriptorsInit /\ [][DescriptorsNext]_descriptors

--------------------------------------------------------------------------------
(* Properties. *)

(* A program that is started never gets a descriptor that an open with     *)
(* O_CLOEXEC has returned, nor that of a directory stream, and O_SYMLINK   *)
(* never lets open go where a link leads; unless uname has failed, on a    *)
(* system older than Lion, or on Tiger when that is found out at run time. *)
FlagsKept ==
  /\ (\E e \in inherited : e.asked /\ e.done) => ver = "MINVER" /\ Kernel # "lion"
  /\ followed => Determined = "runtime" /\ Kernel = "tiger"

(* What a thread has of open or in a stream is open, is its own and is its *)
(* only one, and whatever else is open belongs to a fdopendir under way: a *)
(* descriptor that another thread gets between its steps is never closed   *)
(* nor put into its stream, and none is lost.                              *)
Had(t) == ({hand[t]} \cup (IF at[t] # "store" THEN {dirfd(dir[t])} ELSE {})) \ {NoFd}

OwnDescriptors ==
  /\ \A t \in Opener : \A fd \in Had(t) : IsOpen(fd) /\ table[fd].by = t
  /\ \A fd \in Table : IsOpen(fd) => fd \in Had(table[fd].by)
================================================================================
