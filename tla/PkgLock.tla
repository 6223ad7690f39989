-------------------------------- MODULE PkgLock --------------------------------
(***************************************************************************)
(* The locks between runs: files/pkglock-$_TRIPLE, one per target, taken   *)
(* by build.sh, and toolchain/toolchainlock, taken by toolchain/build.sh.  *)
(*                                                                         *)
(* A lock is a file with the PID of its holder.  Nobody takes it over: a   *)
(* run that finds the PID of a live process waits for that process to die, *)
(* then writes its own.  A run that finds the toolchain out of date runs   *)
(* toolchain/build.sh, which in turn runs build.sh for compiler-rt on the  *)
(* default target; the run moves its own lock to .disabled around that.    *)
(*                                                                         *)
(* A run is a chain of at most three processes, each waiting for the next. *)
(* It may be interrupted from the terminal, which kills the whole chain;   *)
(* no trap is set, so its lock files stay.                                 *)
(*                                                                         *)
(* A build.sh that has the lock makes $_TMP, which has one path per target *)
(* too, and its cleanup removes both.                                      *)
(***************************************************************************)
EXTENDS Naturals, FiniteSets

CONSTANTS
  Run,            \* what users start
  Triple,         \* the targets
  DefaultTarget,  \* armv6-apple-ios2
  NoFile, Empty,  \* a lock file that does not exist; one just truncated
  Crashes         \* bound: runs interrupted

ASSUME LockAssumption == /\ IsFiniteSet(Run)
                         /\ DefaultTarget \in Triple
                         /\ Crashes \in Nat

Role == {"build", "toolchain", "nested"}
Pid == Run \X Role

ASSUME FileAssumption == NoFile \notin Pid /\ Empty \notin Pid /\ NoFile # Empty

VARIABLES
  orderly,     \* users start runs as Ordered says; FALSE: whenever they like
  kind,        \* kind[r]: the script user starts, "build" or "toolchain" (--force);
               \* "idle": none
  triple,      \* triple[r]: --target of the run
  pc,          \* pc[p]: where process p is
  lockpid,     \* lockpid[p]: the PID that p waits for
  lock,        \* lock[t]: files/pkglock-t
  disabled,    \* disabled[t]: files/pkglock-t.disabled
  toolchainlock,
  tmp,         \* tmp[t]: who made $_TMP of t
  current,     \* currenttoolchainver equals toolchainver
  tools,       \* what is in toolchain/bin
  crashes

locks == <<lock, disabled, toolchainlock>>
user == <<orderly, kind, triple>>
vars == <<user, pc, lockpid, locks, tmp, current, tools, crashes>>

Ended == {"exit 0", "exit 1", "killed"}
Alive(p) == p \in Pid /\ pc[p] \notin Ended \cup {"none"}
Active(r) == \E role \in Role : Alive(<<r, role>>)

Target(p) == IF p[2] = "nested" THEN DefaultTarget ELSE triple[p[1]]
Child(p) == IF p[2] = "build" THEN <<p[1], "toolchain">> ELSE <<p[1], "nested">>

At(p, l) == pc[p] = l
Goto(p, l) == pc' = [pc EXCEPT ![p] = l]
Call(p, l, first) == pc' = [pc EXCEPT ![p] = l, ![Child(p)] = first]

BuildSh == Run \X {"build", "nested"}

--------------------------------------------------------------------------------
(* Starting. *)

(* Between its reading of the lock and its writing of it. *)
Acquiring(p) == pc[p] \in {"read", "wait", "claim", "write"}

(* The lock of run q is out of the way, is about to be, or was when its    *)
(* rebuild failed.                                                         *)
Tooling(q) == \/ pc[<<q, "build">>] \in {"park", "toolchain"}
              \/ At(<<q, "build">>, "error") /\ At(<<q, "toolchain">>, "exit 1")

(* The environment the mutual exclusion needs.  A build starts when no     *)
(* other one of its target is reading or waiting for the lock or is        *)
(* without it for the toolchain's sake.  While the toolchain is out of     *)
(* date or rebuilt by hand, a run starts only after those before it are    *)
(* well inside the rebuild.  Nobody rebuilds by hand under a build, and    *)
(* nothing is built for the default target beside a rebuild.               *)
Rebuilding(q) == Alive(<<q, "toolchain">>) \/ pc[<<q, "build">>] \in {"park", "toolchain"}
InRebuild(q) == pc[<<q, "toolchain">>] \in
                  {"t build", "t nested", "t install", "t cp", "t unlock"}

MayStart(r) ==
  orderly =>
    /\ \A q \in Run : Active(q) /\ (~current \/ "toolchain" \in {kind[q], kind[r]})
                      => InRebuild(q)
    /\ kind[r] = "toolchain" => \A q \in Run : Active(q) => kind[q] = "toolchain"
    /\ kind[r] = "build" =>
         /\ \A p \in BuildSh : Target(p) = triple[r] => ~Acquiring(p)
         /\ \A q \in Run : Tooling(q) => triple[q] # triple[r]
         /\ \A q \in Run : Rebuilding(q) => triple[r] # DefaultTarget
                                            /\ (kind[q] = "build" => triple[q] # DefaultTarget)

Start(r) == /\ \A role \in Role : pc[<<r, role>>] = "none"
            /\ MayStart(r)
            /\ \/ kind[r] = "build" /\ Goto(<<r, "build">>, "read")
               \/ kind[r] = "toolchain" /\ Goto(<<r, "toolchain">>, "t read")
            /\ UNCHANGED <<user, lockpid, locks, tmp, current, tools, crashes>>

(* kill -0 "$lockpid": the wait of build.sh and of toolchain/build.sh.     *)
Blocking_AnyFile(f) == f # NoFile
Blocking_Never(f) == FALSE
Blocking(f) == Alive(f)

--------------------------------------------------------------------------------
(* build.sh, as the user's run or as the nested one for compiler-rt.       *)

ReadLock(p) == LET f == lock[Target(p)] IN
               /\ At(p, "read")
               /\ IF Blocking(f)
                  THEN Goto(p, "wait") /\ lockpid' = [lockpid EXCEPT ![p] = f]
                  ELSE Goto(p, "claim") /\ UNCHANGED lockpid
               /\ UNCHANGED <<user, locks, tmp, current, tools, crashes>>

Wait(p) == /\ At(p, "wait") /\ ~Blocking(lockpid[p])
           /\ Goto(p, "claim")
           /\ UNCHANGED <<user, lockpid, locks, tmp, current, tools, crashes>>

(* printf > file: the shell truncates, then printf writes. *)
Truncate(p) == /\ At(p, "claim")
               /\ lock' = [lock EXCEPT ![Target(p)] = Empty]
               /\ Goto(p, "write")
               /\ UNCHANGED <<user, lockpid, disabled, toolchainlock, tmp, current, tools, crashes>>

WriteLock(p) == /\ At(p, "write")
                /\ lock' = [lock EXCEPT ![Target(p)] = p]
                /\ Goto(p, "mktmp")
                /\ UNCHANGED <<user, lockpid, disabled, toolchainlock, tmp, current, tools, crashes>>

(* rm -rf "$_TMP"; mkdir -p "$_TMP" *)
MakeTmp(p) == /\ At(p, "mktmp")
              /\ tmp' = [tmp EXCEPT ![Target(p)] = p]
              /\ Goto(p, "version")
              /\ UNCHANGED <<user, lockpid, locks, current, tools, crashes>>

(* _DONT_REBUILD_TOOLCHAIN is set for the nested run. *)
Version(p) == /\ At(p, "version")
              /\ Goto(p, IF current \/ p[2] = "nested" THEN "work" ELSE "park")
              /\ UNCHANGED <<user, lockpid, locks, tmp, current, tools, crashes>>

(* mv lock lock.disabled, and back; mv of a file that is not there fails. *)
NotParked(t) == UNCHANGED <<lock, disabled>>
Parked(t) == /\ disabled' = [disabled EXCEPT ![t] = IF lock[t] = NoFile THEN @ ELSE lock[t]]
             /\ lock' = [lock EXCEPT ![t] = NoFile]
Unparked(t) == /\ lock' = [lock EXCEPT ![t] = IF disabled[t] = NoFile THEN @ ELSE disabled[t]]
               /\ disabled' = [disabled EXCEPT ![t] = NoFile]

Park(p) == /\ At(p, "park")
           /\ Parked(Target(p))
           /\ Call(p, "toolchain", "t read")
           /\ UNCHANGED <<user, lockpid, toolchainlock, tmp, current, tools, crashes>>

ToolchainOk(p) == /\ At(p, "toolchain") /\ At(Child(p), "exit 0")
                  /\ Unparked(Target(p))
                  /\ Goto(p, "work")
                  /\ UNCHANGED <<user, lockpid, toolchainlock, tmp, current, tools, crashes>>

ToolchainError(p) == /\ At(p, "toolchain") /\ At(Child(p), "exit 1")
                     /\ Goto(p, "error")
                     /\ UNCHANGED <<user, lockpid, locks, tmp, current, tools, crashes>>

(* main: what PkgBuild models, up to its cleanup or its error. *)
Work(p) == /\ At(p, "work")
           /\ \E l \in {"cleanup", "error"} : Goto(p, l)
           /\ UNCHANGED <<user, lockpid, locks, tmp, current, tools, crashes>>

(* cleanup removes the lock and $_TMP of the target, whoever's they are.   *)
Cleanup_AllTmp(p) == [t \in Triple |-> NoFile]
TmpRemoved(p) == [tmp EXCEPT ![Target(p)] = NoFile]

Cleanup(p) == /\ pc[p] \in {"cleanup", "error"}
              /\ lock' = [lock EXCEPT ![Target(p)] = NoFile]
              /\ tmp' = TmpRemoved(p)
              /\ Goto(p, IF At(p, "cleanup") THEN "exit 0" ELSE "exit 1")
              /\ UNCHANGED <<user, lockpid, disabled, toolchainlock, current, tools, crashes>>

BuildStep(p) == \/ ReadLock(p) \/ Wait(p) \/ Truncate(p) \/ WriteLock(p) \/ MakeTmp(p)
                \/ Version(p) \/ Park(p) \/ ToolchainOk(p) \/ ToolchainError(p) \/ Work(p) \/ Cleanup(p)

--------------------------------------------------------------------------------
(* toolchain/build.sh. *)

TRead(p) == /\ At(p, "t read")
            /\ IF Blocking(toolchainlock)
               THEN Goto(p, "t wait") /\ lockpid' = [lockpid EXCEPT ![p] = toolchainlock]
               ELSE Goto(p, "t claim") /\ UNCHANGED lockpid
            /\ UNCHANGED <<user, locks, tmp, current, tools, crashes>>

TWait(p) == /\ At(p, "t wait") /\ ~Blocking(lockpid[p])
            /\ Goto(p, "t claim")
            /\ UNCHANGED <<user, lockpid, locks, tmp, current, tools, crashes>>

TTruncate(p) == /\ At(p, "t claim")
                /\ toolchainlock' = Empty
                /\ Goto(p, "t write")
                /\ UNCHANGED <<user, lockpid, lock, disabled, tmp, current, tools, crashes>>

TWrite(p) == /\ At(p, "t write")
             /\ toolchainlock' = p
             /\ Goto(p, "t version")
             /\ UNCHANGED <<user, lockpid, lock, disabled, tmp, current, tools, crashes>>

(* Another process may have built it while this one waited. *)
TSkip(p) == /\ At(p, "t version")
            /\ current /\ kind[p[1]] # "toolchain"
            /\ toolchainlock' = NoFile
            /\ Goto(p, "exit 0")
            /\ UNCHANGED <<user, lockpid, lock, disabled, tmp, current, tools, crashes>>

(* rm -rf build bin cctools-bin lib currenttoolchainver *)
VersionAfterRm_Kept == current
VersionAfterRm == FALSE

TRemove(p) == /\ At(p, "t version")
              /\ ~current \/ kind[p[1]] = "toolchain"
              /\ tools' = "none" /\ current' = VersionAfterRm
              /\ Goto(p, "t build")
              /\ UNCHANGED <<user, lockpid, locks, tmp, crashes>>

(* Everything up to compiler-rt, then the nested build.sh. *)
TBuild(p) == /\ At(p, "t build")
             /\ tools' = "partial"
             /\ Call(p, "t nested", "read")
             /\ UNCHANGED <<user, lockpid, locks, tmp, current, crashes>>

(* set -e: the script dies where it is and its lock file stays. *)
TFail(p) == /\ \/ At(p, "t build")
               \/ At(p, "t nested") /\ At(Child(p), "exit 1")
               \/ At(p, "t install")
            /\ Goto(p, "exit 1")
            /\ UNCHANGED <<user, lockpid, locks, tmp, current, tools, crashes>>

TNestedOk(p) == /\ At(p, "t nested") /\ At(Child(p), "exit 0")
                /\ Goto(p, "t install")
                /\ UNCHANGED <<user, lockpid, locks, tmp, current, tools, crashes>>

(* compiler-rt and rust are installed, everything is stripped. *)
TInstall(p) == /\ At(p, "t install")
               /\ tools' = IF tools = "partial" THEN "complete" ELSE tools
               /\ Goto(p, "t cp")
               /\ UNCHANGED <<user, lockpid, locks, tmp, current, crashes>>

(* cp toolchainver currenttoolchainver *)
TCopy(p) == /\ At(p, "t cp")
            /\ current' = TRUE
            /\ Goto(p, "t unlock")
            /\ UNCHANGED <<user, lockpid, locks, tmp, tools, crashes>>

TUnlock(p) == /\ At(p, "t unlock")
              /\ toolchainlock' = NoFile
              /\ Goto(p, "exit 0")
              /\ UNCHANGED <<user, lockpid, lock, disabled, tmp, current, tools, crashes>>

ToolchainStep(p) == \/ TRead(p) \/ TWait(p) \/ TTruncate(p) \/ TWrite(p)
                    \/ TSkip(p) \/ TRemove(p) \/ TBuild(p) \/ TFail(p)
                    \/ TNestedOk(p) \/ TInstall(p) \/ TCopy(p) \/ TUnlock(p)

--------------------------------------------------------------------------------
(* Ctrl-C: every process of the run dies. *)
Interrupt(r) == /\ Active(r) /\ crashes < Crashes
                /\ crashes' = crashes + 1
                /\ pc' = [p \in Pid |-> IF p[1] = r /\ Alive(p) THEN "killed" ELSE pc[p]]
                /\ UNCHANGED <<user, lockpid, locks, tmp, current, tools>>

Init == /\ orderly \in BOOLEAN
        /\ kind \in [Run -> {"idle", "build", "toolchain"}]
        /\ triple \in [Run -> Triple]
        /\ pc = [p \in Pid |-> "none"]
        /\ lockpid = [p \in Pid |-> NoFile]
        /\ lock = [t \in Triple |-> NoFile]
        /\ disabled = [t \in Triple |-> NoFile]
        /\ toolchainlock = NoFile
        /\ tmp = [t \in Triple |-> NoFile]
        /\ \/ current = TRUE /\ tools = "complete"
           \/ current = FALSE /\ tools \in {"none", "complete"}
        /\ crashes = 0

Step(r) == \/ \E role \in {"build", "nested"} : BuildStep(<<r, role>>)
           \/ ToolchainStep(<<r, "toolchain">>)

Next == \E r \in Run : Start(r) \/ Step(r) \/ Interrupt(r)

Spec == Init /\ [][Next]_vars

(* The processes of a run are scheduled by the system and end their work.  *)
FairSpec == Spec /\ \A r \in Run : WF_vars(Step(r))

--------------------------------------------------------------------------------
(* Waiting. *)

(* The process that p cannot go on without, or p itself.                   *)
Awaited(p) == IF pc[p] \in {"wait", "t wait"} /\ Alive(lockpid[p]) THEN lockpid[p]
              ELSE IF pc[p] \in {"toolchain", "t nested"} /\ Alive(Child(p)) THEN Child(p)
              ELSE p

(* Where the chain of those who wait for each other leads from p.          *)
Follow(p) == LET q[n \in 0 .. Cardinality(Pid)] == IF n = 0 THEN p ELSE Awaited(q[n - 1])
             IN  q[Cardinality(Pid)]

(* p waits for itself: it is, or waits for, a member of a circle.          *)
Stuck(p) == Awaited(Follow(p)) # Follow(p)

--------------------------------------------------------------------------------
(* Properties. *)

Lines == {"none", "read", "wait", "claim", "write", "mktmp", "version", "park", "toolchain",
          "work", "cleanup", "error", "t read", "t wait", "t claim", "t write",
          "t version", "t build", "t nested", "t install", "t cp", "t unlock"} \cup Ended

TypeOK ==
  /\ orderly \in BOOLEAN
  /\ kind \in [Run -> {"idle", "build", "toolchain"}]
  /\ triple \in [Run -> Triple]
  /\ pc \in [Pid -> Lines]
  /\ lockpid \in [Pid -> Pid \cup {NoFile}]
  /\ lock \in [Triple -> Pid \cup {NoFile, Empty}]
  /\ disabled \in [Triple -> Pid \cup {NoFile, Empty}]
  /\ toolchainlock \in Pid \cup {NoFile, Empty}
  /\ tmp \in [Triple -> Pid \cup {NoFile}]
  /\ current \in BOOLEAN
  /\ tools \in {"none", "partial", "complete"}
  /\ crashes \in Nat

(* Two build.sh never work on one target at once: the output directories   *)
(* of the target are this one's alone.                                     *)
Exclusive == orderly => \A p, q \in BuildSh :
  At(p, "work") /\ At(q, "work") /\ Target(p) = Target(q) => p = q

(* While a build.sh works its lock is there to be seen by a later one,     *)
(* also after the lock was moved out of the way of the nested build.       *)
LockSeen == orderly => \A p \in BuildSh : At(p, "work") => lock[Target(p)] = p

(* A build.sh works in the $_TMP it made itself.  The one exception: a run *)
(* for the default target that has just rebuilt the toolchain has none,    *)
(* for its own nested build removed it.                                    *)
TmpOwn == orderly => \A p \in BuildSh : At(p, "work") =>
  \/ tmp[Target(p)] = p
  \/ /\ p[2] = "build" /\ Target(p) = DefaultTarget
     /\ At(<<p[1], "nested">>, "exit 0")
     /\ tmp[Target(p)] = NoFile

(* The version file vouches for the tools, whatever was interrupted, and   *)
(* only a complete toolchain compiles packages, except compiler-rt, which  *)
(* is a part of it.                                                        *)
ToolsReady == orderly =>
  /\ current => tools = "complete"
  /\ \A r \in Run : At(<<r, "build">>, "work") => tools = "complete"

(* Processes wait for each other in a circle in one way only: a nested     *)
(* build waits for the lock of the default target, whose holder waits for  *)
(* a toolchain rebuild.  It holds the lock because it has not parked it    *)
(* yet when the nested build reads it, or because another run's unparking  *)
(* has brought it back.  Runs that start in order never do.                *)
NestedWaits == \E n \in Run \X {"nested"}, q \in Run :
  /\ At(n, "wait") /\ lockpid[n] = <<q, "build">> /\ Stuck(n)
  /\ triple[q] = DefaultTarget /\ At(<<q, "build">>, "toolchain")

OneCircle == (\E p \in Pid : Stuck(p)) => ~orderly /\ NestedWaits

(* Every run ends, whoever is killed and whatever lock files stay: nobody  *)
(* waits for a dead process or for itself.  What else keeps a run for ever *)
(* is a circle, which OneCircle describes.                                *)
EveryRunEnds ==
  \A r \in Run : Active(r) ~> (~Active(r) \/ Stuck(<<r, kind[r]>>))
================================================================================
