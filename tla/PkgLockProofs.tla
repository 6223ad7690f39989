------------------------------ MODULE PkgLockProofs ------------------------------
(***************************************************************************)
(* Proofs about PkgLock: mutual exclusion of orderly runs, and who can     *)
(* wait for whom in a circle in any order of starts, for any number of     *)
(* runs and targets, whatever is interrupted.                              *)
(***************************************************************************)
EXTENDS PkgLock, FiniteSetTheorems, WellFoundedInduction, TLAPS

--------------------------------------------------------------------------------
(* The processes of run r, and where they are.                             *)

B(r) == <<r, "build">>
T(r) == <<r, "toolchain">>
N(r) == <<r, "nested">>

PB(r) == pc[B(r)]
PT(r) == pc[T(r)]
PN(r) == pc[N(r)]

Acq == {"read", "wait", "claim", "write"}
Early == Acq \cup {"mktmp", "version"}
Late == {"work", "cleanup", "error"}
NLive == Early \cup Late
BLive == NLive \cup {"park", "toolchain"}

TAcq == {"t read", "t wait", "t claim", "t write"}
TEarly == TAcq \cup {"t version"}
TInside == {"t build", "t nested", "t install", "t cp", "t unlock"}
THolds == TInside \cup {"t version"}
TLive == TEarly \cup TInside

Dead == Ended \cup {"none"}

--------------------------------------------------------------------------------
(* A run is a chain: each process runs while the one before it waits.      *)
ChainOK(r) ==
  /\ PB(r) \in BLive \cup Dead /\ PT(r) \in TLive \cup Dead /\ PN(r) \in NLive \cup Dead
  /\ kind[r] # "build" => PB(r) = "none"
  /\ kind[r] = "idle" => PT(r) = "none"
  /\ kind[r] = "build" /\ PT(r) \in TLive => PB(r) = "toolchain"
  /\ PN(r) \in NLive => PT(r) = "t nested"
  /\ PB(r) \in Early \cup {"park"} => PT(r) = "none"
  /\ PB(r) \in {"work", "cleanup"} => PT(r) \in {"none", "exit 0"}
  /\ PT(r) \in TEarly \cup {"none", "t build"} => PN(r) = "none"
  /\ PT(r) \in {"t install", "t cp", "t unlock", "exit 0"} => PN(r) \in {"none", "exit 0"}

Chains == \A r \in Run : ChainOK(r)

--------------------------------------------------------------------------------
(* The toolchain under orderly runs.                                       *)

(* r found the toolchain out of date, and has not begun to rebuild it; r   *)
(* may still find so.                                                      *)
Deciding(r) == PB(r) = "park" \/ PT(r) \in TEarly
Fresh(r) == PB(r) \in Early \/ Deciding(r)

OneDecides == \A q, r \in Run : q # r =>
  /\ ~(Deciding(q) /\ Deciding(r))
  /\ ~current => ~(Fresh(q) /\ Fresh(r))
  /\ kind[q] = "toolchain" /\ Deciding(q) => PB(r) \in Dead /\ ~Fresh(r)

OneRebuilds == \A r \in Run : PT(r) \in THolds =>
  /\ toolchainlock = T(r)
  /\ \A q \in Run \ {r} : /\ PT(q) \notin {"t claim", "t write"}
                          /\ PT(q) = "t wait" => lockpid[T(q)] = T(r)

(* What the work of r rests on. *)
Settled(r) == \/ PB(r) \in {"work", "cleanup"}
              \/ PB(r) = "error" /\ PT(r) # "exit 1"
              \/ PB(r) = "toolchain" /\ PT(r) = "exit 0"

ToolsOK ==
  /\ current => tools = "complete"
  /\ \A r \in Run :
       /\ Settled(r) => current
       /\ PT(r) = "t build" => ~current /\ tools = "none"
       /\ PT(r) \in {"t nested", "t install"} => ~current /\ tools = "partial"
       /\ PT(r) = "t cp" => tools = "complete"
       /\ PT(r) = "t unlock" => current

(* Tooling and Rebuilding of PkgLock, of where the processes are.          *)
Parks(q) == PB(q) \in {"park", "toolchain"} \/ (PB(q) = "error" /\ PT(q) = "exit 1")
Rebuilds(q) == PT(q) \in TLive \/ PB(q) \in {"park", "toolchain"}

(* Beside a run without its lock there is none of its target, and none of  *)
(* the default target, which the rebuild needs for itself.                 *)
Apart == \A q, r \in Run : q # r /\ PB(r) \in BLive =>
  /\ Parks(q) => triple[q] # triple[r]
  /\ Rebuilds(q) \/ (Parks(q) /\ ~current) =>
       /\ triple[r] # DefaultTarget
       /\ kind[q] = "build" => triple[q] # DefaultTarget

--------------------------------------------------------------------------------
(* The lock files under orderly runs.                                      *)

Own(p) == \/ pc[p] \in {"mktmp", "version", "park", "work", "cleanup"}
          \/ At(p, "error") /\ ~At(Child(p), "exit 1")

HasLock(p) == Own(p) => lock[Target(p)] = p
SetAside(r) == PB(r) = "toolchain" => disabled[triple[r]] = B(r)

(* q waits for p if p has the lock already, and they do not race for it.   *)
InTurn(p, q) == Target(p) = Target(q) /\ Acquiring(q) =>
  /\ ~Acquiring(p)
  /\ Own(p) => pc[q] \in {"read", "wait"} /\ (At(q, "wait") => lockpid[q] = p)

LocksOK == /\ \A p \in BuildSh : HasLock(p)
           /\ \A r \in Run : SetAside(r)
           /\ \A p, q \in BuildSh : p # q => InTurn(p, q)

(* $_TMP while the toolchain is rebuilt, and after. *)
Working == {"version"} \cup Late

HasTmp(p) == Own(p) /\ ~At(p, "mktmp") =>
  \/ tmp[Target(p)] = p
  \/ /\ p[2] = "build" /\ Target(p) = DefaultTarget /\ At(<<p[1], "nested">>, "exit 0")
     /\ tmp[Target(p)] = NoFile

TmpAside(r) == PB(r) = "toolchain" =>
  \/ tmp[triple[r]] = B(r)
  \/ /\ triple[r] = DefaultTarget
     /\ \/ PN(r) \in Working /\ tmp[DefaultTarget] = N(r)
        \/ PN(r) \in Ended /\ tmp[DefaultTarget] = NoFile

TmpOK == (\A p \in BuildSh : HasTmp(p)) /\ (\A r \in Run : TmpAside(r))

LockInv == /\ TypeOK /\ Chains
           /\ orderly => OneDecides /\ OneRebuilds /\ ToolsOK /\ Apart /\ LocksOK /\ TmpOK

--------------------------------------------------------------------------------
(* Processes and runs.                                                     *)

LEMMA PidFacts ==
  ASSUME NEW r \in Run
  PROVE  /\ B(r) \in Pid /\ T(r) \in Pid /\ N(r) \in Pid
         /\ B(r) \in BuildSh /\ N(r) \in BuildSh
         /\ Target(B(r)) = triple[r] /\ Target(N(r)) = DefaultTarget
         /\ Child(B(r)) = T(r) /\ Child(T(r)) = N(r) /\ Child(N(r)) = N(r)
BY DEF B, T, N, Pid, Role, BuildSh, Target, Child

LEMMA PidsDiffer ==
  ASSUME NEW q \in Run, NEW r \in Run
  PROVE  /\ B(q) # T(r) /\ B(q) # N(r) /\ T(q) # N(r) /\ T(q) # B(r) /\ N(q) # B(r) /\ N(q) # T(r)
         /\ q # r => B(q) # B(r) /\ T(q) # T(r) /\ N(q) # N(r)
BY DEF B, T, N

LEMMA BuildShFacts ==
  ASSUME NEW p \in BuildSh
  PROVE  p \in Pid /\ \E r \in Run : p = B(r) \/ p = N(r)
BY DEF BuildSh, Pid, Role, B, N

(* What a move of one process leaves of the others.                        *)
Frame(r) == \A q \in Run \ {r} : /\ PB(q)' = PB(q) /\ PT(q)' = PT(q) /\ PN(q)' = PN(q)

LEMMA GotoFacts ==
  ASSUME TypeOK, NEW p \in Pid, NEW l, Goto(p, l)
  PROVE  pc'[p] = l /\ \A x \in Pid \ {p} : pc'[x] = pc[x]
BY DEF Goto, TypeOK

LEMMA GotoB ==
  ASSUME TypeOK, NEW r \in Run, NEW l, Goto(B(r), l)
  PROVE  PB(r)' = l /\ PT(r)' = PT(r) /\ PN(r)' = PN(r) /\ Frame(r)
BY GotoFacts, PidFacts, PidsDiffer DEF PB, PT, PN, Frame

LEMMA GotoT ==
  ASSUME TypeOK, NEW r \in Run, NEW l, Goto(T(r), l)
  PROVE  PT(r)' = l /\ PB(r)' = PB(r) /\ PN(r)' = PN(r) /\ Frame(r)
BY GotoFacts, PidFacts, PidsDiffer DEF PB, PT, PN, Frame

LEMMA GotoN ==
  ASSUME TypeOK, NEW r \in Run, NEW l, Goto(N(r), l)
  PROVE  PN(r)' = l /\ PB(r)' = PB(r) /\ PT(r)' = PT(r) /\ Frame(r)
BY GotoFacts, PidFacts, PidsDiffer DEF PB, PT, PN, Frame

LEMMA CallFacts ==
  ASSUME TypeOK, NEW p \in Pid, Child(p) # p, Child(p) \in Pid, NEW l, NEW m, Call(p, l, m)
  PROVE  /\ pc'[p] = l /\ pc'[Child(p)] = m
         /\ \A x \in Pid \ {p, Child(p)} : pc'[x] = pc[x]
BY DEF Call, TypeOK

LEMMA CallB ==
  ASSUME TypeOK, NEW r \in Run, NEW l, NEW m, Call(B(r), l, m)
  PROVE  PB(r)' = l /\ PT(r)' = m /\ PN(r)' = PN(r) /\ Frame(r)
BY CallFacts, PidFacts, PidsDiffer DEF PB, PT, PN, Frame

LEMMA CallT ==
  ASSUME TypeOK, NEW r \in Run, NEW l, NEW m, Call(T(r), l, m)
  PROVE  PT(r)' = l /\ PN(r)' = m /\ PB(r)' = PB(r) /\ Frame(r)
BY CallFacts, PidFacts, PidsDiffer DEF PB, PT, PN, Frame
--------------------------------------------------------------------------------
(* The steps of a run, as moves of its three processes.                    *)

Still == /\ UNCHANGED <<orderly, kind, triple, current, tools, toolchainlock>>
         /\ \A q \in Run : lockpid'[T(q)] = lockpid[T(q)]

BEarly(r) == PB(r) \in Acq \cup {"mktmp"} /\ PB(r)' \in Early /\ PT(r)' = PT(r)
BVersion(r) == PB(r) = "version" /\ PB(r)' = (IF current THEN "work" ELSE "park") /\ PT(r)' = PT(r)
BPark(r) == PB(r) = "park" /\ PB(r)' = "toolchain" /\ PT(r)' = "t read"
BBack(r) == /\ PB(r) = "toolchain" /\ PT(r)' = PT(r)
            /\ \/ PT(r) = "exit 0" /\ PB(r)' = "work"
               \/ PT(r) = "exit 1" /\ PB(r)' = "error"
BWork(r) == PB(r) = "work" /\ PB(r)' \in {"cleanup", "error"} /\ PT(r)' = PT(r)
BExit(r) == PB(r) \in {"cleanup", "error"} /\ PB(r)' \in {"exit 0", "exit 1"} /\ PT(r)' = PT(r)

BView(r) == /\ Frame(r) /\ Still /\ PN(r)' = PN(r)
            /\ BEarly(r) \/ BVersion(r) \/ BPark(r) \/ BBack(r) \/ BWork(r) \/ BExit(r)

NView(r) == /\ Frame(r) /\ Still /\ PB(r)' = PB(r) /\ PT(r)' = PT(r)
            /\ PN(r) \in NLive
            /\ \/ PN(r)' \in NLive
               \/ PN(r) = "cleanup" /\ PN(r)' = "exit 0"
               \/ PN(r) = "error" /\ PN(r)' = "exit 1"

LEMMA LockpidOthers ==
  ASSUME TypeOK, NEW p \in BuildSh,
         UNCHANGED lockpid \/ \E f : lockpid' = [lockpid EXCEPT ![p] = f]
  PROVE  \A q \in Run : lockpid'[T(q)] = lockpid[T(q)]
<1> SUFFICES ASSUME NEW q \in Run PROVE lockpid'[T(q)] = lockpid[T(q)]
  OBVIOUS
<1>1. T(q) # p /\ T(q) \in Pid
  BY BuildShFacts, PidFacts, PidsDiffer
<1> QED
  BY <1>1 DEF TypeOK

LEMMA BuildView ==
  ASSUME TypeOK, NEW r \in Run, BuildStep(B(r))
  PROVE  BView(r)
<1>1. B(r) \in BuildSh /\ Child(B(r)) = T(r)
  BY PidFacts
<1>2. CASE ReadLock(B(r))
  <2>1. PICK l \in {"wait", "claim"} : Goto(B(r), l)
    BY <1>2 DEF ReadLock
  <2>2. PB(r) = "read" /\ UNCHANGED <<user, locks, current, tools>>
    BY <1>2 DEF ReadLock, At, PB
  <2>3. UNCHANGED lockpid \/ \E f : lockpid' = [lockpid EXCEPT ![B(r)] = f]
    BY <1>2 DEF ReadLock
  <2> QED
    BY <1>1, <2>1, <2>2, <2>3, GotoB, LockpidOthers DEF BView, Still, BEarly, Acq, Early, user, locks
<1>3. CASE Wait(B(r))
  BY <1>1, <1>3, GotoB, LockpidOthers DEF Wait, At, PB, BView, Still, BEarly, Acq, Early, user, locks
<1>4. CASE Truncate(B(r)) \/ WriteLock(B(r)) \/ MakeTmp(B(r))
  <2>1. PICK l \in {"write", "mktmp", "version"} : Goto(B(r), l)
    BY <1>4 DEF Truncate, WriteLock, MakeTmp
  <2>2. /\ PB(r) \in {"claim", "write", "mktmp"}
        /\ UNCHANGED <<user, lockpid, toolchainlock, current, tools>>
    BY <1>4 DEF Truncate, WriteLock, MakeTmp, At, PB, locks
  <2> QED
    BY <1>1, <2>1, <2>2, GotoB, LockpidOthers DEF BView, Still, BEarly, Acq, Early, user
<1>5. CASE Version(B(r))
  <2>1. B(r)[2] # "nested"
    BY DEF B
  <2>2. Goto(B(r), IF current THEN "work" ELSE "park")
    BY <1>5, <2>1 DEF Version
  <2> QED
    BY <1>1, <1>5, <2>2, GotoB, LockpidOthers DEF Version, At, PB, BView, Still, BVersion, user, locks
<1>6. CASE Park(B(r))
  BY <1>1, <1>6, CallB, LockpidOthers DEF Park, At, PB, BView, Still, BPark, user
<1>7. CASE ToolchainOk(B(r))
  BY <1>1, <1>7, GotoB, LockpidOthers DEF ToolchainOk, At, PB, PT, BView, Still, BBack, user
<1>8. CASE ToolchainError(B(r))
  BY <1>1, <1>8, GotoB, LockpidOthers DEF ToolchainError, At, PB, PT, BView, Still, BBack, user, locks
<1>9. CASE Work(B(r))
  <2>1. PICK l \in {"cleanup", "error"} : Goto(B(r), l)
    BY <1>9 DEF Work
  <2> QED
    BY <1>1, <1>9, <2>1, GotoB, LockpidOthers DEF Work, At, PB, BView, Still, BWork, user, locks
<1>10. CASE Cleanup(B(r))
  <2>1. PICK l \in {"exit 0", "exit 1"} : Goto(B(r), l)
    BY <1>10 DEF Cleanup
  <2> QED
    BY <1>1, <1>10, <2>1, GotoB, LockpidOthers DEF Cleanup, PB, BView, Still, BExit, user
<1> QED
  BY <1>2, <1>3, <1>4, <1>5, <1>6, <1>7, <1>8, <1>9, <1>10 DEF BuildStep

LEMMA NestedView ==
  ASSUME TypeOK, Chains, NEW r \in Run, BuildStep(N(r))
  PROVE  NView(r)
<1>1. N(r) \in BuildSh /\ PN(r) \in NLive \cup Dead
  BY PidFacts DEF Chains, ChainOK
<1>2. CASE ReadLock(N(r))
  <2>1. PICK l \in {"wait", "claim"} : Goto(N(r), l)
    BY <1>2 DEF ReadLock
  <2>2. PN(r) = "read" /\ UNCHANGED <<user, locks, current, tools>>
    BY <1>2 DEF ReadLock, At, PN
  <2>3. UNCHANGED lockpid \/ \E f : lockpid' = [lockpid EXCEPT ![N(r)] = f]
    BY <1>2 DEF ReadLock
  <2> QED
    BY <1>1, <2>1, <2>2, <2>3, GotoN, LockpidOthers DEF NView, Still, NLive, Early, Acq, user, locks
<1>3. CASE Wait(N(r))
  BY <1>1, <1>3, GotoN, LockpidOthers DEF Wait, At, PN, NView, Still, NLive, Early, Acq, user, locks
<1>4. CASE Truncate(N(r)) \/ WriteLock(N(r)) \/ MakeTmp(N(r))
  <2>1. PICK l \in {"write", "mktmp", "version"} : Goto(N(r), l)
    BY <1>4 DEF Truncate, WriteLock, MakeTmp
  <2>2. /\ PN(r) \in {"claim", "write", "mktmp"}
        /\ UNCHANGED <<user, lockpid, toolchainlock, current, tools>>
    BY <1>4 DEF Truncate, WriteLock, MakeTmp, At, PN, locks
  <2> QED
    BY <1>1, <2>1, <2>2, GotoN, LockpidOthers DEF NView, Still, NLive, Early, Acq, user
<1>5. CASE Version(N(r))
  <2>1. N(r)[2] = "nested"
    BY DEF N
  <2>2. Goto(N(r), "work")
    BY <1>5, <2>1 DEF Version
  <2> QED
    BY <1>1, <1>5, <2>2, GotoN, LockpidOthers
       DEF Version, At, PN, NView, Still, NLive, Early, Late, user, locks
<1>6. CASE Park(N(r)) \/ ToolchainOk(N(r)) \/ ToolchainError(N(r))
  <2>1. PN(r) \in {"park", "toolchain"}
    BY <1>6 DEF Park, ToolchainOk, ToolchainError, At, PN
  <2> QED
    BY <1>1, <2>1 DEF NLive, Early, Acq, Late, Dead, Ended
<1>7. CASE Work(N(r))
  <2>1. PICK l \in {"cleanup", "error"} : Goto(N(r), l)
    BY <1>7 DEF Work
  <2> QED
    BY <1>1, <1>7, <2>1, GotoN, LockpidOthers DEF Work, At, PN, NView, Still, NLive, Late, user, locks
<1>8. CASE Cleanup(N(r))
  <2>1. /\ PN(r) \in {"cleanup", "error"}
        /\ Goto(N(r), IF PN(r) = "cleanup" THEN "exit 0" ELSE "exit 1")
    BY <1>8 DEF Cleanup, At, PN
  <2> QED
    BY <1>1, <1>8, <2>1, GotoN, LockpidOthers DEF Cleanup, NView, Still, NLive, Late, user
<1> QED
  BY <1>2, <1>3, <1>4, <1>5, <1>6, <1>7, <1>8 DEF BuildStep
(* The steps of toolchain/build.sh.                                        *)
TMove(r, from, to) == /\ Frame(r) /\ UNCHANGED <<orderly, kind, triple>>
                      /\ PB(r)' = PB(r) /\ PT(r) \in from /\ PT(r)' \in to
                      /\ PT(r) # "t build" \/ PT(r)' = "exit 1" => PN(r)' = PN(r)

TLockpid == \A q \in Run : lockpid'[T(q)] = lockpid[T(q)]

TReadView(r) == /\ TMove(r, {"t read"}, {"t wait", "t claim"})
                /\ UNCHANGED <<current, tools, toolchainlock>>
                /\ \A q \in Run \ {r} : lockpid'[T(q)] = lockpid[T(q)]
                /\ PT(r)' = "t wait" => lockpid'[T(r)] = toolchainlock
                /\ PT(r)' = "t claim" => ~Alive(toolchainlock)

TWaitView(r) == /\ TMove(r, {"t wait"}, {"t claim"}) /\ TLockpid /\ ~Alive(lockpid[T(r)])
                /\ UNCHANGED <<current, tools, toolchainlock>>

TTakeView(r) == /\ TMove(r, {"t claim", "t write"}, {"t write", "t version"}) /\ TLockpid
                /\ PT(r) = "t claim" => PT(r)' = "t write"
                /\ PT(r)' = "t write" => toolchainlock' = Empty
                /\ PT(r)' = "t version" => toolchainlock' = T(r)
                /\ UNCHANGED <<current, tools>>

TSkipView(r) == /\ TMove(r, {"t version"}, {"exit 0"}) /\ TLockpid
                /\ current /\ toolchainlock' = NoFile
                /\ UNCHANGED <<current, tools>>

TRemoveView(r) == /\ TMove(r, {"t version"}, {"t build"}) /\ TLockpid
                  /\ ~current \/ kind[r] = "toolchain"
                  /\ ~current' /\ tools' = "none"
                  /\ UNCHANGED toolchainlock

TBuildView(r) == /\ TMove(r, {"t build"}, {"t nested"}) /\ TLockpid
                 /\ PN(r)' = "read" /\ tools' = "partial"
                 /\ UNCHANGED <<current, toolchainlock>>

TFailView(r) == /\ TMove(r, {"t build", "t nested", "t install"}, {"exit 1"}) /\ TLockpid
                /\ PT(r) = "t nested" => PN(r) = "exit 1"
                /\ UNCHANGED <<current, tools, toolchainlock>>

TEndView(r) == /\ TLockpid
               /\ \/ /\ TMove(r, {"t nested"}, {"t install"}) /\ PN(r) = "exit 0"
                     /\ UNCHANGED <<current, tools, toolchainlock>>
                  \/ /\ TMove(r, {"t install"}, {"t cp"})
                     /\ tools' = (IF tools = "partial" THEN "complete" ELSE tools)
                     /\ UNCHANGED <<current, toolchainlock>>
                  \/ /\ TMove(r, {"t cp"}, {"t unlock"})
                     /\ current' /\ UNCHANGED <<tools, toolchainlock>>
                  \/ /\ TMove(r, {"t unlock"}, {"exit 0"})
                     /\ toolchainlock' = NoFile /\ UNCHANGED <<current, tools>>

TView(r) == \/ TReadView(r) \/ TWaitView(r) \/ TTakeView(r) \/ TSkipView(r)
            \/ TRemoveView(r) \/ TBuildView(r) \/ TFailView(r) \/ TEndView(r)

LEMMA ToolchainView ==
  ASSUME TypeOK, NEW r \in Run, ToolchainStep(T(r))
  PROVE  TView(r)
<1>1. T(r) \in Pid /\ Child(T(r)) = N(r) /\ T(r)[1] = r
  BY PidFacts DEF T
<1>2. CASE TRead(T(r))
  <2>1. PT(r) = "t read" /\ UNCHANGED <<orderly, kind, triple, current, tools, toolchainlock>>
    BY <1>2 DEF TRead, At, PT, user, locks
  <2>2. CASE Goto(T(r), "t wait") /\ lockpid' = [lockpid EXCEPT ![T(r)] = toolchainlock]
    <3>1. lockpid'[T(r)] = toolchainlock /\ \A q \in Run \ {r} : lockpid'[T(q)] = lockpid[T(q)]
      BY <1>1, <2>2, PidFacts, PidsDiffer DEF TypeOK
    <3>2. PT(r)' = "t wait" /\ PB(r)' = PB(r) /\ PN(r)' = PN(r) /\ Frame(r)
      BY <2>2, GotoT
    <3>3. TReadView(r)
      BY <2>1, <3>1, <3>2 DEF TReadView, TMove
    <3> QED
      BY <3>3 DEF TView
  <2>3. CASE ~Blocking(toolchainlock) /\ Goto(T(r), "t claim") /\ UNCHANGED lockpid
    <3>1. PT(r)' = "t claim" /\ PB(r)' = PB(r) /\ PN(r)' = PN(r) /\ Frame(r)
      BY <2>3, GotoT
    <3>2. TReadView(r)
      BY <2>1, <2>3, <3>1 DEF TReadView, TMove, Blocking
    <3> QED
      BY <3>2 DEF TView
  <2> QED
    BY <1>2, <2>2, <2>3 DEF TRead
<1>3. CASE TWait(T(r))
  BY <1>3, GotoT DEF TWait, At, PT, Blocking, TView, TWaitView, TMove, TLockpid, user, locks
<1>4. CASE TTruncate(T(r)) \/ TWrite(T(r))
  <2>1. \/ PT(r) = "t claim" /\ PT(r)' = "t write" /\ toolchainlock' = Empty
        \/ PT(r) = "t write" /\ PT(r)' = "t version" /\ toolchainlock' = T(r)
    BY <1>4, GotoT DEF TTruncate, TWrite, At, PT
  <2>2. /\ PB(r)' = PB(r) /\ PN(r)' = PN(r) /\ Frame(r)
        /\ UNCHANGED <<orderly, kind, triple, lockpid, current, tools>>
    BY <1>4, GotoT DEF TTruncate, TWrite, user
  <2>3. TTakeView(r)
    BY <2>1, <2>2 DEF TTakeView, TMove, TLockpid
  <2> QED
    BY <2>3 DEF TView
<1>5. CASE TSkip(T(r))
  BY <1>5, GotoT DEF TSkip, At, PT, TView, TSkipView, TMove, TLockpid, user
<1>6. CASE TRemove(T(r))
  BY <1>1, <1>6, GotoT
     DEF TRemove, VersionAfterRm, At, PT, TView, TRemoveView, TMove, TLockpid, user, locks
<1>7. CASE TBuild(T(r))
  <2>1. /\ PT(r) = "t build" /\ tools' = "partial"
        /\ UNCHANGED <<orderly, kind, triple, lockpid, current, toolchainlock>>
    BY <1>7 DEF TBuild, At, PT, user, locks
  <2>2. PT(r)' = "t nested" /\ PN(r)' = "read" /\ PB(r)' = PB(r) /\ Frame(r)
    BY <1>7, CallT DEF TBuild
  <2>3. TBuildView(r)
    BY <2>1, <2>2 DEF TBuildView, TMove, TLockpid
  <2> QED
    BY <2>3 DEF TView
<1>8. CASE TFail(T(r))
  BY <1>1, <1>8, GotoT DEF TFail, At, PT, PN, TView, TFailView, TMove, TLockpid, user, locks
<1>9. CASE TNestedOk(T(r)) \/ TInstall(T(r))
  BY <1>1, <1>9, GotoT
     DEF TNestedOk, TInstall, At, PT, PN, TView, TEndView, TMove, TLockpid, user, locks
<1>10. CASE TCopy(T(r)) \/ TUnlock(T(r))
  BY <1>10, GotoT DEF TCopy, TUnlock, At, PT, TView, TEndView, TMove, TLockpid, user, locks
<1> QED
  BY <1>2, <1>3, <1>4, <1>5, <1>6, <1>7, <1>8, <1>9, <1>10 DEF ToolchainStep

(* Who is alive, and what a start and an interrupt do.                     *)
LEMMA AliveFacts ==
  ASSUME Chains, NEW r \in Run
  PROVE  /\ Alive(B(r)) <=> PB(r) \in BLive
         /\ Alive(T(r)) <=> PT(r) \in TLive
         /\ Alive(N(r)) <=> PN(r) \in NLive
         /\ kind[r] = "build" => (Active(r) <=> PB(r) \in BLive)
         /\ kind[r] = "toolchain" => (Active(r) <=> PT(r) \in TLive)
         /\ ~Active(r) => PB(r) \in Dead /\ PT(r) \in Dead /\ PN(r) \in Dead
<1>1. ChainOK(r)
  BY DEF Chains
<1>2. /\ BLive \cap Dead = {} /\ TLive \cap Dead = {} /\ NLive \cap Dead = {}
      /\ "toolchain" \in BLive /\ "t nested" \in TLive /\ NLive \subseteq BLive
  BY DEF BLive, TLive, TEarly, TAcq, TInside, NLive, Early, Acq, Late, Dead, Ended
<1>3. /\ Alive(B(r)) <=> PB(r) \in BLive
      /\ Alive(T(r)) <=> PT(r) \in TLive
      /\ Alive(N(r)) <=> PN(r) \in NLive
  BY <1>1, <1>2, PidFacts DEF Alive, ChainOK, PB, PT, PN, Dead
<1>4. Active(r) <=> Alive(B(r)) \/ Alive(T(r)) \/ Alive(N(r))
  BY DEF Active, Role, B, T, N
<1>5. "none" \in Dead
  BY DEF Dead
<1> QED
  BY <1>1, <1>2, <1>3, <1>4, <1>5 DEF ChainOK

StartView(r) ==
  /\ Frame(r) /\ Still /\ MayStart(r)
  /\ PB(r) = "none" /\ PT(r) = "none" /\ PN(r) = "none" /\ PN(r)' = "none"
  /\ \/ kind[r] = "build" /\ PB(r)' = "read" /\ PT(r)' = "none"
     \/ kind[r] = "toolchain" /\ PB(r)' = "none" /\ PT(r)' = "t read"

LEMMA StartFacts ==
  ASSUME TypeOK, NEW r \in Run, Start(r)
  PROVE  StartView(r)
<1>1. /\ PB(r) = "none" /\ PT(r) = "none" /\ PN(r) = "none" /\ MayStart(r)
      /\ UNCHANGED <<user, lockpid, locks, tmp, current, tools, crashes>>
  BY DEF Start, Role, PB, PT, PN, B, T, N
<1>2. Still
  BY <1>1 DEF Still, user, locks
<1>3. \/ kind[r] = "build" /\ Goto(B(r), "read")
      \/ kind[r] = "toolchain" /\ Goto(T(r), "t read")
  BY DEF Start, B, T
<1> QED
  BY <1>1, <1>2, <1>3, GotoB, GotoT DEF StartView

KillView(r) ==
  /\ Frame(r) /\ Still
  /\ PB(r)' = (IF PB(r) \in BLive THEN "killed" ELSE PB(r))
  /\ PT(r)' = (IF PT(r) \in TLive THEN "killed" ELSE PT(r))
  /\ PN(r)' = (IF PN(r) \in NLive THEN "killed" ELSE PN(r))

LEMMA KillFacts ==
  ASSUME TypeOK, Chains, NEW r \in Run, Interrupt(r)
  PROVE  KillView(r)
<1>1. Still
  BY DEF Interrupt, Still, user, locks
<1>2. \A q \in Run : B(q)[1] = q /\ T(q)[1] = q /\ N(q)[1] = q
  BY DEF B, T, N
<1>3. \A p \in Pid : pc'[p] = IF p[1] = r /\ Alive(p) THEN "killed" ELSE pc[p]
  BY DEF Interrupt
<1>4. Frame(r)
  BY <1>2, <1>3, PidFacts DEF Frame, PB, PT, PN
<1> QED
  BY <1>1, <1>2, <1>3, <1>4, PidFacts, AliveFacts DEF KillView, PB, PT, PN

(* Every step is one of these.                                             *)
LEMMA Views ==
  ASSUME TypeOK, Chains, Next
  PROVE  \E r \in Run : BView(r) \/ NView(r) \/ TView(r) \/ StartView(r) \/ KillView(r)
<1>1. PICK r \in Run : Start(r) \/ Step(r) \/ Interrupt(r)
  BY DEF Next
<1>2. CASE Step(r)
  <2>1. BuildStep(B(r)) \/ BuildStep(N(r)) \/ ToolchainStep(T(r))
    BY <1>2 DEF Step, B, T, N
  <2> QED
    BY <2>1, BuildView, NestedView, ToolchainView
<1> QED
  BY <1>1, <1>2, StartFacts, KillFacts
--------------------------------------------------------------------------------
(* Type correctness.                                                       *)

LEMMA TypeInit == ASSUME Init PROVE TypeOK
<1>1. "none" \in Lines /\ 0 \in Nat
  BY DEF Lines
<1> QED
  BY <1>1 DEF Init, TypeOK

LEMMA PcType ==
  ASSUME TypeOK, NEW p, NEW l \in Lines, NEW m \in Lines, Goto(p, l) \/ Call(p, l, m)
  PROVE  pc' \in [Pid -> Lines]
BY DEF Goto, Call, TypeOK

LEMMA TargetType == ASSUME TypeOK, NEW p \in Pid PROVE Target(p) \in Triple
BY LockAssumption DEF Target, TypeOK, Pid, Role

LEMMA BuildType == ASSUME TypeOK, NEW p \in Pid, BuildStep(p) PROVE TypeOK'
<1>1. {"wait", "claim", "write", "mktmp", "version", "work", "park", "toolchain", "t read",
       "error", "cleanup", "exit 0", "exit 1"} \subseteq Lines
  BY DEF Lines, Ended
<1>2. Target(p) \in Triple
  BY TargetType
<1>3. CASE ReadLock(p)
  <2>1. pc' \in [Pid -> Lines]
    BY <1>1, <1>3, PcType DEF ReadLock
  <2>2. lockpid' \in [Pid -> Pid \cup {NoFile}]
    BY <1>3 DEF ReadLock, Blocking, Alive, TypeOK
  <2> QED
    BY <1>3, <2>1, <2>2 DEF ReadLock, TypeOK, user, locks
<1>4. CASE Wait(p) \/ Version(p) \/ ToolchainError(p) \/ Work(p)
  <2>1. pc' \in [Pid -> Lines]
    BY <1>1, <1>4, PcType DEF Wait, Version, ToolchainError, Work
  <2> QED
    BY <1>4, <2>1 DEF Wait, Version, ToolchainError, Work, TypeOK, user, locks
<1>5. CASE Truncate(p) \/ WriteLock(p)
  <2>1. pc' \in [Pid -> Lines]
    BY <1>1, <1>5, PcType DEF Truncate, WriteLock
  <2>2. lock' \in [Triple -> Pid \cup {NoFile, Empty}]
    BY <1>5 DEF Truncate, WriteLock, TypeOK
  <2> QED
    BY <1>5, <2>1, <2>2 DEF Truncate, WriteLock, TypeOK, user
<1>6. CASE MakeTmp(p)
  <2>1. pc' \in [Pid -> Lines]
    BY <1>1, <1>6, PcType DEF MakeTmp
  <2>2. tmp' \in [Triple -> Pid \cup {NoFile}]
    BY <1>6 DEF MakeTmp, TypeOK
  <2> QED
    BY <1>6, <2>1, <2>2 DEF MakeTmp, TypeOK, user, locks
<1>7. CASE Park(p) \/ ToolchainOk(p)
  <2>1. pc' \in [Pid -> Lines]
    BY <1>1, <1>7, PcType DEF Park, ToolchainOk
  <2>2. /\ lock' \in [Triple -> Pid \cup {NoFile, Empty}]
        /\ disabled' \in [Triple -> Pid \cup {NoFile, Empty}]
    <3>1. CASE Park(p)
      BY <1>2, <3>1 DEF Park, Parked, TypeOK
    <3>2. CASE ToolchainOk(p)
      BY <1>2, <3>2 DEF ToolchainOk, Unparked, TypeOK
    <3> QED
      BY <1>7, <3>1, <3>2
  <2> QED
    BY <1>7, <2>1, <2>2 DEF Park, ToolchainOk, TypeOK, user
<1>8. CASE Cleanup(p)
  <2>1. pc' \in [Pid -> Lines]
    BY <1>1, <1>8, PcType DEF Cleanup
  <2>2. /\ lock' \in [Triple -> Pid \cup {NoFile, Empty}]
        /\ tmp' \in [Triple -> Pid \cup {NoFile}]
    BY <1>8 DEF Cleanup, TmpRemoved, TypeOK
  <2> QED
    BY <1>8, <2>1, <2>2 DEF Cleanup, TypeOK, user
<1> QED
  BY <1>3, <1>4, <1>5, <1>6, <1>7, <1>8 DEF BuildStep

LEMMA ToolchainType == ASSUME TypeOK, NEW p \in Pid, ToolchainStep(p) PROVE TypeOK'
<1>1. {"t wait", "t claim", "t write", "t version", "t build", "t nested", "read", "t install",
       "t cp", "t unlock", "exit 0", "exit 1"} \subseteq Lines
  BY DEF Lines, Ended
<1>2. CASE TRead(p)
  <2>1. pc' \in [Pid -> Lines]
    BY <1>1, <1>2, PcType DEF TRead
  <2>2. lockpid' \in [Pid -> Pid \cup {NoFile}]
    BY <1>2 DEF TRead, Blocking, Alive, TypeOK
  <2> QED
    BY <1>2, <2>1, <2>2 DEF TRead, TypeOK, user, locks
<1>3. CASE TWait(p) \/ TFail(p) \/ TNestedOk(p)
  <2>1. pc' \in [Pid -> Lines]
    BY <1>1, <1>3, PcType DEF TWait, TFail, TNestedOk
  <2> QED
    BY <1>3, <2>1 DEF TWait, TFail, TNestedOk, TypeOK, user, locks
<1>4. CASE TTruncate(p) \/ TWrite(p) \/ TSkip(p) \/ TUnlock(p)
  <2>1. pc' \in [Pid -> Lines]
    BY <1>1, <1>4, PcType DEF TTruncate, TWrite, TSkip, TUnlock
  <2> QED
    BY <1>4, <2>1 DEF TTruncate, TWrite, TSkip, TUnlock, TypeOK, user
<1>5. CASE TRemove(p) \/ TBuild(p) \/ TInstall(p) \/ TCopy(p)
  <2>1. pc' \in [Pid -> Lines]
    BY <1>1, <1>5, PcType DEF TRemove, TBuild, TInstall, TCopy
  <2>2. current' \in BOOLEAN /\ tools' \in {"none", "partial", "complete"}
    BY <1>5 DEF TRemove, TBuild, TInstall, TCopy, VersionAfterRm, TypeOK
  <2> QED
    BY <1>5, <2>1, <2>2 DEF TRemove, TBuild, TInstall, TCopy, TypeOK, user, locks
<1> QED
  BY <1>2, <1>3, <1>4, <1>5 DEF ToolchainStep

LEMMA TypeNext == ASSUME TypeOK, [Next]_vars PROVE TypeOK'
<1>1. CASE UNCHANGED vars
  BY <1>1 DEF vars, user, locks, TypeOK
<1>2. ASSUME NEW r \in Run, Start(r) PROVE TypeOK'
  <2>1. pc' \in [Pid -> Lines]
    <3>1. "read" \in Lines /\ "t read" \in Lines
      BY DEF Lines
    <3> QED
      BY <1>2, <3>1, PcType DEF Start
  <2> QED
    BY <1>2, <2>1 DEF Start, TypeOK, user, locks
<1>3. ASSUME NEW r \in Run, Step(r) PROVE TypeOK'
  <2>1. BuildStep(B(r)) \/ BuildStep(N(r)) \/ ToolchainStep(T(r))
    BY <1>3 DEF Step, B, T, N
  <2> QED
    BY <2>1, PidFacts, BuildType, ToolchainType
<1>4. ASSUME NEW r \in Run, Interrupt(r) PROVE TypeOK'
  <2>1. pc' \in [Pid -> Lines]
    <3>1. "killed" \in Lines
      BY DEF Lines, Ended
    <3> QED
      BY <1>4, <3>1 DEF Interrupt, TypeOK
  <2> QED
    BY <1>4, <2>1 DEF Interrupt, TypeOK, user, locks
<1> QED
  BY <1>1, <1>2, <1>3, <1>4 DEF Next

--------------------------------------------------------------------------------
(* The chain of a run.                                                     *)

LEMMA ChainsInit == ASSUME Init PROVE Chains
<1> SUFFICES ASSUME NEW r \in Run PROVE ChainOK(r)
  BY DEF Chains
<1>1. PB(r) = "none" /\ PT(r) = "none" /\ PN(r) = "none"
  BY PidFacts DEF Init, PB, PT, PN
<1>2. "none" \in Dead /\ "none" \notin NLive \cup {"work", "cleanup"} \cup TLive
      /\ "none" \notin Early \cup {"park"}
  BY DEF Dead, NLive, Early, Acq, Late, TLive, TEarly, TInside, TAcq
<1> QED
  BY <1>1, <1>2 DEF ChainOK

LEMMA ChainFrame ==
  ASSUME Chains, NEW r \in Run, Frame(r), UNCHANGED kind, ChainOK(r)'
  PROVE  Chains'
<1> SUFFICES ASSUME NEW q \in Run PROVE ChainOK(q)'
  BY DEF Chains
<1>1. CASE q = r
  BY <1>1
<1>2. CASE q # r
  BY <1>2 DEF Chains, ChainOK, Frame
<1> QED
  BY <1>1, <1>2

LEMMA ChainB == ASSUME NEW r, ChainOK(r), UNCHANGED kind, BView(r) PROVE ChainOK(r)'
<1> USE DEF ChainOK, BLive, NLive, Early, Acq, Late, TLive, TEarly, TAcq, TInside, Dead, Ended
<1>1. CASE BEarly(r)
  BY <1>1 DEF BView, BEarly
<1>2. CASE BVersion(r)
  BY <1>2 DEF BView, BVersion
<1>3. CASE BPark(r)
  BY <1>3 DEF BView, BPark
<1>4. CASE BBack(r)
  BY <1>4 DEF BView, BBack
<1>5. CASE BWork(r)
  BY <1>5 DEF BView, BWork
<1>6. CASE BExit(r)
  BY <1>6 DEF BView, BExit
<1> QED
  BY <1>1, <1>2, <1>3, <1>4, <1>5, <1>6, Zenon DEF BView

LEMMA ChainN == ASSUME NEW r, ChainOK(r), UNCHANGED kind, NView(r) PROVE ChainOK(r)'
BY DEF NView, ChainOK, BLive, NLive, Early, Acq, Late, TLive, TEarly, TAcq, TInside, Dead, Ended

LEMMA ChainT == ASSUME NEW r, ChainOK(r), UNCHANGED kind, TView(r) PROVE ChainOK(r)'
<1> USE DEF ChainOK, BLive, NLive, Early, Acq, Late, TLive, TEarly, TAcq, TInside, Dead, Ended
<1>1. CASE TReadView(r)
  BY <1>1 DEF TReadView, TMove
<1>2. CASE TWaitView(r)
  BY <1>2 DEF TWaitView, TMove
<1>3. CASE TTakeView(r)
  BY <1>3 DEF TTakeView, TMove
<1>4. CASE TSkipView(r)
  BY <1>4 DEF TSkipView, TMove
<1>5. CASE TRemoveView(r)
  BY <1>5 DEF TRemoveView, TMove
<1>6. CASE TBuildView(r)
  BY <1>6 DEF TBuildView, TMove
<1>7. CASE TFailView(r)
  BY <1>7 DEF TFailView, TMove
<1>8. CASE TEndView(r)
  BY <1>8 DEF TEndView, TMove
<1> QED
  BY <1>1, <1>2, <1>3, <1>4, <1>5, <1>6, <1>7, <1>8, Zenon DEF TView

LEMMA ChainStart == ASSUME NEW r, ChainOK(r), UNCHANGED kind, StartView(r) PROVE ChainOK(r)'
BY DEF StartView, ChainOK, BLive, NLive, Early, Acq, Late, TLive, TEarly, TAcq, TInside, Dead, Ended

LEMMA ChainKill == ASSUME NEW r, ChainOK(r), UNCHANGED kind, KillView(r) PROVE ChainOK(r)'
BY DEF KillView, ChainOK, BLive, NLive, Early, Acq, Late, TLive, TEarly, TAcq, TInside, Dead, Ended

LEMMA ChainsNext == ASSUME TypeOK, Chains, [Next]_vars PROVE Chains'
<1>1. CASE UNCHANGED vars
  <2>1. \A r \in Run : PB(r)' = PB(r) /\ PT(r)' = PT(r) /\ PN(r)' = PN(r) /\ kind' = kind
    BY <1>1 DEF vars, user, PB, PT, PN
  <2> QED
    BY <2>1 DEF Chains, ChainOK
<1>2. CASE Next
  <2>1. PICK r \in Run : BView(r) \/ NView(r) \/ TView(r) \/ StartView(r) \/ KillView(r)
    BY <1>2, Views
  <2>2. ChainOK(r)
    BY DEF Chains
  <2>3. Frame(r) /\ UNCHANGED kind
    BY <2>1 DEF BView, NView, TView, StartView, KillView, Still, TReadView, TWaitView, TTakeView,
       TSkipView, TRemoveView, TBuildView, TFailView, TEndView, TMove
  <2>4. ChainOK(r)'
    BY <2>1, <2>2, <2>3, ChainB, ChainN, ChainT, ChainStart, ChainKill
  <2> QED
    BY <2>3, <2>4, ChainFrame
<1> QED
  BY <1>1, <1>2
--------------------------------------------------------------------------------
(* One run decides on a rebuild, and one rebuilds.                         *)

(* What a view but that of a start means for the runs that decide.         *)
Narrows(r) ==
  /\ Frame(r) /\ UNCHANGED kind
  /\ Deciding(r)' => Deciding(r) \/ (Fresh(r) /\ ~current)
  /\ Fresh(r)' => Fresh(r)
  /\ PB(r) \in Dead => PB(r)' \in Dead
  /\ ~current' => ~current \/ (kind[r] = "toolchain" /\ Deciding(r))

LEMMA NarrowsB == ASSUME NEW r, ChainOK(r), BView(r) PROVE Narrows(r)
<1> USE DEF Narrows, Fresh, Deciding, Early, Acq, TEarly, TAcq, Dead, Ended
<1>1. Frame(r) /\ UNCHANGED <<kind, current>>
  BY DEF BView, Still
<1>2. CASE BEarly(r) \/ BVersion(r)
  BY <1>1, <1>2 DEF BEarly, BVersion, ChainOK
<1>3. CASE BPark(r) \/ BBack(r)
  BY <1>1, <1>3 DEF BPark, BBack
<1>4. CASE BWork(r) \/ BExit(r)
  BY <1>1, <1>4 DEF BWork, BExit
<1> QED
  BY <1>2, <1>3, <1>4 DEF BView

LEMMA NarrowsN == ASSUME NEW r, NView(r) PROVE Narrows(r)
BY DEF NView, Still, Narrows, Fresh, Deciding

LEMMA NarrowsT == ASSUME NEW r, TView(r) PROVE Narrows(r)
<1>1. /\ Frame(r) /\ UNCHANGED kind /\ PB(r)' = PB(r) /\ PT(r) \in TLive
      /\ PT(r)' \in TEarly => PT(r) \in TEarly
  <2> USE DEF TMove, TLive, TInside, TEarly, TAcq
  <2>1. CASE TReadView(r)
    BY <2>1 DEF TReadView
  <2>2. CASE TWaitView(r)
    BY <2>2 DEF TWaitView
  <2>3. CASE TTakeView(r)
    BY <2>3 DEF TTakeView
  <2>4. CASE TSkipView(r)
    BY <2>4 DEF TSkipView
  <2>5. CASE TRemoveView(r)
    BY <2>5 DEF TRemoveView
  <2>6. CASE TBuildView(r)
    BY <2>6 DEF TBuildView
  <2>7. CASE TFailView(r)
    BY <2>7 DEF TFailView
  <2>8. CASE TEndView(r)
    BY <2>8 DEF TEndView
  <2> QED
    BY <2>1, <2>2, <2>3, <2>4, <2>5, <2>6, <2>7, <2>8 DEF TView
<1>2. ~current' => ~current \/ (kind[r] = "toolchain" /\ PT(r) \in TEarly)
  <2>1. CASE TRemoveView(r)
    BY <2>1 DEF TRemoveView, TMove, TEarly
  <2>2. CASE ~TRemoveView(r)
    <3>1. current' = current \/ current'
      BY <2>2 DEF TView, TReadView, TWaitView, TTakeView, TSkipView, TBuildView, TFailView, TEndView
    <3> QED
      BY <3>1
  <2> QED
    BY <2>1, <2>2
<1> QED
  BY <1>1, <1>2 DEF Narrows, Fresh, Deciding

LEMMA NarrowsKill == ASSUME NEW r, KillView(r) PROVE Narrows(r)
BY DEF KillView, Still, Narrows, Fresh, Deciding, Early, Acq, TEarly, TAcq, Dead, Ended, BLive, TLive

LEMMA DecidesNarrows ==
  ASSUME Chains, OneDecides, NEW r \in Run, Narrows(r)
  PROVE  OneDecides'
<1> SUFFICES ASSUME NEW x \in Run, NEW y \in Run, x # y
             PROVE  /\ ~(Deciding(x)' /\ Deciding(y)')
                    /\ ~current' => ~(Fresh(x)' /\ Fresh(y)')
                    /\ kind'[x] = "toolchain" /\ Deciding(x)' => PB(y)' \in Dead /\ ~Fresh(y)'
  BY DEF OneDecides
<1>1. \A q \in Run \ {r} : /\ Deciding(q)' <=> Deciding(q)
                           /\ Fresh(q)' <=> Fresh(q)
                           /\ PB(q)' = PB(q)
  BY DEF Narrows, Frame, Deciding, Fresh
<1>2. kind[r] = "toolchain" /\ Fresh(r) => Deciding(r)
  <2>1. PB(r) = "none" \/ kind[r] # "toolchain"
    BY DEF Chains, ChainOK
  <2> QED
    BY <2>1 DEF Fresh, Early, Acq
<1>3. \A q \in Run : Deciding(q) => Fresh(q)
  BY DEF Fresh
<1>4. CASE r \notin {x, y}
  BY <1>1, <1>4 DEF Narrows, OneDecides
<1>5. CASE r = x
  BY <1>1, <1>2, <1>3, <1>5 DEF Narrows, OneDecides
<1>6. CASE r = y
  BY <1>1, <1>2, <1>3, <1>6 DEF Narrows, OneDecides
<1> QED
  BY <1>4, <1>5, <1>6

LEMMA DecidesStart ==
  ASSUME Chains, OneDecides, orderly, NEW r \in Run, StartView(r)
  PROVE  OneDecides'
<1> SUFFICES ASSUME NEW x \in Run, NEW y \in Run, x # y
             PROVE  /\ ~(Deciding(x)' /\ Deciding(y)')
                    /\ ~current' => ~(Fresh(x)' /\ Fresh(y)')
                    /\ kind'[x] = "toolchain" /\ Deciding(x)' => PB(y)' \in Dead /\ ~Fresh(y)'
  BY DEF OneDecides
<1>1. \A q \in Run \ {r} : /\ Deciding(q)' <=> Deciding(q)
                           /\ Fresh(q)' <=> Fresh(q)
                           /\ PB(q)' = PB(q)
  BY DEF StartView, Frame, Deciding, Fresh
<1>2. UNCHANGED <<kind, current>> /\ MayStart(r)
  BY DEF StartView, Still
<1>3. \A q \in Run : Fresh(q) => Active(q) /\ ~InRebuild(q)
  <2> SUFFICES ASSUME NEW q \in Run, Fresh(q) PROVE Active(q) /\ ~InRebuild(q)
    OBVIOUS
  <2>1. PB(q) \in Early \cup {"park"} => PT(q) = "none"
    BY DEF Chains, ChainOK
  <2>2. PB(q) \in BLive \/ PT(q) \in TLive
    BY DEF Fresh, Deciding, BLive, NLive, TLive
  <2>3. Active(q)
    BY <2>2, AliveFacts DEF Active, Role, B, T
  <2>4. PT(q) \in TEarly \cup {"none"}
    BY <2>1 DEF Fresh, Deciding
  <2> QED
    BY <2>3, <2>4 DEF InRebuild, PT, T, TEarly, TAcq
<1>4. CASE kind[r] = "build"
  <2>1. PB(r)' = "read" /\ PT(r)' = "none"
    BY <1>4 DEF StartView
  <2>2. ~Deciding(r)'
    BY <2>1 DEF Deciding, TEarly, TAcq
  <2>3. \A q \in Run : Fresh(q) => current /\ kind[q] # "toolchain"
    BY <1>2, <1>3 DEF MayStart
  <2>4. \A q \in Run : Deciding(q) => Fresh(q)
    BY DEF Fresh
  <2> QED
    BY <1>1, <1>2, <1>4, <2>2, <2>3, <2>4 DEF OneDecides
<1>5. CASE kind[r] = "toolchain"
  <2>1. \A q \in Run : ~Fresh(q)
    BY <1>2, <1>3, <1>5 DEF MayStart
  <2>2. \A q \in Run : PB(q) \in Dead
    <3> SUFFICES ASSUME NEW q \in Run, PB(q) \notin Dead PROVE FALSE
      OBVIOUS
    <3>1. kind[q] = "build" /\ PB(q) \in BLive
      BY DEF Chains, ChainOK, Dead
    <3>2. Active(q)
      BY <3>1, AliveFacts
    <3> QED
      BY <1>2, <1>5, <3>1, <3>2 DEF MayStart
  <2>3. \A q \in Run : Deciding(q) => Fresh(q)
    BY DEF Fresh
  <2> QED
    BY <1>1, <2>1, <2>2, <2>3, StartView(r) DEF OneDecides, StartView
<1> QED
  BY <1>4, <1>5 DEF StartView

LEMMA DecidesInit == ASSUME Init PROVE OneDecides
<1>1. \A r \in Run : PB(r) = "none" /\ PT(r) = "none"
  BY PidFacts DEF Init, PB, PT
<1>2. "none" \notin Early \cup TEarly \cup {"park"}
  BY DEF Early, Acq, TEarly, TAcq
<1> QED
  BY <1>1, <1>2 DEF OneDecides, Deciding, Fresh

LEMMA DecidesNext ==
  ASSUME Chains, OneDecides, orderly, NEW r \in Run,
         BView(r) \/ NView(r) \/ TView(r) \/ StartView(r) \/ KillView(r)
  PROVE  OneDecides'
<1>1. ChainOK(r)
  BY DEF Chains
<1> QED
  BY <1>1, NarrowsB, NarrowsN, NarrowsT, NarrowsKill, DecidesNarrows, DecidesStart

(* Steps that leave the toolchain lock and who waits for it.               *)
Quiet(r) == /\ Frame(r) /\ UNCHANGED toolchainlock
            /\ \A q \in Run : lockpid'[T(q)] = lockpid[T(q)]
            /\ PT(r)' \in THolds => PT(r) \in THolds
            /\ PT(r)' \in {"t claim", "t write", "t wait"} => PT(r)' = PT(r)

LEMMA QuietRebuilds ==
  ASSUME OneRebuilds, NEW r \in Run, Quiet(r)
  PROVE  OneRebuilds'
<1> SUFFICES ASSUME NEW x \in Run, PT(x)' \in THolds
             PROVE  /\ toolchainlock' = T(x)
                    /\ \A q \in Run \ {x} : /\ PT(q)' \notin {"t claim", "t write"}
                                            /\ PT(q)' = "t wait" => lockpid'[T(q)] = T(x)
  BY DEF OneRebuilds
<1>1. PT(x) \in THolds
  BY DEF Quiet, Frame
<1>2. toolchainlock' = T(x)
  BY <1>1 DEF OneRebuilds, Quiet
<1>3. ASSUME NEW q \in Run \ {x}
      PROVE  /\ PT(q)' \notin {"t claim", "t write"}
             /\ PT(q)' = "t wait" => lockpid'[T(q)] = T(x)
  <2>1. PT(q)' \in {"t claim", "t write", "t wait"} => PT(q)' = PT(q)
    BY DEF Quiet, Frame
  <2>2. /\ PT(q) \notin {"t claim", "t write"}
        /\ PT(q) = "t wait" => lockpid[T(q)] = T(x)
    BY <1>1 DEF OneRebuilds
  <2>3. lockpid'[T(q)] = lockpid[T(q)]
    BY DEF Quiet
  <2> QED
    BY <2>1, <2>2, <2>3
<1> QED
  BY <1>2, <1>3

LEMMA QuietViews ==
  ASSUME NEW r, BView(r) \/ NView(r) \/ StartView(r) \/ KillView(r) \/ TRemoveView(r)
                \/ TBuildView(r) \/ TFailView(r)
                \/ (TEndView(r) /\ UNCHANGED toolchainlock)
  PROVE  Quiet(r)
<1> USE DEF Quiet, THolds, TInside
<1>1. CASE BView(r)
  BY <1>1 DEF BView, Still, BEarly, BVersion, BPark, BBack, BWork, BExit
<1>2. CASE NView(r)
  BY <1>2 DEF NView, Still
<1>3. CASE StartView(r)
  BY <1>3 DEF StartView, Still
<1>4. CASE KillView(r)
  BY <1>4 DEF KillView, Still
<1>5. CASE TRemoveView(r)
  BY <1>5 DEF TRemoveView, TMove, TLockpid
<1>6. CASE TBuildView(r)
  BY <1>6 DEF TBuildView, TMove, TLockpid
<1>7. CASE TFailView(r)
  BY <1>7 DEF TFailView, TMove, TLockpid
<1>8. CASE TEndView(r) /\ UNCHANGED toolchainlock
  BY <1>8 DEF TEndView, TMove, TLockpid
<1> QED
  BY <1>1, <1>2, <1>3, <1>4, <1>5, <1>6, <1>7, <1>8

(* The lock of the toolchain is given back by the one that has it.         *)
LEMMA OneHolder ==
  ASSUME OneRebuilds, NEW q \in Run, NEW r \in Run, PT(q) \in THolds, PT(r) \in THolds
  PROVE  q = r
BY PidsDiffer DEF OneRebuilds

LEMMA UnlockRebuilds ==
  ASSUME OneRebuilds, NEW r \in Run, Frame(r), PT(r) \in THolds, PT(r)' = "exit 0"
  PROVE  OneRebuilds'
<1>1. ASSUME NEW q \in Run PROVE PT(q)' \notin THolds
  <2>1. CASE q = r
    BY <2>1 DEF THolds, TInside
  <2>2. CASE q # r
    BY <2>2, OneHolder DEF Frame
  <2> QED
    BY <2>1, <2>2
<1> QED
  BY <1>1 DEF OneRebuilds

LEMMA ReadRebuilds ==
  ASSUME Chains, OneRebuilds, NEW r \in Run, TReadView(r) \/ TWaitView(r)
  PROVE  OneRebuilds'
<1>1. /\ Frame(r) /\ UNCHANGED toolchainlock
      /\ \A q \in Run \ {r} : lockpid'[T(q)] = lockpid[T(q)]
      /\ PT(r)' \in {"t wait", "t claim"}
  BY DEF TReadView, TWaitView, TMove, TLockpid
<1> SUFFICES ASSUME NEW x \in Run, PT(x)' \in THolds
             PROVE  /\ toolchainlock' = T(x)
                    /\ \A q \in Run \ {x} : /\ PT(q)' \notin {"t claim", "t write"}
                                            /\ PT(q)' = "t wait" => lockpid'[T(q)] = T(x)
  BY DEF OneRebuilds
<1>2. x # r
  BY <1>1 DEF THolds, TInside
<1>3. PT(x) \in THolds
  BY <1>1, <1>2 DEF Frame
<1>4. toolchainlock = T(x)
  BY <1>3 DEF OneRebuilds
<1>5. Alive(T(x))
  BY <1>3, AliveFacts DEF THolds, TLive, TEarly
<1>6. /\ PT(r)' \notin {"t claim", "t write"}
      /\ PT(r)' = "t wait" => lockpid'[T(r)] = T(x)
  <2>1. CASE TReadView(r)
    BY <2>1, <1>1, <1>4, <1>5 DEF TReadView
  <2>2. CASE TWaitView(r)
    <3>1. PT(r) = "t wait" /\ ~Alive(lockpid[T(r)])
      BY <2>2 DEF TWaitView, TMove
    <3>2. lockpid[T(r)] = T(x)
      BY <1>2, <1>3, <3>1 DEF OneRebuilds
    <3> QED
      BY <1>5, <3>1, <3>2
  <2> QED
    BY <2>1, <2>2
<1>7. ASSUME NEW q \in Run \ {x, r}
      PROVE  /\ PT(q)' \notin {"t claim", "t write"}
             /\ PT(q)' = "t wait" => lockpid'[T(q)] = T(x)
  <2>1. PT(q)' = PT(q) /\ lockpid'[T(q)] = lockpid[T(q)]
    BY <1>1 DEF Frame
  <2>2. /\ PT(q) \notin {"t claim", "t write"}
        /\ PT(q) = "t wait" => lockpid[T(q)] = T(x)
    BY <1>3 DEF OneRebuilds
  <2> QED
    BY <2>1, <2>2
<1> QED
  BY <1>1, <1>4, <1>6, <1>7

LEMMA TakeRebuilds ==
  ASSUME OneRebuilds, OneDecides, NEW r \in Run, TTakeView(r)
  PROVE  OneRebuilds'
<1>1. Frame(r) /\ PT(r) \in {"t claim", "t write"} /\ PT(r)' \in {"t write", "t version"}
  BY DEF TTakeView, TMove
<1>2. ASSUME NEW q \in Run \ {r} PROVE PT(q)' \notin THolds
  <2>1. PT(q) \notin THolds
    BY <1>1 DEF OneRebuilds
  <2> QED
    BY <1>1, <2>1 DEF Frame
<1>3. CASE PT(r)' = "t write"
  <2>1. PT(r)' \notin THolds
    BY <1>3 DEF THolds, TInside
  <2> QED
    BY <1>2, <2>1 DEF OneRebuilds
<1>4. CASE PT(r)' = "t version"
  <2>1. toolchainlock' = T(r)
    BY <1>4 DEF TTakeView
  <2>2. ASSUME NEW q \in Run \ {r} PROVE PT(q)' \notin {"t claim", "t write", "t wait"}
    <3>1. Deciding(r)
      BY <1>1 DEF Deciding, TEarly, TAcq
    <3>2. ~Deciding(q)
      BY <3>1 DEF OneDecides
    <3>3. PT(q) \notin {"t claim", "t write", "t wait"}
      BY <3>2 DEF Deciding, TEarly, TAcq
    <3> QED
      BY <1>1, <3>3 DEF Frame
  <2> QED
    BY <1>2, <2>1, <2>2 DEF OneRebuilds
<1> QED
  BY <1>1, <1>3, <1>4

LEMMA RebuildsNext ==
  ASSUME Chains, OneDecides, OneRebuilds, NEW r \in Run,
         BView(r) \/ NView(r) \/ TView(r) \/ StartView(r) \/ KillView(r)
  PROVE  OneRebuilds'
<1>1. CASE TSkipView(r)
  <2>1. Frame(r) /\ PT(r) = "t version" /\ PT(r)' = "exit 0"
    BY <1>1 DEF TSkipView, TMove
  <2> QED
    BY <2>1, UnlockRebuilds DEF THolds
<1>2. CASE TEndView(r) /\ ~UNCHANGED toolchainlock
  <2>1. Frame(r) /\ PT(r) = "t unlock" /\ PT(r)' = "exit 0"
    BY <1>2 DEF TEndView, TMove
  <2> QED
    BY <2>1, UnlockRebuilds DEF THolds, TInside
<1>3. CASE TReadView(r) \/ TWaitView(r)
  BY <1>3, ReadRebuilds
<1>4. CASE TTakeView(r)
  BY <1>4, TakeRebuilds
<1>5. CASE Quiet(r)
  BY <1>5, QuietRebuilds
<1> QED
  BY <1>1, <1>2, <1>3, <1>4, <1>5, QuietViews DEF TView

--------------------------------------------------------------------------------
(* What the version file vouches for.                                      *)

(* What r's place in the rebuild says of the tools.                        *)
PlaceOK(r) == /\ PT(r) = "t build" => ~current /\ tools = "none"
              /\ PT(r) \in {"t nested", "t install"} => ~current /\ tools = "partial"
              /\ PT(r) = "t cp" => tools = "complete"
              /\ PT(r) = "t unlock" => current

LEMMA ToolsInit == ASSUME Init PROVE ToolsOK
<1>1. current => tools = "complete"
  BY DEF Init
<1>2. \A r \in Run : PB(r) = "none" /\ PT(r) = "none"
  BY PidFacts DEF Init, PB, PT
<1> QED
  BY <1>1, <1>2 DEF ToolsOK, Settled

LEMMA ToolsKept ==
  ASSUME ToolsOK, NEW r \in Run, Frame(r), UNCHANGED <<current, tools>>,
         Settled(r)' => Settled(r) \/ current, PlaceOK(r)'
  PROVE  ToolsOK'
<1>1. current' => tools' = "complete"
  BY DEF ToolsOK
<1>2. ASSUME NEW q \in Run PROVE (Settled(q) => current)' /\ PlaceOK(q)'
  <2>1. CASE q = r
    BY <2>1 DEF ToolsOK
  <2>2. CASE q # r
    BY <2>2 DEF Frame, ToolsOK, Settled, PlaceOK
  <2> QED
    BY <2>1, <2>2
<1> QED
  BY <1>1, <1>2 DEF ToolsOK, PlaceOK

LEMMA ToolsHolder ==
  ASSUME OneRebuilds, NEW r \in Run, Frame(r), PT(r) \in THolds,
         current' => tools' = "complete",
         \A q \in Run : Settled(q)' => current',
         PlaceOK(r)'
  PROVE  ToolsOK'
<1>1. ASSUME NEW q \in Run PROVE PlaceOK(q)'
  <2>1. CASE q = r
    BY <2>1
  <2>2. CASE q # r
    <3>1. PT(q)' \notin THolds
      BY <2>2, OneHolder DEF Frame
    <3> QED
      BY <3>1 DEF PlaceOK, THolds, TInside
  <2> QED
    BY <2>1, <2>2
<1> QED
  BY <1>1 DEF ToolsOK, PlaceOK

LEMMA ToolsB ==
  ASSUME Chains, ToolsOK, NEW r \in Run, BView(r)
  PROVE  ToolsOK'
<1>1. Frame(r) /\ UNCHANGED <<current, tools>>
  BY DEF BView, Still
<1>2. PT(r)' = PT(r) \/ PT(r)' = "t read"
  BY DEF BView, BEarly, BVersion, BPark, BBack, BWork, BExit
<1>3. PlaceOK(r)'
  BY <1>1, <1>2 DEF ToolsOK, PlaceOK
<1>4. Settled(r)' => Settled(r) \/ current
  <2> USE DEF Settled
  <2>1. CASE BEarly(r)
    BY <2>1 DEF BEarly, Early, Acq
  <2>2. CASE BVersion(r) \/ BPark(r)
    BY <2>2 DEF BVersion, BPark
  <2>3. CASE BBack(r)
    BY <2>3 DEF BBack
  <2>4. CASE BWork(r) \/ BExit(r)
    BY <2>4 DEF BWork, BExit
  <2> QED
    BY <2>1, <2>2, <2>3, <2>4 DEF BView
<1> QED
  BY <1>1, <1>3, <1>4, ToolsKept

LEMMA ToolsQuiet ==
  ASSUME Chains, ToolsOK, NEW r \in Run, NView(r) \/ StartView(r) \/ KillView(r)
  PROVE  ToolsOK'
<1>1. Frame(r) /\ UNCHANGED <<current, tools>>
  BY DEF NView, StartView, KillView, Still
<1>2. PT(r)' = PT(r) \/ PT(r)' \in {"none", "t read", "killed"}
  BY DEF NView, StartView, KillView
<1>3. PlaceOK(r)'
  BY <1>1, <1>2 DEF ToolsOK, PlaceOK
<1>4. Settled(r)' => Settled(r) \/ current
  <2>1. CASE NView(r)
    BY <2>1 DEF NView, Settled
  <2>2. CASE StartView(r)
    BY <2>2 DEF StartView, Settled
  <2>3. CASE KillView(r)
    <3>1. PB(r)' \in Dead
      BY <2>3 DEF KillView, Chains, ChainOK, Dead, Ended
    <3> QED
      BY <3>1 DEF Settled, Dead, Ended
  <2> QED
    BY <2>1, <2>2, <2>3
<1> QED
  BY <1>1, <1>3, <1>4, ToolsKept

LEMMA ToolsBefore ==
  ASSUME Chains, ToolsOK, NEW r \in Run,
         TReadView(r) \/ TWaitView(r) \/ TTakeView(r) \/ TSkipView(r) \/ TFailView(r)
  PROVE  ToolsOK'
<1>1. Frame(r) /\ UNCHANGED <<current, tools>> /\ PB(r)' = PB(r) /\ PT(r) \in TLive
  BY DEF TReadView, TWaitView, TTakeView, TSkipView, TFailView, TMove,
         TLive, TEarly, TAcq, TInside
<1>2. PT(r)' \in {"t wait", "t claim", "t write", "t version", "exit 1"}
      \/ (PT(r)' = "exit 0" /\ current)
  BY DEF TReadView, TWaitView, TTakeView, TSkipView, TFailView, TMove
<1>3. PlaceOK(r)'
  BY <1>2 DEF PlaceOK
<1>4. PT(r) # "exit 1"
  BY <1>1 DEF TLive, TEarly, TAcq, TInside
<1>5. Settled(r)' => Settled(r) \/ current
  BY <1>1, <1>2, <1>4 DEF Settled
<1> QED
  BY <1>1, <1>3, <1>5, ToolsKept

LEMMA ToolsRemove ==
  ASSUME Chains, OneDecides, OneRebuilds, ToolsOK, NEW r \in Run, TRemoveView(r)
  PROVE  ToolsOK'
<1>1. /\ Frame(r) /\ PB(r)' = PB(r) /\ PT(r) = "t version" /\ PT(r)' = "t build"
      /\ ~current' /\ tools' = "none" /\ (~current \/ kind[r] = "toolchain")
  BY DEF TRemoveView, TMove
<1>2. PT(r) \in THolds /\ Deciding(r)
  BY <1>1 DEF THolds, Deciding, TEarly
<1>3. ASSUME NEW q \in Run, Settled(q)' PROVE FALSE
  <2>1. Settled(q) /\ PB(q)' = PB(q)
    BY <1>1, <1>3 DEF Settled, Frame
  <2>2. kind[r] = "toolchain"
    BY <1>1, <2>1 DEF ToolsOK
  <2>3. PB(q) \notin Dead
    BY <2>1 DEF Settled, Dead, Ended
  <2>4. PB(r) = "none"
    BY <2>2 DEF Chains, ChainOK
  <2>5. PB(q) \in Dead
    BY <1>2, <2>2, <2>4 DEF OneDecides, Dead
  <2> QED
    BY <2>3, <2>5
<1>4. PlaceOK(r)'
  BY <1>1 DEF PlaceOK
<1> QED
  BY <1>1, <1>2, <1>3, <1>4, ToolsHolder

LEMMA ToolsBuild ==
  ASSUME Chains, OneRebuilds, ToolsOK, NEW r \in Run, TBuildView(r) \/ TEndView(r)
  PROVE  ToolsOK'
<1>1. Frame(r) /\ PB(r)' = PB(r) /\ PT(r) \in TInside
  BY DEF TBuildView, TEndView, TMove, TInside
<1>2. PT(r) \in THolds /\ PT(r) # "exit 1"
  BY <1>1 DEF THolds, TInside
<1>3. PlaceOK(r)
  BY DEF ToolsOK, PlaceOK
<1>4. PlaceOK(r)' /\ (PT(r)' = "exit 0" => current') /\ (current => current')
  <2>1. CASE TBuildView(r)
    BY <1>3, <2>1 DEF TBuildView, TMove, PlaceOK
  <2>2. CASE TEndView(r)
    <3>1. \/ PT(r)' = "t install" /\ PT(r) = "t nested" /\ current' = current /\ tools' = tools
          \/ PT(r)' = "t cp" /\ PT(r) = "t install" /\ current' = current
             /\ tools' = (IF tools = "partial" THEN "complete" ELSE tools)
          \/ PT(r)' = "t unlock" /\ current'
          \/ PT(r)' = "exit 0" /\ PT(r) = "t unlock" /\ current' = current
      BY <2>2 DEF TEndView, TMove
    <3>2. CASE PT(r)' \in {"t install", "t cp"}
      <4>1. /\ ~current /\ tools = "partial" /\ current' = current
            /\ PT(r)' = "t install" => tools' = "partial"
            /\ PT(r)' = "t cp" => tools' = "complete"
        BY <1>3, <3>1, <3>2 DEF PlaceOK
      <4>2. ~current'
        BY <4>1
      <4> QED
        BY <3>2, <4>1, <4>2 DEF PlaceOK
    <3>3. CASE PT(r)' \in {"t unlock", "exit 0"}
      <4>1. current'
        BY <1>3, <3>1, <3>3 DEF PlaceOK
      <4> QED
        BY <3>3, <4>1 DEF PlaceOK
    <3> QED
      BY <3>1, <3>2, <3>3
  <2> QED
    BY <2>1, <2>2
<1>5. current' => tools' = "complete"
  <2>1. current => tools = "complete"
    BY DEF ToolsOK
  <2>2. CASE TBuildView(r)
    BY <1>3, <2>1, <2>2 DEF TBuildView, TMove, PlaceOK
  <2>3. CASE TEndView(r)
    BY <1>3, <2>1, <2>3 DEF TEndView, TMove, PlaceOK
  <2> QED
    BY <2>2, <2>3
<1>6. ASSUME NEW q \in Run, Settled(q)' PROVE current'
  <2>1. CASE Settled(q)
    BY <1>4, <2>1 DEF ToolsOK
  <2>2. CASE ~Settled(q)
    <3>1. q = r
      BY <1>1, <1>6, <2>2 DEF Settled, Frame
    <3>2. PT(r)' = "exit 0"
      BY <1>1, <1>2, <1>6, <2>2, <3>1 DEF Settled
    <3> QED
      BY <1>4, <3>2
  <2> QED
    BY <2>1, <2>2
<1> QED
  BY <1>1, <1>2, <1>4, <1>5, <1>6, ToolsHolder

LEMMA ToolsNext ==
  ASSUME Chains, OneDecides, OneRebuilds, ToolsOK, NEW r \in Run,
         BView(r) \/ NView(r) \/ TView(r) \/ StartView(r) \/ KillView(r)
  PROVE  ToolsOK'
BY ToolsB, ToolsQuiet, ToolsBefore, ToolsRemove, ToolsBuild DEF TView

--------------------------------------------------------------------------------
(* Apart.                                                                  *)

LEMMA ApartInit == ASSUME Init PROVE Apart
<1>1. \A r \in Run : PB(r) = "none"
  BY PidFacts DEF Init, PB
<1> QED
  BY <1>1 DEF Apart, BLive, NLive, Early, Acq, Late

(* A step after which r is no more alive and no more parked than before.   *)
Settles(r) == /\ Frame(r) /\ UNCHANGED <<kind, triple>>
              /\ PB(r)' \in BLive => PB(r) \in BLive
              /\ Parks(r)' => Parks(r)
              /\ Rebuilds(r)' => Rebuilds(r)
              /\ ~current' => ~current

ApartPair(q, r) == PB(r) \in BLive =>
  /\ Parks(q) => triple[q] # triple[r]
  /\ Rebuilds(q) \/ (Parks(q) /\ ~current) =>
       triple[r] # DefaultTarget /\ (kind[q] = "build" => triple[q] # DefaultTarget)

LEMMA ApartSettles ==
  ASSUME Apart, NEW r \in Run, Settles(r)
  PROVE  Apart'
<1> SUFFICES ASSUME NEW x \in Run, NEW y \in Run, x # y PROVE ApartPair(x, y)'
  BY DEF Apart, ApartPair
<1>1. ApartPair(x, y)
  BY DEF Apart, ApartPair
<1>2. \A q \in Run \ {r} : /\ PB(q)' = PB(q)
                           /\ Parks(q)' <=> Parks(q)
                           /\ Rebuilds(q)' <=> Rebuilds(q)
  BY DEF Settles, Frame, Parks, Rebuilds
<1>3. /\ PB(y)' \in BLive => PB(y) \in BLive
      /\ Parks(x)' => Parks(x)
      /\ Rebuilds(x)' => Rebuilds(x)
      /\ kind' = kind /\ triple' = triple /\ (~current' => ~current)
  BY <1>2 DEF Settles
<1> QED
  BY <1>1, <1>3 DEF ApartPair

LEMMA SettlesB ==
  ASSUME NEW r, ChainOK(r), BView(r), ~(BVersion(r) /\ ~current)
  PROVE  Settles(r)
<1>1. Frame(r) /\ UNCHANGED <<kind, triple, current>>
  BY DEF BView, Still
<1>2. /\ PB(r)' \in BLive => PB(r) \in BLive
      /\ Parks(r)' => Parks(r)
      /\ Rebuilds(r)' => Rebuilds(r)
  <2> USE DEF Parks, Rebuilds, BLive, NLive, Early, Acq, Late
  <2>1. CASE BEarly(r)
    BY <2>1 DEF BEarly
  <2>2. CASE BVersion(r)
    BY <2>2 DEF BVersion
  <2>3. CASE BPark(r)
    BY <2>3 DEF BPark
  <2>4. CASE BBack(r)
    BY <2>4 DEF BBack
  <2>5. CASE BWork(r)
    <3>1. PB(r) = "work" /\ PT(r) # "exit 1"
      BY <2>5 DEF BWork, ChainOK
    <3> QED
      BY <2>5, <3>1 DEF BWork
  <2>6. CASE BExit(r)
    BY <2>6 DEF BExit
  <2> QED
    BY <2>1, <2>2, <2>3, <2>4, <2>5, <2>6 DEF BView
<1> QED
  BY <1>1, <1>2 DEF Settles

LEMMA SettlesNKill ==
  ASSUME NEW r, ChainOK(r), NView(r) \/ KillView(r)
  PROVE  Settles(r)
<1>1. CASE NView(r)
  BY <1>1 DEF NView, Still, Settles, Parks, Rebuilds
<1>2. CASE KillView(r)
  <2>1. Frame(r) /\ UNCHANGED <<kind, triple, current>> /\ PB(r)' \in Dead /\ PT(r)' \in Dead
    BY <1>2 DEF KillView, Still, ChainOK, Dead, Ended
  <2>2. PB(r)' \notin BLive /\ ~Parks(r)' /\ ~Rebuilds(r)'
    BY <2>1 DEF Parks, Rebuilds, Dead, Ended, BLive, NLive, Early, Acq, Late,
                TLive, TEarly, TAcq, TInside
  <2> QED
    BY <2>1, <2>2 DEF Settles
<1> QED
  BY <1>1, <1>2

LEMMA SettlesT ==
  ASSUME NEW r, ChainOK(r), TView(r), ~(TRemoveView(r) /\ current)
  PROVE  Settles(r)
<1>1. /\ Frame(r) /\ UNCHANGED <<kind, triple>> /\ PB(r)' = PB(r) /\ PT(r) \in TLive
  <2> USE DEF TMove, TLive, TInside, TEarly, TAcq
  <2>1. CASE TReadView(r) \/ TWaitView(r) \/ TTakeView(r)
    BY <2>1 DEF TReadView, TWaitView, TTakeView
  <2>2. CASE TSkipView(r) \/ TRemoveView(r) \/ TBuildView(r)
    BY <2>2 DEF TSkipView, TRemoveView, TBuildView
  <2>3. CASE TFailView(r) \/ TEndView(r)
    BY <2>3 DEF TFailView, TEndView
  <2> QED
    BY <2>1, <2>2, <2>3 DEF TView
<1>2. ~current' => ~current
  BY DEF TView, TReadView, TWaitView, TTakeView, TSkipView, TRemoveView, TBuildView,
         TFailView, TEndView
<1>3. PB(r) # "error" \/ PT(r)' # "exit 1"
  BY <1>1 DEF ChainOK
<1>4. Parks(r)' => Parks(r)
  BY <1>1, <1>3 DEF Parks
<1>5. Rebuilds(r)' => Rebuilds(r)
  BY <1>1 DEF Rebuilds
<1> QED
  BY <1>1, <1>2, <1>4, <1>5 DEF Settles

(* r finds the toolchain out of date.                                      *)
LEMMA ApartVersion ==
  ASSUME Chains, OneDecides, ToolsOK, Apart, NEW r \in Run, BView(r), BVersion(r), ~current
  PROVE  Apart'
<1>1. /\ Frame(r) /\ UNCHANGED <<kind, triple, current>>
      /\ PB(r) = "version" /\ PB(r)' = "park" /\ PT(r)' = PT(r)
  BY DEF BView, Still, BVersion
<1>2. Fresh(r) /\ PB(r) \in BLive
  BY <1>1 DEF Fresh, Early, BLive, NLive
<1>3. \A q \in Run \ {r} : /\ PB(q)' = PB(q)
                           /\ Parks(q)' <=> Parks(q)
                           /\ Rebuilds(q)' <=> Rebuilds(q)
  BY <1>1 DEF Frame, Parks, Rebuilds
<1> SUFFICES ASSUME NEW x \in Run, NEW y \in Run, x # y PROVE ApartPair(x, y)'
  BY DEF Apart, ApartPair
<1>4. CASE x # r
  <2>1. ApartPair(x, y)
    BY DEF Apart, ApartPair
  <2>2. PB(y)' \in BLive => PB(y) \in BLive
    BY <1>2, <1>3
  <2> QED
    BY <1>1, <1>3, <1>4, <2>1, <2>2 DEF ApartPair
<1>5. CASE x = r
  <2> SUFFICES ASSUME PB(y) \in BLive
               PROVE  /\ triple[r] # triple[y] /\ triple[y] # DefaultTarget
                      /\ triple[r] # DefaultTarget
    BY <1>1, <1>3, <1>5 DEF ApartPair
  <2>1. ~Fresh(y)
    BY <1>2, <1>5 DEF OneDecides
  <2>2. ~Settled(y)
    BY DEF ToolsOK
  <2>3. Parks(y)
    BY <2>1, <2>2 DEF Fresh, Deciding, Settled, Parks, BLive, NLive, Late
  <2>4. kind[y] = "build"
    <3>1. PB(y) # "none"
      BY DEF BLive, NLive, Early, Acq, Late
    <3> QED
      BY <3>1 DEF Chains, ChainOK
  <2> QED
    BY <1>2, <1>5, <2>3, <2>4 DEF Apart
<1> QED
  BY <1>4, <1>5

LEMMA ApartRemove ==
  ASSUME Chains, OneDecides, NEW r \in Run, TRemoveView(r), current
  PROVE  Apart'
<1>1. Frame(r) /\ PB(r)' = PB(r) /\ PT(r) = "t version" /\ kind[r] = "toolchain"
  BY DEF TRemoveView, TMove
<1>2. Deciding(r)
  BY <1>1 DEF Deciding, TEarly
<1>3. PB(r) = "none"
  BY <1>1 DEF Chains, ChainOK
<1>4. ASSUME NEW q \in Run PROVE PB(q)' \in Dead
  <2>1. PB(q)' = PB(q)
    BY <1>1 DEF Frame
  <2>2. PB(q) \in Dead
    BY <1>1, <1>2, <1>3 DEF OneDecides, Dead
  <2> QED
    BY <2>1, <2>2
<1>5. BLive \cap Dead = {}
  BY DEF BLive, NLive, Early, Acq, Late, Dead, Ended
<1> QED
  BY <1>4, <1>5 DEF Apart

LEMMA ApartStart ==
  ASSUME Chains, Apart, orderly, NEW r \in Run, StartView(r)
  PROVE  Apart'
<1>1. /\ Frame(r) /\ UNCHANGED <<kind, triple, current>> /\ MayStart(r)
      /\ PB(r)' \in {"none", "read"} /\ ~Parks(r)'
  BY DEF StartView, Still, Parks
<1>2. \A q \in Run \ {r} : /\ PB(q)' = PB(q)
                           /\ Parks(q)' <=> Parks(q)
                           /\ Rebuilds(q)' <=> Rebuilds(q)
  BY <1>1 DEF Frame, Parks, Rebuilds
<1>3. \A q \in Run : PB(q) \in BLive => kind[q] = "build" /\ Active(q)
  <2>1. "none" \notin BLive
    BY DEF BLive, NLive, Early, Acq, Late
  <2> QED
    BY <2>1, AliveFacts DEF Chains, ChainOK
<1> SUFFICES ASSUME NEW x \in Run, NEW y \in Run, x # y, PB(y)' \in BLive
             PROVE  ApartPair(x, y)'
  BY DEF Apart, ApartPair
<1>4. CASE r \notin {x, y}
  <2>1. ApartPair(x, y)
    BY DEF Apart, ApartPair
  <2> QED
    BY <1>1, <1>2, <1>4, <2>1 DEF ApartPair
<1>5. CASE r = x
  <2>1. kind[y] = "build" /\ Active(y)
    BY <1>2, <1>3, <1>5
  <2>2. kind[r] # "toolchain"
    BY <1>1, <2>1 DEF MayStart
  <2>3. ~Rebuilds(r)'
    BY <2>2 DEF StartView, Rebuilds, TLive, TEarly, TAcq, TInside
  <2> QED
    BY <1>1, <1>5, <2>3 DEF ApartPair
<1>6. CASE r = y
  <2>1. kind[r] = "build"
    BY <1>6 DEF StartView, BLive, NLive, Early, Acq, Late
  <2>2. Parks(x) => Tooling(x)
    BY DEF Parks, Tooling, At, PB, PT, B, T
  <2>3. Rebuilds(x) => Rebuilding(x)
    BY AliveFacts DEF Rebuilds, Rebuilding, PB, B, T
  <2>4. Parks(x) /\ ~current => Rebuilds(x)
    <3> SUFFICES ASSUME PB(x) = "error", PT(x) = "exit 1", ~current PROVE FALSE
      BY DEF Parks, Rebuilds
    <3>1. Active(x)
      BY <1>3 DEF BLive, NLive, Late
    <3>2. InRebuild(x)
      BY <1>1, <3>1 DEF MayStart
    <3> QED
      BY <3>2 DEF InRebuild, PT, T
  <2> QED
    BY <1>1, <1>2, <1>6, <2>1, <2>2, <2>3, <2>4 DEF ApartPair, MayStart
<1> QED
  BY <1>4, <1>5, <1>6

LEMMA ApartNext ==
  ASSUME Chains, OneDecides, ToolsOK, Apart, orderly, NEW r \in Run,
         BView(r) \/ NView(r) \/ TView(r) \/ StartView(r) \/ KillView(r)
  PROVE  Apart'
<1>1. ChainOK(r)
  BY DEF Chains
<1> QED
  BY <1>1, SettlesB, SettlesNKill, SettlesT, ApartSettles, ApartVersion, ApartRemove, ApartStart

--------------------------------------------------------------------------------
(* The lock files.                                                         *)

LEMMA ChildFacts ==
  ASSUME NEW p \in BuildSh, NEW x \in BuildSh, x # p
  PROVE  Child(x) \in Pid /\ x # Child(p) /\ Child(x) # p /\ Child(x) # Child(p)
<1>1. PICK q \in Run, r \in Run : (x = B(q) \/ x = N(q)) /\ (p = B(r) \/ p = N(r))
  BY BuildShFacts
<1> QED
  BY <1>1, PidFacts, PidsDiffer

LEMMA OwnAlive ==
  ASSUME NEW p \in BuildSh, Own(p) \/ Acquiring(p)
  PROVE  Alive(p)
BY BuildShFacts DEF Own, Acquiring, Alive, At, Ended

(* A build.sh, and its lock, as parts of its run.                          *)
LEMMA OwnFacts ==
  ASSUME NEW r \in Run
  PROVE  /\ Own(B(r)) <=> \/ PB(r) \in {"mktmp", "version", "park", "work", "cleanup"}
                          \/ PB(r) = "error" /\ PT(r) # "exit 1"
         /\ Own(N(r)) <=> PN(r) \in {"mktmp", "version", "park", "work", "cleanup", "error"}
         /\ Acquiring(B(r)) <=> PB(r) \in Acq
         /\ Acquiring(N(r)) <=> PN(r) \in Acq
BY PidFacts DEF Own, Acquiring, Acq, At, PB, PT, PN

(* Nobody else builds for the default target beside a nested run, and      *)
(* nobody else for the target of a run that is without its lock.           *)
LEMMA NestedAlone ==
  ASSUME Chains, OneRebuilds, Apart, NEW r \in Run, PT(r) \in {"t build", "t nested"},
         NEW p \in BuildSh, Alive(p), Target(p) = DefaultTarget
  PROVE  p = N(r) \/ (p = B(r) /\ PB(r) = "toolchain")
<1>1. PT(r) \in TLive /\ PT(r) \in THolds
  BY DEF TLive, THolds, TInside
<1>2. PICK q \in Run : p = B(q) \/ p = N(q)
  BY BuildShFacts
<1>3. CASE p = B(q)
  <2>1. PB(q) \in BLive /\ triple[q] = DefaultTarget
    BY <1>3, AliveFacts, PidFacts
  <2>2. q = r
    BY <1>1, <2>1 DEF Apart, Rebuilds
  <2>3. kind[r] = "build"
    <3>1. PB(r) # "none"
      BY <2>1, <2>2 DEF BLive, NLive, Early, Acq, Late
    <3> QED
      BY <3>1 DEF Chains, ChainOK
  <2> QED
    BY <1>1, <1>3, <2>2, <2>3 DEF Chains, ChainOK
<1>4. CASE p = N(q)
  <2>1. PN(q) \in NLive
    BY <1>4, AliveFacts
  <2>2. PT(q) \in THolds
    BY <2>1 DEF Chains, ChainOK, THolds, TInside
  <2> QED
    BY <1>1, <1>4, <2>2, OneHolder
<1> QED
  BY <1>2, <1>3, <1>4

LEMMA ParkedAlone ==
  ASSUME Chains, Apart, NEW r \in Run, Parks(r),
         NEW p \in BuildSh, Alive(p), Target(p) = triple[r], p # B(r)
  PROVE  p = N(r) /\ PT(r) = "t nested" /\ PN(r) \in NLive
<1>1. PB(r) \in BLive
  BY DEF Parks, BLive, NLive, Late
<1>2. PICK q \in Run : p = B(q) \/ p = N(q)
  BY BuildShFacts
<1>3. CASE p = B(q)
  <2>1. PB(q) \in BLive /\ triple[q] = triple[r] /\ q # r
    BY <1>3, AliveFacts, PidFacts
  <2> QED
    BY <2>1 DEF Apart
<1>4. CASE p = N(q)
  <2>1. PN(q) \in NLive /\ triple[r] = DefaultTarget
    BY <1>4, AliveFacts, PidFacts
  <2>2. PT(q) = "t nested"
    BY <2>1 DEF Chains, ChainOK
  <2>3. q = r
    BY <1>1, <2>1, <2>2 DEF Apart, Rebuilds, TLive, TInside
  <2> QED
    BY <1>4, <2>1, <2>2, <2>3
<1> QED
  BY <1>2, <1>3, <1>4

(* What a step of p leaves of the other build.sh.                          *)
Moves(p) == /\ UNCHANGED triple
            /\ \A x \in BuildSh : Target(x)' = Target(x)
            /\ \A x \in BuildSh \ {p} : pc'[x] = pc[x] /\ lockpid'[x] = lockpid[x]
            /\ \A x \in BuildSh \ {p} : Own(x)' <=> Own(x)

LEMMA GotoMoves ==
  ASSUME TypeOK, NEW p \in BuildSh, NEW l, Goto(p, l) \/ Call(p, "toolchain", l), UNCHANGED triple,
         UNCHANGED lockpid \/ \E f : lockpid' = [lockpid EXCEPT ![p] = f]
  PROVE  Moves(p)
<1>1. p \in Pid
  BY BuildShFacts
<1>2. \A x \in Pid \ {p, Child(p)} : pc'[x] = pc[x]
  BY <1>1 DEF Goto, Call, TypeOK
<1>3. \A x \in Pid \ {p} : lockpid'[x] = lockpid[x]
  BY DEF TypeOK
<1>4. \A x \in BuildSh : Target(x)' = Target(x)
  BY DEF Target
<1>5. ASSUME NEW x \in BuildSh \ {p}
      PROVE  pc'[x] = pc[x] /\ lockpid'[x] = lockpid[x] /\ (Own(x)' <=> Own(x))
  <2>1. x \in Pid \ {p, Child(p)} /\ Child(x) \in Pid \ {p, Child(p)}
    BY ChildFacts, BuildShFacts
  <2>2. pc'[x] = pc[x] /\ pc'[Child(x)] = pc[Child(x)] /\ lockpid'[x] = lockpid[x]
    BY <1>2, <1>3, <2>1
  <2> QED
    BY <2>2 DEF Own, At
<1> QED
  BY <1>4, <1>5 DEF Moves

LEMMA BuildMoves == ASSUME TypeOK, NEW p \in BuildSh, BuildStep(p) PROVE Moves(p)
<1>1. CASE ReadLock(p)
  <2>1. PICK l \in {"wait", "claim"} : Goto(p, l)
    BY <1>1 DEF ReadLock
  <2>2. UNCHANGED triple
    BY <1>1 DEF ReadLock, user
  <2>3. UNCHANGED lockpid \/ \E f : lockpid' = [lockpid EXCEPT ![p] = f]
    BY <1>1 DEF ReadLock
  <2> QED
    BY <2>1, <2>2, <2>3, GotoMoves
<1>2. CASE Wait(p) \/ Truncate(p) \/ WriteLock(p) \/ MakeTmp(p)
  BY <1>2, GotoMoves DEF Wait, Truncate, WriteLock, MakeTmp, user
<1>3. CASE Version(p)
  BY <1>3, GotoMoves DEF Version, user
<1>4. CASE Park(p) \/ ToolchainOk(p) \/ ToolchainError(p)
  BY <1>4, GotoMoves DEF Park, ToolchainOk, ToolchainError, user
<1>5. CASE Work(p)
  BY <1>5, GotoMoves DEF Work, user
<1>6. CASE Cleanup(p)
  BY <1>6, GotoMoves DEF Cleanup, user
<1> QED
  BY <1>1, <1>2, <1>3, <1>4, <1>5, <1>6 DEF BuildStep

(* What a step of p must keep.                                             *)
LEMMA LocksMove ==
  ASSUME LocksOK, NEW p \in BuildSh, Moves(p),
         HasLock(p)',
         \A x \in BuildSh \ {p} : Own(x) => lock'[Target(x)] = lock[Target(x)],
         \A r \in Run : SetAside(r)',
         \A x \in BuildSh \ {p} : Acquiring(p)' /\ Target(x) = Target(p) =>
           /\ ~Acquiring(x)
           /\ Own(x) => pc'[p] \in {"read", "wait"} /\ (pc'[p] = "wait" => lockpid'[p] = x),
         \A x \in BuildSh \ {p} : Own(p)' /\ Target(x) = Target(p) /\ Acquiring(x) =>
           pc[x] \in {"read", "wait"} /\ (At(x, "wait") => lockpid[x] = p)
  PROVE  LocksOK'
<1>1. ASSUME NEW x \in BuildSh PROVE HasLock(x)'
  <2>1. CASE x # p
    BY <2>1 DEF Moves, LocksOK, HasLock
  <2> QED
    BY <2>1
<1>2. \A x \in BuildSh \ {p} : Acquiring(x)' <=> Acquiring(x)
  BY DEF Moves, Acquiring
<1>3. ASSUME NEW x \in BuildSh, NEW y \in BuildSh, x # y PROVE InTurn(x, y)'
  <2>1. CASE y = p
    BY <1>2, <1>3, <2>1 DEF Moves, InTurn, At
  <2>2. CASE x = p
    BY <1>2, <1>3, <2>2 DEF Moves, InTurn, At
  <2>3. CASE p \notin {x, y}
    <3>1. InTurn(x, y)
      BY <1>3 DEF LocksOK
    <3> QED
      BY <1>2, <1>3, <2>3, <3>1 DEF Moves, InTurn, At
  <2> QED
    BY <2>1, <2>2, <2>3
<1> QED
  BY <1>1, <1>3 DEF LocksOK

LEMMA LocksInit == ASSUME Init PROVE LocksOK
<1>1. \A p \in Pid : pc[p] = "none"
  BY DEF Init
<1>2. \A p \in BuildSh : ~Own(p) /\ ~Acquiring(p)
  BY <1>1, BuildShFacts DEF Own, Acquiring, At
<1>3. \A r \in Run : PB(r) = "none"
  BY <1>1, PidFacts DEF PB
<1> QED
  BY <1>2, <1>3 DEF LocksOK, HasLock, SetAside, InTurn

(* A step of p that does not bring back or lose what another set aside.    *)
LEMMA AsideKept ==
  ASSUME LocksOK, NEW p \in BuildSh, Moves(p), UNCHANGED disabled, pc'[p] # "toolchain"
  PROVE  \A r \in Run : SetAside(r)'
<1> SUFFICES ASSUME NEW r \in Run, PB(r)' = "toolchain" PROVE disabled'[triple'[r]] = B(r)
  BY DEF SetAside
<1>1. B(r) \in BuildSh /\ B(r) # p
  BY PidFacts DEF PB
<1>2. PB(r) = "toolchain"
  BY <1>1 DEF Moves, PB
<1> QED
  BY <1>2 DEF LocksOK, SetAside, Moves

LEMMA LocksWaitFor ==
  ASSUME TypeOK, LocksOK, NEW p \in BuildSh, ReadLock(p) \/ Wait(p)
  PROVE  LocksOK'
<1>1. Moves(p)
  BY BuildMoves DEF BuildStep
<1>2. p \in Pid
  BY BuildShFacts
<1>3. PICK l \in {"wait", "claim"} : Goto(p, l)
  BY DEF ReadLock, Wait
<1>4. /\ pc[p] \in {"read", "wait"} /\ pc'[p] = l /\ UNCHANGED <<lock, disabled>>
  BY <1>2, <1>3, GotoFacts DEF ReadLock, Wait, At, locks
<1>5. HasLock(p)'
  BY <1>4 DEF HasLock, Own, At
<1>6. \A r \in Run : SetAside(r)'
  BY <1>1, <1>4, AsideKept
<1>7. ASSUME NEW x \in BuildSh \ {p}, Target(x) = Target(p)
      PROVE  /\ ~Acquiring(x)
             /\ Own(x) => pc'[p] \in {"read", "wait"} /\ (pc'[p] = "wait" => lockpid'[p] = x)
  <2>1. Acquiring(p)
    BY <1>4 DEF Acquiring
  <2>2. ~Acquiring(x)
    BY <1>7, <2>1 DEF LocksOK, InTurn
  <2>3. ASSUME Own(x) PROVE pc'[p] = "wait" /\ lockpid'[p] = x
    <3>1. lock[Target(p)] = x /\ Alive(x)
      BY <1>7, <2>3, OwnAlive DEF LocksOK, HasLock
    <3>2. CASE ReadLock(p)
      <4>1. Goto(p, "wait") /\ lockpid' = [lockpid EXCEPT ![p] = x]
        BY <3>1, <3>2 DEF ReadLock, Blocking
      <4> QED
        BY <1>2, <4>1, GotoFacts DEF TypeOK
    <3>3. CASE Wait(p)
      <4>1. At(p, "wait") /\ ~Alive(lockpid[p])
        BY <3>3 DEF Wait, Blocking
      <4>2. lockpid[p] = x
        BY <1>7, <2>1, <2>3, <4>1 DEF LocksOK, InTurn
      <4> QED
        BY <3>1, <4>1, <4>2
    <3> QED
      BY <3>2, <3>3
  <2> QED
    BY <2>2, <2>3
<1>8. ~Own(p)'
  BY <1>4 DEF Own, At
<1> QED
  BY <1>1, <1>4, <1>5, <1>6, <1>7, <1>8, LocksMove

LEMMA LocksTake ==
  ASSUME TypeOK, LocksOK, NEW p \in BuildSh, Truncate(p) \/ WriteLock(p)
  PROVE  LocksOK'
<1>1. Moves(p)
  BY BuildMoves DEF BuildStep
<1>2. p \in Pid /\ Target(p) \in Triple
  BY BuildShFacts, TargetType
<1>3. /\ \/ pc[p] = "claim" /\ pc'[p] = "write"
         \/ pc[p] = "write" /\ pc'[p] = "mktmp" /\ lock'[Target(p)] = p
      /\ UNCHANGED disabled
      /\ \A t \in Triple \ {Target(p)} : lock'[t] = lock[t]
  BY <1>2, GotoFacts DEF Truncate, WriteLock, At, TypeOK
<1>4. ASSUME NEW x \in BuildSh \ {p}, Target(x) = Target(p)
      PROVE  ~Acquiring(x) /\ ~Own(x)
  <2>1. Acquiring(p)
    BY <1>3 DEF Acquiring
  <2>2. InTurn(x, p)
    BY <1>4 DEF LocksOK
  <2> QED
    BY <1>3, <1>4, <2>1, <2>2 DEF InTurn
<1>5. HasLock(p)'
  <2>1. Target(p)' = Target(p)
    BY <1>1 DEF Moves
  <2> QED
    BY <1>3, <2>1 DEF HasLock, Own, At
<1>6. \A r \in Run : SetAside(r)'
  BY <1>1, <1>3, AsideKept
<1>7. ASSUME NEW x \in BuildSh \ {p}, Own(x)
      PROVE  lock'[Target(x)] = lock[Target(x)]
  BY <1>3, <1>4, <1>7, TargetType, BuildShFacts
<1> QED
  BY <1>1, <1>4, <1>5, <1>6, <1>7, LocksMove

(* p goes on with its lock, or without it.                                 *)
LEMMA LocksGoOn ==
  ASSUME LocksOK, NEW p \in BuildSh, Moves(p), UNCHANGED <<lock, disabled>>,
         Own(p)' => Own(p), ~Acquiring(p)', pc'[p] # "toolchain"
  PROVE  LocksOK'
<1>1. HasLock(p)'
  BY DEF LocksOK, HasLock, Moves
<1>2. \A r \in Run : SetAside(r)'
  BY AsideKept
<1>3. ASSUME NEW x \in BuildSh \ {p}, Own(p)', Target(x) = Target(p), Acquiring(x)
      PROVE  pc[x] \in {"read", "wait"} /\ (At(x, "wait") => lockpid[x] = p)
  <2>1. InTurn(p, x)
    BY DEF LocksOK
  <2> QED
    BY <1>3, <2>1 DEF InTurn
<1> QED
  BY <1>1, <1>2, <1>3, LocksMove

LEMMA LocksWork ==
  ASSUME TypeOK, Chains, LocksOK, NEW p \in BuildSh,
         MakeTmp(p) \/ Version(p) \/ Work(p) \/ ToolchainError(p)
  PROVE  LocksOK'
<1>1. Moves(p)
  BY BuildMoves DEF BuildStep
<1>2. p \in Pid
  BY BuildShFacts
<1>3. PICK l \in {"version", "work", "park", "cleanup", "error"} : Goto(p, l)
  BY DEF MakeTmp, Version, Work, ToolchainError
<1>4. UNCHANGED <<lock, disabled>> /\ pc'[p] = l
  BY <1>2, <1>3, GotoFacts DEF MakeTmp, Version, Work, ToolchainError, locks
<1>5. Own(p)' => Own(p)
  <2>1. CASE MakeTmp(p) \/ Version(p) \/ Work(p)
    BY <2>1 DEF MakeTmp, Version, Work, Own, At
  <2>2. CASE ToolchainError(p)
    <3>1. At(p, "toolchain") /\ At(Child(p), "exit 1") /\ Goto(p, "error")
      BY <2>2 DEF ToolchainError
    <3>2. Child(p) # p
      BY <3>1 DEF At
    <3>3. Child(p) \in Pid
      BY BuildShFacts, PidFacts
    <3>4. pc'[p] = "error" /\ pc'[Child(p)] = "exit 1"
      BY <1>2, <3>1, <3>2, <3>3, GotoFacts DEF At
    <3> QED
      BY <3>4 DEF Own, At
  <2> QED
    BY <2>1, <2>2
<1>6. ~Acquiring(p)' /\ pc'[p] # "toolchain"
  BY <1>4 DEF Acquiring
<1> QED
  BY <1>1, <1>4, <1>5, <1>6, LocksGoOn

(* Only the run of a user parks its lock.                                  *)
LEMMA ParksOnly ==
  ASSUME TypeOK, Chains, NEW p \in BuildSh, Park(p) \/ ToolchainOk(p)
  PROVE  \E r \in Run : p = B(r)
<1>1. PICK r \in Run : p = B(r) \/ p = N(r)
  BY BuildShFacts
<1>2. pc[p] \in {"park", "toolchain"}
  BY DEF Park, ToolchainOk, At
<1>3. PN(r) \notin {"park", "toolchain"}
  BY DEF Chains, ChainOK, NLive, Early, Acq, Late, Dead, Ended
<1> QED
  BY <1>1, <1>2, <1>3 DEF PN

LEMMA LocksPark ==
  ASSUME TypeOK, Chains, Apart, LocksOK, NEW p \in BuildSh, Park(p)
  PROVE  LocksOK'
<1>1. Moves(p)
  BY BuildMoves DEF BuildStep
<1>2. PICK r \in Run : p = B(r)
  BY ParksOnly
<1>3. p \in Pid /\ Target(p) \in Triple /\ Target(p) = triple[r]
  BY <1>2, BuildShFacts, TargetType, PidFacts
<1>4. PB(r) = "park" /\ PB(r)' = "toolchain" /\ pc[p] = "park" /\ pc'[p] = "toolchain"
  BY <1>2, CallB DEF Park, At, PB
<1>5. Own(p) /\ ~Own(p)' /\ ~Acquiring(p)'
  BY <1>4 DEF Own, Acquiring, At
<1>6. lock[triple[r]] = p /\ p # NoFile
  BY <1>3, <1>5, FileAssumption DEF LocksOK, HasLock
<1>7. /\ \A t \in Triple \ {triple[r]} : lock'[t] = lock[t] /\ disabled'[t] = disabled[t]
      /\ disabled'[triple[r]] = p
  BY <1>3, <1>6 DEF Park, Parked, TypeOK
<1>8. \A q \in Run : SetAside(q)'
  <2> SUFFICES ASSUME NEW q \in Run, PB(q)' = "toolchain" PROVE disabled'[triple[q]] = B(q)
    BY <1>1 DEF SetAside, Moves
  <2>1. CASE q = r
    BY <1>2, <1>7, <2>1
  <2>2. CASE q # r
    <3>1. PB(q) = "toolchain"
      BY <1>1, <1>2, <2>2, PidFacts, PidsDiffer DEF Moves, PB
    <3>2. triple[q] # triple[r] /\ triple[q] \in Triple
      BY <1>4, <2>2, <3>1 DEF Apart, Parks, BLive, TypeOK
    <3> QED
      BY <1>7, <3>1, <3>2 DEF LocksOK, SetAside
  <2> QED
    BY <2>1, <2>2
<1>9. ASSUME NEW x \in BuildSh \ {p}, Own(x) PROVE lock'[Target(x)] = lock[Target(x)]
  <2>1. lock[Target(x)] = x /\ Target(x) \in Triple
    BY <1>9, TargetType, BuildShFacts DEF LocksOK, HasLock
  <2>2. Target(x) # triple[r]
    BY <1>6, <2>1
  <2> QED
    BY <1>7, <2>1, <2>2
<1>10. HasLock(p)'
  BY <1>5 DEF HasLock
<1> QED
  BY <1>1, <1>5, <1>8, <1>9, <1>10, LocksMove

LEMMA LocksUnpark ==
  ASSUME TypeOK, Chains, Apart, LocksOK, NEW p \in BuildSh, ToolchainOk(p)
  PROVE  LocksOK'
<1>1. Moves(p)
  BY BuildMoves DEF BuildStep
<1>2. PICK r \in Run : p = B(r)
  BY ParksOnly
<1>3. p \in Pid /\ Target(p) \in Triple /\ Target(p) = triple[r]
  BY <1>2, BuildShFacts, TargetType, PidFacts
<1>4. PB(r) = "toolchain" /\ PT(r) = "exit 0" /\ pc'[p] = "work"
  BY <1>2, <1>3, PidFacts, GotoFacts DEF ToolchainOk, At, PB, PT
<1>5. disabled[triple[r]] = p /\ p # NoFile
  BY <1>2, <1>3, <1>4, FileAssumption DEF LocksOK, SetAside
<1>6. /\ \A t \in Triple \ {triple[r]} : lock'[t] = lock[t] /\ disabled'[t] = disabled[t]
      /\ lock'[triple[r]] = p
  BY <1>3, <1>5 DEF ToolchainOk, Unparked, TypeOK
<1>7. ASSUME NEW x \in BuildSh \ {p}, Own(x) \/ Acquiring(x) PROVE Target(x) # Target(p)
  <2>1. Alive(x)
    BY <1>7, OwnAlive
  <2>2. Parks(r)
    BY <1>4 DEF Parks
  <2> QED
    BY <1>2, <1>3, <1>4, <2>1, <2>2, ParkedAlone
<1>8. \A q \in Run : SetAside(q)'
  <2> SUFFICES ASSUME NEW q \in Run, PB(q)' = "toolchain" PROVE disabled'[triple[q]] = B(q)
    BY <1>1 DEF SetAside, Moves
  <2>1. q # r
    BY <1>2, <1>4 DEF PB
  <2>2. PB(q) = "toolchain"
    BY <1>1, <1>2, <2>1, PidFacts, PidsDiffer DEF Moves, PB
  <2>3. triple[q] # triple[r] /\ triple[q] \in Triple
    BY <1>4, <2>1, <2>2 DEF Apart, Parks, BLive, TypeOK
  <2> QED
    BY <1>6, <2>2, <2>3 DEF LocksOK, SetAside
<1>9. ASSUME NEW x \in BuildSh \ {p}, Own(x) PROVE lock'[Target(x)] = lock[Target(x)]
  BY <1>3, <1>6, <1>7, <1>9, TargetType, BuildShFacts
<1>10. HasLock(p)'
  BY <1>1, <1>3, <1>6 DEF HasLock, Moves
<1>11. ~Acquiring(p)'
  BY <1>4 DEF Acquiring
<1> QED
  BY <1>1, <1>7, <1>8, <1>9, <1>10, <1>11, LocksMove

(* What p removes on its way out is its own, or nobody's.                  *)
LEMMA CleanupAlone ==
  ASSUME TypeOK, Chains, Apart, LocksOK, NEW p \in BuildSh, Cleanup(p),
         NEW x \in BuildSh \ {p}, Own(x)
  PROVE  Target(x) # Target(p)
<1>1. pc[p] \in {"cleanup", "error"}
  BY DEF Cleanup
<1>2. CASE Own(p)
  BY <1>2 DEF LocksOK, HasLock
<1>3. CASE ~Own(p)
  <2>1. PICK r \in Run : p = B(r) \/ p = N(r)
    BY BuildShFacts
  <2>2. p = B(r) /\ PB(r) = "error" /\ PT(r) = "exit 1"
    BY <1>1, <1>3, <2>1, PidFacts DEF Own, At, PB, PT
  <2>3. Parks(r) /\ Target(p) = triple[r]
    BY <2>2, PidFacts DEF Parks
  <2> QED
    BY <2>2, <2>3, OwnAlive, ParkedAlone
<1> QED
  BY <1>2, <1>3

LEMMA LocksCleanup ==
  ASSUME TypeOK, Chains, Apart, LocksOK, NEW p \in BuildSh, Cleanup(p)
  PROVE  LocksOK'
<1>1. Moves(p)
  BY BuildMoves DEF BuildStep
<1>2. p \in Pid /\ Target(p) \in Triple
  BY BuildShFacts, TargetType
<1>3. /\ pc'[p] \in {"exit 0", "exit 1"} /\ UNCHANGED disabled
      /\ \A t \in Triple \ {Target(p)} : lock'[t] = lock[t]
  BY <1>2, GotoFacts DEF Cleanup, TypeOK
<1>4. ~Own(p)' /\ ~Acquiring(p)'
  BY <1>3 DEF Own, Acquiring, At
<1>5. ASSUME NEW x \in BuildSh \ {p}, Own(x) PROVE lock'[Target(x)] = lock[Target(x)]
  BY <1>3, <1>5, CleanupAlone, TargetType, BuildShFacts
<1>6. \A r \in Run : SetAside(r)'
  BY <1>1, <1>3, AsideKept
<1>7. HasLock(p)'
  BY <1>4 DEF HasLock
<1> QED
  BY <1>1, <1>4, <1>5, <1>6, <1>7, LocksMove

LEMMA LocksBuild ==
  ASSUME TypeOK, Chains, Apart, LocksOK, NEW p \in BuildSh, BuildStep(p)
  PROVE  LocksOK'
BY LocksWaitFor, LocksTake, LocksWork, LocksPark, LocksUnpark, LocksCleanup DEF BuildStep
(* A build.sh begins.                                                      *)
LEMMA LocksEnter ==
  ASSUME LocksOK, NEW p \in BuildSh, Moves(p), UNCHANGED <<lock, disabled>>, pc'[p] = "read",
         \A x \in BuildSh \ {p} : Target(x) = Target(p) => ~Acquiring(x)
  PROVE  LocksOK'
<1>1. ~Own(p)' /\ HasLock(p)'
  BY DEF HasLock, Own, At
<1>2. \A r \in Run : SetAside(r)'
  BY AsideKept
<1> QED
  BY <1>1, <1>2, LocksMove

(* Nothing of a build.sh changes but that it is killed.                    *)
Stays == /\ UNCHANGED <<triple, lock, disabled>>
         /\ \A x \in BuildSh : /\ pc'[x] = pc[x] \/ (Alive(x) /\ pc'[x] = "killed")
                               /\ lockpid'[x] = lockpid[x]
                               /\ Own(x)' => Own(x)
         /\ \A q \in Run : PB(q)' = "toolchain" => PN(q)' = PN(q)

LEMMA LocksStay == ASSUME LocksOK, Stays PROVE LocksOK'
<1>1. \A x \in BuildSh : /\ Target(x)' = Target(x)
                         /\ Acquiring(x)' => Acquiring(x) /\ pc'[x] = pc[x]
  BY DEF Stays, Target, Acquiring
<1>2. ASSUME NEW x \in BuildSh PROVE HasLock(x)'
  BY <1>1 DEF LocksOK, HasLock, Stays
<1>3. ASSUME NEW r \in Run PROVE SetAside(r)'
  <2>1. PB(r)' = "toolchain" => PB(r) = "toolchain"
    BY PidFacts DEF Stays, PB
  <2> QED
    BY <2>1 DEF LocksOK, SetAside, Stays
<1>4. ASSUME NEW x \in BuildSh, NEW y \in BuildSh, x # y PROVE InTurn(x, y)'
  <2>1. InTurn(x, y)
    BY <1>4 DEF LocksOK
  <2> QED
    BY <1>1, <2>1 DEF InTurn, Stays, At
<1> QED
  BY <1>2, <1>3, <1>4 DEF LocksOK

LEMMA StaysStart ==
  ASSUME TypeOK, NEW r \in Run, Start(r), kind[r] = "toolchain"
  PROVE  Stays
<1>1. Goto(T(r), "t read") /\ UNCHANGED <<triple, lock, disabled, lockpid>> /\ PT(r) = "none"
  BY DEF Start, user, locks, T, PT, Role
<1>2. ASSUME NEW x \in BuildSh PROVE pc'[x] = pc[x] /\ (Own(x)' => Own(x))
  <2>1. PICK q \in Run : x = B(q) \/ x = N(q)
    BY BuildShFacts
  <2>2. x # T(r) /\ x \in Pid /\ Child(x) \in Pid
    BY <2>1, PidFacts, PidsDiffer
  <2>3. pc'[x] = pc[x] /\ (pc'[Child(x)] = pc[Child(x)] \/ pc[Child(x)] = "none")
    <3>1. \A y \in Pid \ {T(r)} : pc'[y] = pc[y]
      BY <1>1, GotoFacts, PidFacts
    <3>2. CASE Child(x) = T(r)
      BY <1>1, <2>2, <3>1, <3>2 DEF PT
    <3>3. CASE Child(x) # T(r)
      BY <2>2, <3>1, <3>3
    <3> QED
      BY <3>2, <3>3
  <2> QED
    BY <2>3 DEF Own, At
<1> QED
  BY <1>1, <1>2, PidFacts DEF Stays, PN

LEMMA StaysToolchain ==
  ASSUME TypeOK, NEW r \in Run, ToolchainStep(T(r)), ~TBuild(T(r))
  PROVE  Stays
<1>1. /\ \E l : Goto(T(r), l)
      /\ UNCHANGED <<triple, lock, disabled>> /\ PT(r) # "exit 1"
      /\ UNCHANGED lockpid \/ \E f : lockpid' = [lockpid EXCEPT ![T(r)] = f]
  <2> USE DEF user, locks, At, PT
  <2>1. CASE TRead(T(r))
    <3>1. \E l : Goto(T(r), l)
      BY <2>1 DEF TRead
    <3>2. UNCHANGED lockpid \/ \E f : lockpid' = [lockpid EXCEPT ![T(r)] = f]
      BY <2>1 DEF TRead
    <3> QED
      BY <2>1, <3>1, <3>2 DEF TRead
  <2>2. CASE TWait(T(r)) \/ TTruncate(T(r)) \/ TWrite(T(r)) \/ TSkip(T(r)) \/ TRemove(T(r))
    BY <2>2 DEF TWait, TTruncate, TWrite, TSkip, TRemove
  <2>3. CASE TFail(T(r)) \/ TNestedOk(T(r)) \/ TInstall(T(r)) \/ TCopy(T(r)) \/ TUnlock(T(r))
    BY <2>3 DEF TFail, TNestedOk, TInstall, TCopy, TUnlock
  <2> QED
    BY <2>1, <2>2, <2>3 DEF ToolchainStep
<1>2. ASSUME NEW x \in BuildSh
      PROVE  pc'[x] = pc[x] /\ lockpid'[x] = lockpid[x] /\ (Own(x)' => Own(x))
  <2>1. PICK q \in Run : x = B(q) \/ x = N(q)
    BY BuildShFacts
  <2>2. x # T(r) /\ x \in Pid /\ Child(x) \in Pid /\ T(r) \in Pid
    BY <2>1, PidFacts, PidsDiffer
  <2>3. pc'[x] = pc[x] /\ (pc'[Child(x)] = pc[Child(x)] \/ pc[Child(x)] # "exit 1")
    BY <1>1, <2>2, GotoFacts DEF PT
  <2>4. lockpid'[x] = lockpid[x]
    BY <1>1, <2>2 DEF TypeOK
  <2> QED
    BY <2>3, <2>4 DEF Own, At
<1> QED
  BY <1>1, <1>2, PidFacts DEF Stays, PN

LEMMA StaysInterrupt ==
  ASSUME TypeOK, Chains, NEW r \in Run, Interrupt(r)
  PROVE  Stays
<1>1. /\ UNCHANGED <<triple, lock, disabled, lockpid>>
      /\ \A p \in Pid : pc'[p] = IF p[1] = r /\ Alive(p) THEN "killed" ELSE pc[p]
  BY DEF Interrupt, user, locks
<1>2. ASSUME NEW x \in BuildSh
      PROVE  (pc'[x] = pc[x] \/ (Alive(x) /\ pc'[x] = "killed")) /\ (Own(x)' => Own(x))
  <2>1. x \in Pid /\ Child(x) \in Pid
    BY BuildShFacts, PidFacts
  <2>2. pc'[x] = pc[x] \/ (Alive(x) /\ pc'[x] = "killed")
    BY <1>1, <2>1
  <2>3. pc[Child(x)] = "exit 1" => pc'[Child(x)] = "exit 1"
    BY <1>1, <2>1 DEF Alive, Ended
  <2> QED
    BY <2>2, <2>3 DEF Own, At
<1>3. ASSUME NEW q \in Run, PB(q)' = "toolchain" PROVE PN(q)' = PN(q)
  <2>1. KillView(r)
    BY KillFacts
  <2>2. q # r
    BY <1>3, <2>1 DEF KillView, BLive
  <2> QED
    BY <2>1, <2>2 DEF KillView, Frame
<1> QED
  BY <1>1, <1>2, <1>3 DEF Stays

LEMMA MovesNested ==
  ASSUME TypeOK, NEW r \in Run, TBuild(T(r))
  PROVE  Moves(N(r)) /\ pc'[N(r)] = "read" /\ PT(r) = "t build"
<1>1. /\ Call(T(r), "t nested", "read") /\ UNCHANGED <<triple, lockpid>>
      /\ PT(r) = "t build"
  BY DEF TBuild, At, PT, user
<1>2. /\ pc'[T(r)] = "t nested" /\ pc'[N(r)] = "read"
      /\ \A x \in Pid \ {T(r), N(r)} : pc'[x] = pc[x]
  <2>1. T(r) \in Pid /\ Child(T(r)) = N(r) /\ N(r) \in Pid /\ T(r) # N(r)
    BY PidFacts, PidsDiffer
  <2> QED
    BY <1>1, <2>1, CallFacts
<1>3. ASSUME NEW x \in BuildSh \ {N(r)} PROVE pc'[x] = pc[x] /\ (Own(x)' <=> Own(x))
  <2>1. N(r) \in BuildSh /\ Child(N(r)) = N(r)
    BY PidFacts
  <2>2. x # T(r) /\ x \in Pid
    BY BuildShFacts, PidFacts, PidsDiffer
  <2>3. Child(x) \in Pid /\ Child(x) # N(r)
    BY <2>1, ChildFacts
  <2>4. /\ pc'[x] = pc[x]
        /\ pc'[Child(x)] = "exit 1" <=> pc[Child(x)] = "exit 1"
    BY <1>1, <1>2, <2>2, <2>3 DEF PT
  <2> QED
    BY <2>4 DEF Own, At
<1>4. \A x \in BuildSh : Target(x)' = Target(x)
  BY <1>1 DEF Target
<1> QED
  BY <1>1, <1>2, <1>3, <1>4 DEF Moves

LEMMA LocksNested ==
  ASSUME TypeOK, Chains, OneRebuilds, Apart, LocksOK, NEW r \in Run, TBuild(T(r))
  PROVE  LocksOK'
<1>1. Moves(N(r)) /\ pc'[N(r)] = "read" /\ PT(r) = "t build" /\ N(r) \in BuildSh
  BY MovesNested, PidFacts
<1>2. UNCHANGED <<lock, disabled>>
  BY DEF TBuild, locks
<1>3. ASSUME NEW x \in BuildSh \ {N(r)}, Target(x) = Target(N(r)) PROVE ~Acquiring(x)
  <2>1. Target(x) = DefaultTarget
    BY <1>3, PidFacts
  <2>2. CASE Alive(x)
    <3>1. x = B(r) /\ PB(r) = "toolchain"
      BY <1>1, <2>1, <2>2, NestedAlone
    <3> QED
      BY <3>1 DEF Acquiring, PB
  <2> QED
    BY <2>2, OwnAlive
<1> QED
  BY <1>1, <1>2, <1>3, LocksEnter

LEMMA LocksStart ==
  ASSUME TypeOK, LocksOK, orderly, NEW r \in Run, Start(r)
  PROVE  LocksOK'
<1>1. CASE kind[r] = "toolchain"
  BY <1>1, StaysStart, LocksStay
<1>2. CASE kind[r] = "build"
  <2>1. /\ Goto(B(r), "read") /\ MayStart(r)
        /\ UNCHANGED <<triple, lock, disabled, lockpid>>
    BY <1>2 DEF Start, user, locks, B
  <2>2. B(r) \in BuildSh /\ B(r) \in Pid /\ Target(B(r)) = triple[r]
    BY PidFacts
  <2>3. Moves(B(r)) /\ pc'[B(r)] = "read"
    BY <2>1, <2>2, GotoMoves, GotoFacts
  <2>4. \A x \in BuildSh : Target(x) = Target(B(r)) => ~Acquiring(x)
    BY <1>2, <2>1, <2>2 DEF MayStart
  <2> QED
    BY <2>1, <2>2, <2>3, <2>4, LocksEnter
<1> QED
  BY <1>1, <1>2 DEF Start

LEMMA LocksNext ==
  ASSUME TypeOK, Chains, OneRebuilds, Apart, LocksOK, orderly, Next
  PROVE  LocksOK'
<1>1. PICK r \in Run : Start(r) \/ Step(r) \/ Interrupt(r)
  BY DEF Next
<1>2. CASE Step(r)
  <2>1. BuildStep(B(r)) \/ BuildStep(N(r)) \/ ToolchainStep(T(r))
    BY <1>2 DEF Step, B, T, N
  <2> QED
    BY <2>1, PidFacts, LocksBuild, StaysToolchain, LocksStay, LocksNested
<1> QED
  BY <1>1, <1>2, LocksStart, StaysInterrupt, LocksStay

--------------------------------------------------------------------------------
(* The temporary directories.                                              *)

LEMMA TmpInit == ASSUME Init PROVE TmpOK
<1>1. \A p \in Pid : pc[p] = "none"
  BY DEF Init
<1>2. \A p \in BuildSh : ~Own(p)
  BY <1>1, BuildShFacts DEF Own, At
<1>3. \A r \in Run : PB(r) = "none"
  BY <1>1, PidFacts DEF PB
<1> QED
  BY <1>2, <1>3 DEF TmpOK, HasTmp, TmpAside

(* The second branch of HasTmp, of a run.                                  *)
LEMMA HasTmpFacts ==
  ASSUME NEW r \in Run
  PROVE  /\ <<B(r)[1], "nested">> = N(r)
         /\ B(r)[2] = "build" /\ N(r)[2] = "nested"
BY DEF B, N

(* What a step of p must keep.                                             *)
LEMMA TmpMove ==
  ASSUME TmpOK, NEW p \in BuildSh, Moves(p), pc[p] # "exit 0", HasTmp(p)',
         \A x \in BuildSh \ {p} : Own(x) => tmp'[Target(x)] = tmp[Target(x)],
         \A r \in Run : TmpAside(r)'
  PROVE  TmpOK'
<1> SUFFICES ASSUME NEW x \in BuildSh \ {p} PROVE HasTmp(x)'
  BY DEF TmpOK
<1>1. /\ Target(x)' = Target(x) /\ pc'[x] = pc[x] /\ (Own(x)' <=> Own(x))
      /\ Own(x) => tmp'[Target(x)] = tmp[Target(x)]
  BY DEF Moves
<1>2. PICK r \in Run : x = B(r) \/ x = N(r)
  BY BuildShFacts
<1>3. PN(r) = "exit 0" => PN(r)' = "exit 0"
  BY PidFacts DEF Moves, PN
<1>4. At(<<x[1], "nested">>, "exit 0") /\ x[2] = "build" => At(<<x[1], "nested">>, "exit 0")'
  BY <1>2, <1>3, HasTmpFacts DEF At, PN
<1>5. HasTmp(x)
  BY DEF TmpOK
<1> QED
  BY <1>1, <1>4, <1>5 DEF HasTmp, At

LEMMA TmpAsideKept ==
  ASSUME TmpOK, NEW p \in BuildSh, Moves(p), UNCHANGED tmp, pc'[p] # "toolchain",
         pc[p] \notin Ended,
         \A r \in Run : p = N(r) /\ pc[p] \in Working => pc'[p] \in Working
  PROVE  \A r \in Run : TmpAside(r)'
<1> SUFFICES ASSUME NEW r \in Run, PB(r)' = "toolchain" PROVE TmpAside(r)'
  BY DEF TmpAside
<1>1. B(r) \in BuildSh /\ N(r) \in BuildSh /\ B(r) # p
  BY PidFacts DEF PB
<1>2. PB(r) = "toolchain" /\ triple'[r] = triple[r]
  BY <1>1 DEF Moves, PB
<1>3. TmpAside(r)
  BY DEF TmpOK
<1>4. /\ PN(r) \in Working => PN(r)' \in Working
      /\ PN(r) \in Ended => PN(r)' \in Ended
  BY <1>1 DEF Moves, PN
<1> QED
  BY <1>2, <1>3, <1>4 DEF TmpAside

(* p goes on in its directory.                                             *)
LEMMA TmpGoOn ==
  ASSUME TmpOK, NEW p \in BuildSh, Moves(p), UNCHANGED tmp, pc[p] \notin Ended,
         pc'[p] # "toolchain",
         Own(p)' /\ pc'[p] # "mktmp" => Own(p) /\ pc[p] # "mktmp",
         \A r \in Run : p = N(r) /\ pc[p] \in Working => pc'[p] \in Working
  PROVE  TmpOK'
<1>1. \A r \in Run : TmpAside(r)'
  BY TmpAsideKept
<1>2. HasTmp(p)'
  <2>1. PICK r \in Run : p = B(r) \/ p = N(r)
    BY BuildShFacts
  <2>2. p = B(r) => PN(r)' = PN(r)
    BY <2>1, PidFacts, PidsDiffer DEF Moves, PN
  <2>3. At(<<p[1], "nested">>, "exit 0") /\ p[2] = "build" => At(<<p[1], "nested">>, "exit 0")'
    BY <2>1, <2>2, HasTmpFacts DEF At, PN
  <2>4. HasTmp(p) /\ Target(p)' = Target(p)
    BY DEF TmpOK, Moves
  <2> QED
    BY <2>3, <2>4 DEF HasTmp, At
<1>3. pc[p] # "exit 0"
  BY DEF Ended
<1> QED
  BY <1>1, <1>2, <1>3, TmpMove

LEMMA TmpGoes ==
  ASSUME TypeOK, Chains, TmpOK, NEW p \in BuildSh,
         ReadLock(p) \/ Wait(p) \/ Truncate(p) \/ WriteLock(p) \/ Version(p) \/ Work(p)
         \/ ToolchainError(p)
  PROVE  TmpOK'
<1>1. Moves(p) /\ p \in Pid /\ UNCHANGED tmp
  BY BuildMoves, BuildShFacts
     DEF BuildStep, ReadLock, Wait, Truncate, WriteLock, Version, Work, ToolchainError
<1>2. CASE ReadLock(p) \/ Wait(p) \/ Truncate(p) \/ WriteLock(p)
  <2>1. PICK l \in {"wait", "claim", "write", "mktmp"} : Goto(p, l)
    BY <1>2 DEF ReadLock, Wait, Truncate, WriteLock
  <2>2. pc'[p] = l /\ pc[p] \in {"read", "wait", "claim", "write"}
    BY <1>1, <1>2, <2>1, GotoFacts DEF ReadLock, Wait, Truncate, WriteLock, At
  <2>3. pc[p] \notin Ended /\ pc[p] \notin Working /\ pc'[p] # "toolchain"
    BY <2>2 DEF Ended, Working, Late
  <2>4. Own(p)' => pc'[p] = "mktmp"
    BY <2>2 DEF Own, At
  <2> QED
    BY <1>1, <2>3, <2>4, TmpGoOn
<1>3. CASE Version(p) \/ Work(p)
  <2>1. PICK l \in {"work", "park", "cleanup", "error"} : Goto(p, l)
    BY <1>3 DEF Version, Work
  <2>2. pc'[p] = l /\ pc[p] \in {"version", "work"}
    BY <1>1, <1>3, <2>1, GotoFacts DEF Version, Work, At
  <2>3. pc[p] \notin Ended /\ pc'[p] # "toolchain" /\ Own(p) /\ pc[p] # "mktmp"
    BY <2>2 DEF Ended, Own, At
  <2>4. ASSUME NEW r \in Run, p = N(r) PROVE pc'[p] \in Working
    <3>1. p[2] = "nested"
      BY <2>4, HasTmpFacts
    <3>2. Version(p) => Goto(p, "work")
      BY <3>1 DEF Version
    <3>3. Work(p) => l \in {"cleanup", "error"}
      <4>1. Work(p) => \E m \in {"cleanup", "error"} : Goto(p, m)
        BY DEF Work
      <4> QED
        BY <1>1, <2>2, <4>1, GotoFacts
    <3> QED
      BY <1>1, <1>3, <2>2, <3>2, <3>3, GotoFacts DEF Working, Late
  <2> QED
    BY <1>1, <2>3, <2>4, TmpGoOn
<1>4. CASE ToolchainError(p)
  <2>1. At(p, "toolchain") /\ At(Child(p), "exit 1") /\ Goto(p, "error")
    BY <1>4 DEF ToolchainError
  <2>2. Child(p) # p /\ Child(p) \in Pid
    <3>1. Child(p) \in Pid
      BY BuildShFacts, PidFacts
    <3> QED
      BY <2>1, <3>1 DEF At
  <2>3. pc[p] = "toolchain" /\ pc'[p] = "error" /\ pc'[Child(p)] = "exit 1"
    BY <1>1, <2>1, <2>2, GotoFacts DEF At
  <2>4. ~Own(p)' /\ pc'[p] # "toolchain" /\ pc[p] \notin Ended /\ pc[p] \notin Working
    BY <2>3 DEF Own, At, Ended, Working, Late
  <2> QED
    BY <1>1, <2>4, TmpGoOn
<1> QED
  BY <1>2, <1>3, <1>4

LEMMA TmpMake ==
  ASSUME TypeOK, Chains, Apart, LocksOK, TmpOK, NEW p \in BuildSh, MakeTmp(p)
  PROVE  TmpOK'
<1>1. Moves(p) /\ p \in Pid /\ Target(p) \in Triple
  BY BuildMoves, BuildShFacts, TargetType DEF BuildStep
<1>2. /\ pc[p] = "mktmp" /\ pc'[p] = "version" /\ tmp'[Target(p)] = p
      /\ \A t \in Triple \ {Target(p)} : tmp'[t] = tmp[t]
  BY <1>1, GotoFacts DEF MakeTmp, At, TypeOK
<1>3. Own(p) /\ Alive(p)
  BY <1>2, OwnAlive DEF Own
<1>4. HasTmp(p)'
  <2>1. Target(p)' = Target(p)
    BY <1>1 DEF Moves
  <2> QED
    BY <1>2, <2>1 DEF HasTmp
<1>5. ASSUME NEW x \in BuildSh \ {p}, Own(x) PROVE tmp'[Target(x)] = tmp[Target(x)]
  <2>1. Target(x) # Target(p)
    BY <1>3, <1>5 DEF LocksOK, HasLock
  <2> QED
    BY <1>2, <2>1, TargetType, BuildShFacts
<1>6. ASSUME NEW r \in Run PROVE TmpAside(r)'
  <2> SUFFICES ASSUME PB(r)' = "toolchain" PROVE TmpAside(r)'
    BY DEF TmpAside
  <2>1. B(r) \in BuildSh /\ N(r) \in BuildSh /\ B(r) # p
    BY <1>2, PidFacts DEF PB
  <2>2. PB(r) = "toolchain" /\ triple'[r] = triple[r] /\ TmpAside(r) /\ triple[r] \in Triple
    BY <1>1, <2>1 DEF Moves, PB, TmpOK, TypeOK
  <2>3. CASE Target(p) = triple[r]
    <3>1. p = N(r)
      BY <1>3, <2>1, <2>2, <2>3, ParkedAlone DEF Parks
    <3>2. triple[r] = DefaultTarget /\ PN(r)' = "version" /\ tmp'[DefaultTarget] = N(r)
      BY <1>2, <2>3, <3>1, PidFacts DEF PN
    <3> QED
      BY <2>2, <3>2 DEF TmpAside, Working
  <2>4. CASE Target(p) # triple[r]
    <3>1. tmp'[triple[r]] = tmp[triple[r]]
      BY <1>2, <2>2, <2>4
    <3>2. triple[r] = DefaultTarget => PN(r)' = PN(r)
      <4>1. triple[r] = DefaultTarget => N(r) # p
        BY <2>4, PidFacts
      <4> QED
        BY <1>1, <2>1, <4>1 DEF Moves, PN
    <3> QED
      BY <2>2, <3>1, <3>2 DEF TmpAside
  <2> QED
    BY <2>3, <2>4
<1>7. pc[p] # "exit 0"
  BY <1>2
<1> QED
  BY <1>1, <1>4, <1>5, <1>6, <1>7, TmpMove

LEMMA TmpCleanup ==
  ASSUME TypeOK, Chains, Apart, LocksOK, TmpOK, NEW p \in BuildSh, Cleanup(p)
  PROVE  TmpOK'
<1>1. Moves(p) /\ p \in Pid /\ Target(p) \in Triple
  BY BuildMoves, BuildShFacts, TargetType DEF BuildStep
<1>2. /\ pc[p] \in {"cleanup", "error"} /\ pc'[p] \in {"exit 0", "exit 1"}
      /\ tmp'[Target(p)] = NoFile
      /\ \A t \in Triple \ {Target(p)} : tmp'[t] = tmp[t]
  BY <1>1, GotoFacts DEF Cleanup, TmpRemoved, TypeOK
<1>3. Alive(p) /\ ~Own(p)'
  BY <1>1, <1>2 DEF Alive, Own, At, Ended
<1>4. HasTmp(p)'
  BY <1>3 DEF HasTmp
<1>5. ASSUME NEW x \in BuildSh \ {p}, Own(x) PROVE tmp'[Target(x)] = tmp[Target(x)]
  BY <1>2, <1>5, CleanupAlone, TargetType, BuildShFacts
<1>6. ASSUME NEW r \in Run PROVE TmpAside(r)'
  <2> SUFFICES ASSUME PB(r)' = "toolchain" PROVE TmpAside(r)'
    BY DEF TmpAside
  <2>1. B(r) \in BuildSh /\ N(r) \in BuildSh /\ B(r) # p
    BY <1>2, PidFacts DEF PB
  <2>2. PB(r) = "toolchain" /\ triple'[r] = triple[r] /\ TmpAside(r) /\ triple[r] \in Triple
    BY <1>1, <2>1 DEF Moves, PB, TmpOK, TypeOK
  <2>3. CASE Target(p) = triple[r]
    <3>1. p = N(r)
      BY <1>3, <2>1, <2>2, <2>3, ParkedAlone DEF Parks
    <3>2. triple[r] = DefaultTarget /\ PN(r)' \in Ended /\ tmp'[DefaultTarget] = NoFile
      BY <1>2, <2>3, <3>1, PidFacts DEF PN, Ended
    <3> QED
      BY <2>2, <3>2 DEF TmpAside
  <2>4. CASE Target(p) # triple[r]
    <3>1. tmp'[triple[r]] = tmp[triple[r]]
      BY <1>2, <2>2, <2>4
    <3>2. triple[r] = DefaultTarget => PN(r)' = PN(r)
      <4>1. triple[r] = DefaultTarget => N(r) # p
        BY <2>4, PidFacts
      <4> QED
        BY <1>1, <2>1, <4>1 DEF Moves, PN
    <3> QED
      BY <2>2, <3>1, <3>2 DEF TmpAside
  <2> QED
    BY <2>3, <2>4
<1>7. pc[p] # "exit 0"
  BY <1>2
<1> QED
  BY <1>1, <1>4, <1>5, <1>6, <1>7, TmpMove
LEMMA TmpPark ==
  ASSUME TypeOK, Chains, TmpOK, NEW p \in BuildSh, Park(p)
  PROVE  TmpOK'
<1>1. Moves(p) /\ UNCHANGED tmp
  BY BuildMoves DEF BuildStep, Park
<1>2. PICK r \in Run : p = B(r)
  BY ParksOnly
<1>3. /\ PB(r) = "park" /\ PB(r)' = "toolchain" /\ PN(r)' = PN(r)
      /\ pc[p] = "park" /\ pc'[p] = "toolchain"
  BY <1>2, CallB DEF Park, At, PB, PN
<1>4. PN(r) = "none"
  BY <1>3 DEF Chains, ChainOK
<1>5. HasTmp(p)'
  BY <1>3 DEF HasTmp, Own, At
<1>6. tmp[triple[r]] = B(r)
  <2>1. Own(p) /\ ~At(p, "mktmp") /\ HasTmp(p)
    BY <1>3 DEF Own, At, TmpOK
  <2>2. ~At(<<p[1], "nested">>, "exit 0")
    BY <1>2, <1>4, HasTmpFacts DEF At, PN
  <2> QED
    BY <1>2, <2>1, <2>2, PidFacts DEF HasTmp
<1>7. ASSUME NEW q \in Run PROVE TmpAside(q)'
  <2>1. CASE q = r
    BY <1>1, <1>6, <2>1 DEF TmpAside, Moves
  <2>2. CASE q # r
    <3>1. PB(q)' = PB(q) /\ PN(q)' = PN(q)
      BY <1>1, <1>2, <2>2, PidFacts, PidsDiffer DEF Moves, PB, PN
    <3>2. TmpAside(q)
      BY DEF TmpOK
    <3> QED
      BY <1>1, <3>1, <3>2 DEF TmpAside, Moves
  <2> QED
    BY <2>1, <2>2
<1>8. pc[p] # "exit 0"
  BY <1>3
<1> QED
  BY <1>1, <1>5, <1>7, <1>8, TmpMove

LEMMA TmpUnpark ==
  ASSUME TypeOK, Chains, TmpOK, NEW p \in BuildSh, ToolchainOk(p)
  PROVE  TmpOK'
<1>1. Moves(p) /\ UNCHANGED tmp
  BY BuildMoves DEF BuildStep, ToolchainOk
<1>2. PICK r \in Run : p = B(r)
  BY ParksOnly
<1>3. p \in Pid /\ Target(p) = triple[r] /\ N(r) \in BuildSh /\ N(r) # p
  BY <1>2, PidFacts, PidsDiffer
<1>4. PB(r) = "toolchain" /\ PT(r) = "exit 0" /\ pc[p] = "toolchain" /\ pc'[p] = "work"
  BY <1>2, <1>3, PidFacts, GotoFacts DEF ToolchainOk, At, PB, PT
<1>5. PN(r) \in {"none", "exit 0"} /\ PN(r)' = PN(r)
  BY <1>1, <1>3, <1>4 DEF Chains, ChainOK, Moves, PN
<1>6. \/ tmp[Target(p)] = p
      \/ Target(p) = DefaultTarget /\ PN(r) = "exit 0" /\ tmp[Target(p)] = NoFile
  <2>1. TmpAside(r)
    BY DEF TmpOK
  <2>2. PN(r) \notin Working
    BY <1>5 DEF Working, Late
  <2>3. PN(r) \in Ended => PN(r) = "exit 0"
    BY <1>5 DEF Ended
  <2> QED
    BY <1>2, <1>3, <1>4, <2>1, <2>2, <2>3 DEF TmpAside
<1>7. HasTmp(p)'
  <2>1. Target(p)' = Target(p)
    BY <1>1 DEF Moves
  <2>2. PN(r) = "exit 0" => At(<<p[1], "nested">>, "exit 0")' /\ p[2] = "build"
    BY <1>2, <1>5, HasTmpFacts DEF At, PN
  <2> QED
    BY <1>1, <1>6, <2>1, <2>2 DEF HasTmp
<1>8. \A q \in Run : p = N(q) /\ pc[p] \in Working => pc'[p] \in Working
  BY <1>2, PidsDiffer
<1>9. pc[p] \notin Ended /\ pc'[p] # "toolchain" /\ pc[p] # "exit 0"
  BY <1>4 DEF Ended
<1>10. \A q \in Run : TmpAside(q)'
  BY <1>1, <1>8, <1>9, TmpAsideKept
<1> QED
  BY <1>1, <1>7, <1>9, <1>10, TmpMove

LEMMA TmpBuild ==
  ASSUME TypeOK, Chains, Apart, LocksOK, TmpOK, NEW p \in BuildSh, BuildStep(p)
  PROVE  TmpOK'
BY TmpGoes, TmpMake, TmpCleanup, TmpPark, TmpUnpark DEF BuildStep

LEMMA TmpStay == ASSUME TmpOK, Stays, UNCHANGED tmp PROVE TmpOK'
<1>1. ASSUME NEW x \in BuildSh PROVE HasTmp(x)'
  <2>1. PICK r \in Run : x = B(r) \/ x = N(r)
    BY BuildShFacts
  <2>2. PN(r) = "exit 0" => PN(r)' = "exit 0"
    BY PidFacts DEF Stays, PN, Alive, Ended
  <2>3. At(<<x[1], "nested">>, "exit 0") => At(<<x[1], "nested">>, "exit 0")'
    <3>1. x[1] = r
      BY <2>1 DEF B, N
    <3> QED
      BY <2>2, <3>1 DEF At, PN, N
  <2>4. HasTmp(x) /\ Target(x)' = Target(x) /\ (Own(x)' => Own(x))
    BY DEF TmpOK, Stays, Target
  <2>5. Own(x)' /\ pc'[x] # "mktmp" => pc[x] # "mktmp"
    BY DEF Stays, Own, At
  <2> QED
    BY <2>3, <2>4, <2>5 DEF HasTmp, At
<1>2. ASSUME NEW r \in Run PROVE TmpAside(r)'
  <2>1. PB(r)' = "toolchain" => PB(r) = "toolchain" /\ PN(r)' = PN(r)
    BY PidFacts DEF Stays, PB
  <2> QED
    BY <2>1 DEF TmpOK, TmpAside, Stays
<1> QED
  BY <1>1, <1>2 DEF TmpOK

(* A build.sh begins. *)
LEMMA TmpEnter ==
  ASSUME TmpOK, NEW p \in BuildSh, Moves(p), UNCHANGED tmp, pc[p] = "none", pc'[p] = "read"
  PROVE  TmpOK'
<1>1. /\ pc[p] \notin Ended /\ pc[p] \notin Working /\ pc'[p] # "toolchain"
      /\ ~Own(p)'
  BY DEF Ended, Working, Late, Own, At
<1> QED
  BY <1>1, TmpGoOn

LEMMA TmpNext ==
  ASSUME TypeOK, Chains, Apart, LocksOK, TmpOK, Next
  PROVE  TmpOK'
<1>1. PICK r \in Run : Start(r) \/ Step(r) \/ Interrupt(r)
  BY DEF Next
<1>2. B(r) \in BuildSh /\ N(r) \in BuildSh /\ B(r) \in Pid /\ N(r) \in Pid
  BY PidFacts
<1>3. CASE Start(r)
  <2>1. UNCHANGED tmp
    BY <1>3 DEF Start
  <2>2. CASE kind[r] = "toolchain"
    BY <1>3, <2>1, <2>2, StaysStart, TmpStay
  <2>3. CASE kind[r] = "build"
    <3>1. /\ Goto(B(r), "read") /\ pc[B(r)] = "none"
          /\ UNCHANGED <<triple, lockpid>>
      BY <1>3, <2>3 DEF Start, user, B, Role
    <3>2. Moves(B(r)) /\ pc'[B(r)] = "read"
      BY <1>2, <3>1, GotoMoves, GotoFacts
    <3> QED
      BY <1>2, <2>1, <3>1, <3>2, TmpEnter
  <2> QED
    BY <1>3, <2>2, <2>3 DEF Start
<1>4. CASE BuildStep(B(r)) \/ BuildStep(N(r))
  BY <1>2, <1>4, TmpBuild
<1>5. CASE ToolchainStep(T(r))
  <2>1. UNCHANGED tmp
    BY <1>5 DEF ToolchainStep, TRead, TWait, TTruncate, TWrite, TSkip, TRemove, TBuild, TFail,
                TNestedOk, TInstall, TCopy, TUnlock
  <2>2. CASE TBuild(T(r))
    <3>1. Moves(N(r)) /\ pc'[N(r)] = "read" /\ PT(r) = "t build"
      BY <2>2, MovesNested
    <3>2. pc[N(r)] = "none"
      BY <3>1 DEF Chains, ChainOK, PN
    <3> QED
      BY <1>2, <2>1, <3>1, <3>2, TmpEnter
  <2> QED
    BY <1>5, <2>1, <2>2, StaysToolchain, TmpStay
<1>6. CASE Interrupt(r)
  <2>1. UNCHANGED tmp
    BY <1>6 DEF Interrupt
  <2> QED
    BY <1>6, <2>1, StaysInterrupt, TmpStay
<1>7. Step(r) => BuildStep(B(r)) \/ BuildStep(N(r)) \/ ToolchainStep(T(r))
  BY DEF Step, B, T, N
<1> QED
  BY <1>1, <1>3, <1>4, <1>5, <1>6, <1>7

--------------------------------------------------------------------------------
(* The invariant.                                                          *)

LEMMA RebuildsInit == ASSUME Init PROVE OneRebuilds
<1>1. \A r \in Run : PT(r) = "none"
  BY PidFacts DEF Init, PT
<1> QED
  BY <1>1 DEF OneRebuilds, THolds, TInside

LEMMA LockInvInit == ASSUME Init PROVE LockInv
BY TypeInit, ChainsInit, DecidesInit, RebuildsInit, ToolsInit, ApartInit, LocksInit, TmpInit
   DEF LockInv

LEMMA OrderlyNext ==
  ASSUME TypeOK, Chains, orderly, Next,
         OneDecides, OneRebuilds, ToolsOK, Apart, LocksOK, TmpOK
  PROVE  OneDecides' /\ OneRebuilds' /\ ToolsOK' /\ Apart' /\ LocksOK' /\ TmpOK'
<1>1. PICK r \in Run : BView(r) \/ NView(r) \/ TView(r) \/ StartView(r) \/ KillView(r)
  BY Views
<1>2. OneDecides' /\ OneRebuilds'
  BY <1>1, DecidesNext, RebuildsNext
<1>3. ToolsOK'
  BY <1>1, ToolsNext
<1>4. Apart'
  BY <1>1, ApartNext
<1>5. LocksOK' /\ TmpOK'
  BY LocksNext, TmpNext
<1> QED
  BY <1>2, <1>3, <1>4, <1>5

LEMMA InvStutter == ASSUME LockInv, UNCHANGED vars PROVE LockInv'
<1>1. UNCHANGED <<orderly, kind, triple, pc, lockpid, lock, disabled, toolchainlock, tmp,
                  current, tools, crashes>>
  BY DEF vars, user, locks
<1>2. TypeOK' /\ Chains'
  BY TypeNext, ChainsNext DEF LockInv
<1> SUFFICES ASSUME orderly
             PROVE  OneDecides' /\ OneRebuilds' /\ ToolsOK' /\ Apart' /\ LocksOK' /\ TmpOK'
  BY <1>1, <1>2 DEF LockInv
<1>3. OneDecides' /\ OneRebuilds' /\ ToolsOK' /\ Apart'
  BY <1>1 DEF LockInv, OneDecides, Deciding, Fresh, OneRebuilds, ToolsOK, Settled,
              Apart, Parks, Rebuilds, PB, PT
<1>4. Stays /\ UNCHANGED tmp
  BY <1>1 DEF Stays, Own, At, PB, PN
<1>5. LocksOK' /\ TmpOK'
  BY <1>4, LocksStay, TmpStay DEF LockInv
<1> QED
  BY <1>3, <1>5

LEMMA OrderlyStays == ASSUME TypeOK, Chains, Next PROVE UNCHANGED orderly
<1>1. PICK r \in Run : BView(r) \/ NView(r) \/ TView(r) \/ StartView(r) \/ KillView(r)
  BY Views
<1> QED
  BY <1>1 DEF BView, NView, TView, StartView, KillView, Still, TReadView, TWaitView, TTakeView,
              TSkipView, TRemoveView, TBuildView, TFailView, TEndView, TMove

LEMMA LockInvNext == ASSUME LockInv, [Next]_vars PROVE LockInv'
<1>1. TypeOK' /\ Chains'
  BY TypeNext, ChainsNext DEF LockInv
<1>2. CASE Next
  <2>1. UNCHANGED orderly
    BY <1>2, OrderlyStays DEF LockInv
  <2> QED
    BY <1>1, <1>2, <2>1, OrderlyNext DEF LockInv
<1>3. CASE UNCHANGED vars
  BY <1>3, InvStutter
<1> QED
  BY <1>2, <1>3

LEMMA SpecInv == Spec => []LockInv
<1>1. Init => LockInv
  BY LockInvInit
<1>2. LockInv /\ [Next]_vars => LockInv'
  BY LockInvNext
<1> QED
  BY <1>1, <1>2, PTL DEF Spec

--------------------------------------------------------------------------------
(* What follows.                                                           *)

(* The variables of both scripts keep their types.                         *)
THEOREM TypeCorrect == Spec => []TypeOK
<1>1. LockInv => TypeOK
  BY DEF LockInv
<1> QED
  BY <1>1, SpecInv, PTL

(* Of the build.sh that users start in order, and those that a rebuild of  *)
(* the toolchain starts, no two work on one target at once, however many   *)
(* there are and whoever is interrupted.                                   *)
THEOREM MutualExclusion == Spec => []Exclusive
<1>1. LockInv => Exclusive
  <2> SUFFICES ASSUME LockInv, orderly, NEW p \in BuildSh, NEW q \in BuildSh,
                      At(p, "work"), At(q, "work"), Target(p) = Target(q)
               PROVE  p = q
    BY DEF Exclusive
  <2>1. Own(p) /\ Own(q)
    BY DEF Own, At
  <2> QED
    BY <2>1 DEF LockInv, LocksOK, HasLock
<1> QED
  BY <1>1, SpecInv, PTL

(* A build.sh that works has its lock in place, also after the lock was    *)
(* moved out of the way of a rebuild and back.                             *)
THEOREM LockStays == Spec => []LockSeen
<1>1. LockInv => LockSeen
  <2> SUFFICES ASSUME LockInv, orderly, NEW p \in BuildSh, At(p, "work")
               PROVE  lock[Target(p)] = p
    BY DEF LockSeen
  <2>1. Own(p)
    BY DEF Own, At
  <2> QED
    BY <2>1 DEF LockInv, LocksOK, HasLock
<1> QED
  BY <1>1, SpecInv, PTL

(* Nobody removes or takes the $_TMP a build.sh works in, except that a    *)
(* run for the default target loses its own to its nested build.           *)
THEOREM TmpStays == Spec => []TmpOwn
<1>1. LockInv => TmpOwn
  <2> SUFFICES ASSUME LockInv, orderly, NEW p \in BuildSh, At(p, "work")
               PROVE  \/ tmp[Target(p)] = p
                      \/ /\ p[2] = "build" /\ Target(p) = DefaultTarget
                         /\ At(<<p[1], "nested">>, "exit 0")
                         /\ tmp[Target(p)] = NoFile
    BY DEF TmpOwn
  <2>1. Own(p) /\ ~At(p, "mktmp")
    BY DEF Own, At
  <2> QED
    BY <2>1 DEF LockInv, TmpOK, HasTmp
<1> QED
  BY <1>1, SpecInv, PTL

(* A version file means a complete toolchain, and no package is compiled   *)
(* with another, whatever was interrupted.                                 *)
THEOREM ToolchainReady == Spec => []ToolsReady
<1>1. LockInv => ToolsReady
  <2> SUFFICES ASSUME LockInv, orderly
               PROVE  /\ current => tools = "complete"
                      /\ \A r \in Run : At(B(r), "work") => tools = "complete"
    BY DEF ToolsReady, B
  <2>1. ToolsOK
    BY DEF LockInv
  <2>2. ASSUME NEW r \in Run, At(B(r), "work") PROVE Settled(r)
    BY <2>2 DEF Settled, PB, At
  <2> QED
    BY <2>1, <2>2 DEF ToolsOK
<1> QED
  BY <1>1, SpecInv, PTL
--------------------------------------------------------------------------------
(* Who is waited for.  A file or a process names a holder only when that   *)
(* one is past its own acquiring of the lock, where it never returns to.   *)

Past(p) == pc[p] \notin Acq \cup {"none"}
PastT(r) == PT(r) \notin TAcq \cup {"none"}

Holds(t, p) == p \in BuildSh /\ Target(p) = t /\ Past(p)
HoldsT(p) == \E r \in Run : p = T(r) /\ PastT(r)

Holders ==
  /\ \A t \in Triple, p \in Pid : lock[t] = p \/ disabled[t] = p => Holds(t, p)
  /\ \A p \in Pid : toolchainlock = p => HoldsT(p)
  /\ \A x \in BuildSh, p \in Pid : At(x, "wait") /\ lockpid[x] = p => Holds(Target(x), p)
  /\ \A r \in Run, p \in Pid : PT(r) = "t wait" /\ lockpid[T(r)] = p => HoldsT(p)

(* A run that has parked its lock is found by no one: not by its own       *)
(* nested build, for nobody brings the lock back before the run does.      *)
NotBack == \A r \in Run : PB(r) = "toolchain" =>
             /\ lock[triple[r]] # B(r)
             /\ PN(r) = "wait" => lockpid[N(r)] # B(r)

--------------------------------------------------------------------------------
(* The chain of those who wait for each other.                             *)

Steps == 0 .. Cardinality(Pid)

IsChain(q, p) == q = [n \in Steps |-> IF n = 0 THEN p ELSE Awaited(q[n - 1])]

LEMMA LeastOf ==
  ASSUME NEW S \in SUBSET Nat, S # {}
  PROVE  \E n \in S : \A m \in S : n =< m
<1> DEFINE R == OpToRel(<, Nat)
<1>1. IsWellFoundedOn(R, Nat)
  BY NatLessThanWellFounded
<1>2. \A x, y \in Nat : x < y => <<x, y>> \in R
  BY DEF OpToRel
<1> HIDE DEF R
<1>3. PICK x \in S : \A y \in S : ~(<<y, x>> \in R)
  BY <1>1, WFMin
<1>4. ASSUME NEW y \in S PROVE x =< y
  <2>1. x \in Nat /\ y \in Nat
    OBVIOUS
  <2>2. ~(y < x)
    BY <1>2, <1>3, <2>1, Zenon
  <2> QED
    BY <2>1, <2>2
<1> QED
  BY <1>4

LEMMA PidFinite == IsFiniteSet(Pid) /\ Cardinality(Pid) \in Nat
<1>1. IsFiniteSet({"build"}) /\ IsFiniteSet({"build"} \cup {"toolchain"})
  BY FS_EmptySet, FS_AddElement
<1>2. IsFiniteSet(({"build"} \cup {"toolchain"}) \cup {"nested"})
  BY <1>1, FS_AddElement
<1>3. Role = ({"build"} \cup {"toolchain"}) \cup {"nested"}
  BY DEF Role
<1>4. IsFiniteSet(Pid)
  BY <1>2, <1>3, FS_Product, LockAssumption DEF Pid
<1> QED
  BY <1>4, FS_CardinalityType

LEMMA AwaitedType == ASSUME TypeOK, NEW p \in Pid PROVE Awaited(p) \in Pid
<1>1. Alive(lockpid[p]) => lockpid[p] \in Pid
  BY DEF Alive
<1>2. Child(p) \in Pid
  BY DEF Child, Pid, Role
<1> QED
  BY <1>1, <1>2 DEF Awaited

(* There is a chain from every process, of any length. *)
LEMMA ChainExists == ASSUME TypeOK, NEW p \in Pid PROVE \E q : IsChain(q, p)
<1> DEFINE Runs(q, m) == /\ q \in [0 .. m -> Pid] /\ q[0] = p
                         /\ \A n \in 1 .. m : q[n] = Awaited(q[n - 1])
           S == {m \in Nat : ~\E q : Runs(q, m)}
<1>1. S = {}
  <2> SUFFICES ASSUME S # {} PROVE FALSE
    OBVIOUS
  <2>1. PICK m \in S : \A k \in S : m =< k
    BY LeastOf
  <2>2. m # 0
    <3>1. Runs([n \in 0 .. 0 |-> p], 0)
      OBVIOUS
    <3> QED
      BY <3>1
  <2>3. m \in Nat /\ m - 1 \in Nat /\ m - 1 \notin S
    BY <2>1, <2>2
  <2>4. PICK q : Runs(q, m - 1)
    BY <2>3
  <2> DEFINE q2 == [n \in 0 .. m |-> IF n = m THEN Awaited(q[m - 1]) ELSE q[n]]
  <2>5. q[m - 1] \in Pid /\ Awaited(q[m - 1]) \in Pid
    BY <2>3, <2>4, AwaitedType
  <2>6. q2 \in [0 .. m -> Pid]
    BY <2>3, <2>4, <2>5
  <2>7. q2[0] = p
    BY <2>2, <2>3, <2>4
  <2>8. ASSUME NEW n \in 1 .. m PROVE q2[n] = Awaited(q2[n - 1])
    <3>1. n - 1 \in 0 .. m /\ n - 1 # m /\ q2[n - 1] = q[n - 1]
      BY <2>3
    <3>2. CASE n = m
      BY <2>3, <3>1, <3>2
    <3>3. CASE n # m
      <4>1. n \in 1 .. (m - 1) /\ q2[n] = q[n]
        BY <2>3, <3>3
      <4> QED
        BY <2>4, <3>1, <4>1
    <3> QED
      BY <3>2, <3>3
  <2>9. Runs(q2, m)
    BY <2>6, <2>7, <2>8
  <2> QED
    BY <2>1, <2>9
<1>2. PICK q : Runs(q, Cardinality(Pid))
  BY <1>1, PidFinite
<1>3. IsChain(q, p)
  <2>1. q = [n \in Steps |-> q[n]]
    BY <1>2 DEF Steps
  <2>2. ASSUME NEW n \in Steps PROVE q[n] = IF n = 0 THEN p ELSE Awaited(q[n - 1])
    <3>1. n # 0 => n \in 1 .. Cardinality(Pid)
      BY PidFinite DEF Steps
    <3> QED
      BY <1>2, <3>1
  <2> QED
    BY <2>1, <2>2 DEF IsChain
<1> QED
  BY <1>3

LEMMA ChainFacts ==
  ASSUME NEW q, NEW p, IsChain(q, p)
  PROVE  q[0] = p /\ \A n \in Steps \ {0} : q[n] = Awaited(q[n - 1])
BY PidFinite DEF IsChain, Steps

LEMMA FollowFacts ==
  ASSUME TypeOK, NEW p \in Pid
  PROVE  \E q : IsChain(q, p) /\ Follow(p) = q[Cardinality(Pid)]
<1> DEFINE q == CHOOSE f : f = [n \in Steps |-> IF n = 0 THEN p ELSE Awaited(f[n - 1])]
<1>1. IsChain(q, p)
  BY ChainExists DEF IsChain
<1>2. Follow(p) = q[Cardinality(Pid)]
  BY DEF Follow, Steps
<1> QED
  BY <1>1, <1>2

(* Who waits for a member of a set that all its members wait in stays in.  *)
LEMMA ChainIn ==
  ASSUME NEW C, NEW p \in C, \A x \in C : Awaited(x) \in C, NEW q, IsChain(q, p)
  PROVE  \A n \in Steps : q[n] \in C
<1> DEFINE S == {n \in Steps : q[n] \notin C}
<1> SUFFICES ASSUME S # {} PROVE FALSE
  OBVIOUS
<1>1. S \in SUBSET Nat
  BY PidFinite DEF Steps
<1>2. PICK m \in S : \A k \in S : m =< k
  BY <1>1, LeastOf
<1>3. m # 0
  BY <1>2, ChainFacts
<1>4. m - 1 \in Steps /\ m - 1 \notin S
  BY <1>1, <1>2, <1>3, PidFinite DEF Steps
<1>5. q[m - 1] \in C
  BY <1>4
<1>6. q[m] = Awaited(q[m - 1])
  BY <1>2, <1>3, ChainFacts
<1> QED
  BY <1>2, <1>5, <1>6

(* Whose chain ends with one who waits waits for a circle of processes.    *)
LEMMA CircleOf ==
  ASSUME TypeOK, NEW p \in Pid, Stuck(p)
  PROVE  \E C : C # {} /\ C \subseteq Pid /\ \A x \in C : Awaited(x) \in C /\ Awaited(x) # x
<1> DEFINE N0 == Cardinality(Pid)
<1>1. N0 \in Nat /\ IsFiniteSet(Pid)
  BY PidFinite
<1>2. PICK q : IsChain(q, p) /\ Follow(p) = q[N0]
  BY FollowFacts
<1>3. \A n \in Steps : q[n] \in Pid
  BY <1>2, ChainIn, AwaitedType
<1>4. Awaited(q[N0]) # q[N0]
  BY <1>2 DEF Stuck
<1>5. PICK i \in Steps, j \in Steps : i # j /\ q[i] = q[j]
  <2>1. q \in [Steps -> Pid]
    BY <1>2, <1>3 DEF IsChain
  <2>2. IsFiniteSet(Steps) /\ Cardinality(Steps) = N0 + 1
    BY <1>1, FS_Interval DEF Steps
  <2>3. N0 < Cardinality(Steps)
    BY <1>1, <2>2
  <2> QED
    BY <1>1, <2>1, <2>2, <2>3, FS_PigeonHole
<1>6. PICK a \in Steps, b \in Steps : a < b /\ q[a] = q[b]
  <2>1. i < j \/ j < i
    BY <1>1, <1>5 DEF Steps
  <2> QED
    BY <1>5, <2>1
<1> DEFINE C == {q[k] : k \in a .. (b - 1)}
<1>7. a \in Nat /\ b \in Nat /\ b =< N0 /\ a \in a .. (b - 1)
  BY <1>1, <1>6 DEF Steps
<1>8. C # {} /\ C \subseteq Pid
  <2>1. \A k \in a .. (b - 1) : k \in Steps
    BY <1>1, <1>7 DEF Steps
  <2> QED
    BY <1>3, <1>7, <2>1
<1>9. ASSUME NEW x \in C PROVE Awaited(x) \in C /\ Awaited(x) # x
  <2>1. PICK k \in a .. (b - 1) : x = q[k]
    OBVIOUS
  <2>2. k \in Nat /\ k + 1 \in Steps \ {0} /\ (k + 1) - 1 = k
    BY <1>1, <1>7 DEF Steps
  <2>3. Awaited(x) = q[k + 1]
    BY <1>2, <2>1, <2>2, ChainFacts
  <2>4. Awaited(x) \in C
    <3>1. CASE k + 1 = b
      BY <1>6, <1>7, <2>3, <3>1
    <3>2. CASE k + 1 # b
      <4>1. k + 1 \in a .. (b - 1)
        BY <1>7, <2>2, <3>2
      <4> QED
        BY <2>3, <4>1
    <3> QED
      BY <3>1, <3>2
  <2>5. Awaited(x) # x
    <3> SUFFICES ASSUME Awaited(x) = x PROVE FALSE
      OBVIOUS
    <3> DEFINE S == {n \in k .. N0 : q[n] # x}
    <3>1. N0 \in S /\ S \in SUBSET Nat
      BY <1>1, <1>4, <1>7, <2>2
    <3>2. PICK m \in S : \A l \in S : m =< l
      BY <3>1, LeastOf
    <3>3. m # k
      BY <2>1, <3>2
    <3>4. m \in Steps \ {0} /\ m - 1 \in k .. N0 /\ m - 1 \notin S
      BY <1>1, <2>2, <3>2, <3>3 DEF Steps
    <3>5. q[m - 1] = x /\ q[m] = Awaited(q[m - 1])
      BY <1>2, <3>4, ChainFacts
    <3> QED
      BY <3>2, <3>5
  <2> QED
    BY <2>4, <2>5
<1> QED
  BY <1>8, <1>9

LEMMA CircleStuck ==
  ASSUME TypeOK, NEW C, C \subseteq Pid, \A x \in C : Awaited(x) \in C /\ Awaited(x) # x,
         NEW n \in C
  PROVE  Stuck(n)
<1>1. PICK q : IsChain(q, n) /\ Follow(n) = q[Cardinality(Pid)]
  BY FollowFacts
<1>2. \A k \in Steps : q[k] \in C
  BY <1>1, ChainIn
<1>3. Cardinality(Pid) \in Steps
  BY PidFinite DEF Steps
<1> QED
  BY <1>1, <1>2, <1>3 DEF Stuck
--------------------------------------------------------------------------------
(* Waiting goes down the ranks of the processes, except where a nested     *)
(* build waits for the lock of the default target.                         *)
Rank(p) == IF pc[p] = "wait" THEN (IF p[2] = "build" THEN 6 ELSE 2)
           ELSE IF pc[p] = "toolchain" THEN 5
           ELSE IF pc[p] = "t wait" THEN 4
           ELSE IF pc[p] = "t nested" THEN 3 ELSE 0

Across(p) == \E r, q \in Run : /\ p = N(r) /\ PN(r) = "wait" /\ lockpid[p] = B(q)
                               /\ PB(q) = "toolchain" /\ triple[q] = DefaultTarget

LEMMA PidCases == ASSUME NEW p \in Pid PROVE \E r \in Run : p = B(r) \/ p = T(r) \/ p = N(r)
BY DEF Pid, Role, B, T, N

LEMMA RankFacts ==
  ASSUME Chains, NEW r \in Run
  PROVE  /\ Rank(B(r)) = (IF PB(r) = "wait" THEN 6 ELSE IF PB(r) = "toolchain" THEN 5 ELSE 0)
         /\ Rank(T(r)) = (IF PT(r) = "t wait" THEN 4 ELSE IF PT(r) = "t nested" THEN 3 ELSE 0)
         /\ Rank(N(r)) = (IF PN(r) = "wait" THEN 2 ELSE 0)
<1>1. B(r)[2] = "build" /\ T(r)[2] = "toolchain" /\ N(r)[2] = "nested"
  BY DEF B, T, N
<1>2. ChainOK(r)
  BY DEF Chains
<1>3. PB(r) \notin {"t wait", "t nested"}
  BY <1>2 DEF ChainOK, BLive, NLive, Early, Acq, Late, Dead, Ended
<1>4. PT(r) \notin {"wait", "toolchain"}
  BY <1>2 DEF ChainOK, TLive, TEarly, TAcq, TInside, Dead, Ended
<1>5. PN(r) \notin {"t wait", "t nested", "toolchain"}
  BY <1>2 DEF ChainOK, NLive, Early, Acq, Late, Dead, Ended
<1> QED
  BY <1>1, <1>3, <1>4, <1>5 DEF Rank, PB, PT, PN

LEMMA WaitRank ==
  ASSUME TypeOK, Chains, Holders, NEW p \in Pid, Awaited(p) # p
  PROVE  Rank(Awaited(p)) < Rank(p) \/ Across(p)
<1> DEFINE a == Awaited(p)
<1>1. PICK r \in Run : p = B(r) \/ p = T(r) \/ p = N(r)
  BY PidCases
<1>2. /\ Child(B(r)) = T(r) /\ Child(T(r)) = N(r) /\ B(r) \in BuildSh /\ N(r) \in BuildSh
      /\ Target(B(r)) = triple[r] /\ Target(N(r)) = DefaultTarget
  BY PidFacts
<1>3. a \in Pid
  BY AwaitedType
<1>4. \/ pc[p] \in {"wait", "t wait"} /\ a = lockpid[p]
      \/ pc[p] \in {"toolchain", "t nested"} /\ a = Child(p)
  BY DEF Awaited
<1>5. ASSUME NEW t, Holds(t, a)
      PROVE  \E q \in Run : \/ a = B(q) /\ triple[q] = t /\ PB(q) # "wait"
                            \/ a = N(q) /\ PN(q) # "wait"
  <2>1. PICK q \in Run : a = B(q) \/ a = N(q)
    BY <1>5, BuildShFacts DEF Holds
  <2>2. pc[a] # "wait" /\ Target(a) = t
    BY <1>5 DEF Holds, Past, Acq
  <2> QED
    BY <2>1, <2>2, PidFacts DEF PB, PN
<1>6. CASE p = B(r)
  <2>1. PB(r) \in {"wait", "toolchain"}
    BY <1>4, <1>6, RankFacts DEF PB, Chains, ChainOK, BLive, NLive, Early, Acq, Late, Dead, Ended
  <2>2. CASE PB(r) = "wait"
    <3>1. a = lockpid[p] /\ At(p, "wait")
      BY <1>4, <1>6, <2>2 DEF PB, At
    <3>2. Holds(Target(p), a)
      BY <1>2, <1>3, <1>6, <3>1 DEF Holders
    <3>3. PICK q \in Run : (a = B(q) /\ PB(q) # "wait") \/ (a = N(q) /\ PN(q) # "wait")
      BY <1>5, <3>2
    <3>4. Rank(a) \in {0, 5} /\ Rank(p) = 6
      BY <1>6, <2>2, <3>3, RankFacts
    <3> QED
      BY <3>4
  <2>3. CASE PB(r) = "toolchain"
    <3>1. a = T(r)
      BY <1>2, <1>4, <1>6, <2>3 DEF PB
    <3>2. Rank(a) \in {0, 3, 4} /\ Rank(p) = 5
      BY <1>6, <2>3, <3>1, RankFacts
    <3> QED
      BY <3>2
  <2> QED
    BY <2>1, <2>2, <2>3
<1>7. CASE p = T(r)
  <2>1. PT(r) \in {"t wait", "t nested"}
    BY <1>4, <1>7 DEF PT, Chains, ChainOK, TLive, TEarly, TAcq, TInside, Dead, Ended
  <2>2. CASE PT(r) = "t wait"
    <3>1. a = lockpid[T(r)]
      BY <1>4, <1>7, <2>2 DEF PT
    <3>2. PICK q \in Run : a = T(q) /\ PastT(q)
      BY <1>3, <2>2, <3>1 DEF Holders, HoldsT
    <3>3. PT(q) # "t wait"
      BY <3>2 DEF PastT, TAcq
    <3>4. Rank(a) \in {0, 3} /\ Rank(p) = 4
      BY <1>7, <2>2, <3>2, <3>3, RankFacts
    <3> QED
      BY <3>4
  <2>3. CASE PT(r) = "t nested"
    <3>1. a = N(r)
      BY <1>2, <1>4, <1>7, <2>3 DEF PT
    <3>2. Rank(a) \in {0, 2} /\ Rank(p) = 3
      BY <1>7, <2>3, <3>1, RankFacts
    <3> QED
      BY <3>2
  <2> QED
    BY <2>1, <2>2, <2>3
<1>8. CASE p = N(r)
  <2>1. PN(r) = "wait"
    BY <1>4, <1>8 DEF PN, Chains, ChainOK, NLive, Early, Acq, Late, Dead, Ended
  <2>2. a = lockpid[p] /\ At(p, "wait")
    BY <1>4, <1>8, <2>1 DEF PN, At
  <2>3. Holds(DefaultTarget, a)
    BY <1>2, <1>3, <1>8, <2>2 DEF Holders
  <2>4. PICK q \in Run : \/ a = B(q) /\ triple[q] = DefaultTarget /\ PB(q) # "wait"
                         \/ a = N(q) /\ PN(q) # "wait"
    BY <1>5, <2>3
  <2>5. CASE a = B(q) /\ triple[q] = DefaultTarget /\ PB(q) = "toolchain"
    BY <1>8, <2>1, <2>2, <2>5 DEF Across
  <2>6. CASE \/ a = B(q) /\ PB(q) # "wait" /\ PB(q) # "toolchain"
             \/ a = N(q) /\ PN(q) # "wait"
    <3>1. Rank(a) = 0 /\ Rank(p) = 2
      BY <1>8, <2>1, <2>6, RankFacts
    <3> QED
      BY <3>1
  <2> QED
    BY <2>4, <2>5, <2>6
<1> QED
  BY <1>1, <1>6, <1>7, <1>8

LEMMA RankType == ASSUME Chains, NEW p \in Pid PROVE Rank(p) \in Nat
<1>1. Rank(p) \in {0, 2, 3, 4, 5, 6}
  BY DEF Rank
<1> QED
  BY <1>1

LEMMA OneCircleHolds ==
  ASSUME TypeOK, Chains, Holders, orderly => Apart /\ NotBack
  PROVE  OneCircle
<1> SUFFICES ASSUME NEW p \in Pid, Stuck(p) PROVE ~orderly /\ NestedWaits
  BY DEF OneCircle
<1>1. PICK C : C # {} /\ C \subseteq Pid /\ \A x \in C : Awaited(x) \in C /\ Awaited(x) # x
  BY CircleOf
<1> DEFINE S == {Rank(x) : x \in C}
<1>2. S \in SUBSET Nat /\ S # {}
  BY <1>1, RankType
<1>3. PICK n \in C : \A x \in C : Rank(n) =< Rank(x)
  <2>1. PICK k \in S : \A m \in S : k =< m
    BY <1>2, LeastOf
  <2> QED
    BY <2>1
<1>4. n \in Pid /\ Awaited(n) \in C /\ Awaited(n) \in Pid /\ Awaited(n) # n /\ Stuck(n)
  BY <1>1, CircleStuck
<1>5. ~(Rank(Awaited(n)) < Rank(n))
  BY <1>3, <1>4, RankType
<1>6. PICK r \in Run, q \in Run :
        /\ n = N(r) /\ PN(r) = "wait" /\ lockpid[n] = B(q)
        /\ PB(q) = "toolchain" /\ triple[q] = DefaultTarget
  BY <1>4, <1>5, WaitRank DEF Across
<1>7. NestedWaits
  <2>1. n \in Run \X {"nested"} /\ At(n, "wait") /\ lockpid[n] = <<q, "build">>
        /\ At(<<q, "build">>, "toolchain")
    BY <1>6 DEF N, B, PN, PB, At
  <2> QED
    BY <1>4, <1>6, <2>1 DEF NestedWaits
<1>8. ~orderly
  <2> SUFFICES ASSUME orderly PROVE FALSE
    OBVIOUS
  <2>1. Apart /\ NotBack
    OBVIOUS
  <2>2. CASE q = r
    BY <1>6, <2>1, <2>2 DEF NotBack
  <2>3. CASE q # r
    <3>1. PT(r) = "t nested"
      BY <1>6 DEF Chains, ChainOK, NLive, Early, Acq
    <3>2. Rebuilds(r) /\ PB(q) \in BLive
      BY <1>6, <3>1 DEF Rebuilds, TLive, TInside, BLive
    <3> QED
      BY <1>6, <2>1, <2>3, <3>2 DEF Apart
  <2> QED
    BY <2>2, <2>3
<1> QED
  BY <1>7, <1>8
--------------------------------------------------------------------------------
(* Nobody comes back from behind its acquiring of a lock.                  *)
Forward == /\ UNCHANGED triple
           /\ \A x \in BuildSh : Past(x) => Past(x)'
           /\ \A r \in Run : PastT(r) => PastT(r)'

LEMMA ForwardBuild ==
  ASSUME TypeOK, Chains, NEW p \in BuildSh, BuildStep(p)
  PROVE  \A x \in BuildSh : Past(x) => Past(x)'
<1>1. Moves(p) /\ p \in Pid
  BY BuildMoves, BuildShFacts
<1>2. Past(p) => Past(p)'
  <2>1. CASE ReadLock(p) \/ Wait(p) \/ Truncate(p) \/ WriteLock(p)
    BY <2>1 DEF ReadLock, Wait, Truncate, WriteLock, At, Past, Acq
  <2>2. CASE MakeTmp(p) \/ ToolchainOk(p) \/ ToolchainError(p)
    <3>1. PICK l \in {"version", "work", "error"} : Goto(p, l)
      BY <2>2 DEF MakeTmp, ToolchainOk, ToolchainError
    <3> QED
      BY <1>1, <3>1, GotoFacts DEF Past, Acq
  <2>3. CASE Version(p)
    <3>1. pc'[p] = IF current \/ p[2] = "nested" THEN "work" ELSE "park"
      BY <1>1, <2>3, GotoFacts DEF Version
    <3> QED
      BY <3>1 DEF Past, Acq
  <2>4. CASE Park(p)
    <3>1. pc'[p] = "toolchain"
      <4>1. PICK r \in Run : p = B(r)
        BY <2>4, ParksOnly
      <4> QED
        BY <2>4, <4>1, CallB DEF Park, PB
    <3> QED
      BY <3>1 DEF Past, Acq
  <2>5. CASE Work(p)
    <3>1. PICK l \in {"cleanup", "error"} : Goto(p, l)
      BY <2>5 DEF Work
    <3> QED
      BY <1>1, <3>1, GotoFacts DEF Past, Acq
  <2>6. CASE Cleanup(p)
    <3>1. PICK l \in {"exit 0", "exit 1"} : Goto(p, l)
      BY <2>6 DEF Cleanup
    <3> QED
      BY <1>1, <3>1, GotoFacts DEF Past, Acq
  <2> QED
    BY <2>1, <2>2, <2>3, <2>4, <2>5, <2>6 DEF BuildStep
<1> QED
  BY <1>1, <1>2 DEF Moves, Past

LEMMA ForwardStays == ASSUME Stays PROVE \A x \in BuildSh : Past(x) => Past(x)'
BY DEF Stays, Past, Acq

LEMMA ForwardTool ==
  ASSUME TypeOK, Chains, Next
  PROVE  \A r \in Run : PastT(r) => PastT(r)'
<1>1. PICK r \in Run : BView(r) \/ NView(r) \/ TView(r) \/ StartView(r) \/ KillView(r)
  BY Views
<1>2. Frame(r)
  BY <1>1 DEF BView, NView, TView, StartView, KillView, TReadView, TWaitView, TTakeView,
              TSkipView, TRemoveView, TBuildView, TFailView, TEndView, TMove
<1>3. PastT(r) => PastT(r)'
  <2>1. CASE BView(r)
    <3>1. PT(r)' = PT(r) \/ PB(r) = "park"
      BY <2>1 DEF BView, BEarly, BVersion, BPark, BBack, BWork, BExit
    <3>2. PB(r) = "park" => PT(r) = "none"
      BY DEF Chains, ChainOK
    <3> QED
      BY <3>1, <3>2 DEF PastT
  <2>2. CASE NView(r)
    BY <2>2 DEF NView, PastT
  <2>3. CASE TView(r)
    BY <2>3 DEF TView, TReadView, TWaitView, TTakeView, TSkipView, TRemoveView, TBuildView,
                TFailView, TEndView, TMove, PastT, TAcq
  <2>4. CASE StartView(r)
    BY <2>4 DEF StartView, PastT
  <2>5. CASE KillView(r)
    BY <2>5 DEF KillView, PastT, TAcq
  <2> QED
    BY <1>1, <2>1, <2>2, <2>3, <2>4, <2>5
<1> QED
  BY <1>2, <1>3 DEF Frame, PastT

(* A step of a run, as far as its two build.sh are concerned.              *)
Enters(p) == Moves(p) /\ pc[p] = "none" /\ pc'[p] = "read" /\ UNCHANGED <<lock, disabled>>

LEMMA StepKinds ==
  ASSUME TypeOK, Chains, Next
  PROVE  Stays \/ \E p \in BuildSh : BuildStep(p) \/ Enters(p)
<1>1. PICK r \in Run : Start(r) \/ Step(r) \/ Interrupt(r)
  BY DEF Next
<1>2. B(r) \in BuildSh /\ N(r) \in BuildSh /\ B(r) \in Pid
  BY PidFacts
<1>3. CASE Start(r)
  <2>1. CASE kind[r] = "toolchain"
    BY <1>3, <2>1, StaysStart
  <2>2. CASE kind[r] = "build"
    <3>1. /\ Goto(B(r), "read") /\ pc[B(r)] = "none"
          /\ UNCHANGED <<triple, lockpid, lock, disabled>>
      BY <1>3, <2>2 DEF Start, user, locks, B, Role
    <3>2. Moves(B(r)) /\ pc'[B(r)] = "read"
      BY <1>2, <3>1, GotoMoves, GotoFacts
    <3> QED
      BY <1>2, <3>1, <3>2 DEF Enters
  <2> QED
    BY <1>3, <2>1, <2>2 DEF Start
<1>4. CASE ToolchainStep(T(r))
  <2>1. CASE TBuild(T(r))
    <3>1. Moves(N(r)) /\ pc'[N(r)] = "read" /\ PT(r) = "t build"
      BY <2>1, MovesNested
    <3>2. pc[N(r)] = "none"
      BY <3>1 DEF Chains, ChainOK, PN
    <3>3. UNCHANGED <<lock, disabled>>
      BY <2>1 DEF TBuild, locks
    <3> QED
      BY <1>2, <3>1, <3>2, <3>3 DEF Enters
  <2> QED
    BY <1>4, <2>1, StaysToolchain
<1>5. Step(r) => BuildStep(B(r)) \/ BuildStep(N(r)) \/ ToolchainStep(T(r))
  BY DEF Step, B, T, N
<1> QED
  BY <1>1, <1>2, <1>3, <1>4, <1>5, StaysInterrupt

LEMMA ForwardNext == ASSUME TypeOK, Chains, Next PROVE Forward
<1>1. \A r \in Run : PastT(r) => PastT(r)'
  BY ForwardTool
<1>2. UNCHANGED triple /\ \A x \in BuildSh : Past(x) => Past(x)'
  <2>1. CASE Stays
    BY <2>1, ForwardStays DEF Stays
  <2>2. ASSUME NEW p \in BuildSh, BuildStep(p)
        PROVE  UNCHANGED triple /\ \A x \in BuildSh : Past(x) => Past(x)'
    BY <2>2, BuildMoves, ForwardBuild DEF Moves
  <2>3. ASSUME NEW p \in BuildSh, Enters(p)
        PROVE  UNCHANGED triple /\ \A x \in BuildSh : Past(x) => Past(x)'
    BY <2>3 DEF Enters, Moves, Past
  <2> QED
    BY <2>1, <2>2, <2>3, StepKinds
<1> QED
  BY <1>1, <1>2 DEF Forward

(* A file gets its PID from its holder or from the other file.             *)
FileMoves == \A t \in Triple, p \in Pid : lock'[t] = p \/ disabled'[t] = p =>
               \/ lock[t] = p \/ disabled[t] = p
               \/ p \in BuildSh /\ Target(p) = t /\ Past(p)'

LEMMA BuildFiles ==
  ASSUME TypeOK, NEW p \in BuildSh, BuildStep(p)
  PROVE  FileMoves
<1>1. p \in Pid /\ Target(p) \in Triple
  BY BuildShFacts, TargetType
<1>2. CASE UNCHANGED <<lock, disabled>>
  BY <1>2 DEF FileMoves
<1>3. CASE ReadLock(p) \/ Wait(p) \/ MakeTmp(p) \/ Version(p) \/ ToolchainError(p) \/ Work(p)
  BY <1>2, <1>3 DEF ReadLock, Wait, MakeTmp, Version, ToolchainError, Work, locks
<1>4. CASE Truncate(p) \/ Cleanup(p)
  <2>1. UNCHANGED disabled /\ \A t \in Triple : lock'[t] = lock[t] \/ lock'[t] \in {Empty, NoFile}
    BY <1>1, <1>4 DEF Truncate, Cleanup, TypeOK
  <2> QED
    BY <2>1, FileAssumption DEF FileMoves
<1>5. CASE WriteLock(p)
  <2>1. UNCHANGED disabled /\ \A t \in Triple : lock'[t] = lock[t] \/ (lock'[t] = p /\ t = Target(p))
    BY <1>1, <1>5 DEF WriteLock, TypeOK
  <2>2. Past(p)'
    BY <1>1, <1>5, GotoFacts DEF WriteLock, Past, Acq
  <2> QED
    BY <2>1, <2>2 DEF FileMoves
<1>6. CASE Park(p)
  <2>1. \A t \in Triple : /\ lock'[t] = lock[t] \/ lock'[t] = NoFile
                          /\ disabled'[t] = disabled[t] \/ disabled'[t] = lock[t]
    BY <1>1, <1>6 DEF Park, Parked, TypeOK
  <2> QED
    BY <2>1, FileAssumption DEF FileMoves
<1>7. CASE ToolchainOk(p)
  <2>1. \A t \in Triple : /\ lock'[t] = lock[t] \/ lock'[t] = disabled[t]
                          /\ disabled'[t] = disabled[t] \/ disabled'[t] = NoFile
    BY <1>1, <1>7 DEF ToolchainOk, Unparked, TypeOK
  <2> QED
    BY <2>1, FileAssumption DEF FileMoves
<1> QED
  BY <1>3, <1>4, <1>5, <1>6, <1>7 DEF BuildStep

LEMMA FilesNext == ASSUME TypeOK, Chains, Next PROVE FileMoves
<1>1. CASE UNCHANGED <<lock, disabled>>
  BY <1>1 DEF FileMoves
<1> QED
  BY <1>1, StepKinds, BuildFiles DEF Stays, Enters

(* The processes that begin to wait, and for whom.                         *)
WaitMoves == \A x \in BuildSh, p \in Pid : At(x, "wait")' /\ lockpid'[x] = p =>
               (At(x, "wait") /\ lockpid[x] = p) \/ lock[Target(x)] = p

LEMMA WaitsBuild == ASSUME TypeOK, Chains, NEW x \in BuildSh, BuildStep(x) PROVE WaitMoves
<1>1. Moves(x) /\ x \in Pid
  BY BuildMoves, BuildShFacts
<1>2. At(x, "wait")' => lockpid'[x] = lock[Target(x)]
  <2>1. CASE ReadLock(x)
    <3>1. CASE Goto(x, "wait") /\ lockpid' = [lockpid EXCEPT ![x] = lock[Target(x)]]
      BY <1>1, <3>1 DEF TypeOK
    <3>2. CASE Goto(x, "claim")
      BY <1>1, <3>2, GotoFacts DEF At
    <3> QED
      BY <2>1, <3>1, <3>2 DEF ReadLock
  <2>2. CASE Wait(x) \/ Truncate(x) \/ WriteLock(x) \/ MakeTmp(x) \/ ToolchainOk(x) \/ ToolchainError(x)
    <3>1. PICK l \in {"claim", "write", "mktmp", "version", "work", "error"} : Goto(x, l)
      BY <2>2 DEF Wait, Truncate, WriteLock, MakeTmp, ToolchainOk, ToolchainError
    <3> QED
      BY <1>1, <3>1, GotoFacts DEF At
  <2>3. CASE Version(x)
    <3>1. pc'[x] = IF current \/ x[2] = "nested" THEN "work" ELSE "park"
      BY <1>1, <2>3, GotoFacts DEF Version
    <3> QED
      BY <3>1 DEF At
  <2>4. CASE Park(x)
    <3>1. PICK r \in Run : x = B(r)
      BY <2>4, ParksOnly
    <3>2. pc'[x] = "toolchain"
      BY <2>4, <3>1, CallB DEF Park, PB
    <3> QED
      BY <3>2 DEF At
  <2>5. CASE Work(x) \/ Cleanup(x)
    <3>1. PICK l \in {"cleanup", "error", "exit 0", "exit 1"} : Goto(x, l)
      BY <2>5 DEF Work, Cleanup
    <3> QED
      BY <1>1, <3>1, GotoFacts DEF At
  <2> QED
    BY <2>1, <2>2, <2>3, <2>4, <2>5 DEF BuildStep
<1> QED
  BY <1>1, <1>2 DEF Moves, WaitMoves, At

LEMMA WaitsNext == ASSUME TypeOK, Chains, Next PROVE WaitMoves
<1>1. CASE Stays
  BY <1>1 DEF Stays, WaitMoves, At
<1>2. ASSUME NEW x \in BuildSh, Enters(x) PROVE WaitMoves
  BY <1>2 DEF Enters, Moves, WaitMoves, At
<1> QED
  BY <1>1, <1>2, WaitsBuild, StepKinds

(* The same of the toolchain's lock.                                       *)
ToolMoves ==
  /\ \A p \in Pid : toolchainlock' = p =>
       toolchainlock = p \/ \E r \in Run : p = T(r) /\ PT(r)' = "t version"
  /\ \A r \in Run, p \in Pid : PT(r)' = "t wait" /\ lockpid'[T(r)] = p =>
       (PT(r) = "t wait" /\ lockpid[T(r)] = p) \/ toolchainlock = p

LEMMA ToolWaits == ASSUME TypeOK, Chains, Next PROVE ToolMoves
<1>1. PICK r \in Run : BView(r) \/ NView(r) \/ TView(r) \/ StartView(r) \/ KillView(r)
  BY Views
<1>2. Frame(r) /\ \A q \in Run \ {r} : lockpid'[T(q)] = lockpid[T(q)]
  BY <1>1 DEF BView, NView, TView, StartView, KillView, Still, TReadView, TWaitView, TTakeView,
              TSkipView, TRemoveView, TBuildView, TFailView, TEndView, TMove, TLockpid
<1>3. \A p \in Pid : toolchainlock' = p =>
        toolchainlock = p \/ (p = T(r) /\ PT(r)' = "t version")
  <2>1. CASE TTakeView(r)
    BY <2>1, FileAssumption DEF TTakeView, TMove
  <2>2. CASE TSkipView(r) \/ TEndView(r)
    BY <2>2, FileAssumption DEF TSkipView, TEndView
  <2> QED
    BY <1>1, <2>1, <2>2 DEF BView, NView, TView, StartView, KillView, Still, TReadView, TWaitView,
                            TRemoveView, TBuildView, TFailView
<1>4. \/ PT(r)' # "t wait"
      \/ PT(r) = "t wait" /\ lockpid'[T(r)] = lockpid[T(r)]
      \/ lockpid'[T(r)] = toolchainlock
  <2>1. CASE TReadView(r)
    BY <2>1 DEF TReadView
  <2>2. CASE TWaitView(r) \/ TTakeView(r) \/ TSkipView(r) \/ TRemoveView(r) \/ TBuildView(r)
             \/ TFailView(r) \/ TEndView(r)
    BY <2>2 DEF TWaitView, TTakeView, TSkipView, TRemoveView, TBuildView, TFailView, TEndView, TMove
  <2>3. CASE BView(r)
    BY <2>3 DEF BView, Still, BEarly, BVersion, BPark, BBack, BWork, BExit
  <2>4. CASE NView(r) \/ StartView(r) \/ KillView(r)
    BY <2>4 DEF NView, StartView, KillView, Still
  <2> QED
    BY <1>1, <2>1, <2>2, <2>3, <2>4 DEF TView
<1> QED
  BY <1>2, <1>3, <1>4 DEF Frame, ToolMoves

LEMMA HoldersNext == ASSUME TypeOK, Chains, Holders, Next PROVE Holders'
<1>1. Forward /\ FileMoves /\ WaitMoves /\ ToolMoves
  BY ForwardNext, FilesNext, WaitsNext, ToolWaits
<1>2. \A x \in BuildSh : Target(x)' = Target(x)
  BY <1>1 DEF Forward, Target
<1>3. \A t, p : Holds(t, p) => Holds(t, p)'
  BY <1>1, <1>2 DEF Forward, Holds
<1>4. \A p : HoldsT(p) => HoldsT(p)'
  BY <1>1 DEF Forward, HoldsT
<1>5. ASSUME NEW t \in Triple, NEW p \in Pid, lock'[t] = p \/ disabled'[t] = p
      PROVE  Holds(t, p)'
  <2>1. CASE lock[t] = p \/ disabled[t] = p
    BY <1>3, <2>1 DEF Holders
  <2>2. CASE p \in BuildSh /\ Target(p) = t /\ Past(p)'
    BY <1>2, <2>2 DEF Holds
  <2> QED
    BY <1>1, <1>5, <2>1, <2>2 DEF FileMoves
<1>6. ASSUME NEW p \in Pid, toolchainlock' = p PROVE HoldsT(p)'
  <2>1. CASE toolchainlock = p
    BY <1>4, <2>1 DEF Holders
  <2>2. ASSUME NEW r \in Run, p = T(r), PT(r)' = "t version" PROVE HoldsT(p)'
    <3>1. PastT(r)'
      BY <2>2 DEF PastT, TAcq
    <3> QED
      BY <2>2, <3>1 DEF HoldsT
  <2> QED
    BY <1>1, <1>6, <2>1, <2>2 DEF ToolMoves
<1>7. ASSUME NEW x \in BuildSh, NEW p \in Pid, At(x, "wait")', lockpid'[x] = p
      PROVE  Holds(Target(x), p)'
  <2>1. x \in Pid /\ Target(x) \in Triple
    BY BuildShFacts, TargetType
  <2>2. Holds(Target(x), p)
    BY <1>1, <1>7, <2>1 DEF WaitMoves, Holders
  <2> QED
    BY <1>1, <1>2, <2>2 DEF Holds, Forward
<1>8. ASSUME NEW r \in Run, NEW p \in Pid, PT(r)' = "t wait", lockpid'[T(r)] = p
      PROVE  HoldsT(p)'
  BY <1>1, <1>4, <1>8 DEF ToolMoves, Holders
<1> QED
  BY <1>5, <1>6, <1>7, <1>8 DEF Holders

LEMMA NotBackBuild ==
  ASSUME TypeOK, Chains, Apart, Holders, NotBack, NEW p \in BuildSh, BuildStep(p)
  PROVE  NotBack'
<1> SUFFICES ASSUME NEW r \in Run, PB(r)' = "toolchain"
             PROVE  /\ lock'[triple[r]] # B(r)
                    /\ PN(r)' = "wait" => lockpid'[N(r)] # B(r)
  BY BuildMoves DEF NotBack, Moves
<1>1. Moves(p) /\ p \in Pid /\ Target(p) \in Triple
  BY BuildMoves, BuildShFacts, TargetType
<1>2. /\ B(r) \in BuildSh /\ N(r) \in BuildSh /\ B(r) \in Pid /\ N(r) \in Pid /\ B(r) # N(r)
      /\ Target(B(r)) = triple[r] /\ Target(N(r)) = DefaultTarget /\ triple[r] \in Triple
  BY PidFacts, PidsDiffer DEF TypeOK
<1>3. B(r) # NoFile /\ B(r) # Empty
  BY <1>2, FileAssumption
<1>4. CASE p = B(r)
  <2>1. Park(p)
    <3>1. CASE ReadLock(p) \/ Wait(p) \/ Truncate(p) \/ WriteLock(p) \/ MakeTmp(p)
               \/ ToolchainOk(p) \/ ToolchainError(p) \/ Work(p) \/ Cleanup(p)
      <4>1. PICK l \in {"wait", "claim", "write", "mktmp", "version", "work", "error", "cleanup",
                        "exit 0", "exit 1"} : Goto(p, l)
        BY <3>1 DEF ReadLock, Wait, Truncate, WriteLock, MakeTmp, ToolchainOk, ToolchainError,
                    Work, Cleanup
      <4> QED
        BY <1>1, <1>4, <4>1, GotoFacts DEF PB
    <3>2. CASE Version(p)
      <4>1. pc'[p] = IF current \/ p[2] = "nested" THEN "work" ELSE "park"
        BY <1>1, <3>2, GotoFacts DEF Version
      <4> QED
        BY <1>4, <4>1 DEF PB
    <3> QED
      BY <3>1, <3>2 DEF BuildStep
  <2>2. lock'[triple[r]] = NoFile
    BY <1>1, <1>2, <1>4, <2>1 DEF Park, Parked, TypeOK
  <2>3. PN(r)' = "none"
    <3>1. PB(r) = "park"
      BY <1>4, <2>1 DEF Park, At, PB
    <3>2. PN(r) = "none"
      BY <3>1 DEF Chains, ChainOK
    <3> QED
      BY <1>1, <1>2, <1>4, <3>2 DEF Moves, PN
  <2> QED
    BY <1>3, <2>2, <2>3
<1>5. CASE p # B(r)
  <2>1. PB(r) = "toolchain" /\ lock[triple[r]] # B(r) /\ (PN(r) = "wait" => lockpid[N(r)] # B(r))
    <3>1. PB(r)' = PB(r)
      BY <1>1, <1>2, <1>5 DEF Moves, PB
    <3> QED
      BY <3>1 DEF NotBack
  <2>2. lock'[triple[r]] # B(r)
    <3>1. CASE ToolchainOk(p)
      <4>1. PICK q \in Run : p = B(q)
        BY <3>1, ParksOnly
      <4>2. q # r /\ Target(p) = triple[q] /\ PB(q) = "toolchain"
        BY <1>5, <3>1, <4>1, PidFacts DEF ToolchainOk, At, PB
      <4>3. triple[q] # triple[r]
        BY <2>1, <4>2 DEF Apart, Parks, BLive
      <4>4. lock'[triple[r]] = lock[triple[r]]
        BY <1>2, <3>1, <4>2, <4>3 DEF ToolchainOk, Unparked, TypeOK
      <4> QED
        BY <2>1, <4>4
    <3>2. CASE Park(p)
      <4>1. lock'[triple[r]] \in {NoFile, lock[triple[r]]}
        BY <1>1, <1>2, <3>2 DEF Park, Parked, TypeOK
      <4> QED
        BY <1>3, <2>1, <4>1
    <3>3. CASE ReadLock(p) \/ Wait(p) \/ MakeTmp(p) \/ Version(p) \/ ToolchainError(p) \/ Work(p)
      BY <2>1, <3>3 DEF ReadLock, Wait, MakeTmp, Version, ToolchainError, Work, locks
    <3>4. CASE Truncate(p) \/ WriteLock(p) \/ Cleanup(p)
      <4>1. lock'[triple[r]] \in {Empty, NoFile, p, lock[triple[r]]}
        BY <1>1, <1>2, <3>4 DEF Truncate, WriteLock, Cleanup, TypeOK
      <4> QED
        BY <1>3, <1>5, <2>1, <4>1
    <3> QED
      BY <3>1, <3>2, <3>3, <3>4 DEF BuildStep
  <2>3. ASSUME PN(r)' = "wait" PROVE lockpid'[N(r)] # B(r)
    <3>1. lockpid'[N(r)] = B(r) => (PN(r) = "wait" /\ lockpid[N(r)] = B(r)) \/ lock[DefaultTarget] = B(r)
      <4>1. WaitMoves /\ At(N(r), "wait")'
        BY <2>3, WaitsBuild DEF PN, At
      <4> QED
        BY <1>2, <4>1 DEF WaitMoves, PN, At
    <3>2. lock[DefaultTarget] = B(r) => triple[r] = DefaultTarget
      BY <1>2, LockAssumption DEF Holders, Holds
    <3> QED
      BY <2>1, <3>1, <3>2
  <2> QED
    BY <2>2, <2>3
<1> QED
  BY <1>4, <1>5

LEMMA NotBackNext ==
  ASSUME TypeOK, Chains, Apart, Holders, NotBack, Next
  PROVE  NotBack'
<1>1. CASE Stays
  <2> SUFFICES ASSUME NEW r \in Run, PB(r)' = "toolchain"
               PROVE  /\ lock'[triple'[r]] # B(r)
                      /\ PN(r)' = "wait" => lockpid'[N(r)] # B(r)
    BY DEF NotBack
  <2>1. /\ PB(r) = "toolchain" /\ PN(r)' = PN(r) /\ UNCHANGED <<lock, triple>>
        /\ lockpid'[N(r)] = lockpid[N(r)]
    BY <1>1, PidFacts DEF Stays, PB
  <2> QED
    BY <2>1 DEF NotBack
<1>2. ASSUME NEW p \in BuildSh, Enters(p) PROVE NotBack'
  <2> SUFFICES ASSUME NEW r \in Run, PB(r)' = "toolchain"
               PROVE  /\ lock'[triple'[r]] # B(r)
                      /\ PN(r)' = "wait" => lockpid'[N(r)] # B(r)
    BY DEF NotBack
  <2>1. B(r) \in BuildSh /\ N(r) \in BuildSh
    BY PidFacts
  <2>2. PB(r)' = PB(r) /\ UNCHANGED <<lock, triple>>
    BY <1>2, <2>1 DEF Enters, Moves, PB
  <2>3. PN(r)' = "wait" => PN(r) = "wait" /\ lockpid'[N(r)] = lockpid[N(r)]
    BY <1>2, <2>1 DEF Enters, Moves, PN
  <2> QED
    BY <2>2, <2>3 DEF NotBack
<1> QED
  BY <1>1, <1>2, StepKinds, NotBackBuild

--------------------------------------------------------------------------------
(* The invariant that OneCircle rests on.  Holders is one whatever the     *)
(* order of the starts; NotBack needs Apart, so runs in order.             *)
CircleInv == LockInv /\ Holders /\ (orderly => NotBack)

LEMMA CircleInvInit == ASSUME Init PROVE CircleInv
<1>1. \A r \in Run : PB(r) = "none" /\ PT(r) = "none" /\ PN(r) = "none"
  BY PidFacts DEF Init, PB, PT, PN
<1>2. \A p \in Pid : pc[p] = "none"
  BY DEF Init
<1>3. Holders
  <2>1. \A x \in BuildSh : ~At(x, "wait")
    BY <1>2, BuildShFacts DEF At
  <2> QED
    BY <1>1, <2>1, FileAssumption DEF Init, Holders
<1> QED
  BY <1>1, <1>3, LockInvInit DEF CircleInv, NotBack

LEMMA CircleInvNext == ASSUME CircleInv, [Next]_vars PROVE CircleInv'
<1>1. LockInv' /\ LockInv
  BY LockInvNext DEF CircleInv
<1>2. CASE Next
  <2>1. Holders'
    BY <1>1, <1>2, HoldersNext DEF CircleInv, LockInv
  <2>2. UNCHANGED orderly
    BY <1>1, <1>2, OrderlyStays DEF LockInv
  <2>3. orderly => NotBack'
    BY <1>1, <1>2, NotBackNext DEF CircleInv, LockInv
  <2> QED
    BY <1>1, <2>1, <2>2, <2>3 DEF CircleInv
<1>3. CASE UNCHANGED vars
  <2>1. UNCHANGED <<orderly, triple, pc, lockpid, lock, disabled, toolchainlock>>
    BY <1>3 DEF vars, user, locks
  <2>2. Holders'
    <3>1. \A t, p : Holds(t, p)' <=> Holds(t, p)
      BY <2>1 DEF Holds, Target, Past
    <3>2. \A p : HoldsT(p)' <=> HoldsT(p)
      BY <2>1 DEF HoldsT, PastT, PT
    <3>3. \A x \in BuildSh : Target(x)' = Target(x) /\ At(x, "wait")' = At(x, "wait")
      BY <2>1 DEF Target, At
    <3>4. \A r \in Run : PT(r)' = PT(r)
      BY <2>1 DEF PT
    <3>5. \A x \in BuildSh, p \in Pid : Holds(Target(x), p)' <=> Holds(Target(x), p)
      BY <2>1 DEF Holds, Target, Past
    <3> QED
      BY <2>1, <3>1, <3>2, <3>3, <3>4, <3>5 DEF CircleInv, Holders
  <2>3. orderly => NotBack'
    BY <2>1 DEF CircleInv, NotBack, PB, PN
  <2> QED
    BY <1>1, <2>1, <2>2, <2>3 DEF CircleInv
<1> QED
  BY <1>2, <1>3

(* Processes wait for each other in a circle in one way only, and never    *)
(* when the runs are started in order, for any number of runs and targets. *)
THEOREM OneCircleOnly == Spec => []OneCircle
<1>1. Init => CircleInv
  BY CircleInvInit
<1>2. CircleInv /\ [Next]_vars => CircleInv'
  BY CircleInvNext
<1>3. CircleInv => OneCircle
  BY OneCircleHolds DEF CircleInv, LockInv
<1> QED
  BY <1>1, <1>2, <1>3, PTL DEF Spec
================================================================================
