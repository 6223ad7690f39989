---------------------------- MODULE PkgBuildProofs ----------------------------
(***************************************************************************)
(* Proofs about PkgBuild and, at the end, about SysrootBuild, which adds   *)
(* two variables to it: for every set of packages, every acyclic           *)
(* dependency graph and every bound on runs and kills.                     *)
(***************************************************************************)
EXTENDS SysrootBuild, SequenceTheorems, TLAPS

--------------------------------------------------------------------------------
(* The call stack.                                                         *)

LEMMA TopFacts ==
  ASSUME stack \in Seq(Frame), stack # <<>>
  PROVE  /\ Len(stack) \in Nat \ {0}
         /\ Top \in Frame
BY EmptySeq, ElementOfSeq DEF Top

LEMMA PrefixFacts ==
  ASSUME NEW S, NEW s \in Seq(S), NEW n \in Nat, n < Len(s)
  PROVE  /\ SubSeq(s, 1, n) \in Seq(S)
         /\ Len(SubSeq(s, 1, n)) = n
         /\ \A i \in 1 .. n : SubSeq(s, 1, n)[i] = s[i]
<1>1. \A i \in 1 .. n : s[i] \in S
  BY ElementOfSeq
<1>2. SubSeq(s, 1, n) \in Seq(S)
  BY <1>1, SubSeqProperties, SMT
<1>3. Len(SubSeq(s, 1, n)) = n
  BY <1>1, SubSeqProperties, SMT
<1>4. \A i \in 1 .. n : SubSeq(s, 1, n)[i] = s[i]
  BY <1>1, SubSeqProperties, SMT
<1> QED
  BY <1>2, <1>3, <1>4

LEMMA BelowFacts ==
  ASSUME stack \in Seq(Frame), stack # <<>>
  PROVE  /\ Below \in Seq(Frame)
         /\ Len(Below) = Len(stack) - 1
         /\ \A i \in 1 .. Len(stack) - 1 : Below[i] = stack[i]
<1>1. Len(stack) - 1 \in Nat /\ Len(stack) - 1 < Len(stack)
  BY EmptySeq
<1> QED
  BY <1>1, PrefixFacts DEF Below

LEMMA SetTopFacts ==
  ASSUME stack \in Seq(Frame), stack # <<>>, NEW f \in Frame, SetTop(f)
  PROVE  /\ stack' \in Seq(Frame)
         /\ Len(stack') = Len(stack)
         /\ stack' # <<>>
         /\ Top' = f
         /\ \A i \in 1 .. Len(stack) - 1 : stack'[i] = stack[i]
<1>1. Len(stack) \in Nat \ {0}
  BY EmptySeq
<1> QED
  BY <1>1, ExceptSeq, EmptySeq DEF SetTop, Top

LEMMA GotoFacts ==
  ASSUME stack \in Seq(Frame), stack # <<>>, NEW pc \in PCs \ {"include"}, Goto(pc)
  PROVE  /\ stack' \in Seq(Frame)
         /\ Len(stack') = Len(stack)
         /\ stack' # <<>>
         /\ Top' = [Top EXCEPT !.pc = pc]
         /\ \A i \in 1 .. Len(stack) - 1 : stack'[i] = stack[i]
<1>1. [Top EXCEPT !.pc = pc] \in Frame
  BY TopFacts DEF Frame
<1> QED
  BY <1>1, SetTopFacts DEF Goto

(* What build() leaves on the stack when it is called.                     *)
NewFrame(p) == [pkg |-> p, pc |-> "deps", todo |-> Deps[p], seen |-> {}]

LEMMA EnterFacts ==
  ASSUME NEW p \in Pkg, NEW below \in Seq(Frame), NEW left, Enter(p, below, left)
  PROVE  /\ NewFrame(p) \in Frame
         /\ stack' = Append(below, NewFrame(p))
         /\ stack' \in Seq(Frame)
         /\ Len(stack') = Len(below) + 1
         /\ stack' # <<>>
         /\ Top' = NewFrame(p)
         /\ \A i \in 1 .. Len(below) : stack'[i] = below[i]
<1>1. NewFrame(p) \in Frame
  BY DepsAssumption DEF NewFrame, Frame, PCs
<1>2. stack' = Append(below, NewFrame(p))
  BY DEF Enter, NewFrame, NoneIncluded
<1> QED
  BY <1>1, <1>2, EmptySeq DEF Top

LEMMA ScriptType == \A c \in Command : Script(c) \in Seq(Op)
<1> SUFFICES ASSUME NEW c \in Command PROVE Script(c) \in Seq(Op)
  OBVIOUS
<1>1. \A rm \in {"rm", "rmdeb"}, A \in SUBSET Pkg : Rebuild(rm, A) \in Seq(Op)
  BY DEF Rebuild, Op
<1>2. \A A \in SUBSET Pkg : AllPkgs(A) \in SUBSET Pkg
  BY DEF AllPkgs
<1>3. UNION {Dependents(x) : x \in c.args} \in SUBSET Pkg
  BY DEF Dependents
<1>4. c.args \in SUBSET Pkg
  BY DEF Command
<1>5. \A s, t \in Seq(Op) : s \o t \in Seq(Op)
  OBVIOUS
<1>6. \A op \in {"rm", "rmdeb", "rmpool", "make"}, A \in SUBSET Pkg :
        << [op |-> op, pkgs |-> A] >> \in Seq(Op)
  BY DEF Op
<1>7. (IF c.args = {} THEN Pkg ELSE c.args) \in SUBSET Pkg
  BY <1>4
<1>9. SysrootLoops(c.args) \in Seq(Op)
  BY <1>4 DEF SysrootLoops, Op
<1> DEFINE users == UNION {Dependents(x) : x \in c.args}
<1>8. Rebuild("rm", c.args) \o Rebuild("rmdeb", users) \in Seq(Op)
  BY <1>1, <1>3, <1>4, <1>5
<1> QED
  BY <1>1, <1>2, <1>4, <1>6, <1>7, <1>8, <1>9 DEF Script

--------------------------------------------------------------------------------
(* Type correctness.                                                       *)

LEMMA TypeInit == Init => TypeOK
<1>1. Init => sdk \in BOOLEAN
  BY Zenon DEF Init
<1> QED
  BY <1>1 DEF Init, TypeOK, NoneParked, Content, Command

LEMMA EmptyExcept == ASSUME NEW S, NEW e PROVE [<<>> EXCEPT ![1] = e] \in Seq(S)
<1>1. Len(<<>>) = 0 /\ <<>> \in Seq(S)
  BY EmptySeq
<1>2. DOMAIN <<>> = 1 .. 0
  BY <1>1, LenProperties
<1>3. 1 .. 0 = {}
  OBVIOUS
<1>4. <<>> \in [{} -> S]
  BY <1>1, <1>2, <1>3, LenProperties
<1>5. [<<>> EXCEPT ![1] = e] = <<>>
  BY <1>4
<1> QED
  BY <1>1, <1>5

LEMMA DoneType ==
  ASSUME TypeOK, NEW p, Done(p)
  PROVE  script' \in Seq(Op)
<1>1. CASE script = <<>>
  BY <1>1, EmptyExcept DEF Done
<1>2. CASE script # <<>>
  <2>1. 1 \in 1 .. Len(script) /\ Head(script) = script[1] /\ script[1] \in Op
    BY <1>2, EmptySeq, ElementOfSeq DEF TypeOK
  <2>2. Drop(p) \in Op
    BY <2>1 DEF Drop, Op
  <2> QED
    BY <2>1, <2>2, ExceptSeq DEF Done, TypeOK
<1> QED
  BY <1>1, <1>2

LEMMA StagedType ==
  /\ \A p \in Pkg : {<<p, 0, "full">>} \in SUBSET Content
  /\ {<<BaseSdk, 0, "full">>} \in SUBSET Content
BY DEF Content

LEMMA EnterType ==
  ASSUME TypeOK, NEW p \in Pkg, NEW below \in Seq(Frame),
         NEW left \in SUBSET Content, Enter(p, below, left)
  PROVE  stack' \in Seq(Frame) /\ staged' \in SUBSET Content
<1>1. stack' \in Seq(Frame)
  BY EnterFacts
<1>2. staged' = staged \/ staged' = left \cup {<<BaseSdk, 0, "full">>}
  BY DEF Enter
<1> QED
  BY <1>1, <1>2, StagedType DEF TypeOK

(* One case per action of main.                                            *)
LEMMA TypeMain == ASSUME TypeOK, Main PROVE TypeOK'
<1>1. CASE Start
  <2>1. PICK c \in Commands : command' = c /\ (Begin(c) \/ DepcheckError(c))
    BY <1>1 DEF Start
  <2>2. phase' \in {"run", "exit"} /\ cleanups' \in {0, 1} /\ script' \in {Script(c), <<>>}
    BY <2>1 DEF Begin, DepcheckError
  <2>3. script' \in Seq(Op) /\ command' \in Command
    BY <2>1, <2>2, ScriptType, EmptySeq, CommandsAssumption
  <2>4. sdk' \in BOOLEAN
    BY <1>1 DEF Start, TypeOK
  <2> QED
    BY <1>1, <2>2, <2>3, <2>4 DEF Start, FreshTmp, TypeOK, NoneParked, tree
<1>2. CASE NextLoop
  BY <1>2 DEF NextLoop, TypeOK, tree, tmp, fixed
<1>3. CASE Finish
  BY <1>3 DEF Finish, cleanup, TypeOK, NoneParked, tree, fixed, Content
<1>4. ASSUME NEW p \in Pkg, Remove(p) PROVE TypeOK'
  <2>1. script' \in Seq(Op)
    BY <1>4, DoneType DEF Remove, MainAt
  <2> QED
    BY <1>4, <2>1 DEF Remove, TypeOK, tmp, fixed
<1>5. ASSUME NEW p \in Pkg, Make(p) PROVE TypeOK'
  <2>1. stack' \in Seq(Frame) /\ staged' \in SUBSET Content
    BY <1>5, EnterType DEF Make, TypeOK
  <2> QED
    BY <1>5, <2>1 DEF Make, TypeOK, tree, fixed
<1>6. ASSUME NEW p \in Pkg, MakeNothing(p) PROVE TypeOK'
  <2>1. script' \in Seq(Op)
    BY <1>6, DoneType DEF MakeNothing, MainAt
  <2> QED
    BY <1>6, <2>1 DEF MakeNothing, CopyDeb, TypeOK, tmp, fixed
<1> QED
  BY <1>1, <1>2, <1>3, <1>4, <1>5, <1>6 DEF Main

(* The steps of sysroot().                                                 *)
LEMMA TypeVisit == ASSUME TypeOK, Visit PROVE TypeOK'
<1>1. CASE TarError
  BY <1>1 DEF TarError, cleanup, TypeOK, NoneParked, tree, fixed, Content
<1>2. ASSUME NEW p \in Pkg, VisitBuild(p) PROVE TypeOK'
  <2>1. << [op |-> "build", pkgs |-> {p}] >> \in Seq(Op)
    BY DEF Op
  <2>2. script' \in Seq(Op)
    BY <1>2, <2>1 DEF VisitBuild, TypeOK
  <2> QED
    BY <1>2, <2>2 DEF VisitBuild, TypeOK, tree, tmp, fixed
<1>3. ASSUME NEW p \in Pkg, Visited(p) PROVE TypeOK'
  <2>1. script' \in Seq(Op)
    BY <1>3, DoneType DEF Visited, MainAt
  <2> QED
    BY <1>3, <2>1 DEF Visited, CopyDeb, TypeOK, tmp, fixed
<1> QED
  BY <1>1, <1>2, <1>3 DEF Visit

(* The top frame of a stack that is not empty, and its next dependency.    *)
LEMMA TopTypes ==
  ASSUME TypeOK, stack # <<>>
  PROVE  /\ Top \in Frame /\ Top.pkg \in Pkg /\ Top.todo \in Seq(Pkg)
         /\ Top.todo # <<>> => Head(Top.todo) \in Pkg /\ Tail(Top.todo) \in Seq(Pkg)
         /\ Below \in Seq(Frame)
BY TopFacts, BelowFacts, HeadTailProperties DEF TypeOK, Frame

LEMMA OutputType == ASSUME TypeOK, NEW d \in Pkg PROVE Output(d) \in SUBSET Content
BY DEF Output, TypeOK, Content

(* One case per action of a subshell of build().                           *)
LEMMA TypeSubshell == ASSUME TypeOK, Subshell PROVE TypeOK'
<1>0. stack \in Seq(Frame)
  BY DEF TypeOK
<1>1. CASE SkipSeen
  <2>1. [Top EXCEPT !.todo = Tail(@)] \in Frame
    BY <1>1, TopTypes DEF SkipSeen, At, Frame
  <2>2. stack' \in Seq(Frame)
    BY <1>0, <1>1, <2>1, SetTopFacts DEF SkipSeen, At
  <2> QED
    BY <1>1, <2>2 DEF SkipSeen, TypeOK, steps, tree, fixed
<1>2. CASE Descend
  <2> DEFINE d == Head(Top.todo)
             caller == [stack EXCEPT ![Len(stack)].pc = "include"]
  <2>1. d \in Pkg /\ stack # <<>>
    BY <1>2, TopTypes DEF Descend, At
  <2>2. caller \in Seq(Frame)
    <3>1. [Top EXCEPT !.pc = "include"] \in Frame
      BY <1>2, <2>1, TopTypes DEF Descend, Frame, PCs
    <3>2. caller = [stack EXCEPT ![Len(stack)] = [Top EXCEPT !.pc = "include"]]
      BY DEF Top
    <3> QED
      BY <1>0, <2>1, <3>1, <3>2, TopFacts, ExceptSeq, SMTT(30)
  <2>3. stack' \in Seq(Frame) /\ staged' \in SUBSET Content
    <3>1. MovedAway \in SUBSET Content /\ staged \in SUBSET Content
      BY DEF MovedAway, TypeOK
    <3>2. Enter(d, caller, staged) \/ Enter(d, caller, MovedAway)
      BY <1>2 DEF Descend
    <3> HIDE DEF d, caller
    <3> QED
      BY <2>1, <2>2, <3>1, <3>2, EnterType
  <2>4. parked' \in [Pkg -> SUBSET Content]
    BY <1>2, <2>1 DEF Descend, TypeOK
  <2> QED
    BY <1>2, <2>3, <2>4 DEF Descend, TypeOK, tree, fixed
<1>3. CASE Include
  <2> DEFINE d == Head(Top.todo)
             rest == (IF recursivedeps THEN Deps[d] ELSE <<>>) \o Tail(Top.todo)
             f == [Top EXCEPT !.pc = "deps", !.todo = rest, !.seen = @ \cup {d}]
  <2>1. stack # <<>>
    BY <1>3 DEF Include, At
  <2>2. d \in Pkg /\ Tail(Top.todo) \in Seq(Pkg)
    BY <1>3, <2>1, TopTypes DEF Include, At, Frame
  <2>3. f \in Frame
    <3>1. rest \in Seq(Pkg)
      BY <2>2, DepsAssumption
    <3> HIDE DEF rest, d
    <3> QED
      BY <2>1, <2>2, <3>1, TopTypes DEF Frame, PCs
  <2>4. SetTop(f)
    BY <1>3 DEF Include
  <2>5. stack' \in Seq(Frame)
    BY <1>0, <2>1, <2>3, <2>4, SetTopFacts
  <2>6. staged' \in SUBSET Content
    BY <1>3, <2>2, OutputType DEF Include, TypeOK
  <2> QED
    BY <1>3, <2>5, <2>6 DEF Include, TypeOK, steps, tree, fixed
<1>4. CASE CompatOk
  <2>1. stack' \in Seq(Frame)
    BY <1>0, <1>4, GotoFacts DEF CompatOk, DepsDone, At, PCs
  <2>2. Top.pkg \in Pkg
    BY <1>4, TopTypes DEF CompatOk, DepsDone, At
  <2> QED
    BY <1>4, <2>1, <2>2, StagedType DEF CompatOk, TypeOK, tree, fixed
<1>5. CASE CompatError
  <2>1. stack' \in Seq(Frame)
    BY <1>5, TopTypes DEF CompatError, DepsDone, At, Error
  <2> QED
    BY <1>5, <2>1
    DEF CompatError, Error, cleanup, NoneParked, TypeOK, tree, fixed
<1>6. CASE FetchOk
  <2>1. stack' \in Seq(Frame)
    BY <1>0, <1>6, GotoFacts DEF FetchOk, At, PCs
  <2> QED
    BY <1>6, <2>1 DEF FetchOk, AfterRm, Unpacked, TypeOK, tmp, fixed
<1>7. CASE FetchFail
  BY <1>7, TopTypes DEF FetchFail, ReturnTwo, At, TypeOK, fixed
<1>8. CASE PatchOk
  <2>1. stack' \in Seq(Frame)
    BY <1>0, <1>8, GotoFacts DEF PatchOk, At, PCs
  <2> QED
    BY <1>8, <2>1 DEF PatchOk, TypeOK, tmp, fixed
<1>9. CASE PatchError
  BY <1>9, TopTypes, SMTT(30)
  DEF PatchError, At, Error, cleanup, NoneParked, TypeOK, fixed, Content
<1>10. CASE BuildStart
  <2>1. stack' \in Seq(Frame)
    BY <1>0, <1>10, GotoFacts DEF BuildStart, At, PCs
  <2>2. Top.pkg \in Pkg
    BY <1>10, TopTypes DEF BuildStart, At
  <2>3. gen' \in [Pkg -> Nat] /\ dir' \in [Pkg -> {"none", "partial", "full"}]
    BY <1>10, <2>2 DEF BuildStart, TypeOK
  <2> QED
    BY <1>10, <2>1, <2>2, <2>3 DEF BuildStart, TypeOK, tmp, fixed
<1>11. CASE BuildOk
  <2>1. stack' \in Seq(Frame)
    BY <1>0, <1>11, GotoFacts DEF BuildOk, At, PCs
  <2>2. Top.pkg \in Pkg
    BY <1>11, TopTypes DEF BuildOk, At
  <2> QED
    BY <1>11, <2>1, <2>2 DEF BuildOk, TypeOK, tmp, fixed
<1>12. CASE BuildFail
  BY <1>12, TopTypes DEF BuildFail, ReturnTwo, AfterFailure, At, TypeOK, fixed
<1>13. CASE Return
  <2>1. stack # <<>> /\ Top.pkg \in Pkg /\ Below \in Seq(Frame)
    BY <1>13, TopTypes DEF Return, At
  <2>2. /\ staged' \in SUBSET Content
        /\ parked' = parked \/ parked' = [parked EXCEPT ![Top.pkg] = {}]
    BY <1>13, <2>1, SMTT(30) DEF Return, TypeOK
  <2>3. script' \in Seq(Op)
    BY <1>13, DoneType DEF Return, TypeOK
  <2>4. pool' \in [Pkg -> Nat]
    BY <1>13, <2>1 DEF Return, CopyDeb, TypeOK
  <2> QED
    BY <1>13, <2>1, <2>2, <2>3, <2>4 DEF Return, LibAfter, TypeOK, fixed
<1>14. CASE DryReturn
  <2>1. Top.pkg \in Pkg /\ Below \in Seq(Frame)
    BY <1>14, TopTypes DEF DryReturn, DepsDone, At
  <2>2. script' \in Seq(Op)
    BY <1>14, DoneType DEF DryReturn, TypeOK
  <2>3. sdk' \in BOOLEAN
    BY <1>14, Zenon DEF DryReturn
  <2> QED
    BY <1>14, <2>1, <2>2, <2>3 DEF DryReturn, LibAfter, TypeOK, tree
<1> QED
  BY <1>1, <1>2, <1>3, <1>4, <1>5, <1>6, <1>7, <1>8, <1>9, <1>10, <1>11,
     <1>12, <1>13, <1>14 DEF Subshell

LEMMA TypeUnwind == ASSUME TypeOK, Unwind PROVE TypeOK'
<1>1. CASE CallerError
  <2>1. stack' \in Seq(Frame)
    BY <1>1, TopTypes, EmptySeq DEF CallerError
  <2> QED
    BY <1>1, <2>1 DEF CallerError, cleanup, NoneParked, TypeOK, tree, fixed
<1>2. CASE ExitOne
  BY <1>2, TopTypes DEF ExitOne, TypeOK, tree, tmp, fixed
<1>3. CASE Failed
  BY <1>3 DEF Failed, TypeOK, tree, tmp, fixed
<1> QED
  BY <1>1, <1>2, <1>3 DEF Unwind

LEMMA TypeNext == ASSUME TypeOK, [Next]_vars PROVE TypeOK'
<1>1. CASE Crash
  BY <1>1 DEF Crash, TypeOK, tmp, fixed
<1>2. CASE UNCHANGED vars
  BY <1>2 DEF vars, TypeOK, tree, tmp, fixed
<1> QED
  BY <1>1, <1>2, TypeMain, TypeVisit, TypeSubshell, TypeUnwind DEF Next

(* Every variable keeps its type.                                          *)
THEOREM TypeCorrect == Spec => []TypeOK
BY TypeInit, TypeNext, PTL DEF Spec

--------------------------------------------------------------------------------
(* The inductive invariant behind StagedExact and LibOwn.  While a run     *)
(* builds, the frames of the stack describe all that is under $_TMP: the   *)
(* SDK of the innermost subshell is $_SDK itself, the one of the subshell  *)
(* around package d's is parked under the name $_SDK.d.                    *)

Late == {"fetch", "patch", "build", "building", "done"}

Rank == CHOOSE rank \in [Pkg -> 0 .. Cardinality(Pkg)] :
          \A p \in Pkg : \A d \in Range(Deps[p]) : rank[d] < rank[p]

(* What is included and what is left of f's list account for what f's      *)
(* package needs.                                                          *)
Covered(f, rec) ==
  LET known == f.seen \cup Range(f.todo) IN
  /\ Range(Deps[f.pkg]) \subseteq known
  /\ known \subseteq Needs(f.pkg, rec)
  /\ rec => \A d \in f.seen : Range(Deps[d]) \subseteq known

FrameOK(f, d, rec) == /\ \A x \in Range(f.todo) : x # SdkPkg /\ Rank[x] < Rank[f.pkg]
                      /\ \A x \in f.seen : d[x] # "none"
                      /\ Covered(f, rec)
                      /\ f.pc \in Late => f.todo = <<>>

(* A staging directory of frame f with content c, when the packages are in *)
(* generations g and their directories in states d.                        *)
Own(f) == IF f.pc \in Late THEN {<<f.pkg, 0, "full">>} ELSE {}
Holds(f, c, g, d) == c = {<<BaseSdk, 0, "full">>} \cup Own(f)
                           \cup {<<x, g[x], d[x]>> : x \in f.seen}

Held(i) == IF i = Len(stack) THEN staged ELSE parked[stack[i + 1].pkg]

Building == phase = "run" /\ ~dryrun

FramesOK == Building =>
  \A i \in 1 .. Len(stack) : FrameOK(stack[i], dir, recursivedeps)

SdksHeld == Building =>
  /\ stack = <<>> => staged = {}
  /\ \A i \in 1 .. Len(stack) : Holds(stack[i], Held(i), gen, dir)

Nested == Building =>
  /\ \A i \in 1 .. Len(stack) - 1 :
       stack[i].pc = "include" /\ Head(stack[i].todo) = stack[i + 1].pkg
  /\ \A i, j \in 1 .. Len(stack) :
       /\ stack[j].pkg \notin stack[i].seen
       /\ i < j => Rank[stack[j].pkg] < Rank[stack[i].pkg]

DirsOK == Building =>
  /\ \A i \in 1 .. Len(stack) :
       (i = Len(stack) => stack[i].pc \notin {"building", "done"})
         => dir[stack[i].pkg] = "none"
  /\ At("include") => dir[Head(Top.todo)] # "none"
  /\ At("done") => dir[Top.pkg] = "full"

LibHeld == phase = "run" =>
  lib = IF stack # <<>> /\ Top.pc \in Late THEN HasCompat \cap {Top.pkg} ELSE {}

Dry == /\ phase = "idle" => stack = <<>>
       /\ phase = "run" /\ dryrun =>
            \A i \in 1 .. Len(stack) : stack[i].pc \in {"deps", "include"}

StackInv == FramesOK /\ SdksHeld /\ Nested /\ DirsOK /\ LibHeld /\ Dry

--------------------------------------------------------------------------------
(* Facts about the dependency graph and its lists.                         *)

LEMMA RankFacts ==
  /\ Rank \in [Pkg -> Int]
  /\ \A p \in Pkg : \A d \in Range(Deps[p]) : Rank[d] < Rank[p]
<1> DEFINE Good(rank) == \A p \in Pkg : \A d \in Range(Deps[p]) : rank[d] < rank[p]
<1>1. \E rank \in [Pkg -> 0 .. Cardinality(Pkg)] : Good(rank)
  BY AcyclicAssumption
<1>2. Rank \in [Pkg -> 0 .. Cardinality(Pkg)] /\ Good(Rank)
  <2> HIDE DEF Good
  <2>1. Rank = CHOOSE rank \in [Pkg -> 0 .. Cardinality(Pkg)] : Good(rank)
    BY Zenon DEF Rank, Good
  <2> QED
    BY <1>1, <2>1, Zenon
<1> QED
  BY <1>2

LEMMA DepsFacts ==
  ASSUME NEW p \in Pkg
  PROVE  /\ Deps[p] \in Seq(Pkg)
         /\ Range(Deps[p]) \subseteq Pkg
         /\ \A x \in Range(Deps[p]) : x # SdkPkg
BY DepsAssumption, LenProperties DEF Range

LEMMA NeedsFacts ==
  ASSUME NEW p \in Pkg, NEW rec \in BOOLEAN
  PROVE  /\ Range(Deps[p]) \subseteq Needs(p, rec)
         /\ rec => \A d \in Needs(p, rec) : Range(Deps[d]) \subseteq Needs(p, rec)
BY DepsFacts DEF Needs, Closed

LEMMA RangeFacts ==
  ASSUME NEW S, NEW s \in Seq(S), s # <<>>
  PROVE  /\ Head(s) \in Range(s)
         /\ Range(s) = {Head(s)} \cup Range(Tail(s))
<1>1. Len(s) \in Nat \ {0} /\ DOMAIN s = 1 .. Len(s) /\ Head(s) = s[1]
  BY EmptySeq, LenProperties
<1>2. /\ Tail(s) \in Seq(S) /\ Len(Tail(s)) = Len(s) - 1
      /\ DOMAIN Tail(s) = 1 .. Len(s) - 1
      /\ \A i \in 1 .. Len(s) - 1 : Tail(s)[i] = s[i + 1]
  BY HeadTailProperties, LenProperties
<1>3. Head(s) \in Range(s)
  BY <1>1 DEF Range
<1>4. \A x \in Range(Tail(s)) : x \in Range(s)
  BY <1>1, <1>2 DEF Range
<1>5. ASSUME NEW x \in Range(s), x # Head(s) PROVE x \in Range(Tail(s))
  <2>1. PICK i \in 1 .. Len(s) : x = s[i]
    BY <1>1, <1>5 DEF Range
  <2>2. i - 1 \in 1 .. Len(s) - 1 /\ Tail(s)[i - 1] = x
    BY <1>1, <1>2, <1>5, <2>1
  <2> QED
    BY <1>2, <2>2 DEF Range
<1> QED
  BY <1>3, <1>4, <1>5

LEMMA RangeConcat ==
  ASSUME NEW S, NEW s \in Seq(S), NEW t \in Seq(S)
  PROVE  Range(s \o t) = Range(s) \cup Range(t)
<1>1. /\ s \o t \in Seq(S) /\ Len(s \o t) = Len(s) + Len(t)
      /\ \A i \in 1 .. Len(s) + Len(t) :
           (s \o t)[i] = IF i <= Len(s) THEN s[i] ELSE t[i - Len(s)]
  BY ConcatProperties
<1>2. /\ Len(s) \in Nat /\ Len(t) \in Nat
      /\ DOMAIN s = 1 .. Len(s) /\ DOMAIN t = 1 .. Len(t)
      /\ DOMAIN (s \o t) = 1 .. Len(s) + Len(t)
  BY <1>1, LenProperties
<1>3. ASSUME NEW x \in Range(s \o t) PROVE x \in Range(s) \cup Range(t)
  <2>1. PICK i \in 1 .. Len(s) + Len(t) : x = (s \o t)[i]
    BY <1>2, <1>3 DEF Range
  <2>2. CASE i <= Len(s)
    BY <1>1, <1>2, <2>1, <2>2 DEF Range
  <2>3. CASE i > Len(s)
    <3>1. i - Len(s) \in 1 .. Len(t) /\ x = t[i - Len(s)]
      BY <1>1, <1>2, <2>1, <2>3
    <3> QED
      BY <1>2, <3>1 DEF Range
  <2> QED
    BY <1>2, <2>2, <2>3
<1>4. ASSUME NEW x \in Range(s) PROVE x \in Range(s \o t)
  BY <1>1, <1>2, <1>4 DEF Range
<1>5. ASSUME NEW x \in Range(t) PROVE x \in Range(s \o t)
  <2>1. PICK i \in 1 .. Len(t) : x = t[i]
    BY <1>2, <1>5 DEF Range
  <2>2. i + Len(s) \in 1 .. Len(s) + Len(t) /\ (s \o t)[i + Len(s)] = x
    BY <1>1, <1>2, <2>1
  <2> QED
    BY <1>2, <2>2 DEF Range
<1> QED
  BY <1>3, <1>4, <1>5

LEMMA RangeEmpty == Range(<<>>) = {}
BY EmptySeq, LenProperties DEF Range

--------------------------------------------------------------------------------
(* A step that only changes the innermost subshell, from frame Top to f.   *)

LEMMA TopStep ==
  ASSUME TypeOK, StackInv, Building, Building', stack # <<>>,
         NEW f \in Frame, SetTop(f), f.pkg = Top.pkg,
         parked' = parked, recursivedeps' = recursivedeps,
         \A i \in 1 .. Len(stack) - 1 : \A x \in stack[i].seen :
           dir'[x] = dir[x] /\ gen'[x] = gen[x],
         FrameOK(f, dir', recursivedeps),
         Holds(f, staged', gen', dir'),
         \A i \in 1 .. Len(stack) : stack[i].pkg \notin f.seen,
         \A i \in 1 .. Len(stack) - 1 : dir'[stack[i].pkg] = dir[stack[i].pkg],
         f.pc \notin {"building", "done"} => dir'[Top.pkg] = "none",
         f.pc = "include" => dir'[Head(f.todo)] # "none",
         f.pc = "done" => dir'[Top.pkg] = "full"
  PROVE  FramesOK' /\ SdksHeld' /\ Nested' /\ DirsOK'
<1> DEFINE n == Len(stack)
<1>1. /\ n \in Nat \ {0} /\ Len(stack') = n /\ stack' # <<>>
      /\ stack' \in Seq(Frame) /\ Top' = f /\ stack'[n] = f
      /\ stack[n] = Top
      /\ \A i \in 1 .. n - 1 : stack'[i] = stack[i]
  <2>1. n \in Nat \ {0} /\ stack[n] = Top
    BY TopFacts DEF TypeOK, Top
  <2>2. /\ Len(stack') = n /\ stack' # <<>> /\ stack' \in Seq(Frame) /\ Top' = f
        /\ \A i \in 1 .. n - 1 : stack'[i] = stack[i]
    BY SetTopFacts DEF TypeOK
  <2> QED
    BY <2>1, <2>2 DEF Top
<1>2. \A i \in 1 .. n : stack'[i].pkg = stack[i].pkg
  BY <1>1
<1> HIDE DEF n
<1>3. FramesOK'
  <2> SUFFICES ASSUME NEW i \in 1 .. n
               PROVE  FrameOK(stack'[i], dir', recursivedeps)
    BY <1>1 DEF FramesOK
  <2>1. CASE i = n
    BY <1>1, <2>1
  <2>2. CASE i # n
    <3>1. i \in 1 .. n - 1 /\ stack'[i] = stack[i]
      BY <1>1, <2>2
    <3>2. FrameOK(stack[i], dir, recursivedeps)
      BY DEF StackInv, FramesOK, n
    <3>3. \A x \in stack[i].seen : dir'[x] = dir[x]
      BY <3>1 DEF n
    <3> QED
      BY <3>1, <3>2, <3>3 DEF FrameOK
  <2> QED
    BY <2>1, <2>2
<1>4. SdksHeld'
  <2> SUFFICES ASSUME NEW i \in 1 .. n
               PROVE  Holds(stack'[i], Held(i)', gen', dir')
    BY <1>1 DEF SdksHeld
  <2>1. CASE i = n
    BY <1>1, <2>1 DEF Held
  <2>2. CASE i # n
    <3>1. i \in 1 .. n - 1 /\ stack'[i] = stack[i] /\ i + 1 \in 1 .. n
      BY <1>1, <2>2
    <3>2. Held(i)' = Held(i)
      BY <1>1, <1>2, <2>2, <3>1 DEF Held, n
    <3>3. Holds(stack[i], Held(i), gen, dir)
      BY DEF StackInv, SdksHeld, n
    <3>4. {<<x, gen'[x], dir'[x]>> : x \in stack[i].seen}
            = {<<x, gen[x], dir[x]>> : x \in stack[i].seen}
      BY <3>1 DEF n
    <3> QED
      BY <3>1, <3>2, <3>3, <3>4 DEF Holds
  <2> QED
    BY <2>1, <2>2
<1>5. Nested'
  <2>1. \A i \in 1 .. n - 1 :
          stack'[i].pc = "include" /\ Head(stack'[i].todo) = stack'[i + 1].pkg
    BY <1>1, <1>2 DEF StackInv, Nested, n
  <2>2. ASSUME NEW i \in 1 .. n, NEW j \in 1 .. n
        PROVE  /\ stack'[j].pkg \notin stack'[i].seen
               /\ i < j => Rank[stack'[j].pkg] < Rank[stack'[i].pkg]
    <3>1. i < j => Rank[stack'[j].pkg] < Rank[stack'[i].pkg]
      BY <1>2 DEF StackInv, Nested, n
    <3>2. CASE i = n
      BY <1>1, <1>2, <3>1, <3>2 DEF n
    <3>3. CASE i # n
      BY <1>1, <1>2, <3>1, <3>3 DEF StackInv, Nested, n
    <3> QED
      BY <3>2, <3>3
  <2> QED
    BY <1>1, <2>1, <2>2 DEF Nested
<1>6. DirsOK'
  <2>1. ASSUME NEW i \in 1 .. n, i = n => stack'[i].pc \notin {"building", "done"}
        PROVE  dir'[stack'[i].pkg] = "none"
    <3>1. CASE i = n
      BY <1>1, <2>1, <3>1
    <3>2. CASE i # n
      BY <1>1, <1>2, <3>2 DEF StackInv, DirsOK, n
    <3> QED
      BY <3>1, <3>2
  <2> QED
    BY <1>1, <2>1 DEF DirsOK, At
<1> QED
  BY <1>3, <1>4, <1>5, <1>6

--------------------------------------------------------------------------------
(* What the invariant says of the innermost subshell.                      *)

LEMMA TopInv ==
  ASSUME TypeOK, StackInv, Building, stack # <<>>
  PROVE  /\ Len(stack) \in Nat \ {0} /\ stack[Len(stack)] = Top /\ Top \in Frame
         /\ FrameOK(Top, dir, recursivedeps)
         /\ Holds(Top, staged, gen, dir)
         /\ \A i \in 1 .. Len(stack) : Top.pkg \notin stack[i].seen
         /\ \A i \in 1 .. Len(stack) : stack[i].pkg \notin Top.seen
         /\ \A i \in 1 .. Len(stack) - 1 : Rank[Top.pkg] < Rank[stack[i].pkg]
         /\ \A i \in 1 .. Len(stack) : stack[i] \in Frame
         /\ Top.pc \notin {"building", "done"} => dir[Top.pkg] = "none"
<1>1. Len(stack) \in Nat \ {0} /\ stack[Len(stack)] = Top /\ Top \in Frame
  BY TopFacts DEF TypeOK, Top
<1>2. Len(stack) \in 1 .. Len(stack)
  BY <1>1
<1>3. \A i \in 1 .. Len(stack) : stack[i] \in Frame
  BY ElementOfSeq DEF TypeOK
<1>4. Holds(Top, staged, gen, dir)
  BY <1>1, <1>2 DEF StackInv, SdksHeld, Held
<1>5. FrameOK(Top, dir, recursivedeps)
  BY <1>1, <1>2 DEF StackInv, FramesOK
<1>6. /\ \A i \in 1 .. Len(stack) : Top.pkg \notin stack[i].seen
      /\ \A i \in 1 .. Len(stack) : stack[i].pkg \notin Top.seen
      /\ \A i \in 1 .. Len(stack) - 1 : Rank[Top.pkg] < Rank[stack[i].pkg]
  BY <1>1, <1>2 DEF StackInv, Nested
<1>7. Top.pc \notin {"building", "done"} => dir[Top.pkg] = "none"
  BY <1>1, <1>2 DEF StackInv, DirsOK
<1> QED
  BY <1>1, <1>3, <1>4, <1>5, <1>6, <1>7

(* A package that is still on the innermost subshell's list ranks below    *)
(* every package of the stack, so it is none of them.                      *)
LEMMA NextDep ==
  ASSUME TypeOK, StackInv, Building, stack # <<>>, NEW d \in Range(Top.todo)
  PROVE  /\ d # SdkPkg /\ d \in Pkg
         /\ \A i \in 1 .. Len(stack) : Rank[d] < Rank[stack[i].pkg] /\ stack[i].pkg # d
<1>1. d # SdkPkg /\ Rank[d] < Rank[Top.pkg]
  BY TopInv DEF FrameOK
<1>2. d \in Pkg
  BY TopTypes, LenProperties DEF Range
<1>3. ASSUME NEW i \in 1 .. Len(stack) PROVE Rank[d] < Rank[stack[i].pkg]
  <2>1. stack[i].pkg \in Pkg /\ Top.pkg \in Pkg
    BY TopInv DEF Frame
  <2>2. Rank[d] \in Int /\ Rank[Top.pkg] \in Int /\ Rank[stack[i].pkg] \in Int
    BY <1>2, <2>1, RankFacts
  <2>3. i = Len(stack) \/ i \in 1 .. Len(stack) - 1
    BY TopInv
  <2> QED
    BY <1>1, <2>2, <2>3, TopInv
<1>4. ASSUME NEW i \in 1 .. Len(stack) PROVE stack[i].pkg # d
  BY <1>2, <1>3, RankFacts
<1> QED
  BY <1>1, <1>2, <1>3, <1>4

(* build() calls itself for a dependency.                                  *)
LEMMA DescendStep ==
  ASSUME TypeOK, StackInv, Building, Descend
  PROVE  FramesOK' /\ SdksHeld' /\ Nested' /\ DirsOK'
<1> DEFINE d == Head(Top.todo)
           n == Len(stack)
           caller == [stack EXCEPT ![Len(stack)].pc = "include"]
           f == [Top EXCEPT !.pc = "include"]
<1>1. /\ stack # <<>> /\ Top.pc = "deps" /\ Top.todo # <<>> /\ ~hasbeenbuilt(d)
      /\ Enter(d, caller, {}) /\ parked' = [parked EXCEPT ![d] = staged]
      /\ phase' = "run" /\ dir' = dir /\ gen' = gen
      /\ recursivedeps' = recursivedeps /\ command' = command
  BY DEF Descend, At, Building, MovedAway, tree, fixed
<1>2. d \in Pkg /\ d \in Range(Top.todo) /\ dir[d] = "none"
  BY <1>1, TopTypes, RangeFacts DEF hasbeenbuilt, Building
<1>3. n \in Nat \ {0} /\ stack[n] = Top /\ f \in Frame
  BY <1>1, TopInv DEF Frame, PCs
<1>4. /\ caller \in Seq(Frame) /\ Len(caller) = n /\ caller[n] = f
      /\ \A i \in 1 .. n - 1 : caller[i] = stack[i]
  <2>1. caller = [stack EXCEPT ![n] = f]
    BY DEF Top
  <2> QED
    BY <1>3, <2>1, ExceptSeq DEF TypeOK
<1>5. /\ stack' \in Seq(Frame) /\ Len(stack') = n + 1 /\ stack' # <<>>
      /\ Top' = NewFrame(d) /\ stack'[n + 1] = NewFrame(d) /\ stack'[n] = f
      /\ \A i \in 1 .. n - 1 : stack'[i] = stack[i]
  <2>1. /\ stack' \in Seq(Frame) /\ Len(stack') = n + 1 /\ stack' # <<>>
        /\ Top' = NewFrame(d)
        /\ \A i \in 1 .. n : stack'[i] = caller[i]
    <3> HIDE DEF caller, d
    <3> QED
      BY <1>1, <1>2, <1>4, EnterFacts
  <2>2. n + 1 = Len(stack') /\ n \in 1 .. n /\ \A i \in 1 .. n - 1 : i \in 1 .. n
    BY <1>3, <2>1
  <2>3. stack'[n + 1] = NewFrame(d)
    BY <2>1, <2>2 DEF Top
  <2>4. stack'[n] = f /\ \A i \in 1 .. n - 1 : stack'[i] = stack[i]
    BY <1>4, <2>1, <2>2
  <2> QED
    BY <2>1, <2>3, <2>4
<1>6. staged' = {<<BaseSdk, 0, "full">>}
  BY <1>1 DEF Enter, Building
<1>7. \A i \in 1 .. n : /\ stack'[i].pkg = stack[i].pkg
                        /\ stack'[i].seen = stack[i].seen
                        /\ stack'[i].todo = stack[i].todo
  <2>1. f.seen = Top.seen /\ f.todo = Top.todo /\ f.pkg = Top.pkg
    BY <1>1, TopTypes DEF Frame
  <2> HIDE DEF f
  <2> QED
    BY <1>3, <1>5, <2>1
<1>8. \A i \in 1 .. n : Rank[d] < Rank[stack[i].pkg] /\ stack[i].pkg # d
  BY <1>1, <1>2, NextDep
<1>9. \A i \in 1 .. n : d \notin stack[i].seen
  BY <1>2 DEF StackInv, FramesOK, FrameOK
<1>10. f.pc = "include" /\ f.todo = Top.todo /\ f.seen = Top.seen /\ f.pkg = Top.pkg
  BY <1>1, TopTypes DEF Frame
<1>11. /\ FrameOK(Top, dir, recursivedeps) /\ Holds(Top, staged, gen, dir)
       /\ dir[Top.pkg] = "none"
  BY <1>1, TopInv
<1>12. NewFrame(d).pkg = d /\ NewFrame(d).pc = "deps" /\ NewFrame(d).todo = Deps[d]
       /\ NewFrame(d).seen = {}
  BY DEF NewFrame
<1>13. recursivedeps \in BOOLEAN
  BY DEF TypeOK
<1> HIDE DEF d, n, caller, f
<1>14. FramesOK'
  <2> SUFFICES ASSUME NEW i \in 1 .. n + 1
               PROVE  FrameOK(stack'[i], dir', recursivedeps')
    BY <1>5 DEF FramesOK
  <2>1. CASE i = n + 1
    BY <1>1, <1>2, <1>5, <1>12, <1>13, <2>1, DepsFacts, RankFacts, NeedsFacts
    DEF FrameOK, Covered, Late
  <2>2. CASE i = n
    BY <1>1, <1>5, <1>10, <1>11, <2>2 DEF FrameOK, Covered, Late
  <2>3. CASE i \in 1 .. n - 1
    <3>1. stack'[i] = stack[i] /\ FrameOK(stack[i], dir, recursivedeps)
      BY <1>3, <1>5, <2>3 DEF StackInv, FramesOK, n
    <3> QED
      BY <1>1, <3>1
  <2> QED
    BY <1>3, <2>1, <2>2, <2>3
<1>15. SdksHeld'
  <2> SUFFICES ASSUME NEW i \in 1 .. n + 1
               PROVE  Holds(stack'[i], Held(i)', gen', dir')
    BY <1>5 DEF SdksHeld
  <2>1. CASE i = n + 1
    <3>1. Held(i)' = staged'
      BY <1>5, <2>1 DEF Held
    <3> QED
      BY <1>5, <1>6, <1>12, <2>1, <3>1 DEF Holds, Own, Late
  <2>2. CASE i = n
    <3>1. Held(i)' = parked'[d]
      BY <1>3, <1>5, <1>12, <2>2 DEF Held
    <3>2. parked'[d] = staged
      BY <1>1, <1>2 DEF TypeOK
    <3> QED
      BY <1>1, <1>5, <1>10, <1>11, <2>2, <3>1, <3>2 DEF Holds, Own, Late
  <2>3. CASE i \in 1 .. n - 1
    <3>1. i \in 1 .. n /\ i + 1 \in 1 .. n /\ i # n /\ i # n + 1
      BY <1>3, <2>3
    <3>2. Held(i)' = parked'[stack[i + 1].pkg]
      BY <1>5, <1>7, <3>1 DEF Held
    <3>3. Held(i) = parked[stack[i + 1].pkg]
      BY <3>1 DEF Held, n
    <3>4. stack[i + 1].pkg \in Pkg /\ stack[i + 1].pkg # d
      <4>1. stack[i + 1] \in Frame
        BY <1>1, <3>1, TopInv DEF n
      <4> QED
        BY <1>8, <3>1, <4>1 DEF Frame
    <3>5. Held(i)' = Held(i)
      BY <1>1, <1>2, <3>2, <3>3, <3>4 DEF TypeOK
    <3>6. Holds(stack[i], Held(i), gen, dir)
      BY <3>1 DEF StackInv, SdksHeld, n
    <3> QED
      BY <1>1, <1>5, <2>3, <3>5, <3>6
  <2> QED
    BY <1>3, <2>1, <2>2, <2>3
<1>16. Nested'
  <2>1. ASSUME NEW i \in 1 .. n
        PROVE  stack'[i].pc = "include" /\ Head(stack'[i].todo) = stack'[i + 1].pkg
    <3>1. CASE i = n
      BY <1>5, <1>10, <1>12, <3>1 DEF d
    <3>2. CASE i # n
      <4>1. i \in 1 .. n - 1 /\ i + 1 \in 1 .. n
        BY <1>3, <3>2
      <4> QED
        BY <1>5, <1>7, <4>1 DEF StackInv, Nested, n
    <3> QED
      BY <3>1, <3>2
  <2>2. ASSUME NEW i \in 1 .. n + 1, NEW j \in 1 .. n + 1
        PROVE  /\ stack'[j].pkg \notin stack'[i].seen
               /\ i < j => Rank[stack'[j].pkg] < Rank[stack'[i].pkg]
    <3>1. CASE i = n + 1
      BY <1>3, <1>5, <1>12, <3>1
    <3>2. CASE i \in 1 .. n /\ j = n + 1
      BY <1>5, <1>7, <1>8, <1>9, <1>12, <3>2
    <3>3. CASE i \in 1 .. n /\ j \in 1 .. n
      BY <1>7, <3>3 DEF StackInv, Nested, n
    <3> QED
      BY <1>3, <3>1, <3>2, <3>3
  <2>3. Len(stack') - 1 = n
    BY <1>3, <1>5
  <2> QED
    BY <1>5, <2>1, <2>2, <2>3 DEF Nested
<1>17. DirsOK'
  <2>1. ASSUME NEW i \in 1 .. n + 1 PROVE dir'[stack'[i].pkg] = "none"
    <3>1. CASE i = n + 1
      BY <1>1, <1>2, <1>5, <1>12, <3>1
    <3>2. CASE i = n
      BY <1>1, <1>3, <1>5, <1>10, <1>11, <3>2
    <3>3. CASE i \in 1 .. n - 1
      BY <1>1, <1>3, <1>5, <3>3 DEF StackInv, DirsOK, n
    <3> QED
      BY <1>3, <3>1, <3>2, <3>3
  <2>2. Top'.pc = "deps"
    BY <1>5, <1>12
  <2> QED
    BY <1>5, <2>1, <2>2 DEF DirsOK, At
<1> QED
  BY <1>14, <1>15, <1>16, <1>17

(* The innermost build() returns: its caller gets its own SDK back.        *)
LEMMA ReturnStep ==
  ASSUME TypeOK, StackInv, Building, Return
  PROVE  FramesOK' /\ SdksHeld' /\ Nested' /\ DirsOK'
<1> DEFINE n == Len(stack)
           p == Top.pkg
<1>1. /\ stack # <<>> /\ Top.pc = "done" /\ stack' = Below
      /\ gen' = gen /\ phase' = "run"
      /\ recursivedeps' = recursivedeps /\ command' = command
      /\ dir' = IF p = SdkPkg THEN [dir EXCEPT ![p] = "none"] ELSE dir
  BY DEF Return, At, Building, fixed
<1>2. /\ n \in Nat \ {0} /\ stack[n] = Top /\ p \in Pkg
      /\ Len(stack') = n - 1 /\ stack' \in Seq(Frame)
      /\ \A i \in 1 .. n - 1 : stack'[i] = stack[i]
  BY <1>1, TopInv, TopTypes, BelowFacts DEF TypeOK
<1>3. CASE stack' = <<>>
  <2>1. Len(stack') = 0
    BY <1>3, EmptySeq
  <2>2. staged' = {}
    BY <1>1, <1>3 DEF Return
  <2> QED
    BY <1>3, <2>1, <2>2 DEF FramesOK, SdksHeld, Nested, DirsOK, At
<1>4. CASE stack' # <<>>
  <2>1. n - 1 \in Nat \ {0} /\ n - 1 \in 1 .. n /\ n - 1 \in 1 .. n - 1
    BY <1>2, <1>4, EmptySeq
  <2>2. /\ staged' = parked[p] /\ parked' = [parked EXCEPT ![p] = {}]
    BY <1>1, <1>4 DEF Return
  <2>3. Head(stack[n - 1].todo) = p /\ stack[n - 1].pc = "include"
    BY <1>2, <2>1 DEF StackInv, Nested
  <2>4. stack[n - 1] \in Frame
    BY <1>1, <2>1, TopInv
  <2>5. p \in Range(stack[n - 1].todo)
    BY <2>3, <2>4, RangeFacts DEF Frame
  <2>6. p # SdkPkg
    BY <2>1, <2>5 DEF StackInv, FramesOK, FrameOK
  <2>7. dir' = dir /\ dir[p] = "full"
    BY <1>1, <2>6 DEF StackInv, DirsOK, At, Building
  <2>8. \A i \in 1 .. n - 1 : Held(i)' = Held(i)
    <3> SUFFICES ASSUME NEW i \in 1 .. n - 1 PROVE Held(i)' = Held(i)
      OBVIOUS
    <3>1. CASE i = n - 1
      <4>1. Held(i)' = staged' /\ Held(i) = parked[stack[i + 1].pkg] /\ i + 1 = n
        BY <1>2, <3>1 DEF Held
      <4> QED
        BY <1>2, <2>2, <4>1
    <3>2. CASE i # n - 1
      <4>1. i + 1 \in 1 .. n - 1 /\ i + 1 \in 1 .. n /\ i # n
        BY <1>2, <3>2
      <4>2. Held(i)' = parked'[stack[i + 1].pkg] /\ Held(i) = parked[stack[i + 1].pkg]
        BY <1>2, <3>2, <4>1 DEF Held
      <4>3. stack[i + 1].pkg \in Pkg /\ p \in Pkg
        BY <1>1, <1>2, <4>1, TopInv DEF Frame
      <4>4. Rank[p] < Rank[stack[i + 1].pkg]
        BY <1>1, <4>1, TopInv
      <4>5. stack[i + 1].pkg # p
        BY <4>3, <4>4, RankFacts
      <4> QED
        BY <2>2, <4>2, <4>3, <4>5 DEF TypeOK
    <3> QED
      BY <3>1, <3>2
  <2>9. Top' = stack[n - 1]
    BY <1>2, <2>1 DEF Top
  <2> HIDE DEF n, p
  <2>10. \A i \in 1 .. n - 1 : i \in 1 .. n /\ i # n
    BY <1>2
  <2>11. FramesOK'
    BY <1>1, <1>2, <2>7, <2>10 DEF StackInv, FramesOK, n
  <2>12. SdksHeld'
    BY <1>1, <1>2, <1>4, <2>7, <2>8, <2>10 DEF StackInv, SdksHeld, n
  <2>13. Nested'
    <3>1. \A i \in 1 .. n - 1 - 1 : i \in 1 .. n - 1 /\ i + 1 \in 1 .. n - 1
      BY <1>2
    <3> QED
      BY <1>2, <2>10, <3>1 DEF StackInv, Nested, n
  <2>14. DirsOK'
    <3>1. \A i \in 1 .. n - 1 : dir'[stack'[i].pkg] = "none"
      BY <1>2, <2>7, <2>10 DEF StackInv, DirsOK, n
    <3>2. Top'.pc = "include" /\ Head(Top'.todo) = p
      BY <2>3, <2>9
    <3> QED
      BY <1>2, <2>7, <3>1, <3>2 DEF DirsOK, At
  <2> QED
    BY <2>11, <2>12, <2>13, <2>14
<1> QED
  BY <1>3, <1>4

(* A dependency is included.                                               *)
LEMMA IncludeStep ==
  ASSUME TypeOK, StackInv, Building, Include
  PROVE  FramesOK' /\ SdksHeld' /\ Nested' /\ DirsOK'
<1> DEFINE d == Head(Top.todo)
           rest == (IF recursivedeps THEN Deps[d] ELSE <<>>) \o Tail(Top.todo)
           f == [Top EXCEPT !.pc = "deps", !.todo = rest, !.seen = @ \cup {d}]
<1>1. /\ stack # <<>> /\ Top.todo # <<>> /\ Top.pc \in {"deps", "include"}
      /\ SetTop(f) /\ staged' = staged \cup Output(d)
      /\ phase' = phase /\ command' = command /\ recursivedeps' = recursivedeps
      /\ dir' = dir /\ gen' = gen /\ parked' = parked
  BY TopTypes DEF Include, At, Frame, steps, tree, fixed
<1>2. d \in Pkg /\ d \in Range(Top.todo) /\ Top.todo \in Seq(Pkg)
      /\ Tail(Top.todo) \in Seq(Pkg)
      /\ Range(Top.todo) = {d} \cup Range(Tail(Top.todo))
  BY <1>1, TopTypes, RangeFacts
<1>3. dir[d] # "none"
  BY <1>1 DEF Include, At, StackInv, DirsOK, hasbeenbuilt, Building
<1>4. /\ rest \in Seq(Pkg)
      /\ Range(rest) = (IF recursivedeps THEN Range(Deps[d]) ELSE {})
                          \cup Range(Tail(Top.todo))
  <2>1. CASE recursivedeps
    <3>1. rest = Deps[d] \o Tail(Top.todo)
      BY <2>1, Zenon
    <3>2. Deps[d] \in Seq(Pkg) /\ Tail(Top.todo) \in Seq(Pkg)
      BY <1>2, DepsFacts
    <3> HIDE DEF rest, d
    <3>3. Range(Deps[d] \o Tail(Top.todo)) = Range(Deps[d]) \cup Range(Tail(Top.todo))
      BY <3>2, RangeConcat, Zenon
    <3>4. rest \in Seq(Pkg)
      BY <3>1, <3>2, ConcatProperties
    <3> QED
      BY <2>1, <3>1, <3>3, <3>4
  <2>2. CASE ~recursivedeps
    <3>1. rest = Tail(Top.todo)
      BY <1>2, <2>2, ConcatEmptySeq
    <3> HIDE DEF rest
    <3> QED
      BY <1>2, <2>2, <3>1
  <2> QED
    BY <2>1, <2>2
<1>5. /\ d # SdkPkg
      /\ \A i \in 1 .. Len(stack) : Rank[d] < Rank[stack[i].pkg] /\ stack[i].pkg # d
  BY <1>1, <1>2, NextDep
<1>6. /\ FrameOK(Top, dir, recursivedeps) /\ Holds(Top, staged, gen, dir)
      /\ Top \in Frame /\ dir[Top.pkg] = "none"
      /\ Len(stack) \in Nat \ {0} /\ stack[Len(stack)] = Top
      /\ \A i \in 1 .. Len(stack) : stack[i].pkg \notin Top.seen
  BY <1>1, TopInv
<1>7. recursivedeps \in BOOLEAN /\ Top.pkg \in Pkg
  BY <1>6 DEF TypeOK, Frame
<1> HIDE DEF rest, d
<1>8. /\ f \in Frame /\ f.pkg = Top.pkg /\ f.pc = "deps" /\ f.todo = rest
      /\ f.seen = Top.seen \cup {d}
  BY <1>2, <1>4, <1>6 DEF Frame, PCs
<1> HIDE DEF f
<1>9. FrameOK(f, dir', recursivedeps)
  <2>1. Rank[d] < Rank[Top.pkg]
    BY <1>5, <1>6
  <2>2. \A x \in Range(rest) : x # SdkPkg /\ Rank[x] < Rank[Top.pkg]
    <3>1. \A x \in Range(Tail(Top.todo)) : x # SdkPkg /\ Rank[x] < Rank[Top.pkg]
      BY <1>2, <1>6 DEF FrameOK
    <3>2. \A x \in Range(Deps[d]) : x # SdkPkg /\ Rank[x] < Rank[Top.pkg]
      BY <1>2, <1>7, <2>1, DepsFacts, RankFacts
    <3> QED
      BY <1>4, <3>1, <3>2
  <2>3. Covered(f, recursivedeps)
    <3>1. Covered(Top, recursivedeps)
      BY <1>6 DEF FrameOK
    <3>2. f.seen \cup Range(f.todo) = Top.seen \cup Range(Top.todo)
            \cup (IF recursivedeps THEN Range(Deps[d]) ELSE {})
      BY <1>2, <1>4, <1>8
    <3>3. recursivedeps => Range(Deps[d]) \subseteq Needs(Top.pkg, recursivedeps)
      BY <1>2, <1>7, <3>1, NeedsFacts DEF Covered
    <3> QED
      BY <1>8, <3>1, <3>2, <3>3 DEF Covered
  <2> QED
    BY <1>1, <1>3, <1>6, <1>8, <2>2, <2>3 DEF FrameOK, Late
<1>10. Holds(f, staged', gen', dir')
  <2>1. Output(d) = {<<d, gen[d], dir[d]>>}
    BY <1>3 DEF Output, Building
  <2>2. Own(f) = {} /\ Own(Top) = {}
    BY <1>1, <1>8 DEF Own, Late
  <2> QED
    BY <1>1, <1>6, <1>8, <2>1, <2>2 DEF Holds
<1>11. Building'
  BY <1>1 DEF Building, dryrun
<1> QED
  BY <1>1, <1>5, <1>6, <1>8, <1>9, <1>10, <1>11, TopStep

(* A line of the list is skipped because it was included before.           *)
LEMMA SkipStep ==
  ASSUME TypeOK, StackInv, Building, SkipSeen
  PROVE  FramesOK' /\ SdksHeld' /\ Nested' /\ DirsOK'
<1> DEFINE f == [Top EXCEPT !.todo = Tail(@)]
<1>1. /\ stack # <<>> /\ Top.todo # <<>> /\ Top.pc = "deps"
      /\ Head(Top.todo) \in Top.seen
      /\ SetTop(f) /\ staged' = staged
      /\ phase' = phase /\ command' = command /\ recursivedeps' = recursivedeps
      /\ dir' = dir /\ gen' = gen /\ parked' = parked
  BY DEF SkipSeen, At, steps, tree, fixed
<1>2. /\ Top.todo \in Seq(Pkg) /\ Tail(Top.todo) \in Seq(Pkg)
      /\ Range(Top.todo) = {Head(Top.todo)} \cup Range(Tail(Top.todo))
  BY <1>1, TopTypes, RangeFacts
<1>3. /\ FrameOK(Top, dir, recursivedeps) /\ Holds(Top, staged, gen, dir)
      /\ Top \in Frame /\ dir[Top.pkg] = "none"
      /\ Len(stack) \in Nat \ {0} /\ stack[Len(stack)] = Top
      /\ \A i \in 1 .. Len(stack) : stack[i].pkg \notin Top.seen
  BY <1>1, TopInv
<1>4. /\ f \in Frame /\ f.pkg = Top.pkg /\ f.pc = "deps" /\ f.todo = Tail(Top.todo)
      /\ f.seen = Top.seen
  BY <1>1, <1>2, <1>3 DEF Frame
<1> HIDE DEF f
<1>5. FrameOK(f, dir', recursivedeps)
  <2>1. f.seen \cup Range(f.todo) = Top.seen \cup Range(Top.todo)
    BY <1>1, <1>2, <1>4
  <2> QED
    BY <1>1, <1>2, <1>3, <1>4, <2>1 DEF FrameOK, Covered, Late
<1>6. Holds(f, staged', gen', dir')
  BY <1>1, <1>3, <1>4 DEF Holds, Own, Late
<1>7. Building'
  BY <1>1 DEF Building, dryrun
<1> QED
  BY <1>1, <1>3, <1>4, <1>5, <1>6, <1>7, TopStep

(* The steps from one line of build() to the next.                         *)
LEMMA GotoStep ==
  ASSUME TypeOK, StackInv, Building,
         \/ CompatOk \/ FetchOk \/ PatchOk \/ BuildStart \/ BuildOk
  PROVE  FramesOK' /\ SdksHeld' /\ Nested' /\ DirsOK'
<1>1. PICK pc \in Late : Goto(pc)
  BY DEF CompatOk, FetchOk, PatchOk, BuildStart, BuildOk, Late
<1> DEFINE f == [Top EXCEPT !.pc = pc]
<1>2. /\ stack # <<>> /\ SetTop(f) /\ Top.todo = <<>>
      /\ phase' = phase /\ command' = command /\ recursivedeps' = recursivedeps
      /\ parked' = parked
  <2>1. stack # <<>> /\ (Top.pc \in Late \/ Top.todo = <<>>)
    BY DEF CompatOk, DepsDone, FetchOk, PatchOk, BuildStart, BuildOk, At, Late
  <2>2. Top.todo = <<>>
    BY <2>1, TopInv DEF FrameOK
  <2> QED
    BY <1>1, <2>1, <2>2
    DEF CompatOk, DepsDone, FetchOk, PatchOk, BuildStart, BuildOk, Goto, fixed, tmp
<1>3. /\ FrameOK(Top, dir, recursivedeps) /\ Holds(Top, staged, gen, dir)
      /\ Top \in Frame /\ Top.pkg \in Pkg
      /\ Len(stack) \in Nat \ {0} /\ stack[Len(stack)] = Top
      /\ \A i \in 1 .. Len(stack) : stack[i].pkg \notin Top.seen
      /\ \A i \in 1 .. Len(stack) : Top.pkg \notin stack[i].seen
      /\ Top.pc \notin {"building", "done"} => dir[Top.pkg] = "none"
  BY <1>2, TopInv DEF Frame
<1>4. /\ f \in Frame /\ f.pkg = Top.pkg /\ f.pc = pc /\ f.todo = Top.todo
      /\ f.seen = Top.seen
  BY <1>3 DEF Frame, PCs, Late
<1>5. /\ \A x \in Pkg : x # Top.pkg => dir'[x] = dir[x] /\ gen'[x] = gen[x]
      /\ pc \notin {"building", "done"} => dir'[Top.pkg] = "none"
      /\ pc = "done" => dir'[Top.pkg] = "full"
      /\ staged' = staged \cup Own(f)
  <2>1. Own(f) = {<<Top.pkg, 0, "full">>} /\ (Top.pc \in Late => Own(f) \subseteq staged)
    BY <1>1, <1>3, <1>4 DEF Own, Holds
  <2>2. \A q \in Late : Goto(q) => pc = q
    <3>1. Top' = f
      BY <1>2, <1>4, SetTopFacts DEF TypeOK
    <3>2. ASSUME NEW q \in Late, Goto(q) PROVE pc = q
      <4>1. Top' = [Top EXCEPT !.pc = q]
        BY <1>2, <3>2, GotoFacts DEF TypeOK, Late, PCs
      <4> QED
        BY <1>3, <1>4, <3>1, <4>1 DEF Frame
    <3> QED
      BY <3>2
  <2>3. dir[Top.pkg] \in {"none", "partial", "full"} /\ dir \in [Pkg -> {"none", "partial", "full"}]
    BY <1>3 DEF TypeOK
  <2> HIDE DEF f
  <2>4. CASE CompatOk
    <3>1. /\ staged' = staged \cup {<<Top.pkg, 0, "full">>} /\ dir' = dir /\ gen' = gen
          /\ Top.pc = "deps" /\ (Goto("fetch") \/ Goto("build"))
      BY <2>4 DEF CompatOk, DepsDone, At, tree
    <3> QED
      BY <1>3, <2>1, <2>2, <3>1 DEF Late
  <2>5. CASE FetchOk
    <3>1. /\ staged' = staged /\ dir' = [dir EXCEPT ![Top.pkg] = "none"] /\ gen' = gen
          /\ Top.pc = "fetch" /\ (Goto("patch") \/ Goto("build"))
      BY <2>5 DEF FetchOk, At, tmp
    <3> QED
      BY <1>3, <2>1, <2>2, <2>3, <3>1 DEF Late
  <2>6. CASE PatchOk
    <3>1. /\ staged' = staged /\ dir' = dir /\ gen' = gen
          /\ Top.pc = "patch" /\ Goto("build")
      BY <2>6 DEF PatchOk, At, tmp
    <3> QED
      BY <1>3, <2>1, <2>2, <3>1 DEF Late
  <2>7. CASE BuildStart
    <3>1. /\ staged' = staged /\ dir' = [dir EXCEPT ![Top.pkg] = "partial"]
          /\ gen' = [gen EXCEPT ![Top.pkg] = @ + 1]
          /\ Top.pc = "build" /\ Goto("building")
      BY <2>7 DEF BuildStart, At, tmp
    <3>2. \A x \in Pkg : x # Top.pkg => dir'[x] = dir[x] /\ gen'[x] = gen[x]
      BY <2>3, <3>1 DEF TypeOK
    <3> QED
      BY <1>3, <2>1, <2>2, <3>1, <3>2 DEF Late
  <2>8. CASE BuildOk
    <3>1. /\ staged' = staged /\ dir' = [dir EXCEPT ![Top.pkg] = "full"] /\ gen' = gen
          /\ Top.pc = "building" /\ Goto("done")
      BY <2>8 DEF BuildOk, At, tmp
    <3> QED
      BY <1>3, <2>1, <2>2, <2>3, <3>1 DEF Late
  <2> QED
    BY <2>4, <2>5, <2>6, <2>7, <2>8
<1>6. FrameOK(f, dir', recursivedeps)
  <2>1. \A x \in Top.seen : x \in Pkg /\ x # Top.pkg
    BY <1>3 DEF Frame
  <2> QED
    BY <1>1, <1>2, <1>3, <1>4, <1>5, <2>1 DEF FrameOK, Covered
<1>7. Holds(f, staged', gen', dir')
  <2>1. {<<x, gen'[x], dir'[x]>> : x \in Top.seen} = {<<x, gen[x], dir[x]>> : x \in Top.seen}
    <3>1. \A x \in Top.seen : x \in Pkg /\ x # Top.pkg
      BY <1>3 DEF Frame
    <3> QED
      BY <1>5, <3>1
  <2>2. Own(Top) \subseteq Own(f)
    BY <1>1, <1>4 DEF Own
  <2> QED
    BY <1>3, <1>4, <1>5, <2>1, <2>2 DEF Holds
<1>8. \A i \in 1 .. Len(stack) - 1 : stack[i].pkg # Top.pkg
  <2>1. \A i \in 1 .. Len(stack) : stack[i].pkg \in Pkg
    BY <1>2, TopInv DEF Frame
  <2> QED
    BY <1>2, <1>3, <2>1, TopInv, RankFacts
<1>9. Building'
  BY <1>2 DEF Building, dryrun
<1>10. \A i \in 1 .. Len(stack) - 1 :
         /\ \A x \in stack[i].seen : dir'[x] = dir[x] /\ gen'[x] = gen[x]
         /\ dir'[stack[i].pkg] = dir[stack[i].pkg]
  <2>1. ASSUME NEW i \in 1 .. Len(stack) - 1
        PROVE  /\ stack[i].seen \subseteq Pkg /\ stack[i].pkg \in Pkg
               /\ Top.pkg \notin stack[i].seen /\ stack[i].pkg # Top.pkg
    BY <1>2, <1>3, <1>8, TopInv DEF Frame
  <2> QED
    BY <1>5, <2>1
<1> HIDE DEF f
<1> QED
  BY <1>1, <1>2, <1>3, <1>4, <1>5, <1>6, <1>7, <1>9, <1>10, TopStep DEF Late

(* A step after which no build() is active.                                *)
LEMMA EmptyStep ==
  ASSUME stack' = <<>>, Building' => staged' = {}
  PROVE  FramesOK' /\ SdksHeld' /\ Nested' /\ DirsOK'
<1>1. Len(stack') = 0
  BY EmptySeq
<1> QED
  BY <1>1 DEF FramesOK, SdksHeld, Nested, DirsOK, At

(* Main calls build().                                                     *)
LEMMA MakeStep ==
  ASSUME TypeOK, StackInv, Building, NEW p \in Pkg, Make(p)
  PROVE  FramesOK' /\ SdksHeld' /\ Nested' /\ DirsOK'
<1>1. /\ stack = <<>> /\ Enter(p, stack, staged) /\ dir[p] = "none" /\ dir' = dir
      /\ recursivedeps' = recursivedeps /\ staged = {}
  BY DEF Make, MainAt, hasbeenbuilt, tree, fixed, StackInv, SdksHeld, Building
<1>2. /\ Len(stack') = 1 /\ stack' # <<>> /\ Top' = NewFrame(p)
  <2>1. stack \in Seq(Frame) /\ Enter(p, stack, staged)
    BY <1>1 DEF TypeOK
  <2>2. /\ Len(stack') = Len(stack) + 1 /\ stack' # <<>> /\ Top' = NewFrame(p)
    BY <2>1, EnterFacts
  <2>3. Len(stack) = 0
    BY <1>1, EmptySeq
  <2> QED
    BY <2>2, <2>3
<1>3. stack'[1] = NewFrame(p)
  BY <1>2 DEF Top
<1>4. staged' = {<<BaseSdk, 0, "full">>}
  BY <1>1 DEF Enter, Building
<1>5. NewFrame(p).pkg = p /\ NewFrame(p).pc = "deps" /\ NewFrame(p).todo = Deps[p]
      /\ NewFrame(p).seen = {}
  BY DEF NewFrame
<1>6. recursivedeps \in BOOLEAN
  BY DEF TypeOK
<1>7. FrameOK(NewFrame(p), dir', recursivedeps')
  BY <1>1, <1>5, <1>6, DepsFacts, RankFacts, NeedsFacts DEF FrameOK, Covered, Late
<1>8. FramesOK'
  BY <1>2, <1>3, <1>7 DEF FramesOK
<1>9. SdksHeld'
  <2>1. Held(1)' = staged'
    BY <1>2 DEF Held
  <2>2. Holds(NewFrame(p), staged', gen', dir')
    BY <1>4, <1>5 DEF Holds, Own, Late
  <2> QED
    BY <1>2, <1>3, <2>1, <2>2 DEF SdksHeld
<1>10. Nested'
  BY <1>2, <1>3, <1>5 DEF Nested
<1>11. DirsOK'
  BY <1>1, <1>2, <1>3, <1>5 DEF DirsOK, At
<1> QED
  BY <1>8, <1>9, <1>10, <1>11

LEMMA BuildingNext ==
  ASSUME TypeOK, StackInv, [Next]_vars
  PROVE  FramesOK' /\ SdksHeld' /\ Nested' /\ DirsOK'
<1>1. CASE ~Building'
  BY <1>1 DEF FramesOK, SdksHeld, Nested, DirsOK
<1>2. CASE Building'
  <2>1. CASE UNCHANGED vars
    BY <2>1 DEF vars, tree, tmp, fixed, StackInv, FramesOK, SdksHeld, Nested, DirsOK,
                Held, Building, dryrun, Top, At
  <2>2. CASE Start
    BY <2>2, EmptyStep DEF Start, Begin, DepcheckError, FreshTmp, StackInv, Dry
  <2>3. CASE NextLoop \/ \E p \in Pkg : Remove(p) \/ MakeNothing(p) \/ VisitBuild(p) \/ Visited(p)
    <3>1. stack' = <<>> /\ stack = <<>> /\ staged' = staged /\ Building
      BY <2>3, <1>2 DEF NextLoop, Remove, MakeNothing, VisitBuild, Visited, MainAt, tmp, fixed,
                        Building, dryrun
    <3> QED
      BY <3>1, EmptyStep DEF StackInv, SdksHeld
  <2>4. ASSUME NEW p \in Pkg, Make(p) PROVE FramesOK' /\ SdksHeld' /\ Nested' /\ DirsOK'
    <3>1. Building
      BY <1>2, <2>4 DEF Make, MainAt, fixed, Building, dryrun
    <3> QED
      BY <2>4, <3>1, MakeStep
  <2>5. CASE Finish \/ TarError
    BY <1>2, <2>5 DEF Finish, TarError, Building
  <2>6. CASE Subshell
    <3>1. CASE CompatError \/ PatchError
      BY <1>2, <3>1 DEF CompatError, PatchError, Error, Building
    <3>2. CASE FetchFail \/ BuildFail
      BY <1>2, <3>2 DEF FetchFail, BuildFail, ReturnTwo, Building
    <3>3. CASE DryReturn
      BY <1>2, <3>3 DEF DryReturn, fixed, Building, dryrun
    <3>4. CASE SkipSeen
      <4>1. Building
        BY <1>2, <3>4 DEF SkipSeen, At, steps, fixed, Building, dryrun
      <4> QED
        BY <3>4, <4>1, SkipStep
    <3>5. CASE Descend
      <4>1. Building
        BY <1>2, <3>5 DEF Descend, At, fixed, Building, dryrun
      <4> QED
        BY <3>5, <4>1, DescendStep
    <3>6. CASE Include
      <4>1. Building
        BY <1>2, <3>6 DEF Include, At, steps, fixed, Building, dryrun
      <4> QED
        BY <3>6, <4>1, IncludeStep
    <3>7. CASE Return
      <4>1. Building
        BY <1>2, <3>7 DEF Return, At, fixed, Building, dryrun
      <4> QED
        BY <3>7, <4>1, ReturnStep
    <3>8. CASE CompatOk \/ FetchOk \/ PatchOk \/ BuildStart \/ BuildOk
      <4>1. Building
        BY <1>2, <3>8 DEF CompatOk, DepsDone, FetchOk, PatchOk, BuildStart, BuildOk,
                          At, fixed, Building, dryrun
      <4> QED
        BY <3>8, <4>1, GotoStep
    <3> QED
      BY <2>6, <3>1, <3>2, <3>3, <3>4, <3>5, <3>6, <3>7, <3>8 DEF Subshell
  <2>7. CASE Unwind
    BY <1>2, <2>7 DEF Unwind, CallerError, ExitOne, Failed, Building
  <2>8. CASE Crash
    BY <1>2, <2>8 DEF Crash, Building
  <2> QED
    BY <2>1, <2>2, <2>3, <2>4, <2>5, <2>6, <2>7, <2>8 DEF Next, Main, Visit
<1> QED
  BY <1>1, <1>2

LEMMA DryNext ==
  ASSUME TypeOK, StackInv, [Next]_vars
  PROVE  Dry'
<1>1. Dry
  BY DEF StackInv
<1>2. CASE UNCHANGED vars
  BY <1>1, <1>2 DEF Dry, vars, fixed, dryrun
<1>3. CASE Start \/ NextLoop \/ Finish \/ Failed \/ Crash \/ TarError
                 \/ \E p \in Pkg : Remove(p) \/ MakeNothing(p) \/ VisitBuild(p) \/ Visited(p)
  <2>1. stack' = <<>>
    BY <1>1, <1>3 DEF Dry, Start, Begin, DepcheckError, NextLoop, Finish, Failed, Crash, TarError, Remove,
                      MakeNothing, VisitBuild, Visited, MainAt
  <2> QED
    BY <2>1, EmptySeq DEF Dry
<1>4. CASE CompatError \/ PatchError \/ FetchFail \/ BuildFail \/ CallerError \/ ExitOne
  BY <1>4 DEF CompatError, PatchError, Error, FetchFail, BuildFail, ReturnTwo,
              CallerError, ExitOne, Dry
<1>5. ASSUME NEW p \in Pkg, Make(p) PROVE Dry'
  <2>1. stack \in Seq(Frame) /\ Enter(p, stack, staged) /\ phase' = "run"
    BY <1>5 DEF TypeOK, Make, MainAt
  <2>2. /\ Len(stack') = Len(stack) + 1 /\ stack' # <<>> /\ Top' = NewFrame(p)
    BY <2>1, EnterFacts
  <2>3. Len(stack) = 0
    BY <1>5, EmptySeq DEF Make, MainAt
  <2>4. stack'[1].pc = "deps"
    BY <2>2, <2>3 DEF Top, NewFrame
  <2> QED
    BY <2>1, <2>2, <2>3, <2>4 DEF Dry
<1>6. CASE Subshell /\ ~dryrun /\ phase' = "run"
  <2>1. command' = command
    BY <1>6 DEF Subshell, SkipSeen, Descend, Include, CompatOk, CompatError, FetchOk, FetchFail,
         PatchOk, PatchError, BuildStart, BuildOk, BuildFail, Return, DryReturn, steps, fixed
  <2> QED
    BY <1>6, <2>1 DEF Dry, dryrun
<1>7. CASE (SkipSeen \/ Include) /\ dryrun
  <2> DEFINE f == IF SkipSeen THEN [Top EXCEPT !.todo = Tail(@)] ELSE
                  [Top EXCEPT
                     !.pc = "deps",
                     !.todo = (IF recursivedeps THEN Deps[Head(Top.todo)] ELSE <<>>) \o Tail(@),
                     !.seen = @ \cup {Head(Top.todo)}]
  <2>1. /\ stack' = [stack EXCEPT ![Len(stack)] = f]
        /\ stack # <<>> /\ phase = "run" /\ phase' = "run" /\ command' = command
    BY <1>7 DEF SkipSeen, Include, At, SetTop, steps, fixed
  <2>2. stack \in Seq(Frame) /\ Len(stack) \in Nat \ {0} /\ Top \in Frame
    BY <2>1, TopFacts DEF TypeOK
  <2>3. f.pc = "deps"
    BY <1>7, <2>2 DEF Frame, SkipSeen, At
  <2> HIDE DEF f
  <2>4. DOMAIN stack = 1 .. Len(stack) /\ Len(stack') = Len(stack)
    BY <2>1, <2>2, LenProperties, ExceptSeq
  <2>5. \A i \in 1 .. Len(stack) : stack'[i].pc \in {"deps", "include"}
    BY <1>1, <1>7, <2>1, <2>3, <2>4 DEF Dry
  <2> QED
    BY <2>1, <2>4, <2>5 DEF Dry
<1>8. CASE Descend /\ dryrun
  <2> DEFINE d == Head(Top.todo)
             caller == [stack EXCEPT ![Len(stack)].pc = "include"]
  <2>1. /\ Enter(d, caller, staged) /\ Top.todo # <<>>
        /\ stack # <<>> /\ phase = "run" /\ phase' = "run" /\ command' = command
    BY <1>8 DEF Descend, At, fixed
  <2>2. /\ Len(stack) \in Nat \ {0} /\ Top \in Frame /\ d \in Pkg
        /\ stack[Len(stack)] = Top
    BY <2>1, TopFacts, TopTypes, RangeFacts DEF TypeOK, Top
  <2>3. [Top EXCEPT !.pc = "include"] \in Frame
    BY <2>1, <2>2 DEF Frame, PCs
  <2>4. /\ caller \in Seq(Frame) /\ Len(caller) = Len(stack)
        /\ \A i \in 1 .. Len(stack) : caller[i].pc \in {"deps", "include"}
    <3>1. caller = [stack EXCEPT ![Len(stack)] = [Top EXCEPT !.pc = "include"]]
      BY DEF Top
    <3>2. /\ caller \in Seq(Frame) /\ Len(caller) = Len(stack)
          /\ \A i \in 1 .. Len(stack) - 1 : caller[i] = stack[i]
          /\ caller[Len(stack)] = [Top EXCEPT !.pc = "include"]
      BY <2>2, <2>3, <3>1, ExceptSeq DEF TypeOK
    <3>3. [Top EXCEPT !.pc = "include"].pc = "include"
      BY <2>2 DEF Frame
    <3> QED
      BY <1>1, <1>8, <2>1, <2>2, <3>2, <3>3 DEF Dry
  <2> HIDE DEF caller, d
  <2>5. /\ Len(stack') = Len(caller) + 1 /\ stack' # <<>> /\ Top' = NewFrame(d)
        /\ \A i \in 1 .. Len(caller) : stack'[i] = caller[i]
    BY <2>1, <2>2, <2>4, EnterFacts
  <2>6. stack'[Len(stack) + 1].pc = "deps"
    BY <2>4, <2>5 DEF Top, NewFrame
  <2>7. \A i \in 1 .. Len(stack) + 1 : stack'[i].pc \in {"deps", "include"}
    BY <2>2, <2>4, <2>5, <2>6
  <2> QED
    BY <2>1, <2>4, <2>5, <2>7 DEF Dry
<1>9. CASE DryReturn
  <2>1. /\ stack # <<>> /\ stack' = Below /\ phase = "run" /\ dryrun /\ phase' = "run"
    BY <1>9 DEF DryReturn, DepsDone, At
  <2>2. /\ Len(stack) \in Nat \ {0} /\ Len(stack') = Len(stack) - 1
        /\ \A i \in 1 .. Len(stack) - 1 : stack'[i] = stack[i]
    BY <2>1, TopFacts, BelowFacts DEF TypeOK
  <2>3. \A i \in 1 .. Len(stack) : stack[i].pc \in {"deps", "include"}
    BY <1>1, <2>1 DEF Dry
  <2>4. \A i \in 1 .. Len(stack') : stack'[i].pc \in {"deps", "include"}
    BY <2>2, <2>3
  <2> QED
    BY <2>1, <2>4 DEF Dry
<1>10. CASE (CompatOk \/ FetchOk \/ PatchOk \/ BuildStart \/ BuildOk \/ Return) /\ dryrun
  <2>1. /\ phase = "run" /\ stack # <<>>
        /\ ~dryrun \/ Top.pc \in Late
    BY <1>10 DEF CompatOk, DepsDone, FetchOk, PatchOk, BuildStart, BuildOk, Return, At, Late
  <2>2. Top.pc \in {"deps", "include"}
    BY <1>1, <1>10, <2>1, TopFacts DEF Dry, TypeOK, Top
  <2> QED
    BY <1>10, <2>1, <2>2 DEF Late
<1>11. CASE Subshell
  <2>1. CASE ~dryrun
    <3>1. phase' = "run" => Dry'
      BY <1>6, <1>11, <2>1
    <3>2. phase' # "idle"
      BY <1>11 DEF Subshell, SkipSeen, Descend, Include, CompatOk, CompatError, FetchOk,
           FetchFail, PatchOk, PatchError, BuildStart, BuildOk, BuildFail, Return, DryReturn,
           DepsDone, At, Error, ReturnTwo
    <3> QED
      BY <3>1, <3>2 DEF Dry
  <2>2. CASE dryrun
    BY <1>4, <1>7, <1>8, <1>9, <1>10, <1>11, <2>2 DEF Subshell
  <2> QED
    BY <2>1, <2>2
<1> QED
  BY <1>2, <1>3, <1>4, <1>5, <1>11 DEF Next, Main, Visit, Unwind

LEMMA LibNext ==
  ASSUME TypeOK, StackInv, [Next]_vars
  PROVE  LibHeld'
<1>1. LibHeld /\ Dry
  BY DEF StackInv
<1>2. CASE phase' # "run"
  BY <1>2 DEF LibHeld
<1>3. CASE UNCHANGED vars
  BY <1>1, <1>3 DEF LibHeld, vars, tmp, Top
<1>4. CASE Start \/ NextLoop
             \/ \E p \in Pkg : Remove(p) \/ MakeNothing(p) \/ VisitBuild(p) \/ Visited(p)
  <2>1. stack' = <<>> /\ lib' = {}
    BY <1>1, <1>4 DEF LibHeld, Dry, Start, Begin, DepcheckError, FreshTmp, NextLoop, Remove, MakeNothing,
                      VisitBuild, Visited, MainAt, tmp
  <2> QED
    BY <2>1 DEF LibHeld
<1>5. ASSUME NEW p \in Pkg, Make(p) PROVE LibHeld'
  <2>1. stack \in Seq(Frame) /\ Enter(p, stack, staged)
    BY <1>5 DEF TypeOK, Make
  <2>2. stack' # <<>> /\ Top' = NewFrame(p)
    BY <2>1, EnterFacts
  <2>3. lib' = {}
    BY <1>1, <1>5 DEF LibHeld, Make, MainAt
  <2> QED
    BY <2>2, <2>3 DEF LibHeld, NewFrame, Late
<1>6. CASE SkipSeen \/ Include
  <2>1. /\ stack # <<>> /\ phase = "run" /\ lib' = lib /\ Top.pc \in {"deps", "include"}
        /\ Len(stack) \in Nat \ {0} /\ stack \in Seq(Frame) /\ Top \in Frame
    BY <1>6, TopFacts DEF SkipSeen, Include, At, steps, TypeOK
  <2>2. stack' # <<>> /\ Top'.pc = "deps"
    <3>1. CASE SkipSeen
      <4> DEFINE f == [Top EXCEPT !.todo = Tail(@)]
      <4>1. f.pc = "deps" /\ stack' = [stack EXCEPT ![Len(stack)] = f]
        BY <2>1, <3>1 DEF SkipSeen, At, SetTop, Frame
      <4> HIDE DEF f
      <4> QED
        BY <2>1, <4>1, LenProperties DEF Top
    <3>2. CASE Include
      <4> DEFINE f == [Top EXCEPT
                     !.pc = "deps",
                     !.todo = (IF recursivedeps THEN Deps[Head(Top.todo)] ELSE <<>>) \o Tail(@),
                     !.seen = @ \cup {Head(Top.todo)}]
      <4>1. f.pc = "deps" /\ stack' = [stack EXCEPT ![Len(stack)] = f]
        BY <2>1, <3>2 DEF Include, SetTop, Frame
      <4> HIDE DEF f
      <4> QED
        BY <2>1, <4>1, LenProperties DEF Top
    <3> QED
      BY <1>6, <3>1, <3>2
  <2> QED
    BY <1>1, <2>1, <2>2 DEF LibHeld, Late
<1>7. CASE Descend
  <2> DEFINE d == Head(Top.todo)
             caller == [stack EXCEPT ![Len(stack)].pc = "include"]
  <2>1. /\ \E left : Enter(d, caller, left)
        /\ stack # <<>> /\ phase = "run" /\ lib' = lib /\ Top.pc = "deps" /\ Top.todo # <<>>
    BY <1>7, Zenon DEF Descend, At
  <2>2. /\ Len(stack) \in Nat \ {0} /\ Top \in Frame /\ d \in Pkg
    BY <2>1, TopFacts, TopTypes, RangeFacts DEF TypeOK
  <2>3. [Top EXCEPT !.pc = "include"] \in Frame
    BY <2>1, <2>2 DEF Frame, PCs
  <2>4. caller \in Seq(Frame)
    <3> DEFINE f == [Top EXCEPT !.pc = "include"]
    <3>1. caller = [stack EXCEPT ![Len(stack)] = f] /\ stack \in Seq(Frame)
      BY DEF Top, TypeOK
    <3>2. f \in Frame /\ Len(stack) \in 1 .. Len(stack)
      BY <2>2, <2>3
    <3> HIDE DEF f, caller
    <3> QED
      BY <3>1, <3>2, ExceptSeq
  <2> HIDE DEF caller, d
  <2>5. stack' # <<>> /\ Top' = NewFrame(d)
    BY <2>1, <2>2, <2>4, EnterFacts
  <2> QED
    BY <1>1, <2>1, <2>5 DEF LibHeld, NewFrame, Late
<1>8. CASE CompatOk \/ FetchOk \/ PatchOk \/ BuildStart \/ BuildOk
  <2>1. PICK pc \in Late : Goto(pc)
    BY <1>8 DEF CompatOk, FetchOk, PatchOk, BuildStart, BuildOk, Late
  <2>2. /\ stack # <<>> /\ phase = "run"
        /\ stack \in Seq(Frame) /\ Top \in Frame
    BY <1>8, TopFacts DEF CompatOk, DepsDone, FetchOk, PatchOk, BuildStart, BuildOk, At, TypeOK
  <2>3. stack' # <<>> /\ Top' = [Top EXCEPT !.pc = pc]
    BY <2>1, <2>2, GotoFacts DEF Late, PCs
  <2>4. Top'.pc = pc /\ Top'.pkg = Top.pkg
    BY <2>2, <2>3 DEF Frame
  <2>5. lib' = HasCompat \cap {Top.pkg}
    <3>1. CASE CompatOk
      <4>1. lib = {}
        BY <1>1, <2>2, <3>1 DEF LibHeld, CompatOk, DepsDone, At, Late
      <4> QED
        BY <3>1, <4>1 DEF CompatOk
    <3>2. CASE FetchOk \/ PatchOk \/ BuildStart \/ BuildOk
      <4>1. Top.pc \in Late /\ lib' = lib
        BY <3>2 DEF FetchOk, PatchOk, BuildStart, BuildOk, At, tmp, Late
      <4> QED
        BY <1>1, <2>2, <4>1 DEF LibHeld
    <3> QED
      BY <1>8, <3>1, <3>2
  <2> QED
    BY <2>1, <2>3, <2>4, <2>5 DEF LibHeld
<1>9. CASE Return \/ DryReturn
  <2>1. stack # <<>> /\ phase = "run" /\ stack' = Below /\ phase' = "run" /\ command' = command
    BY <1>9 DEF Return, DryReturn, DepsDone, At, fixed
  <2>2. lib' = {}
    <3>1. CASE Return
      BY <3>1 DEF Return, LibAfter
    <3>2. CASE DryReturn
      BY <3>2 DEF DryReturn, LibAfter
    <3> QED
      BY <1>9, <3>1, <3>2
  <2>3. /\ Len(stack) \in Nat \ {0} /\ Len(stack') = Len(stack) - 1
        /\ \A i \in 1 .. Len(stack) - 1 : stack'[i] = stack[i]
    BY <2>1, TopFacts, BelowFacts DEF TypeOK
  <2>4. \A i \in 1 .. Len(stack) - 1 : stack[i].pc \notin Late
    <3>1. CASE dryrun
      BY <1>1, <2>1, <2>3, <3>1 DEF Dry, Late
    <3>2. CASE ~dryrun
      BY <2>1, <3>2 DEF StackInv, Nested, Building, Late
    <3> QED
      BY <3>1, <3>2
  <2>5. CASE stack' # <<>>
    <3>1. stack' \in Seq(Frame) /\ Len(stack') \in 1 .. Len(stack) - 1
      BY <2>1, <2>3, <2>5, BelowFacts, EmptySeq DEF TypeOK
    <3>2. Top' = stack[Len(stack')]
      BY <2>3, <3>1 DEF Top
    <3> QED
      BY <2>2, <2>4, <3>1, <3>2 DEF LibHeld
  <2> QED
    BY <2>2, <2>5 DEF LibHeld
<1>10. CASE CompatError \/ PatchError \/ FetchFail \/ BuildFail \/ Unwind \/ Finish \/ Crash
             \/ TarError
  <2>1. phase' # "run"
    BY <1>10 DEF CompatError, PatchError, Error, FetchFail, BuildFail, ReturnTwo,
                 Unwind, CallerError, ExitOne, Failed, Finish, Crash, TarError
  <2> QED
    BY <1>2, <2>1
<1> QED
  BY <1>3, <1>4, <1>5, <1>6, <1>7, <1>8, <1>9, <1>10 DEF Next, Main, Visit, Subshell

LEMMA StackInit == Init => StackInv
BY EmptySeq DEF Init, StackInv, FramesOK, SdksHeld, Nested, DirsOK, LibHeld, Dry, Building

LEMMA StackAlways == Spec => [](TypeOK /\ StackInv)
<1>1. Init => TypeOK /\ StackInv
  BY TypeInit, StackInit
<1>2. TypeOK /\ StackInv /\ [Next]_vars => TypeOK' /\ StackInv'
  BY TypeNext, BuildingNext, DryNext, LibNext DEF StackInv
<1> QED
  BY <1>1, <1>2, PTL DEF Spec

--------------------------------------------------------------------------------
(* The staged SDK is exact (build.sh:401-432, 508-518): at a package's own *)
(* build.sh nothing is left of its list, so what was included is all it    *)
(* needs; and a nested build that was killed cannot have happened when     *)
(* nothing was killed.                                                     *)

LEMMA NoHalfBuiltInit == Init => NoHalfBuilt
BY DEF Init, NoHalfBuilt

LEMMA NoHalfBuiltNext ==
  ASSUME TypeOK, NoHalfBuilt, [Next]_vars
  PROVE  NoHalfBuilt'
<1> SUFFICES ASSUME crashes' = 0, NEW p \in Pkg, dir'[p] = "partial"
             PROVE  At("building")' /\ Top'.pkg = p
  BY DEF NoHalfBuilt
<1>1. crashes = 0
  <2>1. crashes \in Nat /\ (crashes' = crashes \/ crashes' = crashes + 1)
    BY DEF TypeOK, Next, vars, Main, Start, Begin, DepcheckError, NextLoop, Finish, Remove, Make, MakeNothing,
       Subshell, SkipSeen, Descend, Include, CompatOk, CompatError, FetchOk, FetchFail,
       PatchOk, PatchError, BuildStart, BuildOk, BuildFail, Return, DryReturn, steps,
       Unwind, CallerError, ExitOne, Failed, Crash, Visit, TarError, VisitBuild, Visited
  <2> QED
    BY <2>1
<1>2. dir[p] = "partial" => At("building") /\ Top.pkg = p
  BY <1>1 DEF NoHalfBuilt
<1>3. CASE UNCHANGED vars
  BY <1>2, <1>3 DEF vars, tree, At, Top
<1>4. CASE Main \/ Visit \/ Unwind
  <2>1. dir'[p] = dir[p] /\ ~At("building")
    <3>1. CASE Start \/ NextLoop \/ Finish \/ TarError \/ Unwind
      BY <3>1 DEF Start, Begin, DepcheckError, NextLoop, Finish, TarError, MainAt, Unwind, CallerError, ExitOne,
                  Failed, tree, steps, At
    <3>2. ASSUME NEW q \in Pkg, Remove(q) PROVE dir'[p] = dir[p] /\ ~At("building")
      BY <3>2 DEF Remove, MainAt, At, TypeOK
    <3>3. ASSUME NEW q \in Pkg, Make(q) \/ MakeNothing(q) \/ VisitBuild(q) \/ Visited(q)
          PROVE dir'[p] = dir[p] /\ ~At("building")
      BY <3>3 DEF Make, MakeNothing, VisitBuild, Visited, MainAt, At, tree
    <3> QED
      BY <1>4, <3>1, <3>2, <3>3 DEF Main, Visit
  <2> QED
    BY <1>2, <2>1
<1>5. CASE Crash
  <2>1. crashes' = crashes + 1
    BY <1>5 DEF Crash
  <2> QED
    BY <1>1, <2>1
<1>6. CASE Subshell
  <2>1. stack # <<>> /\ Top \in Frame /\ Top.pkg \in Pkg
        /\ dir \in [Pkg -> {"none", "partial", "full"}]
    <3>1. stack # <<>>
      BY <1>6 DEF Subshell, SkipSeen, Descend, Include, CompatOk, CompatError, FetchOk,
         FetchFail, PatchOk, PatchError, BuildStart, BuildOk, BuildFail, Return, DryReturn,
         DepsDone, At
    <3> QED
      BY <3>1, TopFacts DEF TypeOK, Frame
  <2>2. CASE SkipSeen \/ Descend \/ Include \/ CompatOk \/ CompatError \/ DryReturn
    <3>1. dir' = dir /\ ~At("building")
      BY <2>2 DEF SkipSeen, Descend, Include, CompatOk, CompatError, DryReturn, DepsDone,
         steps, tree, At
    <3> QED
      BY <1>2, <3>1
  <2>3. CASE PatchOk \/ PatchError
    <3>1. dir' = dir /\ ~At("building")
      BY <2>3 DEF PatchOk, PatchError, At
    <3> QED
      BY <1>2, <3>1
  <2>4. CASE FetchOk \/ FetchFail
    <3>1. dir' = [dir EXCEPT ![Top.pkg] = "none"] /\ ~At("building")
      BY <2>4 DEF FetchOk, FetchFail, At
    <3> QED
      BY <1>2, <2>1, <3>1
  <2>5. CASE BuildStart
    <3>1. /\ dir' = [dir EXCEPT ![Top.pkg] = "partial"] /\ ~At("building")
          /\ Goto("building") /\ phase' = "run"
      BY <2>5 DEF BuildStart, At
    <3>2. p = Top.pkg
      BY <1>2, <2>1, <3>1
    <3>3. stack' # <<>> /\ Top' = [Top EXCEPT !.pc = "building"]
      BY <2>1, <3>1, GotoFacts DEF TypeOK, PCs
    <3> QED
      BY <2>1, <3>1, <3>2, <3>3 DEF At, Frame
  <2>6. CASE BuildOk
    <3>1. dir' = [dir EXCEPT ![Top.pkg] = "full"]
      BY <2>6 DEF BuildOk
    <3> QED
      BY <1>2, <2>1, <3>1
  <2>7. CASE BuildFail
    <3>1. dir' = [dir EXCEPT ![Top.pkg] = "none"]
      BY <2>7 DEF BuildFail, AfterFailure
    <3> QED
      BY <1>2, <2>1, <3>1
  <2>8. CASE Return
    <3>1. /\ dir' = [dir EXCEPT ![Top.pkg] = "none"] \/ dir' = dir
          /\ ~At("building")
      BY <2>8 DEF Return, At
    <3> QED
      BY <1>2, <2>1, <3>1
  <2> QED
    BY <1>6, <2>2, <2>3, <2>4, <2>5, <2>6, <2>7, <2>8 DEF Subshell
<1> QED
  BY <1>3, <1>4, <1>5, <1>6 DEF Next

LEMMA IncludedAll ==
  ASSUME TypeOK, StackInv, At("build") \/ At("building")
  PROVE  /\ Building /\ stack # <<>> /\ Top \in Frame
         /\ Top.seen = Needs(Top.pkg, recursivedeps)
<1>1. phase = "run" /\ stack # <<>> /\ Top.pc \in {"build", "building"}
  BY DEF At
<1>2. Building
  <2>1. Len(stack) \in 1 .. Len(stack) /\ stack[Len(stack)].pc \in {"build", "building"}
    BY <1>1, TopFacts DEF TypeOK, Top
  <2> QED
    BY <1>1, <2>1 DEF Building, StackInv, Dry
<1>3. FrameOK(Top, dir, recursivedeps) /\ Top \in Frame
  BY <1>1, <1>2, TopInv
<1>4. Top.seen \in SUBSET Pkg /\ Top.pkg \in Pkg /\ Range(Top.todo) = {}
  BY <1>1, <1>3, RangeEmpty DEF FrameOK, Frame, Late
<1>5. /\ Range(Deps[Top.pkg]) \subseteq Top.seen
      /\ Top.seen \subseteq Needs(Top.pkg, recursivedeps)
      /\ recursivedeps => \A d \in Top.seen : Range(Deps[d]) \subseteq Top.seen
  BY <1>3, <1>4 DEF FrameOK, Covered
<1>6. Needs(Top.pkg, recursivedeps) \subseteq Top.seen
  <2>1. CASE recursivedeps
    BY <1>4, <1>5, <2>1 DEF Needs, Closed
  <2>2. CASE ~recursivedeps
    BY <1>5, <2>2 DEF Needs
  <2> QED
    BY <2>1, <2>2
<1> QED
  BY <1>1, <1>2, <1>3, <1>5, <1>6

LEMMA ImageCup ==
  ASSUME NEW A, NEW B
  PROVE  {<<u[1], u[2]>> : u \in A \cup B}
           = {<<u[1], u[2]>> : u \in A} \cup {<<u[1], u[2]>> : u \in B}
OBVIOUS

LEMMA ImageTriples ==
  ASSUME NEW S, NEW g, NEW d
  PROVE  {<<u[1], u[2]>> : u \in {<<x, g[x], d[x]>> : x \in S}} = {<<x, g[x]>> : x \in S}
<1> DEFINE T == {<<x, g[x], d[x]>> : x \in S}
<1>1. ASSUME NEW u \in T PROVE <<u[1], u[2]>> \in {<<x, g[x]>> : x \in S}
  OBVIOUS
<1>2. ASSUME NEW x \in S PROVE <<x, g[x]>> \in {<<u[1], u[2]>> : u \in T}
  <2>1. <<x, g[x], d[x]>> \in T
    OBVIOUS
  <2>2. <<x, g[x], d[x]>>[1] = x /\ <<x, g[x], d[x]>>[2] = g[x]
    OBVIOUS
  <2> HIDE DEF T
  <2> QED
    BY <2>1, <2>2
<1> QED
  BY <1>1, <1>2

LEMMA StagedInv == ASSUME TypeOK, StackInv, NoHalfBuilt PROVE StagedExact
<1> SUFFICES ASSUME At("build")
             PROVE  /\ {<<u[1], u[2]>> : u \in staged}
                         = {<<u[1], u[2]>> : u \in Expected(Top.pkg)}
                    /\ crashes = 0 => staged = Expected(Top.pkg)
  BY DEF StagedExact
<1> DEFINE S == Needs(Top.pkg, recursivedeps)
           B == {<<BaseSdk, 0, "full">>, <<Top.pkg, 0, "full">>}
<1>1. Top.pc = "build" /\ Top \in Frame /\ Top.seen = S /\ S \subseteq Pkg
  BY IncludedAll DEF At, Frame
<1>2. /\ staged = B \cup {<<x, gen[x], dir[x]>> : x \in S}
      /\ \A x \in S : dir[x] # "none"
  <2>1. Holds(Top, staged, gen, dir) /\ FrameOK(Top, dir, recursivedeps)
    BY IncludedAll, TopInv
  <2> QED
    BY <1>1, <2>1 DEF Holds, FrameOK, Own, Late
<1>3. Expected(Top.pkg) = B \cup {<<x, gen[x], "full">> : x \in S}
  BY DEF Expected
<1>4. crashes = 0 => \A x \in S : dir[x] = "full"
  BY <1>1, <1>2 DEF NoHalfBuilt, At, TypeOK
<1> HIDE DEF S, B
<1>5. crashes = 0 => staged = Expected(Top.pkg)
  BY <1>2, <1>3, <1>4
<1>6. {<<u[1], u[2]>> : u \in staged}
        = {<<u[1], u[2]>> : u \in B} \cup {<<x, gen[x]>> : x \in S}
  BY <1>2, ImageCup, ImageTriples
<1>7. {<<u[1], u[2]>> : u \in Expected(Top.pkg)}
        = {<<u[1], u[2]>> : u \in B} \cup {<<x, gen[x]>> : x \in S}
  <2> DEFINE E == {<<x, gen[x], "full">> : x \in S}
  <2>1. Expected(Top.pkg) = B \cup E
    BY <1>3
  <2>2. ASSUME NEW u \in E PROVE <<u[1], u[2]>> \in {<<x, gen[x]>> : x \in S}
    OBVIOUS
  <2>3. ASSUME NEW x \in S PROVE <<x, gen[x]>> \in {<<u[1], u[2]>> : u \in E}
    <3>1. <<x, gen[x], "full">> \in E
      OBVIOUS
    <3>2. <<x, gen[x], "full">>[1] = x /\ <<x, gen[x], "full">>[2] = gen[x]
      OBVIOUS
    <3> HIDE DEF E
    <3> QED
      BY <3>1, <3>2
  <2> HIDE DEF E
  <2>4. {<<u[1], u[2]>> : u \in E} = {<<x, gen[x]>> : x \in S}
    BY <2>2, <2>3
  <2> QED
    BY <2>1, <2>4, ImageCup
<1> QED
  BY <1>5, <1>6, <1>7

(* A package's build.sh only ever sees the base SDK, its own overlay and   *)
(* the current output of exactly its dependencies (build.sh:401-432).      *)
THEOREM StagedCorrect == Spec => []StagedExact
<1>1. TypeOK /\ NoHalfBuilt /\ [Next]_vars => NoHalfBuilt'
  BY NoHalfBuiltNext
<1>2. TypeOK /\ StackInv /\ NoHalfBuilt => StagedExact
  BY StagedInv
<1> QED
  BY <1>1, <1>2, NoHalfBuiltInit, StackAlways, PTL DEF Spec

(* The archive of compatibility functions is the package's own             *)
(* (build.sh:366, 485-506).                                                *)
THEOREM LibCorrect == Spec => []LibOwn
<1>1. TypeOK /\ StackInv => LibOwn
  BY DEF StackInv, LibHeld, LibOwn, At, Late
<1> QED
  BY <1>1, StackAlways, PTL

(* A failed build leaves no output behind (build.sh:358-361).              *)
THEOREM NoHalfBuiltCorrect == Spec => []NoHalfBuilt
<1>1. TypeOK /\ NoHalfBuilt /\ [Next]_vars => NoHalfBuilt'
  BY NoHalfBuiltNext
<1> QED
  BY <1>1, NoHalfBuiltInit, TypeCorrect, PTL DEF Spec

(* cleanup runs once per run (build.sh:85-94, 739-740).                    *)
THEOREM ReleasedCorrect == Spec => []ReleasedOnce
<1>1. Init => ReleasedOnce
  BY DEF Init, ReleasedOnce
<1>2. ASSUME TypeOK, ReleasedOnce, [Next]_vars PROVE ReleasedOnce'
  <2>1. cleanups \in Nat /\ phase \in {"idle", "run", "fail", "exit"}
    BY <1>2 DEF TypeOK
  <2>2. CASE UNCHANGED vars
    BY <1>2, <2>2 DEF ReleasedOnce, vars
  <2>3. CASE Main
    <3>1. CASE Start
      BY <3>1 DEF ReleasedOnce, Start, Begin, DepcheckError
    <3>2. CASE Main /\ ~Start
      BY <1>2, <2>1, <3>2 DEF ReleasedOnce, Main, NextLoop, Finish, Remove, Make, MakeNothing,
                         MainAt, cleanup
    <3> QED
      BY <2>3, <3>1, <3>2
  <2>4. CASE Subshell
    <3>1. CASE CompatError \/ PatchError
      BY <1>2, <2>1, <3>1 DEF ReleasedOnce, CompatError, PatchError, DepsDone, At, Error, cleanup
    <3>2. CASE FetchFail \/ BuildFail
      BY <1>2, <2>1, <3>2 DEF ReleasedOnce, FetchFail, BuildFail, At, ReturnTwo
    <3>3. CASE SkipSeen \/ Descend \/ Include \/ CompatOk \/ FetchOk \/ PatchOk
               \/ BuildStart \/ BuildOk \/ Return \/ DryReturn
      BY <1>2, <2>1, <3>3 DEF ReleasedOnce, SkipSeen, Descend, Include, CompatOk, FetchOk,
           PatchOk, BuildStart, BuildOk, Return, DryReturn, DepsDone, At, steps
    <3> QED
      BY <2>4, <3>1, <3>2, <3>3 DEF Subshell
  <2>5. CASE Unwind
    BY <1>2, <2>1, <2>5 DEF ReleasedOnce, Unwind, CallerError, ExitOne, Failed, cleanup
  <2>6. CASE Crash
    BY <1>2, <2>1, <2>6 DEF ReleasedOnce, Crash
  <2>7. CASE Visit
    <3>1. CASE TarError
      BY <1>2, <2>1, <3>1 DEF ReleasedOnce, TarError, MainAt, cleanup
    <3>2. ASSUME NEW p \in Pkg, VisitBuild(p) \/ Visited(p) PROVE ReleasedOnce'
      <4>1. phase' = phase /\ cleanups' = cleanups
        BY <3>2 DEF VisitBuild, Visited
      <4> QED
        BY <1>2, <4>1 DEF ReleasedOnce
    <3> QED
      BY <2>7, <3>1, <3>2 DEF Visit
  <2> QED
    BY <1>2, <2>2, <2>3, <2>4, <2>5, <2>6, <2>7 DEF Next
<1> QED
  BY <1>1, <1>2, TypeCorrect, PTL DEF Spec

--------------------------------------------------------------------------------
(* A step of a subshell other than its end leaves one with another top.    *)

(* Whoever calls build() is in its loop over the dependencies.             *)
LEMMA CallersLoop ==
  ASSUME TypeOK, StackInv, phase = "run", NEW i \in 1 .. Len(stack) - 1
  PROVE  stack[i].pc \in {"deps", "include"}
<1>1. CASE dryrun
  BY <1>1 DEF StackInv, Dry, TypeOK
<1>2. CASE ~dryrun
  BY <1>2 DEF StackInv, Nested, Building
<1> QED
  BY <1>1, <1>2

LEMMA BelowTop ==
  ASSUME TypeOK, StackInv, phase = "run", stack # <<>>, stack' = Below, stack' # <<>>
  PROVE  Top' \in Frame /\ Top'.pc \in {"deps", "include"}
<1>1. /\ Len(stack) \in Nat \ {0} /\ Len(stack') = Len(stack) - 1
      /\ \A i \in 1 .. Len(stack) - 1 : stack'[i] = stack[i]
      /\ stack' \in Seq(Frame)
  BY TopFacts, BelowFacts DEF TypeOK
<1>2. Len(stack') \in 1 .. Len(stack) - 1
  BY <1>1, EmptySeq
<1>3. Top' = stack[Len(stack')]
  BY <1>1, <1>2 DEF Top
<1>4. stack[Len(stack')] \in Frame
  BY <1>1, <1>2, ElementOfSeq DEF TypeOK
<1> QED
  BY <1>2, <1>3, <1>4, CallersLoop

(* Where a step can lead: to a label of its own, or to the loops.          *)
LEMMA NextLabel ==
  ASSUME TypeOK, StackInv, [Next]_vars, phase' = "run", stack' # <<>>,
         Top'.pc \notin {"deps", "include"}
  PROVE  \/ UNCHANGED vars
         \/ CompatOk \/ FetchOk \/ PatchOk \/ BuildStart \/ BuildOk
<1>1. CASE Start \/ Finish \/ Failed \/ Crash \/ TarError \/ NextLoop
            \/ \E p \in Pkg : Remove(p) \/ MakeNothing(p) \/ VisitBuild(p) \/ Visited(p)
  <2>1. stack' = <<>>
    BY <1>1 DEF StackInv, Dry, Start, Begin, DepcheckError, NextLoop, Finish, Failed, Crash, TarError, Remove,
                MakeNothing, VisitBuild, Visited, MainAt
  <2> QED
    BY <2>1
<1>2. ASSUME NEW p \in Pkg, Make(p) PROVE FALSE
  <2>1. stack = <<>> /\ Enter(p, stack, staged)
    BY <1>2 DEF Make, MainAt
  <2>2. Top' = NewFrame(p)
    BY <2>1, EnterFacts DEF TypeOK
  <2> QED
    BY <2>2 DEF NewFrame
<1>3. CASE Descend
  <2> DEFINE d == Head(Top.todo)
             caller == [stack EXCEPT ![Len(stack)].pc = "include"]
  <2>1. /\ \E left : Enter(d, caller, left)
        /\ stack # <<>> /\ Top.pc = "deps" /\ Top.todo # <<>>
    BY <1>3, Zenon DEF Descend, At
  <2>2. Len(stack) \in Nat \ {0} /\ Top \in Frame /\ d \in Pkg
    BY <2>1, TopFacts, TopTypes, RangeFacts DEF TypeOK
  <2>3. caller \in Seq(Frame)
    <3> DEFINE f == [Top EXCEPT !.pc = "include"]
    <3>1. caller = [stack EXCEPT ![Len(stack)] = f] /\ stack \in Seq(Frame)
      BY DEF Top, TypeOK
    <3>2. f \in Frame /\ Len(stack) \in 1 .. Len(stack)
      BY <2>1, <2>2, SMTT(30) DEF Frame, PCs
    <3> HIDE DEF f, caller
    <3> QED
      BY <3>1, <3>2, ExceptSeq
  <2> HIDE DEF caller, d
  <2>4. Top' = NewFrame(d)
    BY <2>1, <2>2, <2>3, EnterFacts
  <2> QED
    BY <2>4 DEF NewFrame
<1>4. CASE SkipSeen \/ Include
  <2>1. PICK f : SetTop(f) /\ f.pc \in {"deps", "include"}
    <3>1. CASE SkipSeen
      <4>1. stack # <<>> /\ Top.pc = "deps" /\ SetTop([Top EXCEPT !.todo = Tail(@)])
        BY <3>1 DEF SkipSeen, At
      <4>2. [Top EXCEPT !.todo = Tail(@)].pc = "deps"
        BY <4>1, TopFacts DEF TypeOK, Frame
      <4> QED
        BY <4>1, <4>2
    <3>2. CASE Include
      <4>1. stack # <<>> /\ Top \in Frame
        BY <3>2, TopFacts DEF Include, At, TypeOK
      <4> DEFINE f == [Top EXCEPT
                         !.pc = "deps",
                         !.todo = (IF recursivedeps THEN Deps[Head(Top.todo)] ELSE <<>>) \o Tail(@),
                         !.seen = @ \cup {Head(Top.todo)}]
      <4>2. SetTop(f)
        BY <3>2 DEF Include
      <4>3. f.pc = "deps"
        BY <4>1 DEF Frame
      <4> HIDE DEF f
      <4> QED
        BY <4>2, <4>3
    <3> QED
      BY <1>4, <3>1, <3>2
  <2>2. Len(stack) \in Nat \ {0} /\ stack \in Seq(Frame)
    BY <1>4, TopFacts DEF SkipSeen, Include, At, TypeOK
  <2>3. Top' = f
    <3>1. stack' = [stack EXCEPT ![Len(stack)] = f]
      BY <2>1 DEF SetTop
    <3>2. Len(stack') = Len(stack) /\ stack'[Len(stack)] = f
      BY <2>2, <3>1, LenProperties
    <3> QED
      BY <3>2 DEF Top
  <2> QED
    BY <2>1, <2>3
<1>5. CASE Return \/ DryReturn
  <2>1. phase = "run" /\ stack # <<>> /\ stack' = Below
    BY <1>5 DEF Return, DryReturn, DepsDone, At
  <2> QED
    BY <2>1, BelowTop
<1>6. CASE CompatError \/ FetchFail \/ PatchError \/ BuildFail \/ CallerError \/ ExitOne
  BY <1>6 DEF CompatError, FetchFail, PatchError, BuildFail, CallerError, ExitOne, Error, ReturnTwo
<1> QED
  BY <1>1, <1>2, <1>3, <1>4, <1>5, <1>6
     DEF Next, Main, Visit, Subshell, Unwind

--------------------------------------------------------------------------------
(* Patches are applied to a pristine tree (build.sh:311-340): what fetch   *)
(* unpacked is what they meet, whatever an earlier run left.               *)
THEOREM PristineCorrect == Spec => []PristineWhenPatched
<1>1. Init => PristineWhenPatched
  BY DEF Init, PristineWhenPatched, At
<1>2. ASSUME TypeOK, StackInv, PristineWhenPatched, [Next]_vars PROVE PristineWhenPatched'
  <2>1. SUFFICES ASSUME At("patch")' PROVE src'[Top'.pkg] = "pristine"
    BY DEF PristineWhenPatched
  <2>2. phase' = "run" /\ stack' # <<>> /\ Top'.pc = "patch"
    BY <2>1 DEF At
  <2>3. CASE UNCHANGED vars
    BY <1>2, <2>2, <2>3 DEF PristineWhenPatched, At, Top, vars, tree
  <2>4. CASE FetchOk
    <3>1. stack # <<>> /\ Top \in Frame /\ Top.pkg \in Pkg
      BY <1>2, <2>4, TopFacts DEF FetchOk, At, TypeOK, Frame
    <3>2. PICK pc \in {"patch", "build"} : Goto(pc)
      BY <2>4 DEF FetchOk
    <3>3. Top' = [Top EXCEPT !.pc = pc]
      BY <1>2, <3>1, <3>2, GotoFacts DEF TypeOK, PCs
    <3>4. Top'.pkg = Top.pkg
      BY <3>1, <3>3 DEF Frame
    <3>5. src'[Top.pkg] = "pristine"
      BY <1>2, <2>4, <3>1 DEF FetchOk, AfterRm, Unpacked, TypeOK
    <3> QED
      BY <3>4, <3>5
  <2>5. CASE CompatOk \/ PatchOk \/ BuildStart \/ BuildOk
    <3>1. PICK pc \in {"fetch", "build", "building", "done"} : Goto(pc)
      BY <2>5 DEF CompatOk, PatchOk, BuildStart, BuildOk
    <3>2. stack # <<>> /\ Top \in Frame
      BY <1>2, <2>5, TopFacts DEF CompatOk, DepsDone, PatchOk, BuildStart, BuildOk, At, TypeOK
    <3>3. Top' = [Top EXCEPT !.pc = pc]
      BY <1>2, <3>1, <3>2, GotoFacts DEF TypeOK, PCs
    <3> QED
      BY <2>2, <3>2, <3>3 DEF Frame
  <2> QED
    BY <1>2, <2>2, <2>3, <2>4, <2>5, NextLabel
<1> QED
  BY <1>1, <1>2, StackAlways, PTL DEF Spec

--------------------------------------------------------------------------------
(* A dry run.                                                              *)

(* It does nothing but take packages and call build() for them.            *)
OnlyMakes == dryrun /\ phase = "run" => \A i \in 1 .. Len(script) : script[i].op = "make"

LEMMA DoneOps ==
  ASSUME TypeOK, NEW p, Done(p)
  PROVE  /\ Len(script') = Len(script)
         /\ \A i \in 1 .. Len(script) : script'[i].op = script[i].op
<1>1. CASE script # <<>>
  <2>1. /\ 1 \in 1 .. Len(script) /\ Head(script) = script[1] /\ script[1] \in Op
        /\ script \in Seq(Op)
    BY <1>1, EmptySeq, ElementOfSeq DEF TypeOK
  <2>2. Drop(p) \in Op /\ Drop(p).op = script[1].op
    BY <2>1 DEF Drop, Op
  <2>3. /\ Len(script') = Len(script) /\ script'[1] = Drop(p)
        /\ \A i \in 1 .. Len(script) : i # 1 => script'[i] = script[i]
    BY <2>1, <2>2, ExceptSeq DEF Done
  <2> QED
    BY <2>2, <2>3
<1>2. CASE script = <<>>
  <2>1. DOMAIN script = {} /\ Len(script) = 0
    BY <1>2, EmptySeq, LenProperties
  <2>2. script = [i \in {} |-> script[i]]
    BY <1>2, <2>1, EmptySeq, LenProperties
  <2>3. script' = script
    BY <2>1, <2>2 DEF Done
  <2> QED
    BY <2>3
<1> QED
  BY <1>1, <1>2

LEMMA ScriptStays ==
  ASSUME TypeOK, [Next]_vars, phase' = "run"
  PROVE  \/ Start \/ NextLoop \/ (\E p \in Pkg : VisitBuild(p))
         \/ /\ phase = "run" /\ command' = command
            /\ script' = script \/ \E p : Done(p)
<1>1. CASE \E p \in Pkg : Remove(p) \/ MakeNothing(p) \/ Visited(p)
  BY <1>1 DEF Remove, MakeNothing, Visited, MainAt, fixed
<1>2. CASE \E p \in Pkg : Make(p)
  BY <1>2 DEF Make, MainAt, fixed
<1>3. CASE UNCHANGED vars
  BY <1>3 DEF vars, fixed
<1>4. CASE SkipSeen \/ Descend \/ Include \/ CompatOk \/ FetchOk \/ PatchOk
             \/ BuildStart \/ BuildOk
  BY <1>4 DEF SkipSeen, Descend, Include, CompatOk, FetchOk, PatchOk, BuildStart, BuildOk,
              DepsDone, At, steps, fixed
<1>5. CASE CompatError \/ FetchFail \/ PatchError \/ BuildFail \/ CallerError \/ ExitOne
             \/ Failed \/ Crash \/ Finish \/ TarError
  BY <1>5 DEF CompatError, FetchFail, PatchError, BuildFail, CallerError, ExitOne, Error,
              ReturnTwo, Failed, Crash, Finish, TarError
<1>6. CASE Return \/ DryReturn
  <2>1. phase = "run" /\ command' = command
    BY <1>6 DEF Return, DryReturn, DepsDone, At, fixed
  <2>2. script' = script \/ Done(Top.pkg)
    BY <1>6 DEF Return, DryReturn
  <2> QED
    BY <2>1, <2>2
<1> QED
  BY <1>1, <1>2, <1>3, <1>4, <1>5, <1>6 DEF Next, Main, Visit, Subshell, Unwind

LEMMA MakesNext ==
  ASSUME TypeOK, OnlyMakes, [Next]_vars
  PROVE  OnlyMakes'
<1> SUFFICES ASSUME command'.verb = "dryrun", phase' = "run"
             PROVE  \A i \in 1 .. Len(script') : script'[i].op = "make"
  BY DEF OnlyMakes, dryrun
<1>1. CASE Start
  <2>1. script' = Script(command')
    BY <1>1 DEF Start, Begin, DepcheckError
  <2>2. script' = << [op |-> "make", pkgs |-> IF command'.args = {} THEN Pkg ELSE command'.args] >>
    BY <2>1 DEF Script
  <2> QED
    BY <2>2
<1>2. CASE NextLoop
  <2>1. script # <<>> /\ script' = Tail(script) /\ phase = "run" /\ command' = command
    BY <1>2 DEF NextLoop, fixed
  <2>2. \A i \in 1 .. Len(script) : script[i].op = "make"
    BY <2>1 DEF OnlyMakes, dryrun
  <2>3. /\ Len(script) \in Nat /\ Len(script') = Len(script) - 1
        /\ \A i \in 1 .. Len(script) - 1 : script'[i] = script[i + 1]
    BY <2>1, HeadTailProperties, LenProperties, EmptySeq DEF TypeOK
  <2> QED
    BY <2>2, <2>3
<1>3. ASSUME NEW p \in Pkg, VisitBuild(p) PROVE FALSE
  <2>1. script # <<>> /\ Head(script).op = "visit" /\ phase = "run" /\ command' = command
    BY <1>3 DEF VisitBuild, MainAt, fixed
  <2>2. Head(script) = script[1] /\ 1 \in 1 .. Len(script)
    BY <2>1, EmptySeq DEF TypeOK
  <2> QED
    BY <2>1, <2>2 DEF OnlyMakes, dryrun
<1>4. CASE phase = "run" /\ command' = command /\ (script' = script \/ \E p : Done(p))
  BY <1>4, DoneOps DEF OnlyMakes, dryrun
<1> QED
  BY <1>1, <1>2, <1>3, <1>4, ScriptStays

LEMMA MakesOnly ==
  ASSUME TypeOK, OnlyMakes, dryrun, NEW k, MainAt(k)
  PROVE  "make" \in k
<1>1. script # <<>> /\ Head(script).op \in k /\ phase = "run"
  BY DEF MainAt
<1>2. Head(script) = script[1] /\ 1 \in 1 .. Len(script)
  BY <1>1, EmptySeq DEF TypeOK
<1> QED
  BY <1>1, <1>2 DEF OnlyMakes

(* A run that works on packages has the SDK, or only pretends to build.    *)
SdkThere == phase \in {"run", "fail"} /\ Depchecked(command) => sdk \/ dryrun

LEMMA SdkNext == SdkThere /\ [Next]_vars => SdkThere'
<1>1. ASSUME SdkThere, [Next]_vars PROVE SdkThere'
  <2>1. CASE UNCHANGED vars
    BY <1>1, <2>1, Zenon DEF vars, fixed, SdkThere, dryrun
  <2>2. CASE Start
    BY <2>2 DEF Start, Begin, DepcheckError, SdkThere, dryrun
  <2>3. CASE DryReturn
    BY <2>3 DEF DryReturn, SdkThere, dryrun
  <2>4. ASSUME ~UNCHANGED vars, ~Start, ~DryReturn
        PROVE  fixed' = fixed /\ (phase' \in {"run", "fail"} => phase \in {"run", "fail"})
    <3>1. CASE NextLoop \/ Finish \/ Visit \/ Unwind \/ Crash
      BY <3>1 DEF NextLoop, Finish, Visit, TarError, VisitBuild, Visited, Unwind, CallerError,
                  ExitOne, Failed, Crash, fixed, steps, MainAt
    <3>2. ASSUME NEW p \in Pkg, Remove(p) \/ Make(p) \/ MakeNothing(p)
          PROVE  fixed' = fixed /\ phase' = phase
      BY <3>2 DEF Remove, Make, MakeNothing, fixed
    <3>3. CASE Subshell
      BY <2>4, <3>3 DEF Subshell, SkipSeen, Descend, Include, CompatOk, CompatError, FetchOk,
        FetchFail, PatchOk, PatchError, BuildStart, BuildOk, BuildFail, Return, DepsDone, At,
        Error, ReturnTwo, steps, fixed
    <3> QED
      BY <1>1, <2>4, <3>1, <3>2, <3>3 DEF Next, Main
  <2> QED
    BY <1>1, <2>1, <2>2, <2>3, <2>4 DEF SdkThere, fixed, dryrun
<1> QED
  BY <1>1

(* What works on packages is the run; its way out leaves them alone.       *)
LEMMA TreeHeld == ASSUME TypeOK, [Next]_vars, phase # "run" PROVE UNCHANGED tree
<1>1. CASE UNCHANGED vars
  BY <1>1 DEF vars
<1>2. CASE Start \/ CallerError \/ ExitOne \/ Failed
  BY <1>2 DEF Start, CallerError, ExitOne, Failed
<1>3. CASE Crash
  <2>1. \E torn \in SUBSET {} :
          dir' = [p \in Pkg |-> IF p \in torn /\ dir[p] = "full" THEN "partial" ELSE dir[p]]
    BY <1>3 DEF Crash, MainAt
  <2>2. dir' = dir
    BY <2>1 DEF TypeOK
  <2> QED
    BY <1>3, <2>2 DEF Crash, tree
<1> QED
  BY <1>1, <1>2, <1>3 DEF Next, Main, Visit, Subshell, Unwind, NextLoop, Finish, Remove, Make,
    MakeNothing, TarError, VisitBuild, Visited, MainAt, SkipSeen, Descend, Include, CompatOk,
    CompatError, FetchOk, FetchFail, PatchOk, PatchError, BuildStart, BuildOk, BuildFail, Return,
    DryReturn, DepsDone, At

(* A dry run leaves packages and .debs alone (build.sh:344-346), whatever   *)
(* the step, and depcheck stops every run that would build without the SDK *)
(* that a dry run has deleted (build.sh:187-190, 366).                     *)
THEOREM PackagesSafe == Spec => PackagesKept
<1>1. Init => OnlyMakes
  BY DEF Init, OnlyMakes
<1>2. TypeOK /\ OnlyMakes /\ [Next]_vars => OnlyMakes'
  BY MakesNext
<1>3. ASSUME TypeOK, StackInv, OnlyMakes, [Next]_vars, dryrun, phase = "run"
      PROVE  UNCHANGED tree
  <2>1. CASE UNCHANGED vars
    BY <2>1 DEF vars
  <2>2. CASE Start \/ Failed \/ CallerError \/ ExitOne
    BY <1>3, <2>2 DEF Start, Begin, DepcheckError, Failed, CallerError, ExitOne
  <2>3. CASE NextLoop \/ Finish \/ TarError
    BY <2>3 DEF NextLoop, Finish, TarError
  <2>4. ASSUME NEW p \in Pkg PROVE ~Remove(p) /\ ~VisitBuild(p) /\ ~Visited(p)
    BY <1>3, MakesOnly DEF Remove, VisitBuild, Visited
  <2>5. ASSUME NEW p \in Pkg, Make(p) \/ MakeNothing(p) PROVE UNCHANGED tree
    BY <1>3, <2>5 DEF Make, MakeNothing, CopyDeb, tree
  <2>6. CASE Subshell
    <3>1. stack # <<>> => Top.pc \in {"deps", "include"}
      <4>1. stack # <<>> => Len(stack) \in 1 .. Len(stack)
        BY <1>3, TopFacts DEF TypeOK
      <4> QED
        BY <1>3, <4>1 DEF StackInv, Dry, Top
    <3>2. CASE SkipSeen \/ Descend \/ Include \/ DryReturn
      BY <3>2 DEF SkipSeen, Descend, Include, DryReturn, steps
    <3>3. CASE CompatOk \/ CompatError
      BY <1>3, <3>3 DEF CompatOk, CompatError
    <3>4. CASE FetchOk \/ FetchFail \/ PatchOk \/ PatchError \/ BuildStart \/ BuildOk
                \/ BuildFail \/ Return
      BY <3>1, <3>4 DEF FetchOk, FetchFail, PatchOk, PatchError, BuildStart, BuildOk,
                        BuildFail, Return, At
    <3> QED
      BY <2>6, <3>2, <3>3, <3>4 DEF Subshell
  <2>7. CASE Crash
    <3>1. ~MainAt({"rm", "rmdeb", "rmpool"})
      BY <1>3, MakesOnly
    <3>2. /\ \E torn \in SUBSET {} :
               dir' = [p \in Pkg |-> IF p \in torn /\ dir[p] = "full" THEN "partial" ELSE dir[p]]
          /\ UNCHANGED <<src, gen, from, deb, pool>>
      BY <2>7, <3>1 DEF Crash
    <3>3. dir' = dir
      BY <1>3, <3>2 DEF TypeOK
    <3> QED
      BY <3>2, <3>3 DEF tree
  <2> QED
    BY <1>3, <2>1, <2>2, <2>3, <2>4, <2>5, <2>6, <2>7 DEF Next, Main, Visit, Unwind
<1>4. TypeOK /\ StackInv /\ OnlyMakes /\ SdkThere /\ [Next]_vars
        => [dryrun \/ (Depchecked(command) /\ ~sdk) => UNCHANGED tree]_vars
  BY <1>3, TreeHeld DEF SdkThere
<1>5. Init => SdkThere
  BY DEF Init, SdkThere
<1> QED
  BY <1>1, <1>2, <1>4, <1>5, SdkNext, StackAlways, PTL DEF Spec, PackagesKept

--------------------------------------------------------------------------------
(* PkgBuild implements TopoBuild.                                          *)

(* An output has been attempted, and what build.sh was started from is     *)
(* still what is staged when it ends.                                      *)
Attempted == \A p \in Pkg : dir[p] # "none" => gen[p] > 0
FromStaged == At("building") => from[Top.pkg] = staged /\ gen[Top.pkg] > 0

LEMMA AttemptedNext ==
  ASSUME TypeOK, FromStaged, Attempted, [Next]_vars
  PROVE  Attempted'
<1> SUFFICES ASSUME NEW p \in Pkg, dir'[p] # "none" PROVE gen'[p] > 0
  BY DEF Attempted
<1>1. CASE dir'[p] = dir[p] /\ gen' = gen
  BY <1>1 DEF Attempted
<1>2. CASE UNCHANGED vars \/ Start \/ NextLoop \/ Finish \/ Visit \/ Unwind
            \/ \E q \in Pkg : Make(q) \/ MakeNothing(q)
  BY <1>1, <1>2 DEF vars, Start, Begin, DepcheckError, NextLoop, Finish, Visit, TarError, VisitBuild, Visited,
       Unwind, CallerError, ExitOne, Failed, Make, MakeNothing, tree, steps
<1>3. ASSUME NEW q \in Pkg, Remove(q) PROVE gen'[p] > 0
  <2>1. dir' = [dir EXCEPT ![q] = "none"] /\ gen' = gen
    BY <1>3 DEF Remove
  <2> QED
    BY <1>1, <2>1 DEF TypeOK
<1>4. CASE SkipSeen \/ Descend \/ Include \/ CompatOk \/ CompatError \/ PatchOk \/ PatchError
            \/ DryReturn
  BY <1>1, <1>4 DEF SkipSeen, Descend, Include, CompatOk, CompatError, PatchOk, PatchError,
                    DryReturn, tree, steps
<1>5. CASE FetchOk \/ FetchFail \/ BuildFail \/ Return
  <2>1. gen' = gen /\ (dir' = [dir EXCEPT ![Top.pkg] = "none"] \/ dir' = dir)
    BY <1>5 DEF FetchOk, FetchFail, BuildFail, AfterFailure, Return
  <2>2. DOMAIN dir = Pkg
    BY DEF TypeOK
  <2>3. dir'[p] = dir[p]
    BY <2>1, <2>2
  <2> QED
    BY <1>1, <2>1, <2>3
<1>6. CASE BuildStart
  <2>1. /\ Top.pkg \in Pkg /\ gen' = [gen EXCEPT ![Top.pkg] = @ + 1]
        /\ dir' = [dir EXCEPT ![Top.pkg] = "partial"]
    BY <1>6, TopTypes DEF BuildStart, At
  <2>2. CASE p = Top.pkg
    BY <2>1, <2>2 DEF TypeOK
  <2>3. CASE p # Top.pkg
    <3>1. dir'[p] = dir[p] /\ gen'[p] = gen[p]
      BY <2>1, <2>3 DEF TypeOK
    <3> QED
      BY <3>1 DEF Attempted
  <2> QED
    BY <2>2, <2>3
<1>7. CASE BuildOk
  <2>1. /\ Top.pkg \in Pkg /\ gen' = gen /\ gen[Top.pkg] > 0
        /\ dir' = [dir EXCEPT ![Top.pkg] = "full"]
    BY <1>7, TopTypes DEF BuildOk, At, FromStaged
  <2> QED
    BY <2>1 DEF Attempted, TypeOK
<1>8. CASE Crash
  <2>1. gen' = gen /\ (dir[p] = "none" => dir'[p] = "none")
    BY <1>8 DEF Crash
  <2> QED
    BY <2>1 DEF Attempted
<1> QED
  BY <1>2, <1>3, <1>4, <1>5, <1>6, <1>7, <1>8 DEF Next, Main, Subshell

LEMMA FromStagedNext ==
  ASSUME TypeOK, StackInv, FromStaged, [Next]_vars
  PROVE  FromStaged'
<1> SUFFICES ASSUME At("building")'
             PROVE  from'[Top'.pkg] = staged' /\ gen'[Top'.pkg] > 0
  BY DEF FromStaged
<1>1. phase' = "run" /\ stack' # <<>> /\ Top'.pc = "building"
  BY DEF At
<1>2. CASE UNCHANGED vars
  BY <1>1, <1>2 DEF FromStaged, At, Top, vars, tree, tmp
<1>3. CASE BuildStart
  <2>1. stack # <<>> /\ Top \in Frame /\ Top.pkg \in Pkg /\ Goto("building")
    BY <1>3, TopFacts DEF BuildStart, At, TypeOK, Frame
  <2>2. Top' = [Top EXCEPT !.pc = "building"]
    BY <2>1, GotoFacts DEF TypeOK, PCs
  <2>3. Top'.pkg = Top.pkg
    BY <2>1, <2>2 DEF Frame
  <2> QED
    BY <1>3, <2>1, <2>3 DEF BuildStart, tmp, TypeOK
<1>4. CASE CompatOk \/ FetchOk \/ PatchOk \/ BuildOk
  <2>1. PICK pc \in {"fetch", "patch", "build", "done"} : Goto(pc)
    BY <1>4 DEF CompatOk, FetchOk, PatchOk, BuildOk
  <2>2. stack # <<>> /\ Top \in Frame
    BY <1>4, TopFacts DEF CompatOk, DepsDone, FetchOk, PatchOk, BuildOk, At, TypeOK
  <2>3. Top' = [Top EXCEPT !.pc = pc]
    BY <2>1, <2>2, GotoFacts DEF TypeOK, PCs
  <2> QED
    BY <1>1, <2>2, <2>3 DEF Frame
<1> QED
  BY <1>1, <1>2, <1>3, <1>4, NextLabel

(* What a build is made of, without the base SDK and the package's own     *)
(* files.                                                                  *)
Made(c) == {<<u[1], u[2]>> : u \in {v \in c : v[2] > 0}}

LEMMA MadeOf ==
  ASSUME NEW N \in SUBSET Pkg, gen \in [Pkg -> Nat], NEW p, \A x \in N : gen[x] > 0,
         staged = {<<BaseSdk, 0, "full">>, <<p, 0, "full">>} \cup {<<x, gen[x], dir[x]>> : x \in N}
  PROVE  Made(staged) = {<<x, gen[x]>> : x \in N}
<1> DEFINE T == {<<x, gen[x], dir[x]>> : x \in N}
<1>1. {v \in staged : v[2] > 0} = T
  <2>1. staged = {<<BaseSdk, 0, "full">>, <<p, 0, "full">>} \cup T
    OBVIOUS
  <2>2. <<BaseSdk, 0, "full">>[2] = 0 /\ <<p, 0, "full">>[2] = 0
    OBVIOUS
  <2>3. \A v \in T : v[2] > 0
    OBVIOUS
  <2> HIDE DEF T
  <2> QED
    BY <2>1, <2>2, <2>3
<1>2. {<<u[1], u[2]>> : u \in T} = {<<x, gen[x]>> : x \in N}
  BY ImageTriples, SMTT(30)
<1> QED
  BY <1>1, <1>2 DEF Made

(* build.sh of a package runs: all it needs is accepted, and is what goes  *)
(* into its output.                                                        *)
LEMMA BuildContent ==
  ASSUME TypeOK, StackInv, Attempted, At("build") \/ At("building")
  PROVE  /\ Top.pkg \in Pkg
         /\ Range(Deps[Top.pkg]) \subseteq Needs(Top.pkg, recursivedeps)
         /\ Needs(Top.pkg, recursivedeps) \subseteq Accepted
         /\ Top.pkg \notin Accepted
         /\ Made(staged) = {<<x, gen[x]>> : x \in Needs(Top.pkg, recursivedeps)}
<1> DEFINE N == Needs(Top.pkg, recursivedeps)
<1>1. /\ Building /\ stack # <<>> /\ Top \in Frame /\ Top.seen = N
  BY IncludedAll
<1>2. Top.pkg \in Pkg /\ N \subseteq Pkg /\ Top.pc \in {"build", "building"}
  BY <1>1 DEF Frame, At
<1>3. /\ FrameOK(Top, dir, recursivedeps) /\ Holds(Top, staged, gen, dir)
      /\ Len(stack) \in 1 .. Len(stack) /\ stack[Len(stack)] = Top
      /\ \A i \in 1 .. Len(stack) : Top.pkg \notin stack[i].seen
      /\ Top.pc \notin {"building", "done"} => dir[Top.pkg] = "none"
  BY <1>1, TopInv
<1>4. Top.pkg \notin N /\ \A x \in N : dir[x] # "none"
  <2>1. Top.pkg \notin Top.seen /\ \A x \in Top.seen : dir[x] # "none"
    BY <1>3 DEF FrameOK
  <2> QED
    BY <1>1, <2>1
<1>5. N \subseteq Accepted /\ Top.pkg \notin Accepted
  BY <1>2, <1>3, <1>4 DEF Accepted, At
<1>6. Range(Deps[Top.pkg]) \subseteq N
  BY <1>2, NeedsFacts DEF TypeOK
<1>7. staged = {<<BaseSdk, 0, "full">>, <<Top.pkg, 0, "full">>}
                 \cup {<<x, gen[x], dir[x]>> : x \in N}
  BY <1>1, <1>2, <1>3 DEF Holds, Own, Late
<1>8. \A x \in N : gen[x] > 0
  BY <1>2, <1>4 DEF Attempted
<1>9. gen \in [Pkg -> Nat]
  BY DEF TypeOK
<1> HIDE DEF N
<1>10. Made(staged) = {<<x, gen[x]>> : x \in N}
  BY <1>2, <1>7, <1>8, <1>9, MadeOf
<1> QED
  BY <1>2, <1>5, <1>6, <1>10 DEF N

LEMMA TopoSame ==
  ASSUME Accepted' = Accepted, gen' = gen, from' = from
  PROVE  UNCHANGED Topo!vars
BY DEF Topo!vars

LEMMA TopoRemove ==
  ASSUME NEW p \in Pkg, Accepted' = Accepted \ {p}, gen' = gen, from' = from
  PROVE  Topo!Next
<1>1. Topo!Remove(p)
  BY DEF Topo!Remove
<1> QED
  BY <1>1 DEF Topo!Next

LEMMA TopoProduce ==
  ASSUME NEW p \in Pkg, Range(Deps[p]) \subseteq Accepted,
         \A u \in Made(from[p]) : u[1] \in Accepted /\ u[2] = gen[u[1]],
         Accepted' = Accepted \cup {p}, gen' = gen, from' = from
  PROVE  Topo!Next
<1>1. Topo!Produce(p)
  BY DEF Topo!Produce, Made
<1> QED
  BY <1>1 DEF Topo!Next

LEMMA TopoAttempt ==
  ASSUME TypeOK, NEW p \in Pkg, p \notin Accepted, Accepted' = Accepted,
         gen' = [gen EXCEPT ![p] = @ + 1],
         from' = [from EXCEPT ![p] = staged],
         \A d \in Range(Deps[p]) : d \in Accepted /\ <<d, gen[d]>> \in Made(staged),
         \A u \in Made(staged) : u[1] \in Accepted /\ u[2] = gen[u[1]]
  PROVE  Topo!Next
<1> DEFINE m == [q \in Pkg |-> {<<u[1], u[2]>> : u \in {v \in from[q] : v[2] > 0}}]
<1>1. from'[p] = staged /\ \A q \in Pkg \ {p} : from'[q] = from[q]
  BY DEF TypeOK
<1>2. m'[p] = Made(staged) /\ \A q \in Pkg \ {p} : m'[q] = m[q]
  BY <1>1 DEF Made
<1>3. m' = [m EXCEPT ![p] = m'[p]]
  BY <1>2
<1>4. Topo!Attempt(p)
  BY <1>2, <1>3 DEF Topo!Attempt
<1> QED
  BY <1>4 DEF Topo!Next

(* A step with no build.sh running before or after it.                     *)
LEMMA TopoQuiet ==
  ASSUME TypeOK, ~At("building"), ~At("building")', gen' = gen, from' = from,
         dir' = dir \/ \E p \in Pkg : dir' = [dir EXCEPT ![p] = "none"]
  PROVE  Topo!Next \/ UNCHANGED Topo!vars
<1>1. Accepted = {q \in Pkg : dir[q] # "none"} /\ Accepted' = {q \in Pkg : dir'[q] # "none"}
  BY DEF Accepted
<1>2. CASE dir' = dir
  BY <1>1, <1>2, TopoSame
<1>3. ASSUME NEW p \in Pkg, dir' = [dir EXCEPT ![p] = "none"]
      PROVE  Topo!Next
  <2>1. DOMAIN dir = Pkg
    BY DEF TypeOK
  <2>2. Accepted' = Accepted \ {p}
    BY <1>1, <1>3, <2>1
  <2> QED
    BY <2>2, TopoRemove
<1> QED
  BY <1>2, <1>3

LEMMA TopoBuilding ==
  ASSUME TypeOK, StackInv, Attempted, FromStaged, At("building"),
         phase' # "run" \/ stack' = <<>> \/ Top'.pc # "building",
         gen' = gen, from' = from,
         \A q \in Pkg \ {Top.pkg} : dir'[q] = dir[q]
  PROVE  Topo!Next \/ UNCHANGED Topo!vars
<1> DEFINE p == Top.pkg
           N == Needs(p, recursivedeps)
<1>1. /\ p \in Pkg /\ Range(Deps[p]) \subseteq N /\ N \subseteq Accepted /\ p \notin Accepted
      /\ Made(from[p]) = {<<x, gen[x]>> : x \in N}
  BY BuildContent DEF FromStaged
<1>2. ~At("building")'
  BY DEF At
<1>3. Accepted = {q \in Pkg : dir[q] # "none" /\ q # p}
  BY DEF Accepted
<1>4. Accepted' = {q \in Pkg : dir'[q] # "none"}
  BY <1>2 DEF Accepted
<1> HIDE DEF p, N
<1>5. \A u \in Made(from[p]) : u[1] \in Accepted /\ u[2] = gen[u[1]]
  BY <1>1
<1>6. \A q \in Pkg \ {p} : dir'[q] = dir[q]
  BY DEF p
<1>7. CASE dir'[p] = "none"
  <2>1. Accepted' = Accepted
    BY <1>3, <1>4, <1>6, <1>7
  <2> QED
    BY <2>1, TopoSame
<1>8. CASE dir'[p] # "none"
  <2>1. Accepted' = Accepted \cup {p}
    BY <1>1, <1>3, <1>4, <1>6, <1>8
  <2> QED
    BY <1>1, <1>5, <2>1, TopoProduce
<1> QED
  BY <1>7, <1>8

LEMMA TopoStep ==
  ASSUME TypeOK, StackInv, Attempted, FromStaged, [Next]_vars
  PROVE  [Topo!Next]_Topo!vars
<1>1. ASSUME ~At("building"), gen' = gen, from' = from, ~BuildStart,
             dir' = dir \/ \E p \in Pkg : dir' = [dir EXCEPT ![p] = "none"]
      PROVE  Topo!Next \/ UNCHANGED Topo!vars
  <2>1. ~At("building")'
    <3> SUFFICES ASSUME phase' = "run", stack' # <<>>, Top'.pc = "building" PROVE FALSE
      BY DEF At
    <3>1. CASE UNCHANGED vars
      BY <1>1, <3>1 DEF vars, At, Top
    <3>2. CASE CompatOk \/ FetchOk \/ PatchOk \/ BuildOk
      <4>1. PICK pc \in {"fetch", "patch", "build", "done"} : Goto(pc)
        BY <3>2 DEF CompatOk, FetchOk, PatchOk, BuildOk
      <4>2. stack # <<>> /\ Top \in Frame
        BY <3>2, TopFacts DEF CompatOk, DepsDone, FetchOk, PatchOk, BuildOk, At, TypeOK
      <4>3. Top' = [Top EXCEPT !.pc = pc]
        BY <4>1, <4>2, GotoFacts DEF TypeOK, PCs
      <4> QED
        BY <4>2, <4>3 DEF Frame
    <3> QED
      BY <1>1, <3>1, <3>2, NextLabel
  <2> QED
    BY <1>1, <2>1, TopoQuiet
<1>2. CASE UNCHANGED vars
  <2>1. Accepted' = Accepted
    BY <1>2 DEF vars, tree, Accepted, At, Top
  <2> QED
    BY <1>2, <2>1, TopoSame DEF vars, tree
<1>3. CASE Start \/ Failed \/ CallerError \/ ExitOne \/ NextLoop \/ Finish \/ TarError
            \/ \E p \in Pkg : Make(p) \/ MakeNothing(p) \/ VisitBuild(p) \/ Visited(p)
  <2>1. ~At("building")
    BY <1>3 DEF Start, Begin, DepcheckError, Failed, CallerError, ExitOne, NextLoop, Finish, TarError, Make,
                MakeNothing, VisitBuild, Visited, MainAt, At
  <2>2. dir' = dir /\ gen' = gen /\ from' = from
    BY <1>3 DEF Start, Begin, DepcheckError, Failed, CallerError, ExitOne, NextLoop, Finish, TarError, Make,
                MakeNothing, VisitBuild, Visited, tree, steps
  <2>3. ~BuildStart
    BY <1>3 DEF Start, Begin, DepcheckError, Failed, CallerError, ExitOne, NextLoop, Finish, TarError, Make,
                MakeNothing, VisitBuild, Visited, MainAt, BuildStart, At
  <2> QED
    BY <1>1, <2>1, <2>2, <2>3
<1>4. ASSUME NEW p \in Pkg, Remove(p) PROVE [Topo!Next]_Topo!vars
  BY <1>1, <1>4 DEF Remove, MainAt, At, BuildStart
<1>5. CASE SkipSeen \/ Descend \/ Include \/ CompatOk \/ CompatError \/ PatchOk \/ PatchError
             \/ DryReturn
  <2>1. ~At("building") /\ ~BuildStart
    BY <1>5 DEF SkipSeen, Descend, Include, CompatOk, CompatError, PatchOk, PatchError,
                DryReturn, DepsDone, BuildStart, At
  <2>2. dir' = dir /\ gen' = gen /\ from' = from
    BY <1>5 DEF SkipSeen, Descend, Include, CompatOk, CompatError, PatchOk, PatchError,
                DryReturn, tree, steps
  <2> QED
    BY <1>1, <2>1, <2>2
<1>6. CASE FetchOk \/ FetchFail \/ Return
  <2>1. ~At("building") /\ ~BuildStart /\ Top.pkg \in Pkg
    BY <1>6, TopTypes DEF FetchOk, FetchFail, Return, BuildStart, At
  <2>2. /\ gen' = gen /\ from' = from
        /\ dir' = dir \/ dir' = [dir EXCEPT ![Top.pkg] = "none"]
    BY <1>6 DEF FetchOk, FetchFail, Return
  <2> QED
    BY <1>1, <2>1, <2>2
<1>7. CASE BuildStart
  <2> DEFINE p == Top.pkg
             N == Needs(p, recursivedeps)
  <2>1. /\ At("build") /\ Goto("building") /\ phase' = "run"
        /\ dir' = [dir EXCEPT ![p] = "partial"]
        /\ gen' = [gen EXCEPT ![p] = @ + 1] /\ from' = [from EXCEPT ![p] = staged]
    BY <1>7 DEF BuildStart, At
  <2>2. /\ p \in Pkg /\ Range(Deps[p]) \subseteq N /\ N \subseteq Accepted /\ p \notin Accepted
        /\ Made(staged) = {<<x, gen[x]>> : x \in N}
    BY <2>1, BuildContent
  <2>3. At("building")' /\ Top'.pkg = p
    <3>1. stack # <<>> /\ Top \in Frame
      BY <2>1, TopFacts DEF At, TypeOK
    <3>2. stack' # <<>> /\ Top' = [Top EXCEPT !.pc = "building"]
      BY <2>1, <3>1, GotoFacts DEF TypeOK, PCs
    <3> QED
      BY <2>1, <3>1, <3>2 DEF At, Frame
  <2>4. Accepted' = {q \in Pkg : dir'[q] # "none" /\ q # p}
    BY <2>3 DEF Accepted
  <2>5. Accepted = {q \in Pkg : dir[q] # "none"}
    BY <2>1 DEF Accepted, At
  <2> HIDE DEF p, N
  <2>6. Accepted' = Accepted
    <3>1. DOMAIN dir = Pkg
      BY DEF TypeOK
    <3> QED
      BY <2>1, <2>2, <2>4, <2>5, <3>1
  <2>7. Topo!Next
    <3>1. ASSUME NEW d \in Range(Deps[p])
          PROVE  d \in Accepted /\ <<d, gen[d]>> \in Made(staged)
      <4>1. d \in N
        BY <2>2
      <4> QED
        BY <2>2, <4>1
    <3>2. ASSUME NEW u \in Made(staged)
          PROVE  u[1] \in Accepted /\ u[2] = gen[u[1]]
      <4>1. PICK x \in N : u = <<x, gen[x]>>
        BY <2>2
      <4> QED
        BY <2>2, <4>1
    <3>3. gen' = [gen EXCEPT ![p] = @ + 1] /\ from' = [from EXCEPT ![p] = staged]
      BY <2>1
    <3>4. p \in Pkg /\ p \notin Accepted
      BY <2>2
    <3> HIDE <2>1, <2>2
    <3> QED
      BY <2>6, <3>1, <3>2, <3>3, <3>4, TopoAttempt
  <2> QED
    BY <2>7
<1>8. CASE BuildOk \/ BuildFail
  <2>1. /\ At("building") /\ gen' = gen /\ from' = from
        /\ \E v : dir' = [dir EXCEPT ![Top.pkg] = v]
    BY <1>8 DEF BuildOk, BuildFail
  <2>2. phase' # "run" \/ stack' = <<>> \/ Top'.pc # "building"
    <3>1. CASE BuildOk
      <4>1. stack # <<>> /\ Top \in Frame /\ Goto("done")
        BY <3>1, TopFacts DEF BuildOk, At, TypeOK
      <4>2. Top' = [Top EXCEPT !.pc = "done"]
        BY <4>1, GotoFacts DEF TypeOK, PCs
      <4> QED
        BY <4>1, <4>2 DEF Frame
    <3>2. CASE BuildFail
      BY <3>2 DEF BuildFail, ReturnTwo
    <3> QED
      BY <1>8, <3>1, <3>2
  <2>3. \A q \in Pkg \ {Top.pkg} : dir'[q] = dir[q]
    <3>1. DOMAIN dir = Pkg
      BY DEF TypeOK
    <3> QED
      BY <2>1, <3>1
  <2> QED
    BY <2>1, <2>2, <2>3, TopoBuilding
<1>9. CASE Crash
  <2>1. phase' = "idle" /\ gen' = gen /\ from' = from
    BY <1>9 DEF Crash
  <2>2. PICK torn \in SUBSET (IF MainAt({"rm", "rmdeb", "rmpool"}) THEN Head(script).pkgs ELSE {}) :
          dir' = [p \in Pkg |-> IF p \in torn /\ dir[p] = "full" THEN "partial" ELSE dir[p]]
    BY <1>9 DEF Crash
  <2>3. CASE At("building")
    <3>1. torn = {}
      BY <2>2, <2>3 DEF At, MainAt
    <3>2. \A q \in Pkg \ {Top.pkg} : dir'[q] = dir[q]
      BY <2>2, <3>1
    <3> QED
      BY <2>1, <2>3, <3>2, TopoBuilding
  <2>4. CASE ~At("building")
    <3>1. \A q \in Pkg : dir'[q] # "none" <=> dir[q] # "none"
      BY <2>2
    <3>2. Accepted' = Accepted
      BY <2>1, <2>4, <3>1 DEF Accepted, At
    <3> QED
      BY <2>1, <3>2, TopoSame
  <2> QED
    BY <2>3, <2>4
<1> QED
  BY <1>2, <1>3, <1>4, <1>5, <1>6, <1>7, <1>8, <1>9 DEF Next, Main, Visit, Subshell, Unwind

(* build.sh, with its subshells, staging directories, failures and kills,  *)
(* implements a build in which each output is made in one step from the    *)
(* current outputs of all it depends on.                                   *)
THEOREM TopoImplemented == Spec => ImplementsTopo
<1>1. Init => Topo!Init
  <2> SUFFICES ASSUME Init PROVE Topo!Init
    OBVIOUS
  <2>1. Accepted = {}
    BY DEF Init, Accepted
  <2>2. [p \in Pkg |-> {<<u[1], u[2]>> : u \in {v \in from[p] : v[2] > 0}}] = [p \in Pkg |-> {}]
    BY DEF Init
  <2> QED
    BY <2>1, <2>2 DEF Init, Topo!Init
<1>2. Init => Attempted /\ FromStaged
  BY DEF Init, Attempted, FromStaged, At
<1>3. TypeOK /\ StackInv /\ Attempted /\ FromStaged /\ [Next]_vars => Attempted' /\ FromStaged'
  BY AttemptedNext, FromStagedNext
<1>4. TypeOK /\ StackInv /\ Attempted /\ FromStaged /\ [Next]_vars => [Topo!Next]_Topo!vars
  BY TopoStep
<1> QED
  BY <1>1, <1>2, <1>3, <1>4, StackAlways, PTL DEF Spec, ImplementsTopo, Topo!Spec

--------------------------------------------------------------------------------
(* The order of a dry run.                                                 *)

(* Of one subshell, when the packages of L have been printed: its own is   *)
(* not among them, what it has included is, and every dependency is        *)
(* included or still to come.                                              *)
Pretended(f, L) ==
  /\ f.pkg \notin L /\ f.seen \subseteq L
  /\ Range(Deps[f.pkg]) \subseteq f.seen \cup Range(f.todo)
  /\ \A x \in Range(f.todo) : Rank[x] < Rank[f.pkg]

(* Each subshell waits for the one above it, deeper in the graph.          *)
DryStack == phase = "run" /\ dryrun =>
  /\ \A i \in 1 .. Len(stack) : Pretended(stack[i], Range(listed))
  /\ \A i \in 1 .. Len(stack) - 1 : Head(stack[i].todo) = stack[i + 1].pkg
  /\ \A i, j \in 1 .. Len(stack) : i < j => Rank[stack[j].pkg] < Rank[stack[i].pkg]
  /\ stack # <<>> /\ Top.pc = "include" => Head(Top.todo) \in Range(listed)

LEMMA RangeAppend ==
  ASSUME NEW S, NEW s \in Seq(S), NEW e \in S
  PROVE  Range(Append(s, e)) = Range(s) \cup {e}
<1>1. /\ Append(s, e) \in Seq(S) /\ Len(Append(s, e)) = Len(s) + 1
      /\ \A i \in 1 .. Len(s) : Append(s, e)[i] = s[i]
      /\ Append(s, e)[Len(s) + 1] = e
  BY AppendProperties
<1>2. /\ Len(s) \in Nat /\ DOMAIN s = 1 .. Len(s)
      /\ DOMAIN Append(s, e) = 1 .. Len(s) + 1
  BY <1>1, LenProperties
<1>3. ASSUME NEW x \in Range(Append(s, e)) PROVE x \in Range(s) \cup {e}
  <2>1. PICK i \in 1 .. Len(s) + 1 : x = Append(s, e)[i]
    BY <1>2, <1>3 DEF Range
  <2>2. CASE i = Len(s) + 1
    BY <1>1, <2>1, <2>2
  <2>3. CASE i # Len(s) + 1
    <3>1. i \in 1 .. Len(s)
      BY <1>2, <2>3
    <3> QED
      BY <1>1, <1>2, <2>1, <3>1 DEF Range
  <2> QED
    BY <2>2, <2>3
<1>4. ASSUME NEW x \in Range(s) PROVE x \in Range(Append(s, e))
  <2>1. PICK i \in 1 .. Len(s) : x = s[i]
    BY <1>2, <1>4 DEF Range
  <2>2. i \in 1 .. Len(s) + 1
    BY <1>2
  <2> QED
    BY <1>1, <1>2, <2>1, <2>2 DEF Range
<1>5. e \in Range(Append(s, e))
  <2>1. Len(s) + 1 \in 1 .. Len(s) + 1
    BY <1>2
  <2> QED
    BY <1>1, <1>2, <2>1 DEF Range
<1> QED
  BY <1>3, <1>4, <1>5

(* A step of the innermost subshell that prints nothing.                   *)
LEMMA DryTop ==
  ASSUME TypeOK, DryStack, phase = "run", dryrun, stack # <<>>, listed' = listed,
         NEW f \in Frame, SetTop(f), f.pkg = Top.pkg,
         Pretended(f, Range(listed)),
         f.pc = "include" => Head(f.todo) \in Range(listed)
  PROVE  DryStack'
<1> DEFINE n == Len(stack)
<1>1. /\ n \in Nat \ {0} /\ stack[n] = Top
      /\ Len(stack') = n /\ Top' = f /\ stack'[n] = f
      /\ \A i \in 1 .. n - 1 : stack'[i] = stack[i]
  BY TopFacts, SetTopFacts DEF TypeOK, Top
<1>2. \A i \in 1 .. n : stack'[i].pkg = stack[i].pkg
  BY <1>1
<1>3. \A i \in 1 .. n : Pretended(stack'[i], Range(listed'))
  BY <1>1 DEF DryStack
<1>4. \A i \in 1 .. n - 1 : Head(stack'[i].todo) = stack'[i + 1].pkg
  BY <1>1, <1>2 DEF DryStack
<1>5. \A i, j \in 1 .. n : i < j => Rank[stack'[j].pkg] < Rank[stack'[i].pkg]
  BY <1>2 DEF DryStack
<1> HIDE DEF n
<1> QED
  BY <1>1, <1>3, <1>4, <1>5 DEF DryStack

(* A subshell is entered for d, from the frames of below.                  *)
LEMMA DryEnter ==
  ASSUME TypeOK, listed' = listed, NEW d \in Pkg, d \notin Range(listed),
         NEW below \in Seq(Frame), NEW left, Enter(d, below, left),
         \A i \in 1 .. Len(below) :
           Pretended(below[i], Range(listed)) /\ Rank[d] < Rank[below[i].pkg],
         \A i \in 1 .. Len(below) - 1 : Head(below[i].todo) = below[i + 1].pkg,
         \A i, j \in 1 .. Len(below) : i < j => Rank[below[j].pkg] < Rank[below[i].pkg],
         below # <<>> => Head(below[Len(below)].todo) = d
  PROVE  DryStack'
<1> DEFINE n == Len(below)
<1>1. /\ n \in Nat /\ (n > 0 => below # <<>>)
      /\ Len(stack') = n + 1 /\ Top' = NewFrame(d) /\ stack'[n + 1] = NewFrame(d)
      /\ \A i \in 1 .. n : stack'[i] = below[i]
  BY EnterFacts, EmptySeq, LenProperties DEF Top
<1>2. NewFrame(d).pkg = d /\ NewFrame(d).pc = "deps"
  BY DEF NewFrame
<1>3. Pretended(NewFrame(d), Range(listed))
  BY DepsFacts, RankFacts DEF NewFrame, Pretended
<1> HIDE DEF n
<1>4. \A i \in 1 .. n + 1 : Pretended(stack'[i], Range(listed'))
  BY <1>1, <1>3 DEF n
<1>5. \A i \in 1 .. n : Head(stack'[i].todo) = stack'[i + 1].pkg
  BY <1>1, <1>2 DEF n
<1>6. \A i, j \in 1 .. n + 1 : i < j => Rank[stack'[j].pkg] < Rank[stack'[i].pkg]
  BY <1>1, <1>2 DEF n
<1> QED
  BY <1>1, <1>2, <1>4, <1>5, <1>6 DEF DryStack

LEMMA DrySkip ==
  ASSUME TypeOK, DryStack, SkipSeen, dryrun
  PROVE  DryStack'
<1> DEFINE f == [Top EXCEPT !.todo = Tail(@)]
<1>1. /\ stack # <<>> /\ phase = "run" /\ Top.pc = "deps" /\ Top.todo # <<>>
      /\ SetTop(f) /\ listed' = listed /\ Head(Top.todo) \in Top.seen
  BY DEF SkipSeen, At, steps
<1>2. /\ Top \in Frame /\ Top.todo \in Seq(Pkg) /\ Tail(Top.todo) \in Seq(Pkg)
      /\ Len(stack) \in Nat \ {0} /\ Top = stack[Len(stack)]
  BY <1>1, TopTypes, TopFacts DEF TypeOK, Top
<1>3. Range(Top.todo) = {Head(Top.todo)} \cup Range(Tail(Top.todo))
  BY <1>1, <1>2, RangeFacts
<1>4. /\ f \in Frame /\ f.pkg = Top.pkg /\ f.pc = "deps"
      /\ f.todo = Tail(Top.todo) /\ f.seen = Top.seen
  BY <1>1, <1>2 DEF Frame
<1>5. Pretended(Top, Range(listed))
  BY <1>1, <1>2 DEF DryStack
<1> HIDE DEF f
<1>6. Pretended(f, Range(listed))
  BY <1>1, <1>3, <1>4, <1>5 DEF Pretended
<1> QED
  BY <1>1, <1>4, <1>6, DryTop

LEMMA DryInclude ==
  ASSUME TypeOK, DryStack, Include, dryrun
  PROVE  DryStack'
<1> DEFINE d == Head(Top.todo)
           more == IF recursivedeps THEN Deps[d] ELSE <<>>
           f == [Top EXCEPT !.pc = "deps", !.todo = more \o Tail(@), !.seen = @ \cup {d}]
<1>1. /\ stack # <<>> /\ phase = "run" /\ Top.pc \in {"deps", "include"}
      /\ Top.pc = "deps" => Top.todo # <<>> /\ d \in Range(listed)
      /\ SetTop(f) /\ listed' = listed
  BY DEF Include, At, steps, hasbeenbuilt
<1>2. /\ Top \in Frame /\ Top.todo \in Seq(Pkg)
      /\ Len(stack) \in Nat \ {0} /\ Top = stack[Len(stack)] /\ Top.pkg \in Pkg
  BY <1>1, TopTypes, TopFacts DEF TypeOK, Top
<1>3. Top.todo # <<>>
  BY <1>1, <1>2 DEF Frame
<1>4. Tail(Top.todo) \in Seq(Pkg) /\ d \in Pkg
  BY <1>1, <1>3, TopTypes
<1>5. d \in Range(listed)
  BY <1>1 DEF DryStack
<1>6. d \in Range(Top.todo) /\ Range(Top.todo) = {d} \cup Range(Tail(Top.todo))
  BY <1>2, <1>3, RangeFacts
<1>7. more \in Seq(Pkg) /\ \A x \in Range(more) : Rank[x] < Rank[d]
  <2>1. Deps[d] \in Seq(Pkg) /\ \A x \in Range(Deps[d]) : Rank[x] < Rank[d]
    BY <1>4, DepsFacts, RankFacts
  <2>2. <<>> \in Seq(Pkg) /\ Range(<<>>) = {}
    BY RangeEmpty
  <2> QED
    BY <2>1, <2>2
<1> HIDE DEF d, more
<1>8. /\ f \in Frame /\ f.pkg = Top.pkg /\ f.pc = "deps"
      /\ f.todo = more \o Tail(Top.todo) /\ f.seen = Top.seen \cup {d}
  <2>1. more \o Tail(Top.todo) \in Seq(Pkg) /\ Top.seen \cup {d} \in SUBSET Pkg
    BY <1>2, <1>4, <1>7, ConcatProperties DEF Frame
  <2> QED
    BY <1>2, <2>1 DEF Frame, PCs
<1>9. Range(f.todo) = Range(more) \cup Range(Tail(Top.todo))
  <2>1. Range(more \o Tail(Top.todo)) = Range(more) \cup Range(Tail(Top.todo))
    BY <1>4, <1>7, RangeConcat
  <2> QED
    BY <1>8, <2>1
<1>10. Pretended(Top, Range(listed))
  BY <1>1, <1>2 DEF DryStack
<1> HIDE DEF f
<1>11. Pretended(f, Range(listed))
  <2>1. Range(Deps[f.pkg]) \subseteq f.seen \cup Range(f.todo)
    BY <1>6, <1>8, <1>9, <1>10 DEF Pretended
  <2>2. ASSUME NEW x \in Range(f.todo) PROVE Rank[x] < Rank[f.pkg]
    <3>1. Rank[d] < Rank[Top.pkg]
      BY <1>6, <1>10 DEF Pretended
    <3>2. CASE x \in Range(Tail(Top.todo))
      BY <1>6, <1>8, <1>10, <3>2 DEF Pretended
    <3>3. CASE x \in Range(more)
      <4>1. x \in Pkg
        BY <1>7, <3>3, LenProperties DEF Range
      <4>2. Rank[x] \in Int /\ Rank[d] \in Int /\ Rank[Top.pkg] \in Int
        BY <1>2, <1>4, <4>1, RankFacts
      <4> QED
        BY <1>7, <1>8, <3>1, <3>3, <4>2
    <3> QED
      BY <1>9, <2>2, <3>2, <3>3
  <2>3. f.pkg \notin Range(listed) /\ f.seen \subseteq Range(listed)
    BY <1>5, <1>8, <1>10 DEF Pretended
  <2> QED
    BY <2>1, <2>2, <2>3 DEF Pretended
<1> QED
  BY <1>1, <1>8, <1>11, DryTop

LEMMA DryDescend ==
  ASSUME TypeOK, DryStack, Descend, dryrun
  PROVE  DryStack'
<1> DEFINE d == Head(Top.todo)
           n == Len(stack)
           caller == [stack EXCEPT ![n].pc = "include"]
<1>1. /\ Enter(d, caller, staged) /\ Top.todo # <<>> /\ listed' = listed
      /\ stack # <<>> /\ phase = "run" /\ d \notin Range(listed)
  BY DEF Descend, At, hasbeenbuilt
<1>2. /\ n \in Nat \ {0} /\ Top \in Frame /\ d \in Pkg /\ d \in Range(Top.todo)
      /\ stack[n] = Top /\ DOMAIN stack = 1 .. n
  BY <1>1, TopFacts, TopTypes, RangeFacts, LenProperties DEF TypeOK, Top
<1> DEFINE t == [Top EXCEPT !.pc = "include"]
<1>3. /\ t \in Frame /\ t.pkg = Top.pkg /\ t.todo = Top.todo /\ t.seen = Top.seen
  BY <1>1, <1>2 DEF Frame, PCs
<1>4. /\ caller \in Seq(Frame) /\ Len(caller) = n
      /\ \A i \in 1 .. n - 1 : caller[i] = stack[i]
      /\ caller[n] = t
  <2>1. caller = [stack EXCEPT ![n] = t]
    BY <1>2
  <2>2. stack \in Seq(Frame) /\ t \in Frame /\ n \in 1 .. Len(stack)
    BY <1>2, <1>3 DEF TypeOK
  <2> HIDE DEF t, caller
  <2>3. /\ [stack EXCEPT ![n] = t] \in Seq(Frame) /\ Len([stack EXCEPT ![n] = t]) = n
        /\ \A i \in 1 .. n : [stack EXCEPT ![n] = t][i] = IF i = n THEN t ELSE stack[i]
    BY <1>2, <2>2, ExceptSeq
  <2>4. n \in Nat \ {0}
    BY <1>2
  <2> HIDE DEF n
  <2>5. n \in 1 .. n /\ \A i \in 1 .. n - 1 : i \in 1 .. n /\ i # n
    BY <2>4
  <2> QED
    BY <2>1, <2>3, <2>5
<1> HIDE DEF caller, d, n, t
<1>5. \A i \in 1 .. n : /\ caller[i].pkg = stack[i].pkg /\ caller[i].todo = stack[i].todo
                        /\ caller[i].seen = stack[i].seen
  BY <1>2, <1>3, <1>4
<1>6. \A i \in 1 .. n : Pretended(caller[i], Range(listed))
  BY <1>1, <1>5 DEF DryStack, Pretended, n
<1>7. /\ \A i \in 1 .. n - 1 : Head(caller[i].todo) = caller[i + 1].pkg
      /\ \A i, j \in 1 .. n : i < j => Rank[caller[j].pkg] < Rank[caller[i].pkg]
  <2>1. /\ \A i \in 1 .. n - 1 : Head(stack[i].todo) = stack[i + 1].pkg
        /\ \A i, j \in 1 .. n : i < j => Rank[stack[j].pkg] < Rank[stack[i].pkg]
    BY <1>1 DEF DryStack, n
  <2>2. \A i \in 1 .. n - 1 : i \in 1 .. n /\ i + 1 \in 1 .. n
    BY <1>2
  <2>3. \A i \in 1 .. n - 1 : Head(caller[i].todo) = caller[i + 1].pkg
    BY <1>5, <2>1, <2>2
  <2>4. \A i, j \in 1 .. n : i < j => Rank[caller[j].pkg] < Rank[caller[i].pkg]
    BY <1>5, <2>1
  <2> QED
    BY <2>3, <2>4
<1>8. ASSUME NEW i \in 1 .. n PROVE Rank[d] < Rank[caller[i].pkg]
  <2>1. Rank[d] < Rank[Top.pkg]
    BY <1>2, <1>3, <1>4, <1>6 DEF Pretended
  <2>2. CASE i = n
    BY <1>3, <1>4, <2>1, <2>2
  <2>3. CASE i # n
    <3>1. i < n /\ n \in 1 .. n
      BY <1>2, <2>3
    <3>2. Rank[caller[n].pkg] < Rank[caller[i].pkg]
      BY <1>7, <3>1
    <3>3. caller[i].pkg \in Pkg /\ caller[n].pkg \in Pkg
      BY <1>2, <1>4, ElementOfSeq DEF Frame
    <3>4. Rank[caller[i].pkg] \in Int /\ Rank[caller[n].pkg] \in Int /\ Rank[d] \in Int
      BY <1>2, <3>3, RankFacts
    <3> QED
      BY <1>3, <1>4, <2>1, <3>2, <3>4
  <2> QED
    BY <2>2, <2>3
<1>9. Head(caller[n].todo) = d
  BY <1>3, <1>4 DEF d
<1> QED
  BY <1>1, <1>2, <1>4, <1>6, <1>7, <1>8, <1>9, DryEnter

LEMMA DryMake ==
  ASSUME TypeOK, NEW p \in Pkg, Make(p), dryrun
  PROVE  DryStack'
<1>1. /\ stack = <<>> /\ Enter(p, stack, staged) /\ listed' = listed /\ p \notin Range(listed)
  BY DEF Make, MainAt, hasbeenbuilt
<1>2. stack \in Seq(Frame) /\ Len(stack) = 0
  BY <1>1, EmptySeq DEF TypeOK
<1>3. 1 .. Len(stack) = {} /\ 1 .. Len(stack) - 1 = {}
  BY <1>2
<1>4. /\ \A i \in 1 .. Len(stack) :
           Pretended(stack[i], Range(listed)) /\ Rank[p] < Rank[stack[i].pkg]
      /\ \A i \in 1 .. Len(stack) - 1 : Head(stack[i].todo) = stack[i + 1].pkg
      /\ \A i, j \in 1 .. Len(stack) : i < j => Rank[stack[j].pkg] < Rank[stack[i].pkg]
  BY <1>3
<1> QED
  BY <1>1, <1>2, <1>4, DryEnter

LEMMA DryDone ==
  ASSUME TypeOK, DryStack, DryReturn
  PROVE  DryStack'
<1> DEFINE n == Len(stack)
<1>1. /\ stack # <<>> /\ stack' = Below /\ phase = "run" /\ dryrun
      /\ listed' = Append(listed, Top.pkg)
  BY DEF DryReturn, DepsDone, At
<1>2. /\ n \in Nat \ {0} /\ Len(stack') = n - 1 /\ Top = stack[n] /\ Top.pkg \in Pkg
      /\ \A i \in 1 .. n - 1 : stack'[i] = stack[i]
  BY <1>1, TopFacts, TopTypes, BelowFacts DEF TypeOK, Top
<1>3. Range(listed') = Range(listed) \cup {Top.pkg}
  BY <1>1, <1>2, RangeAppend DEF TypeOK
<1>4. ASSUME NEW i \in 1 .. n - 1 PROVE Pretended(stack'[i], Range(listed'))
  <2>1. Pretended(stack[i], Range(listed))
    BY <1>1 DEF DryStack
  <2>2. i \in 1 .. n /\ n \in 1 .. n /\ i < n
    BY <1>2
  <2>3. Rank[Top.pkg] < Rank[stack[i].pkg]
    BY <1>1, <1>2, <2>2 DEF DryStack
  <2>4. stack[i].pkg \in Pkg
    <3>1. stack[i] \in Frame
      BY <2>2, ElementOfSeq DEF TypeOK
    <3> QED
      BY <3>1 DEF Frame
  <2>5. Top.pkg # stack[i].pkg
    BY <1>2, <2>3, <2>4, RankFacts
  <2> QED
    BY <1>2, <1>3, <2>1, <2>5 DEF Pretended
<1>5. stack' # <<>> => Top' = stack[n - 1] /\ n - 1 \in 1 .. n - 1
  <2>1. SUFFICES ASSUME stack' # <<>> PROVE Top' = stack[n - 1] /\ n - 1 \in 1 .. n - 1
    OBVIOUS
  <2>2. stack' \in Seq(Frame)
    BY <1>1, BelowFacts DEF TypeOK
  <2>3. n - 1 \in 1 .. n - 1
    BY <1>2, <2>1, <2>2, EmptySeq
  <2> QED
    BY <1>2, <2>3 DEF Top
<1>6. stack' # <<>> => Head(Top'.todo) \in Range(listed')
  BY <1>1, <1>2, <1>3, <1>5 DEF DryStack
<1> HIDE DEF n
<1>7. /\ \A i \in 1 .. n - 2 : Head(stack'[i].todo) = stack'[i + 1].pkg
      /\ \A i, j \in 1 .. n - 1 : i < j => Rank[stack'[j].pkg] < Rank[stack'[i].pkg]
  BY <1>1, <1>2, SMTT(30) DEF DryStack, n
<1>8. Len(stack') - 1 = n - 2
  BY <1>2
<1> QED
  BY <1>2, <1>4, <1>6, <1>7, <1>8 DEF DryStack

(* A pretended subshell does nothing but go through its list.              *)
LEMMA DryOnly ==
  ASSUME TypeOK, StackInv, dryrun, Subshell
  PROVE  SkipSeen \/ Descend \/ Include \/ DryReturn
<1>1. ASSUME CompatOk \/ CompatError \/ FetchOk \/ FetchFail \/ PatchOk \/ PatchError
               \/ BuildStart \/ BuildOk \/ BuildFail \/ Return
      PROVE  FALSE
  <2>1. phase = "run" /\ stack # <<>> /\ (~dryrun \/ Top.pc \in Late)
    BY <1>1 DEF CompatOk, CompatError, DepsDone, FetchOk, FetchFail, PatchOk, PatchError,
                BuildStart, BuildOk, BuildFail, Return, At, Late
  <2>2. Len(stack) \in Nat \ {0}
    BY <2>1, TopFacts DEF TypeOK
  <2>3. Top.pc \in {"deps", "include"}
    BY <2>1, <2>2 DEF StackInv, Dry, Top
  <2> QED
    BY <2>1, <2>3 DEF Late
<1> QED
  BY <1>1 DEF Subshell

LEMMA DryStackNext ==
  ASSUME TypeOK, StackInv, DryStack, [Next]_vars
  PROVE  DryStack'
<1>1. CASE UNCHANGED vars
  <2>1. /\ phase' = phase /\ stack' = stack /\ listed' = listed /\ command' = command
        /\ Top' = Top
    BY <1>1 DEF vars, tmp, fixed, Top
  <2> QED
    BY <2>1 DEF DryStack, dryrun
<1>2. CASE stack' = <<>>
  <2>1. Len(stack') = 0
    BY <1>2, EmptySeq
  <2> QED
    BY <1>2, <2>1 DEF DryStack
<1>3. CASE phase' # "run" \/ ~dryrun'
  BY <1>3 DEF DryStack
<1>4. CASE Start \/ NextLoop \/ Finish \/ Failed \/ Crash \/ TarError
                 \/ \E p \in Pkg : Remove(p) \/ MakeNothing(p) \/ VisitBuild(p) \/ Visited(p)
  <2>1. stack' = <<>>
    BY <1>4 DEF StackInv, Dry, Start, Begin, DepcheckError, NextLoop, Finish, Failed, Crash, TarError, Remove,
                MakeNothing, VisitBuild, Visited, MainAt
  <2> QED
    BY <1>2, <2>1
<1>5. CASE CallerError \/ ExitOne
  <2>1. phase' # "run"
    BY <1>5 DEF CallerError, ExitOne
  <2> QED
    BY <1>3, <2>1
<1>6. ASSUME NEW p \in Pkg, Make(p) PROVE DryStack'
  <2>1. command' = command
    BY <1>6 DEF Make, fixed
  <2> QED
    BY <1>3, <1>6, <2>1, DryMake DEF dryrun
<1>7. CASE Subshell
  <2>1. command' = command
    BY <1>7 DEF Subshell, SkipSeen, Descend, Include, CompatOk, CompatError, FetchOk, FetchFail,
         PatchOk, PatchError, BuildStart, BuildOk, BuildFail, Return, DryReturn, steps, fixed
  <2> QED
    BY <1>3, <1>7, <2>1, DryOnly, DrySkip, DryInclude, DryDescend, DryDone DEF dryrun
<1> QED
  BY <1>1, <1>4, <1>5, <1>6, <1>7 DEF Next, Main, Visit, Unwind

(* What is printed only grows at the end of a pretended subshell.          *)
LEMMA ListedNext ==
  ASSUME [Next]_vars
  PROVE  DryReturn \/ listed' = <<>> \/ (listed' = listed /\ command' = command)
<1>1. CASE UNCHANGED vars
  BY <1>1 DEF vars, tmp, fixed
<1>2. CASE Main
  BY <1>2 DEF Main, Start, Begin, DepcheckError, FreshTmp, NextLoop, Finish, cleanup, Remove, Make, MakeNothing, tmp,
              fixed
<1>3. CASE Visit \/ Unwind \/ Crash
  BY <1>3 DEF Visit, TarError, cleanup, VisitBuild, Visited, Unwind, CallerError, ExitOne,
              Failed, Crash, tmp, fixed
<1>4. CASE Subshell
  <2>1. CASE SkipSeen \/ Descend \/ Include \/ CompatOk \/ CompatError \/ Return
    BY <2>1 DEF SkipSeen, Descend, Include, CompatOk, CompatError, Return, Error, cleanup,
                steps, fixed
  <2>2. CASE FetchOk \/ FetchFail \/ PatchOk \/ PatchError \/ BuildStart \/ BuildOk \/ BuildFail
    BY <2>2 DEF FetchOk, FetchFail, PatchOk, PatchError, BuildStart, BuildOk, BuildFail, Error,
                cleanup, tmp, fixed
  <2> QED
    BY <1>4, <2>1, <2>2 DEF Subshell
<1> QED
  BY <1>1, <1>2, <1>3, <1>4 DEF Next

LEMMA OrderedNext ==
  ASSUME TypeOK, DryStack, DryrunOrdered, [Next]_vars
  PROVE  DryrunOrdered'
<1>1. CASE listed' = <<>>
  <2>1. DOMAIN listed' = {}
    BY <1>1
  <2> QED
    BY <2>1 DEF DryrunOrdered
<1>2. CASE listed' = listed /\ command' = command
  BY <1>2 DEF DryrunOrdered, dryrun
<1>3. CASE DryReturn
  <2> DEFINE m == Len(listed)
  <2>1. /\ stack # <<>> /\ phase = "run" /\ dryrun /\ Top.todo = <<>>
        /\ listed' = Append(listed, Top.pkg)
    BY <1>3 DEF DryReturn, DepsDone, At
  <2>2. Len(stack) \in Nat \ {0} /\ Top = stack[Len(stack)] /\ Top.pkg \in Pkg
    BY <2>1, TopFacts, TopTypes DEF TypeOK, Top
  <2>3. /\ m \in Nat /\ DOMAIN listed = 1 .. m /\ DOMAIN listed' = 1 .. m + 1
        /\ \A i \in 1 .. m : listed'[i] = listed[i]
        /\ listed'[m + 1] = Top.pkg
    BY <2>1, <2>2, AppendProperties, LenProperties DEF TypeOK
  <2>4. Range(listed) = {listed[j] : j \in 1 .. m}
    BY <2>3 DEF Range
  <2>5. Top.pkg \notin Range(listed) /\ Range(Deps[Top.pkg]) \subseteq Range(listed)
    <3>1. Pretended(Top, Range(listed))
      BY <2>1, <2>2 DEF DryStack
    <3> QED
      BY <2>1, <3>1, RangeEmpty DEF Pretended
  <2> HIDE DEF m
  <2>6. ASSUME NEW i \in 1 .. m
        PROVE  /\ \A j \in 1 .. i - 1 : listed'[j] # listed'[i]
               /\ Range(Deps[listed'[i]]) \subseteq {listed'[j] : j \in 1 .. i - 1}
    <3>1. \A j \in 1 .. i - 1 : j \in 1 .. m /\ listed'[j] = listed[j]
      BY <2>3
    <3>2. /\ \A j \in 1 .. i - 1 : listed[j] # listed[i]
          /\ Range(Deps[listed[i]]) \subseteq {listed[j] : j \in 1 .. i - 1}
      BY <2>1, <2>3 DEF DryrunOrdered
    <3>3. {listed'[j] : j \in 1 .. i - 1} = {listed[j] : j \in 1 .. i - 1}
      BY <3>1
    <3>4. listed'[i] = listed[i]
      BY <2>3
    <3> QED
      BY <3>1, <3>2, <3>3, <3>4
  <2>7. /\ \A j \in 1 .. m : listed'[j] # listed'[m + 1]
        /\ Range(Deps[listed'[m + 1]]) \subseteq {listed'[j] : j \in 1 .. m}
    <3>1. {listed'[j] : j \in 1 .. m} = {listed[j] : j \in 1 .. m}
      BY <2>3
    <3> QED
      BY <2>3, <2>4, <2>5, <3>1
  <2>8. (m + 1) - 1 = m /\ \A i \in 1 .. m + 1 : i \in 1 .. m \/ i = m + 1
    BY <2>3
  <2>9. \A i \in 1 .. m + 1 :
          /\ \A j \in 1 .. i - 1 : listed'[j] # listed'[i]
          /\ Range(Deps[listed'[i]]) \subseteq {listed'[j] : j \in 1 .. i - 1}
    <3> SUFFICES ASSUME NEW i \in 1 .. m + 1
                 PROVE  /\ \A j \in 1 .. i - 1 : listed'[j] # listed'[i]
                        /\ Range(Deps[listed'[i]]) \subseteq {listed'[j] : j \in 1 .. i - 1}
      OBVIOUS
    <3>1. CASE i \in 1 .. m
      BY <2>6, <3>1
    <3>2. CASE i = m + 1
      <4>1. i - 1 = m
        BY <2>8, <3>2
      <4> QED
        BY <2>7, <3>2, <4>1
    <3> QED
      BY <2>8, <3>1, <3>2
  <2> QED
    BY <2>3, <2>9 DEF DryrunOrdered
<1> QED
  BY <1>1, <1>2, <1>3, ListedNext

(* A dry run prints every package once, after everything it depends on     *)
(* (build.sh:374-385): the order in which a build would finish them.       *)
THEOREM DryrunCorrect == Spec => []DryrunOrdered
<1>1. Init => DryStack /\ DryrunOrdered
  <2>1. SUFFICES ASSUME Init PROVE DryStack /\ DryrunOrdered
    OBVIOUS
  <2>2. phase # "run" /\ listed = <<>>
    BY <2>1 DEF Init
  <2>3. DOMAIN listed = {}
    BY <2>2
  <2> QED
    BY <2>2, <2>3 DEF DryStack, DryrunOrdered
<1>2. TypeOK /\ StackInv /\ DryStack /\ DryrunOrdered /\ [Next]_vars
        => (DryStack /\ DryrunOrdered)'
  BY DryStackNext, OrderedNext
<1> QED
  BY <1>1, <1>2, StackAlways, PTL DEF Spec

--------------------------------------------------------------------------------
(* Runs that rebuild packages: build, all and abibreak.                    *)

Rebuilding == phase = "run" /\ command.verb \in {"build", "all", "abibreak"}

In(ops, p) == \E i \in 1 .. Len(script) : script[i].op \in ops /\ p \in script[i].pkgs
ToRemove(p) == In({"rm", "rmdeb"}, p)
ToMake(p) == In({"make"}, p)

(* Each loop that removes comes right before the one that makes what it    *)
(* removed; a package is removed once and made once; what is made before   *)
(* others are removed is deeper in the graph than these.                   *)
Shape(s) == \A i \in 1 .. Len(s) :
  /\ s[i].op \in {"rm", "rmdeb", "make"}
  /\ s[i].op # "make" => /\ i < Len(s) /\ s[i + 1].op = "make"
                         /\ s[i].pkgs \subseteq s[i + 1].pkgs
  /\ \A j \in i + 1 .. Len(s) :
       /\ (s[i].op = "make") = (s[j].op = "make") => s[i].pkgs \cap s[j].pkgs = {}
       /\ s[i].op = "make" /\ s[j].op # "make" =>
            \A a \in s[i].pkgs, b \in s[j].pkgs : Rank[a] < Rank[b]

ScriptOK == Rebuilding => Shape(script)

(* The outermost subshell builds a package of the loop that main is in.    *)
BottomOK == Rebuilding /\ stack # <<>> =>
  script # <<>> /\ script[1].op = "make" /\ stack[1].pkg \in script[1].pkgs

MadeFrom(p) == \A d \in Named \cap Range(Deps[p]) :
  /\ ~ToRemove(d) /\ gen[d] = before[d] + 1 /\ dir[d] = "full"
  /\ <<d, gen[d], "full">> \in from[p]

Busy(p) == At("building") /\ Top.pkg = p

(* A named package is untouched, removed, or made once, out of the new     *)
(* outputs of the others; only sdk's output is removed again.              *)
Fresh(p) ==
  \/ ToRemove(p) /\ gen[p] = before[p]
  \/ ~ToRemove(p) /\ ToMake(p) /\ ~Busy(p) /\ gen[p] = before[p] /\ dir[p] = "none"
  \/ /\ ~ToRemove(p) /\ gen[p] = before[p] + 1 /\ MadeFrom(p)
     /\ \/ ToMake(p) /\ Busy(p)
        \/ deb[p] = gen[p] /\ dir[p] = "full" /\ (ToMake(p) \/ pool[p] = gen[p])
        \/ p = SdkPkg /\ ~ToMake(p) /\ pool[p] = gen[p]

AllFresh == Rebuilding => \A p \in Named : Fresh(p)

--------------------------------------------------------------------------------
(* The script.                                                             *)

LEMMA ScriptDone ==
  ASSUME TypeOK, script # <<>>, NEW p, Done(p)
  PROVE  /\ Len(script) \in Nat \ {0} /\ Len(script') = Len(script)
         /\ \A i \in 1 .. Len(script) :
              /\ script'[i].op = script[i].op
              /\ script'[i].pkgs = IF i = 1 THEN script[i].pkgs \ {p} ELSE script[i].pkgs
<1>1. /\ Len(script) \in Nat \ {0} /\ 1 \in 1 .. Len(script) /\ Head(script) = script[1]
      /\ script[1] \in Op /\ script \in Seq(Op)
  BY EmptySeq, ElementOfSeq DEF TypeOK
<1>2. /\ Drop(p) \in Op /\ Drop(p).op = script[1].op
      /\ Drop(p).pkgs = script[1].pkgs \ {p}
  BY <1>1 DEF Drop, Op
<1>3. /\ Len(script') = Len(script) /\ script'[1] = Drop(p)
      /\ \A i \in 1 .. Len(script) : i # 1 => script'[i] = script[i]
  BY <1>1, <1>2, ExceptSeq DEF Done
<1> QED
  BY <1>1, <1>2, <1>3

LEMMA ScriptTail ==
  ASSUME TypeOK, NextLoop
  PROVE  /\ phase = "run" /\ stack = <<>> /\ script # <<>> /\ command' = command
         /\ Len(script) \in Nat \ {0} /\ Len(script') = Len(script) - 1
         /\ script[1].pkgs = {}
         /\ \A i \in 1 .. Len(script) - 1 : script'[i] = script[i + 1]
<1>1. /\ phase = "run" /\ stack = <<>> /\ script # <<>> /\ script' = Tail(script)
      /\ Head(script).pkgs = {} /\ command' = command
  BY DEF NextLoop, fixed
<1>2. script \in Seq(Op)
  BY DEF TypeOK
<1>3. Len(script) \in Nat \ {0} /\ Head(script) = script[1]
  BY <1>1, <1>2, EmptySeq
<1>4. /\ Len(script') = Len(script) - 1
      /\ \A i \in 1 .. Len(script) - 1 : script'[i] = script[i + 1]
  BY <1>1, <1>2, <1>3, HeadTailProperties
<1> QED
  BY <1>1, <1>3, <1>4

LEMMA InTail ==
  ASSUME TypeOK, NextLoop, NEW ops, NEW p
  PROVE  In(ops, p)' = In(ops, p)
<1> DEFINE n == Len(script)
<1>1. /\ n \in Nat \ {0} /\ Len(script') = n - 1 /\ script[1].pkgs = {}
      /\ \A i \in 1 .. n - 1 : script'[i] = script[i + 1]
  BY ScriptTail
<1> HIDE DEF n
<1>2. ASSUME NEW i \in 1 .. n, script[i].op \in ops, p \in script[i].pkgs
      PROVE  \E k \in 1 .. n - 1 : script'[k].op \in ops /\ p \in script'[k].pkgs
  <2>1. i # 1
    BY <1>1, <1>2
  <2>2. i - 1 \in 1 .. n - 1 /\ (i - 1) + 1 = i
    BY <1>1, <2>1
  <2>3. script'[i - 1] = script[i]
    BY <1>1, <2>2
  <2> QED
    BY <1>2, <2>2, <2>3
<1>3. ASSUME NEW k \in 1 .. n - 1, script'[k].op \in ops, p \in script'[k].pkgs
      PROVE  \E i \in 1 .. n : script[i].op \in ops /\ p \in script[i].pkgs
  <2>1. k + 1 \in 1 .. n
    BY <1>1
  <2> QED
    BY <1>1, <1>3, <2>1
<1> QED
  BY <1>1, <1>2, <1>3 DEF In, n

(* Done(p) takes p off the first loop, and nothing else.                   *)
LEMMA InDone ==
  ASSUME TypeOK, script # <<>>, NEW p, Done(p), NEW ops, NEW q
  PROVE  /\ In(ops, q)' => In(ops, q)
         /\ In(ops, q) /\ (q # p \/ script[1].op \notin ops) => In(ops, q)'
<1>1. /\ Len(script') = Len(script)
      /\ \A i \in 1 .. Len(script) :
           /\ script'[i].op = script[i].op
           /\ script'[i].pkgs = IF i = 1 THEN script[i].pkgs \ {p} ELSE script[i].pkgs
  BY ScriptDone
<1> QED
  BY <1>1 DEF In

LEMMA KeepIn ==
  ASSUME TypeOK, script # <<>>, NEW p, Done(p), NEW ops, NEW q,
         q # p \/ script[1].op \notin ops
  PROVE  In(ops, q)' = In(ops, q)
<1>1. /\ Len(script') = Len(script)
      /\ \A i \in 1 .. Len(script) :
           /\ script'[i].op = script[i].op
           /\ script'[i].pkgs = IF i = 1 THEN script[i].pkgs \ {p} ELSE script[i].pkgs
  BY ScriptDone
<1> QED
  BY <1>1 DEF In

LEMMA InSame ==
  ASSUME script' = script, NEW ops, NEW q
  PROVE  In(ops, q)' = In(ops, q)
BY DEF In

LEMMA PairConcat ==
  ASSUME NEW a, NEW b, NEW c, NEW d
  PROVE  << a, b >> \o << c, d >> = << a, b, c, d >>
<1> DEFINE S == {a, b, c, d}
           s == << a, b >>
           t == << c, d >>
           u == << a, b, c, d >>
<1>1. /\ s \in Seq(S) /\ Len(s) = 2 /\ s[1] = a /\ s[2] = b
      /\ t \in Seq(S) /\ Len(t) = 2 /\ t[1] = c /\ t[2] = d
  OBVIOUS
<1>2. u \in Seq(S) /\ Len(u) = 4 /\ u[1] = a /\ u[2] = b /\ u[3] = c /\ u[4] = d
  OBVIOUS
<1> HIDE DEF s, t, u, S
<1>3. /\ s \o t \in Seq(S) /\ Len(s \o t) = 4
      /\ \A i \in 1 .. 4 : (s \o t)[i] = IF i <= 2 THEN s[i] ELSE t[i - 2]
  <2>1. /\ s \o t \in Seq(S) /\ Len(s \o t) = Len(s) + Len(t)
        /\ \A i \in 1 .. Len(s) + Len(t) :
             (s \o t)[i] = IF i <= Len(s) THEN s[i] ELSE t[i - Len(s)]
    BY <1>1, ConcatProperties
  <2>2. Len(s) + Len(t) = 4 /\ Len(s) = 2
    BY <1>1
  <2> QED
    BY <2>1, <2>2
<1>4. (s \o t)[1] = a /\ (s \o t)[2] = b /\ (s \o t)[3] = c /\ (s \o t)[4] = d
  <2>1. (s \o t)[1] = s[1] /\ (s \o t)[2] = s[2]
    BY <1>3
  <2>2. (s \o t)[3] = t[3 - 2] /\ (s \o t)[4] = t[4 - 2]
    BY <1>3
  <2>3. 3 - 2 = 1 /\ 4 - 2 = 2
    OBVIOUS
  <2> QED
    BY <1>1, <2>1, <2>2, <2>3
<1>5. \A i \in 1 .. 4 : (s \o t)[i] = u[i]
  <2>1. \A i \in 1 .. 4 : i = 1 \/ i = 2 \/ i = 3 \/ i = 4
    OBVIOUS
  <2> QED
    BY <1>2, <1>4, <2>1
<1>6. s \o t = u
  BY <1>2, <1>3, <1>5, SeqEqual
<1> QED
  BY <1>6 DEF s, t, u

(* The scripts of these commands.                                          *)
LEMMA ScriptStart ==
  ASSUME Start, Rebuilding'
  PROVE  \/ \E A \in SUBSET Pkg, rm \in {"rm", "rmdeb"} :
              /\ script' = << [op |-> rm, pkgs |-> A], [op |-> "make", pkgs |-> A] >>
              /\ Named' = A
         \/ \E x \in Pkg, U \in SUBSET Pkg :
              /\ script' = << [op |-> "rm", pkgs |-> {x}], [op |-> "make", pkgs |-> {x}],
                              [op |-> "rmdeb", pkgs |-> U], [op |-> "make", pkgs |-> U] >>
              /\ Named' = {x} \cup U
              /\ \A u \in U : u # x /\ Rank[x] < Rank[u]
<1>1. /\ command' \in Commands /\ command' \in Command /\ script' = Script(command')
      /\ command'.verb \in {"build", "all", "abibreak"}
  BY CommandsAssumption DEF Start, Begin, DepcheckError, Rebuilding
<1>2. command'.args \in SUBSET Pkg
  BY <1>1 DEF Command
<1>3. CASE command'.verb = "build"
  <2>1. /\ script' = << [op |-> "rmdeb", pkgs |-> command'.args],
                        [op |-> "make", pkgs |-> command'.args] >>
        /\ Named' = command'.args
    BY <1>1, <1>3 DEF Script, Rebuild, Named
  <2> QED
    BY <1>2, <2>1
<1>4. CASE command'.verb = "all"
  <2> DEFINE A == AllPkgs(command'.args)
  <2>1. script' = << [op |-> "rm", pkgs |-> A], [op |-> "make", pkgs |-> A] >> /\ Named' = A
    BY <1>1, <1>4 DEF Script, Rebuild, Named
  <2>2. A \in SUBSET Pkg
    BY DEF AllPkgs
  <2> HIDE DEF A
  <2> QED
    BY <2>1, <2>2
<1>5. CASE command'.verb = "abibreak"
  <2>1. PICK x \in Pkg : command'.args = {x}
    BY <1>1, <1>5, CommandsAssumption
  <2> DEFINE U == UNION {Dependents(y) : y \in command'.args}
  <2>2. U = Dependents(x)
    BY <2>1
  <2>3. Script(command') = Rebuild("rm", command'.args) \o Rebuild("rmdeb", U)
    BY <1>1, <1>5 DEF Script
  <2>4. Named' = command'.args \cup U
    BY <1>5 DEF Named
  <2>5. U \in SUBSET Pkg /\ \A u \in U : u # x /\ Rank[x] < Rank[u]
    BY <2>1, <2>2, RankFacts DEF Dependents
  <2> HIDE DEF U
  <2>6. script' = << [op |-> "rm", pkgs |-> {x}], [op |-> "make", pkgs |-> {x}],
                     [op |-> "rmdeb", pkgs |-> U], [op |-> "make", pkgs |-> U] >>
    <3>1. script' = << [op |-> "rm", pkgs |-> {x}], [op |-> "make", pkgs |-> {x}] >>
                      \o << [op |-> "rmdeb", pkgs |-> U], [op |-> "make", pkgs |-> U] >>
      BY <1>1, <2>1, <2>3 DEF Rebuild
    <3> QED
      BY <3>1, PairConcat
  <2> QED
    BY <2>1, <2>4, <2>5, <2>6
<1> QED
  BY <1>1, <1>3, <1>4, <1>5

LEMMA ShapeTwo ==
  ASSUME NEW A \in SUBSET Pkg, NEW rm \in {"rm", "rmdeb"}
  PROVE  Shape(<< [op |-> rm, pkgs |-> A], [op |-> "make", pkgs |-> A] >>)
<1> DEFINE s == << [op |-> rm, pkgs |-> A], [op |-> "make", pkgs |-> A] >>
<1>1. /\ Len(s) = 2 /\ s[1].op = rm /\ s[1].pkgs = A /\ s[2].op = "make" /\ s[2].pkgs = A
  OBVIOUS
<1>2. \A i \in 1 .. 2 : (i = 1 \/ i = 2) /\ \A j \in i + 1 .. 2 : i = 1 /\ j = 2
  OBVIOUS
<1> HIDE DEF s
<1>3. Shape(s)
  <2> SUFFICES ASSUME NEW i \in 1 .. 2
               PROVE  /\ s[i].op \in {"rm", "rmdeb", "make"}
                      /\ s[i].op # "make" => /\ i < 2 /\ s[i + 1].op = "make"
                                             /\ s[i].pkgs \subseteq s[i + 1].pkgs
                      /\ \A j \in i + 1 .. 2 :
                           /\ (s[i].op = "make") = (s[j].op = "make") => s[i].pkgs \cap s[j].pkgs = {}
                           /\ s[i].op = "make" /\ s[j].op # "make" =>
                                \A a \in s[i].pkgs, b \in s[j].pkgs : Rank[a] < Rank[b]
    BY <1>1 DEF Shape
  <2>1. CASE i = 1
    BY <1>1, <1>2, <2>1
  <2>2. CASE i = 2
    BY <1>1, <1>2, <2>2
  <2> QED
    BY <1>2, <2>1, <2>2
<1> QED
  BY <1>3 DEF s

LEMMA ShapeFour ==
  ASSUME NEW x \in Pkg, NEW U \in SUBSET Pkg, \A u \in U : u # x /\ Rank[x] < Rank[u]
  PROVE  Shape(<< [op |-> "rm", pkgs |-> {x}], [op |-> "make", pkgs |-> {x}],
                  [op |-> "rmdeb", pkgs |-> U], [op |-> "make", pkgs |-> U] >>)
<1> DEFINE s == << [op |-> "rm", pkgs |-> {x}], [op |-> "make", pkgs |-> {x}],
                   [op |-> "rmdeb", pkgs |-> U], [op |-> "make", pkgs |-> U] >>
<1>1. /\ Len(s) = 4 /\ s[1].op = "rm" /\ s[1].pkgs = {x} /\ s[2].op = "make" /\ s[2].pkgs = {x}
      /\ s[3].op = "rmdeb" /\ s[3].pkgs = U /\ s[4].op = "make" /\ s[4].pkgs = U
  OBVIOUS
<1>2. /\ {x} \cap U = {}
      /\ \A a \in {x}, b \in U : Rank[a] < Rank[b]
  OBVIOUS
<1> HIDE DEF s
<1>3. Shape(s)
  <2> DEFINE Good(i) ==
        /\ s[i].op \in {"rm", "rmdeb", "make"}
        /\ s[i].op # "make" => /\ i < 4 /\ s[i + 1].op = "make"
                               /\ s[i].pkgs \subseteq s[i + 1].pkgs
        /\ \A j \in i + 1 .. 4 :
             /\ (s[i].op = "make") = (s[j].op = "make") => s[i].pkgs \cap s[j].pkgs = {}
             /\ s[i].op = "make" /\ s[j].op # "make" =>
                  \A a \in s[i].pkgs, b \in s[j].pkgs : Rank[a] < Rank[b]
  <2>1. Good(1)
    <3>1. \A j \in 2 .. 4 : j = 2 \/ j = 3 \/ j = 4
      OBVIOUS
    <3>2. 1 + 1 = 2
      OBVIOUS
    <3> QED
      BY <1>1, <1>2, <3>1, <3>2
  <2>2. Good(2)
    <3>1. \A j \in 3 .. 4 : j = 3 \/ j = 4
      OBVIOUS
    <3>2. 2 + 1 = 3
      OBVIOUS
    <3> QED
      BY <1>1, <1>2, <3>1, <3>2
  <2>3. Good(3)
    <3>1. \A j \in 4 .. 4 : j = 4
      OBVIOUS
    <3>2. 3 + 1 = 4
      OBVIOUS
    <3> QED
      BY <1>1, <1>2, <3>1, <3>2
  <2>4. Good(4)
    <3>1. 4 + 1 .. 4 = {}
      OBVIOUS
    <3> QED
      BY <1>1, <3>1
  <2> HIDE DEF Good
  <2>5. \A i \in 1 .. 4 : i = 1 \/ i = 2 \/ i = 3 \/ i = 4
    OBVIOUS
  <2>6. \A i \in 1 .. 4 : Good(i)
    BY <2>1, <2>2, <2>3, <2>4, <2>5
  <2> QED
    BY <1>1, <2>6 DEF Shape, Good
<1> QED
  BY <1>3 DEF s

LEMMA ShapeTail ==
  ASSUME TypeOK, NextLoop, Shape(script)
  PROVE  Shape(script')
<1> DEFINE n == Len(script)
<1>1. /\ n \in Nat \ {0} /\ Len(script') = n - 1
      /\ \A i \in 1 .. n - 1 : script'[i] = script[i + 1]
  BY ScriptTail
<1> HIDE DEF n
<1>2. ASSUME NEW i \in 1 .. n - 1
      PROVE  /\ script'[i].op \in {"rm", "rmdeb", "make"}
             /\ script'[i].op # "make" => /\ i < n - 1 /\ script'[i + 1].op = "make"
                                          /\ script'[i].pkgs \subseteq script'[i + 1].pkgs
  <2>1. i + 1 \in 1 .. n /\ script'[i] = script[i + 1]
    BY <1>1
  <2>2. /\ script[i + 1].op \in {"rm", "rmdeb", "make"}
        /\ script[i + 1].op # "make" =>
             /\ i + 1 < n /\ script[(i + 1) + 1].op = "make"
             /\ script[i + 1].pkgs \subseteq script[(i + 1) + 1].pkgs
    BY <2>1 DEF Shape, n
  <2>3. i + 1 < n => i < n - 1 /\ i + 1 \in 1 .. n - 1 /\ script'[i + 1] = script[(i + 1) + 1]
    BY <1>1
  <2> QED
    BY <2>1, <2>2, <2>3
<1>3. ASSUME NEW i \in 1 .. n - 1, NEW j \in i + 1 .. n - 1
      PROVE  /\ (script'[i].op = "make") = (script'[j].op = "make") =>
                  script'[i].pkgs \cap script'[j].pkgs = {}
             /\ script'[i].op = "make" /\ script'[j].op # "make" =>
                  \A a \in script'[i].pkgs, b \in script'[j].pkgs : Rank[a] < Rank[b]
  <2>1. /\ i + 1 \in 1 .. n /\ j + 1 \in (i + 1) + 1 .. n /\ j \in 1 .. n - 1
    BY <1>1
  <2>2. script'[i] = script[i + 1] /\ script'[j] = script[j + 1]
    BY <1>1, <2>1
  <2>3. /\ (script[i + 1].op = "make") = (script[j + 1].op = "make") =>
             script[i + 1].pkgs \cap script[j + 1].pkgs = {}
        /\ script[i + 1].op = "make" /\ script[j + 1].op # "make" =>
             \A a \in script[i + 1].pkgs, b \in script[j + 1].pkgs : Rank[a] < Rank[b]
    BY <2>1 DEF Shape, n
  <2> QED
    BY <2>2, <2>3
<1> QED
  BY <1>1, <1>2, <1>3 DEF Shape

LEMMA ShapeDone ==
  ASSUME TypeOK, script # <<>>, NEW p, Done(p), Shape(script)
  PROVE  Shape(script')
<1>1. /\ Len(script') = Len(script) /\ Len(script) \in Nat
      /\ \A i \in 1 .. Len(script) :
           /\ script'[i].op = script[i].op
           /\ script'[i].pkgs = IF i = 1 THEN script[i].pkgs \ {p} ELSE script[i].pkgs
  BY ScriptDone
<1> DEFINE n == Len(script)
<1> HIDE DEF n
<1>2. \A i \in 1 .. n : script'[i].pkgs \subseteq script[i].pkgs /\ script'[i].op = script[i].op
  BY <1>1 DEF n
<1>3. ASSUME NEW i \in 1 .. n
      PROVE  /\ script'[i].op \in {"rm", "rmdeb", "make"}
             /\ script'[i].op # "make" => /\ i < n /\ script'[i + 1].op = "make"
                                          /\ script'[i].pkgs \subseteq script'[i + 1].pkgs
  <2>1. /\ script[i].op \in {"rm", "rmdeb", "make"}
        /\ script[i].op # "make" => /\ i < n /\ script[i + 1].op = "make"
                                    /\ script[i].pkgs \subseteq script[i + 1].pkgs
    BY DEF Shape, n
  <2>2. i < n => /\ i + 1 \in 1 .. n /\ i + 1 # 1
    BY <1>1 DEF n
  <2>3. i < n => script'[i + 1].op = script[i + 1].op /\ script'[i + 1].pkgs = script[i + 1].pkgs
    BY <1>1, <2>2 DEF n
  <2> QED
    BY <1>2, <2>1, <2>3
<1>4. ASSUME NEW i \in 1 .. n, NEW j \in i + 1 .. n
      PROVE  /\ (script'[i].op = "make") = (script'[j].op = "make") =>
                  script'[i].pkgs \cap script'[j].pkgs = {}
             /\ script'[i].op = "make" /\ script'[j].op # "make" =>
                  \A a \in script'[i].pkgs, b \in script'[j].pkgs : Rank[a] < Rank[b]
  <2>1. j \in 1 .. n
    BY <1>1 DEF n
  <2>2. /\ (script[i].op = "make") = (script[j].op = "make") =>
             script[i].pkgs \cap script[j].pkgs = {}
        /\ script[i].op = "make" /\ script[j].op # "make" =>
             \A a \in script[i].pkgs, b \in script[j].pkgs : Rank[a] < Rank[b]
    BY DEF Shape, n
  <2> QED
    BY <1>2, <2>1, <2>2
<1> QED
  BY <1>1, <1>3, <1>4 DEF Shape, n

(* Main is at no call of sysroot() and at no tarball then.                 *)
LEMMA HeadOp ==
  ASSUME TypeOK, ScriptOK, Rebuilding, script # <<>>
  PROVE  /\ 1 \in 1 .. Len(script) /\ Head(script) = script[1] /\ script[1] \in Op
         /\ script[1].op \in {"rm", "rmdeb", "make"}
<1>1. 1 \in 1 .. Len(script) /\ Head(script) = script[1] /\ script[1] \in Op
  BY EmptySeq, ElementOfSeq DEF TypeOK
<1> QED
  BY <1>1 DEF ScriptOK, Shape

LEMMA ScriptNext ==
  ASSUME TypeOK, ScriptOK, [Next]_vars
  PROVE  ScriptOK'
<1> SUFFICES ASSUME Rebuilding' PROVE Shape(script')
  BY DEF ScriptOK
<1>1. phase' = "run"
  BY DEF Rebuilding
<1>2. CASE Start
  <2>1. CASE \E A \in SUBSET Pkg, rm \in {"rm", "rmdeb"} :
               script' = << [op |-> rm, pkgs |-> A], [op |-> "make", pkgs |-> A] >>
    BY <2>1, ShapeTwo
  <2>2. CASE \E x \in Pkg, U \in SUBSET Pkg :
               /\ script' = << [op |-> "rm", pkgs |-> {x}], [op |-> "make", pkgs |-> {x}],
                               [op |-> "rmdeb", pkgs |-> U], [op |-> "make", pkgs |-> U] >>
               /\ \A u \in U : u # x /\ Rank[x] < Rank[u]
    BY <2>2, ShapeFour
  <2>3. (\E A \in SUBSET Pkg, rm \in {"rm", "rmdeb"} :
           script' = << [op |-> rm, pkgs |-> A], [op |-> "make", pkgs |-> A] >>)
        \/ (\E x \in Pkg, U \in SUBSET Pkg :
              /\ script' = << [op |-> "rm", pkgs |-> {x}], [op |-> "make", pkgs |-> {x}],
                              [op |-> "rmdeb", pkgs |-> U], [op |-> "make", pkgs |-> U] >>
              /\ \A u \in U : u # x /\ Rank[x] < Rank[u])
    BY <1>2, ScriptStart, Zenon
  <2> QED
    BY <2>1, <2>2, <2>3
<1>3. CASE NextLoop
  <2>1. Rebuilding
    BY <1>3, ScriptTail DEF Rebuilding
  <2> QED
    BY <1>3, <2>1, ShapeTail DEF ScriptOK
<1>4. ASSUME NEW p \in Pkg, VisitBuild(p) PROVE FALSE
  <2>1. Rebuilding /\ script # <<>> /\ Head(script).op = "visit"
    BY <1>4 DEF VisitBuild, MainAt, Rebuilding, fixed
  <2> QED
    BY <2>1, HeadOp
<1>5. CASE phase = "run" /\ command' = command /\ (script' = script \/ \E p : Done(p))
  <2>1. Rebuilding /\ Shape(script)
    BY <1>5 DEF Rebuilding, ScriptOK
  <2>2. CASE script = <<>>
    <3>1. Len(script') = 0
      BY <1>5, <2>2, DoneOps, EmptySeq
    <3> QED
      BY <3>1 DEF Shape
  <2>3. CASE script' = script
    BY <2>1, <2>3 DEF Shape
  <2>4. CASE script # <<>> /\ \E p : Done(p)
    BY <2>1, <2>4, ShapeDone
  <2> QED
    BY <1>5, <2>2, <2>3, <2>4
<1> QED
  BY <1>1, <1>2, <1>3, <1>4, <1>5, ScriptStays

(* The bottom of the stack stays as long as there is one.                  *)
LEMMA BottomStays ==
  ASSUME TypeOK, Subshell, phase' = "run"
  PROVE  \/ stack' = <<>>
         \/ /\ script' = script /\ command' = command /\ phase = "run"
            /\ stack # <<>> /\ stack'[1].pkg = stack[1].pkg
<1> SUFFICES ASSUME stack' # <<>>
             PROVE  /\ script' = script /\ command' = command /\ phase = "run"
                    /\ stack # <<>> /\ stack'[1].pkg = stack[1].pkg
  OBVIOUS
<1>1. CASE \/ SkipSeen \/ Include \/ CompatOk \/ FetchOk \/ PatchOk \/ BuildStart \/ BuildOk
  <2>1. /\ script' = script /\ command' = command /\ phase = "run" /\ stack # <<>>
    BY <1>1 DEF SkipSeen, Include, CompatOk, FetchOk, PatchOk, BuildStart, BuildOk, DepsDone,
                At, steps, fixed
  <2>2. /\ Len(stack) \in Nat \ {0} /\ stack \in Seq(Frame) /\ Top = stack[Len(stack)]
        /\ Top \in Frame /\ DOMAIN stack = 1 .. Len(stack) /\ 1 \in 1 .. Len(stack)
    BY <2>1, TopFacts, LenProperties DEF TypeOK, Top
  <2>3. \E f : SetTop(f) /\ f.pkg = Top.pkg
    <3>1. CASE SkipSeen
      <4>1. [Top EXCEPT !.todo = Tail(@)].pkg = Top.pkg
        BY <2>2 DEF Frame
      <4> QED
        BY <3>1, <4>1 DEF SkipSeen
    <3>2. CASE Include
      <4> DEFINE f == [Top EXCEPT
                         !.pc = "deps",
                         !.todo = (IF recursivedeps THEN Deps[Head(Top.todo)] ELSE <<>>) \o Tail(@),
                         !.seen = @ \cup {Head(Top.todo)}]
      <4>1. SetTop(f)
        BY <3>2 DEF Include
      <4>2. f.pkg = Top.pkg
        BY <2>2 DEF Frame
      <4> HIDE DEF f
      <4> QED
        BY <4>1, <4>2
    <3>3. CASE CompatOk \/ FetchOk \/ PatchOk \/ BuildStart \/ BuildOk
      <4>1. PICK pc : Goto(pc)
        BY <3>3, Zenon DEF CompatOk, FetchOk, PatchOk, BuildStart, BuildOk
      <4>2. [Top EXCEPT !.pc = pc].pkg = Top.pkg
        BY <2>2 DEF Frame
      <4> QED
        BY <4>1, <4>2 DEF Goto
    <3> QED
      BY <1>1, <3>1, <3>2, <3>3
  <2>4. PICK f : stack' = [stack EXCEPT ![Len(stack)] = f] /\ f.pkg = Top.pkg
    BY <2>3 DEF SetTop
  <2>5. stack'[1].pkg = stack[1].pkg
    <3>1. CASE Len(stack) = 1
      BY <2>2, <2>4, <3>1
    <3>2. CASE Len(stack) # 1
      BY <2>2, <2>4, <3>2
    <3> QED
      BY <3>1, <3>2
  <2> QED
    BY <2>1, <2>5
<1>2. CASE Descend
  <2> DEFINE d == Head(Top.todo)
             caller == [stack EXCEPT ![Len(stack)].pc = "include"]
  <2>1. /\ \E left : Enter(d, caller, left)
        /\ stack # <<>> /\ Top.pc = "deps" /\ Top.todo # <<>>
        /\ script' = script /\ command' = command /\ phase = "run"
    BY <1>2, Zenon DEF Descend, At, fixed
  <2>2. Len(stack) \in Nat \ {0} /\ Top \in Frame /\ d \in Pkg /\ Top = stack[Len(stack)]
    BY <2>1, TopFacts, TopTypes, RangeFacts DEF TypeOK, Top
  <2>3. /\ caller \in Seq(Frame) /\ Len(caller) = Len(stack)
        /\ caller[1].pkg = stack[1].pkg
    <3> DEFINE f == [Top EXCEPT !.pc = "include"]
    <3>1. caller = [stack EXCEPT ![Len(stack)] = f] /\ stack \in Seq(Frame)
      BY DEF Top, TypeOK
    <3>2. f \in Frame /\ f.pkg = Top.pkg /\ Len(stack) \in 1 .. Len(stack) /\ 1 \in 1 .. Len(stack)
      BY <2>1, <2>2, SMTT(30) DEF Frame, PCs
    <3> HIDE DEF f, caller
    <3>3. /\ caller \in Seq(Frame) /\ Len(caller) = Len(stack) /\ caller[Len(stack)] = f
          /\ \A i \in 1 .. Len(stack) : i # Len(stack) => caller[i] = stack[i]
      BY <3>1, <3>2, ExceptSeq
    <3> QED
      BY <2>2, <3>2, <3>3
  <2> HIDE DEF caller, d
  <2>4. stack'[1] = caller[1]
    BY <2>1, <2>2, <2>3, EnterFacts
  <2> QED
    BY <2>1, <2>3, <2>4
<1>3. CASE Return \/ DryReturn
  <2>1. phase = "run" /\ stack # <<>> /\ stack' = Below /\ command' = command
    BY <1>3 DEF Return, DryReturn, DepsDone, At, fixed
  <2>2. script' = script
    BY <1>3, <2>1 DEF Return, DryReturn
  <2>3. Len(stack) \in Nat \ {0} /\ Len(Below) = Len(stack) - 1 /\ Below \in Seq(Frame)
        /\ \A i \in 1 .. Len(stack) - 1 : Below[i] = stack[i]
    BY <2>1, TopFacts, BelowFacts DEF TypeOK
  <2>4. Len(stack) - 1 # 0
    BY <2>1, <2>3, EmptySeq
  <2> QED
    BY <2>1, <2>2, <2>3, <2>4
<1>4. CASE CompatError \/ FetchFail \/ PatchError \/ BuildFail
  BY <1>4 DEF CompatError, FetchFail, PatchError, BuildFail, Error, ReturnTwo
<1> QED
  BY <1>1, <1>2, <1>3, <1>4 DEF Subshell

LEMMA BottomNext ==
  ASSUME TypeOK, StackInv, ScriptOK, BottomOK, [Next]_vars
  PROVE  BottomOK'
<1> SUFFICES ASSUME Rebuilding', stack' # <<>>
             PROVE  script' # <<>> /\ script'[1].op = "make" /\ stack'[1].pkg \in script'[1].pkgs
  BY DEF BottomOK
<1>1. phase' = "run"
  BY DEF Rebuilding
<1>2. CASE UNCHANGED vars
  BY <1>2 DEF vars, fixed, BottomOK, Rebuilding
<1>3. CASE Start \/ Finish \/ Failed \/ Crash \/ TarError \/ NextLoop
            \/ \E p \in Pkg : Remove(p) \/ MakeNothing(p) \/ VisitBuild(p) \/ Visited(p)
  <2>1. stack' = <<>>
    BY <1>3 DEF StackInv, Dry, Start, Begin, DepcheckError, NextLoop, Finish, Failed, Crash, TarError, Remove,
                MakeNothing, VisitBuild, Visited, MainAt
  <2> QED
    BY <2>1
<1>4. CASE CallerError \/ ExitOne
  BY <1>1, <1>4 DEF CallerError, ExitOne
<1>5. ASSUME NEW p \in Pkg, Make(p)
      PROVE  script' # <<>> /\ script'[1].op = "make" /\ stack'[1].pkg \in script'[1].pkgs
  <2>1. /\ phase = "run" /\ stack = <<>> /\ script # <<>> /\ Head(script).op \in {"make", "build"}
        /\ p \in Head(script).pkgs /\ script' = script /\ command' = command
        /\ Enter(p, stack, staged)
    BY <1>5 DEF Make, MainAt, fixed
  <2>2. Rebuilding
    BY <2>1 DEF Rebuilding
  <2>3. script[1].op = "make" /\ p \in script[1].pkgs
    BY <2>1, <2>2, HeadOp
  <2>4. stack \in Seq(Frame) /\ Len(stack) = 0
    BY <2>1, EmptySeq DEF TypeOK
  <2>5. stack'[1] = NewFrame(p)
    <3>1. Len(stack') = Len(stack) + 1 /\ Top' = NewFrame(p)
      BY <2>1, <2>4, EnterFacts
    <3>2. Len(stack') = 1
      BY <2>4, <3>1
    <3> QED
      BY <3>1, <3>2 DEF Top
  <2>6. stack'[1].pkg = p
    BY <2>5 DEF NewFrame
  <2> QED
    BY <2>1, <2>3, <2>6
<1>6. CASE Subshell
  <2>1. /\ script' = script /\ command' = command /\ phase = "run"
        /\ stack # <<>> /\ stack'[1].pkg = stack[1].pkg
    BY <1>1, <1>6, BottomStays
  <2> QED
    BY <2>1 DEF BottomOK, Rebuilding
<1> QED
  BY <1>2, <1>3, <1>4, <1>5, <1>6 DEF Next, Main, Visit, Unwind

--------------------------------------------------------------------------------
(* Named packages.                                                         *)

LEMMA NamedType == ASSUME TypeOK PROVE Named \in SUBSET Pkg
<1>1. command.args \in SUBSET Pkg
  BY DEF TypeOK, Command
<1>2. AllPkgs(command.args) \in SUBSET Pkg /\ \A x : Dependents(x) \in SUBSET Pkg
  BY DEF AllPkgs, Dependents
<1> QED
  BY <1>1, <1>2 DEF Named

(* Whatever is being built is deeper in the graph than what has yet to be  *)
(* removed.                                                                *)
LEMMA Low ==
  ASSUME TypeOK, StackInv, ScriptOK, BottomOK, Rebuilding, stack # <<>>,
         NEW p \in Pkg, ToRemove(p), NEW i \in 1 .. Len(stack)
  PROVE  Rank[stack[i].pkg] < Rank[p]
<1>1. /\ script # <<>> /\ script[1].op = "make" /\ stack[1].pkg \in script[1].pkgs
      /\ Shape(script)
  BY DEF BottomOK, ScriptOK
<1>2. PICK k \in 1 .. Len(script) : script[k].op \in {"rm", "rmdeb"} /\ p \in script[k].pkgs
  BY DEF ToRemove, In
<1>3. Len(script) \in Nat \ {0} /\ Len(stack) \in Nat \ {0}
  BY <1>1, EmptySeq DEF TypeOK
<1>4. k # 1
  BY <1>1, <1>2
<1>5. 1 \in 1 .. Len(script) /\ k \in 1 + 1 .. Len(script) /\ script[k].op # "make"
  BY <1>2, <1>3, <1>4
<1>6. Rank[stack[1].pkg] < Rank[p]
  BY <1>1, <1>2, <1>5 DEF Shape
<1>7. CASE i = 1
  BY <1>6, <1>7
<1>8. CASE i # 1
  <2>1. 1 \in 1 .. Len(stack) /\ 1 < i
    BY <1>3, <1>8
  <2>2. Building
    BY DEF Rebuilding, Building, dryrun
  <2>3. Rank[stack[i].pkg] < Rank[stack[1].pkg]
    BY <2>1, <2>2 DEF StackInv, Nested
  <2>4. stack[i] \in Frame /\ stack[1] \in Frame
    BY <2>1, ElementOfSeq DEF TypeOK
  <2>5. Rank[stack[i].pkg] \in Int /\ Rank[stack[1].pkg] \in Int /\ Rank[p] \in Int
    BY <2>4, RankFacts DEF Frame
  <2> QED
    BY <1>6, <2>3, <2>5
<1> QED
  BY <1>7, <1>8

LEMMA WorkFree ==
  ASSUME TypeOK, StackInv, ScriptOK, BottomOK, Rebuilding, stack # <<>>
  PROVE  /\ Top.pkg \in Pkg /\ ~ToRemove(Top.pkg)
         /\ \A d \in Range(Deps[Top.pkg]) : ~ToRemove(d)
<1>1. Len(stack) \in 1 .. Len(stack) /\ stack[Len(stack)] = Top /\ Top.pkg \in Pkg
  <2>1. Len(stack) \in Nat \ {0} /\ Top \in Frame
    BY TopFacts DEF TypeOK
  <2> QED
    BY <2>1 DEF Top, Frame
<1>2. \A p \in Pkg : ToRemove(p) => Rank[Top.pkg] < Rank[p]
  BY <1>1, Low
<1>3. \A d \in Range(Deps[Top.pkg]) : d \in Pkg /\ Rank[d] < Rank[Top.pkg]
  BY <1>1, DepsFacts, RankFacts
<1>4. \A p \in Pkg : Rank[p] \in Int
  BY RankFacts
<1>5. ~ToRemove(Top.pkg)
  BY <1>1, <1>2, <1>4
<1>6. ASSUME NEW d \in Range(Deps[Top.pkg]) PROVE ~ToRemove(d)
  <2>1. d \in Pkg /\ Rank[d] < Rank[Top.pkg] /\ Rank[d] \in Int /\ Rank[Top.pkg] \in Int
    BY <1>1, <1>3, <1>4
  <2>2. ~(Rank[Top.pkg] < Rank[d])
    BY <2>1
  <2> QED
    BY <1>2, <2>1, <2>2
<1> QED
  BY <1>1, <1>5, <1>6

(* The outermost subshell's package is on the list of main's loop.         *)
LEMMA BottomMade ==
  ASSUME TypeOK, BottomOK, Rebuilding, stack # <<>>
  PROVE  /\ script # <<>> /\ Head(script) = script[1] /\ script[1].op = "make"
         /\ stack[1].pkg \in script[1].pkgs /\ ToMake(stack[1].pkg)
<1>1. script # <<>> /\ script[1].op = "make" /\ stack[1].pkg \in script[1].pkgs
  BY DEF BottomOK
<1>2. 1 \in 1 .. Len(script) /\ Head(script) = script[1]
  BY <1>1, EmptySeq DEF TypeOK
<1> QED
  BY <1>1, <1>2 DEF ToMake, In

(* sdk is nobody's dependency: only main builds it.                        *)
LEMMA SdkAlone ==
  ASSUME TypeOK, StackInv, Building, stack # <<>>, Top.pkg = SdkPkg
  PROVE  Len(stack) = 1 /\ stack[1] = Top /\ Below = <<>>
<1>1. Len(stack) \in Nat \ {0} /\ stack[Len(stack)] = Top
  BY TopFacts DEF TypeOK, Top
<1>2. ASSUME Len(stack) # 1 PROVE FALSE
  <2> DEFINE k == Len(stack) - 1
  <2>1. k \in 1 .. Len(stack) - 1 /\ k \in 1 .. Len(stack) /\ k + 1 = Len(stack)
    BY <1>1, <1>2
  <2>2. stack[k].pc = "include" /\ Head(stack[k].todo) = Top.pkg
    BY <1>1, <2>1 DEF StackInv, Nested
  <2>3. FrameOK(stack[k], dir, recursivedeps) /\ stack[k] \in Frame
    BY <2>1, ElementOfSeq DEF StackInv, FramesOK, TypeOK
  <2> HIDE DEF k
  <2>4. stack[k].todo \in Seq(Pkg) /\ stack[k].todo # <<>>
    BY <2>2, <2>3 DEF Frame
  <2>5. Head(stack[k].todo) \in Range(stack[k].todo)
    BY <2>4, RangeFacts
  <2> QED
    BY <2>2, <2>3, <2>5 DEF FrameOK
<1>3. Len(stack) = 1
  BY <1>2
<1>4. Len(Below) = 0 /\ Below \in Seq(Frame)
  BY <1>1, <1>3, BelowFacts DEF TypeOK
<1>5. Below = <<>>
  BY <1>4, EmptySeq
<1> QED
  BY <1>1, <1>3, <1>5

LEMMA FreshKept ==
  ASSUME TypeOK, NEW p \in Pkg, Fresh(p), command' = command, before' = before,
         ToRemove(p)' = ToRemove(p), ToMake(p)' = ToMake(p), Busy(p)' = Busy(p),
         gen'[p] = gen[p], from'[p] = from[p], deb'[p] = deb[p], pool'[p] = pool[p],
         dir'[p] = dir[p],
         \A d \in Range(Deps[p]) : ~ToRemove(d) /\ dir[d] = "full" =>
           ~ToRemove(d)' /\ dir'[d] = "full" /\ gen'[d] = gen[d]
  PROVE  Fresh(p)'
<1>1. Named' = Named
  BY DEF Named
<1>2. MadeFrom(p) => MadeFrom(p)'
  BY <1>1 DEF MadeFrom
<1> QED
  BY <1>2 DEF Fresh

(* Only the start of a build.sh makes its package busy.                    *)
LEMMA NotBusy ==
  ASSUME TypeOK, StackInv, [Next]_vars, phase' = "run", ~UNCHANGED vars, ~BuildStart
  PROVE  ~At("building")'
<1> SUFFICES ASSUME stack' # <<>>, Top'.pc = "building" PROVE FALSE
  BY DEF At
<1>1. CompatOk \/ FetchOk \/ PatchOk \/ BuildOk
  BY NextLabel
<1>2. PICK pc \in {"fetch", "patch", "build", "done"} : Goto(pc)
  BY <1>1 DEF CompatOk, FetchOk, PatchOk, BuildOk
<1>3. stack # <<>> /\ Top \in Frame
  BY <1>1, TopFacts DEF CompatOk, DepsDone, FetchOk, PatchOk, BuildOk, At, TypeOK
<1>4. Top' = [Top EXCEPT !.pc = pc]
  BY <1>2, <1>3, GotoFacts DEF TypeOK, PCs
<1> QED
  BY <1>3, <1>4 DEF Frame

(* A step of Remove, MakeNothing or the loops of main.                     *)
LEMMA FreshRemove ==
  ASSUME TypeOK, ScriptOK, Rebuilding, NEW q \in Pkg, Remove(q),
         NEW p \in Named, Fresh(p)
  PROVE  Fresh(p)'
<1>1. /\ stack = <<>> /\ stack' = stack /\ script # <<>> /\ phase' = phase
      /\ Head(script).op \in {"rm", "rmdeb", "rmpool"} /\ q \in Head(script).pkgs /\ Done(q)
      /\ dir' = [dir EXCEPT ![q] = "none"] /\ gen' = gen /\ from' = from
      /\ deb' = (IF Head(script).op = "rm" THEN deb ELSE [deb EXCEPT ![q] = 0])
      /\ pool' = (IF Head(script).op = "rmpool" THEN [pool EXCEPT ![q] = 0] ELSE pool)
      /\ command' = command /\ before' = before
  BY DEF Remove, MainAt, fixed
<1>2. /\ 1 \in 1 .. Len(script) /\ Head(script) = script[1]
      /\ script[1].op \in {"rm", "rmdeb"}
  BY <1>1, HeadOp
<1>3. ToRemove(q)
  BY <1>1, <1>2 DEF ToRemove, In
<1>4. p \in Pkg /\ ~Busy(p) /\ ~Busy(p)'
  BY <1>1, NamedType DEF Busy, At
<1>5. CASE p = q
  <2>1. gen[p] = before[p]
    BY <1>3, <1>5 DEF Fresh
  <2>2. /\ Shape(script) /\ Len(script) \in Nat \ {0} /\ Len(script') = Len(script)
        /\ \A i \in 1 .. Len(script) :
             /\ script'[i].op = script[i].op
             /\ script'[i].pkgs = IF i = 1 THEN script[i].pkgs \ {q} ELSE script[i].pkgs
    BY <1>1, ScriptDone DEF ScriptOK
  <2>3. /\ 1 < Len(script) /\ script[1 + 1].op = "make" /\ p \in script[1 + 1].pkgs
    BY <1>1, <1>2, <1>5, <2>2 DEF Shape
  <2>4. ToMake(p)'
    <3>1. 2 \in 1 .. Len(script) /\ 1 + 1 = 2
      BY <2>2, <2>3
    <3>2. script'[2].op = "make" /\ p \in script'[2].pkgs
      <4>1. script'[2].op = script[2].op /\ script'[2].pkgs = script[2].pkgs
        <5>1. 2 # 1
          OBVIOUS
        <5> QED
          BY <2>2, <3>1, <5>1, Zenon
      <4> QED
        BY <2>3, <3>1, <4>1
    <3> QED
      BY <2>2, <3>1, <3>2 DEF ToMake, In
  <2>5. ~ToRemove(p)'
    <3>1. SUFFICES ASSUME NEW i \in 1 .. Len(script), script'[i].op \in {"rm", "rmdeb"},
                          p \in script'[i].pkgs
                   PROVE  FALSE
      BY <2>2 DEF ToRemove, In
    <3>2. i # 1
      BY <1>5, <2>2, <3>1
    <3>3. i \in 1 + 1 .. Len(script) /\ script[i].op # "make" /\ p \in script[i].pkgs
      <4>1. script'[i].op = script[i].op /\ script'[i].pkgs = script[i].pkgs
        BY <2>2, <3>2
      <4>2. i \in 1 + 1 .. Len(script)
        BY <2>2, <3>2
      <4> QED
        BY <3>1, <4>1, <4>2
    <3>4. script[1].pkgs \cap script[i].pkgs = {}
      BY <1>2, <2>2, <3>3 DEF Shape
    <3> QED
      BY <1>1, <1>2, <1>5, <3>3, <3>4
  <2>6. dir'[p] = "none"
    BY <1>1, <1>4, <1>5 DEF TypeOK
  <2> QED
    BY <1>1, <1>4, <2>1, <2>4, <2>5, <2>6 DEF Fresh
<1>6. CASE p # q
  <2>1. /\ gen'[p] = gen[p] /\ from'[p] = from[p] /\ deb'[p] = deb[p] /\ pool'[p] = pool[p]
        /\ dir'[p] = dir[p]
    BY <1>1, <1>4, <1>6 DEF TypeOK
  <2>2. ToRemove(p)' = ToRemove(p) /\ ToMake(p)' = ToMake(p)
    BY <1>1, <1>6, KeepIn DEF ToRemove, ToMake
  <2>3. ASSUME NEW d \in Range(Deps[p]), ~ToRemove(d), dir[d] = "full"
        PROVE  ~ToRemove(d)' /\ dir'[d] = "full" /\ gen'[d] = gen[d]
    <3>1. d # q /\ d \in Pkg
      BY <1>3, <1>4, <2>3, DepsFacts
    <3>2. ~ToRemove(d)'
      BY <1>1, <2>3, InDone DEF ToRemove
    <3> QED
      BY <1>1, <2>3, <3>1, <3>2 DEF TypeOK
  <2>4. Busy(p)' = Busy(p)
    BY <1>4 DEF Busy, At
  <2> QED
    BY <1>1, <1>4, <2>1, <2>2, <2>3, <2>4, FreshKept
<1> QED
  BY <1>5, <1>6

(* p leaves the loop of builds: it has been made.                          *)
LEMMA FreshDone ==
  ASSUME TypeOK, ScriptOK, Rebuilding, script # <<>>, script[1].op = "make",
         NEW q \in Pkg, q \in script[1].pkgs, Done(q), CopyDeb(q),
         command' = command, before' = before, gen' = gen, from' = from, deb' = deb,
         dir' = dir \/ (q = SdkPkg /\ dir' = [dir EXCEPT ![q] = "none"]),
         dir[q] # "none", ~At("building"), ~At("building")',
         NEW p \in Named, Fresh(p)
  PROVE  Fresh(p)'
<1>1. p \in Pkg /\ ~Busy(p) /\ ~Busy(p)' /\ Busy(p)' = Busy(p)
  BY NamedType DEF Busy
<1>2. 1 \in 1 .. Len(script) /\ Head(script) = script[1] /\ Shape(script)
  BY HeadOp DEF ScriptOK
<1>3. \A d \in Pkg : ToRemove(d)' = ToRemove(d)
  BY KeepIn DEF ToRemove
<1>4. \A d \in Range(Deps[p]) : d \in Pkg /\ d # SdkPkg
  BY <1>1, DepsFacts
<1>5. \A d \in Range(Deps[p]) : dir'[d] = dir[d]
  BY <1>4 DEF TypeOK
<1>6. CASE p # q
  <2>1. ToMake(p)' = ToMake(p)
    BY <1>6, KeepIn DEF ToMake
  <2>2. pool'[p] = pool[p] /\ dir'[p] = dir[p]
    BY <1>1, <1>6 DEF CopyDeb, TypeOK
  <2> QED
    BY <1>1, <1>3, <1>4, <1>5, <2>1, <2>2, FreshKept
<1>7. CASE p = q
  <2>1. ToMake(p)
    BY <1>2, <1>7 DEF ToMake, In
  <2>2. CASE ToRemove(p)
    BY <1>1, <1>3, <2>2 DEF Fresh
  <2>3. CASE ~ToRemove(p)
    <3>1. /\ gen[p] = before[p] + 1 /\ MadeFrom(p) /\ deb[p] = gen[p] /\ dir[p] = "full"
      BY <1>1, <1>7, <2>1, <2>3 DEF Fresh
    <3>2. deb[p] # 0
      BY <1>1, <3>1 DEF TypeOK
    <3>3. pool'[p] = gen[p]
      <4>1. pool' = [pool EXCEPT ![p] = deb[p]]
        BY <1>2, <1>7, <3>2 DEF CopyDeb, Rebuilding, dryrun
      <4> QED
        BY <1>1, <3>1, <4>1 DEF TypeOK
    <3>4. MadeFrom(p)'
      <4>1. Named' = Named
        BY DEF Named
      <4> QED
        BY <1>3, <1>4, <1>5, <3>1, <4>1 DEF MadeFrom
    <3>5. CASE q # SdkPkg
      BY <1>1, <1>3, <1>7, <2>3, <3>1, <3>3, <3>4, <3>5 DEF Fresh
    <3>6. CASE q = SdkPkg
      <4>1. /\ Len(script) \in Nat \ {0} /\ Len(script') = Len(script)
            /\ \A i \in 1 .. Len(script) :
                 /\ script'[i].op = script[i].op
                 /\ script'[i].pkgs = IF i = 1 THEN script[i].pkgs \ {q} ELSE script[i].pkgs
        BY ScriptDone
      <4>2. ~ToMake(p)'
        <5>1. SUFFICES ASSUME NEW i \in 1 .. Len(script), script'[i].op = "make",
                              p \in script'[i].pkgs
                       PROVE  FALSE
          BY <4>1 DEF ToMake, In
        <5>2. i # 1
          BY <1>7, <4>1, <5>1
        <5>3. i \in 1 + 1 .. Len(script) /\ script[i].op = "make" /\ p \in script[i].pkgs
          <6>1. script'[i].op = script[i].op /\ script'[i].pkgs = script[i].pkgs
            BY <4>1, <5>2
          <6>2. i \in 1 + 1 .. Len(script)
            BY <4>1, <5>2
          <6> QED
            BY <5>1, <6>1, <6>2
        <5>4. script[1].pkgs \cap script[i].pkgs = {}
          BY <1>2, <5>3 DEF Shape
        <5> QED
          BY <1>7, <5>3, <5>4
      <4> QED
        BY <1>1, <1>3, <1>7, <2>3, <3>1, <3>3, <3>4, <3>6, <4>2 DEF Fresh
    <3> QED
      BY <3>5, <3>6
  <2> QED
    BY <2>2, <2>3
<1> QED
  BY <1>6, <1>7

(* A step that touches no package, while none is busy.                     *)
LEMMA FreshQuiet ==
  ASSUME TypeOK, NEW p \in Named, Fresh(p), command' = command, before' = before,
         script' = script \/ NextLoop, ~At("building"), ~At("building")',
         gen' = gen, from' = from, deb' = deb, pool' = pool, dir' = dir
  PROVE  Fresh(p)'
<1>1. p \in Pkg
  BY NamedType
<1>2. \A d : ToRemove(d)' = ToRemove(d) /\ ToMake(d)' = ToMake(d)
  BY InTail, InSame DEF ToRemove, ToMake
<1>3. Busy(p)' = Busy(p)
  BY DEF Busy
<1> QED
  BY <1>1, <1>2, <1>3, FreshKept

LEMMA FreshBuildStart ==
  ASSUME TypeOK, StackInv, ScriptOK, BottomOK, Rebuilding, BuildStart,
         NEW p \in Named, \A q \in Named : Fresh(q)
  PROVE  Fresh(p)'
<1> DEFINE t == Top.pkg
<1>1. /\ At("build") /\ stack # <<>> /\ phase' = phase /\ script' = script /\ Goto("building")
      /\ dir' = [dir EXCEPT ![t] = "partial"] /\ gen' = [gen EXCEPT ![t] = @ + 1]
      /\ from' = [from EXCEPT ![t] = staged] /\ deb' = deb /\ pool' = pool
      /\ command' = command /\ before' = before
  BY DEF BuildStart, At, fixed
<1>2. /\ t \in Pkg /\ Top \in Frame /\ ~ToRemove(t)
      /\ \A d \in Range(Deps[t]) : ~ToRemove(d)
  BY <1>1, WorkFree, TopFacts DEF TypeOK
<1>3. At("building")' /\ Top'.pkg = t
  <2>1. stack' # <<>> /\ Top' = [Top EXCEPT !.pc = "building"]
    BY <1>1, GotoFacts DEF TypeOK, PCs
  <2> QED
    BY <1>1, <1>2, <2>1 DEF At, Frame
<1>4. Building /\ dir[t] = "none"
  <2>1. Building
    BY <1>1 DEF Building, At, Rebuilding, dryrun
  <2> QED
    BY <1>1, <2>1, TopInv DEF At
<1>5. p \in Pkg /\ \A q : ToRemove(q)' = ToRemove(q) /\ ToMake(q)' = ToMake(q)
  BY <1>1, NamedType, InSame DEF ToRemove, ToMake
<1>6. ~At("building")
  BY <1>1 DEF At
<1> HIDE DEF t
<1>7. CASE p # t
  <2>1. /\ gen'[p] = gen[p] /\ from'[p] = from[p] /\ dir'[p] = dir[p]
    BY <1>1, <1>5, <1>7 DEF TypeOK
  <2>2. Busy(p)' = Busy(p)
    BY <1>3, <1>6, <1>7 DEF Busy
  <2>3. ASSUME NEW d \in Range(Deps[p]), dir[d] = "full"
        PROVE  dir'[d] = "full" /\ gen'[d] = gen[d]
    <3>1. d \in Pkg /\ d # t
      BY <1>4, <1>5, <2>3, DepsFacts
    <3> QED
      BY <1>1, <2>3, <3>1 DEF TypeOK
  <2> QED
    BY <1>1, <1>5, <2>1, <2>2, <2>3, FreshKept
<1>8. CASE p = t
  <2>1. gen[t] = before[t] /\ ToMake(t)
    <3>1. ASSUME t = SdkPkg PROVE ToMake(t)
      BY <1>1, <1>4, <3>1, SdkAlone, BottomMade DEF t
    <3> QED
      BY <1>2, <1>4, <1>6, <1>8, <3>1 DEF Fresh, Busy
  <2>2. gen'[t] = before[t] + 1 /\ from'[t] = staged
    BY <1>1, <1>2, <2>1 DEF TypeOK
  <2>3. /\ Top.seen = Needs(t, recursivedeps) /\ Holds(Top, staged, gen, dir)
        /\ FrameOK(Top, dir, recursivedeps)
    BY <1>1, <1>4, IncludedAll, TopInv DEF t
  <2>4. ASSUME NEW d \in Named \cap Range(Deps[t])
        PROVE  /\ ~ToRemove(d)' /\ gen'[d] = before[d] + 1 /\ dir'[d] = "full"
               /\ <<d, gen'[d], "full">> \in from'[t]
    <3>1. d \in Needs(t, recursivedeps) /\ d \in Pkg /\ d # SdkPkg
      BY <1>2, NeedsFacts, DepsFacts DEF TypeOK
    <3>2. dir[d] # "none"
      BY <2>3, <3>1 DEF FrameOK
    <3>3. ~ToRemove(d) /\ Fresh(d)
      BY <1>2
    <3>4. gen[d] = before[d] + 1 /\ dir[d] = "full"
      BY <1>6, <3>1, <3>2, <3>3 DEF Fresh, Busy
    <3>5. d # t
      BY <1>4, <3>2
    <3>6. gen'[d] = gen[d] /\ dir'[d] = dir[d]
      BY <1>1, <3>1, <3>5 DEF TypeOK
    <3>7. <<d, gen[d], dir[d]>> \in staged
      BY <2>3, <3>1 DEF Holds
    <3> QED
      BY <1>5, <2>2, <3>3, <3>4, <3>6, <3>7
  <2>5. MadeFrom(p)'
    <3>1. Named' = Named /\ before' = before
      BY <1>1 DEF Named
    <3> QED
      BY <1>8, <2>4, <3>1 DEF MadeFrom
  <2>6. Busy(p)'
    BY <1>3, <1>8 DEF Busy
  <2> QED
    BY <1>1, <1>2, <1>5, <1>8, <2>1, <2>2, <2>5, <2>6 DEF Fresh
<1> QED
  BY <1>7, <1>8

LEMMA FreshBuildOk ==
  ASSUME TypeOK, StackInv, ScriptOK, BottomOK, Rebuilding, BuildOk,
         NEW p \in Named, Fresh(p)
  PROVE  Fresh(p)'
<1> DEFINE t == Top.pkg
<1>1. /\ At("building") /\ stack # <<>> /\ phase' = phase /\ script' = script /\ Goto("done")
      /\ dir' = [dir EXCEPT ![t] = "full"] /\ deb' = [deb EXCEPT ![t] = gen[t]]
      /\ gen' = gen /\ from' = from /\ pool' = pool
      /\ command' = command /\ before' = before
  BY DEF BuildOk, At, fixed
<1>2. t \in Pkg /\ Top \in Frame /\ ~ToRemove(t)
  BY <1>1, WorkFree, TopFacts DEF TypeOK
<1>3. ~At("building")'
  <2>1. Top' = [Top EXCEPT !.pc = "done"]
    BY <1>1, GotoFacts DEF TypeOK, PCs
  <2> QED
    BY <1>2, <2>1 DEF At, Frame
<1>4. p \in Pkg /\ \A q : ToRemove(q)' = ToRemove(q) /\ ToMake(q)' = ToMake(q)
  BY <1>1, NamedType, InSame DEF ToRemove, ToMake
<1>5. \A d \in Pkg : dir[d] = "full" => dir'[d] = "full"
  BY <1>1, <1>2 DEF TypeOK
<1> HIDE DEF t
<1>6. CASE p # t
  <2>1. deb'[p] = deb[p] /\ dir'[p] = dir[p]
    BY <1>1, <1>4, <1>6 DEF TypeOK
  <2>2. Busy(p)' = Busy(p)
    BY <1>3, <1>6 DEF Busy, t
  <2>3. \A d \in Range(Deps[p]) : d \in Pkg
    BY <1>4, DepsFacts
  <2> QED
    BY <1>1, <1>4, <1>5, <2>1, <2>2, <2>3, FreshKept
<1>7. CASE p = t
  <2>1. Busy(p) /\ ~Busy(p)'
    BY <1>1, <1>3, <1>7 DEF Busy, t
  <2>2. /\ gen[p] = before[p] + 1 /\ MadeFrom(p)
        /\ ToMake(p) \/ pool[p] = gen[p]
    BY <1>2, <1>7, <2>1 DEF Fresh
  <2>3. MadeFrom(p)'
    <3>1. Named' = Named
      BY <1>1 DEF Named
    <3>2. \A d \in Range(Deps[p]) : d \in Pkg
      BY <1>4, DepsFacts
    <3> QED
      BY <1>1, <1>4, <1>5, <2>2, <3>1, <3>2 DEF MadeFrom
  <2>4. deb'[p] = gen[p] /\ dir'[p] = "full"
    BY <1>1, <1>2, <1>7 DEF TypeOK
  <2> QED
    BY <1>1, <1>2, <1>4, <1>7, <2>2, <2>3, <2>4 DEF Fresh
<1> QED
  BY <1>6, <1>7

LEMMA FreshReturn ==
  ASSUME TypeOK, StackInv, ScriptOK, BottomOK, Rebuilding, Return, ~At("building")',
         NEW p \in Named, Fresh(p)
  PROVE  Fresh(p)'
<1> DEFINE t == Top.pkg
<1>1. /\ At("done") /\ stack # <<>> /\ phase' = phase
      /\ dir' = (IF t = SdkPkg THEN [dir EXCEPT ![t] = "none"] ELSE dir)
      /\ gen' = gen /\ from' = from /\ deb' = deb /\ command' = command /\ before' = before
      /\ Below = <<>> => Done(t) /\ CopyDeb(t)
      /\ Below # <<>> => script' = script /\ pool' = pool
  BY DEF Return, At, fixed
<1>2. t \in Pkg /\ Building /\ dir[t] = "full" /\ ~At("building")
  <2>1. Building
    BY <1>1 DEF Building, At, Rebuilding, dryrun
  <2> QED
    BY <1>1, <2>1, WorkFree DEF StackInv, DirsOK, At
<1>3. CASE Below = <<>>
  <2>1. stack[1] = Top
    <3>1. Len(stack) \in Nat \ {0} /\ Len(Below) = Len(stack) - 1 /\ Len(Below) = 0
      BY <1>1, <1>3, TopFacts, BelowFacts, EmptySeq DEF TypeOK
    <3>2. Len(stack) = 1
      BY <3>1
    <3> QED
      BY <3>2 DEF Top
  <2>2. script # <<>> /\ script[1].op = "make" /\ t \in script[1].pkgs
    BY <1>1, <2>1, BottomMade
  <2>3. dir' = dir \/ (t = SdkPkg /\ dir' = [dir EXCEPT ![t] = "none"])
    BY <1>1
  <2> HIDE DEF t
  <2> QED
    BY <1>1, <1>2, <1>3, <2>2, <2>3, FreshDone
<1>4. CASE Below # <<>>
  <2>1. t # SdkPkg
    BY <1>1, <1>2, <1>4, SdkAlone
  <2> QED
    BY <1>1, <1>2, <1>4, <2>1, FreshQuiet
<1> QED
  BY <1>3, <1>4

LEMMA FreshNext ==
  ASSUME TypeOK, StackInv, ScriptOK, BottomOK, AllFresh, [Next]_vars
  PROVE  AllFresh'
<1> SUFFICES ASSUME Rebuilding', NEW p \in Named' PROVE Fresh(p)'
  BY DEF AllFresh
<1>1. phase' = "run"
  BY DEF Rebuilding
<1>2. CASE Start
  <2>1. gen'[p] = before'[p]
    BY <1>2 DEF Start, Begin, DepcheckError, tree
  <2>2. ASSUME NEW B \in SUBSET Pkg, NEW rm \in {"rm", "rmdeb"}, Named' = B,
               script' = << [op |-> rm, pkgs |-> B], [op |-> "make", pkgs |-> B] >>
        PROVE  ToRemove(p)'
    <3>1. Len(script') = 2 /\ script'[1].op = rm /\ script'[1].pkgs = B
      BY <2>2
    <3>2. 1 \in 1 .. Len(script')
      BY <3>1
    <3> QED
      BY <2>2, <3>1, <3>2 DEF ToRemove, In
  <2>3. ASSUME NEW x \in Pkg, NEW U \in SUBSET Pkg, Named' = {x} \cup U,
               script' = << [op |-> "rm", pkgs |-> {x}], [op |-> "make", pkgs |-> {x}],
                            [op |-> "rmdeb", pkgs |-> U], [op |-> "make", pkgs |-> U] >>
        PROVE  ToRemove(p)'
    <3>1. /\ Len(script') = 4 /\ script'[1].op = "rm" /\ script'[1].pkgs = {x}
          /\ script'[3].op = "rmdeb" /\ script'[3].pkgs = U
      BY <2>3
    <3>2. 1 \in 1 .. Len(script') /\ 3 \in 1 .. Len(script')
      BY <3>1
    <3> QED
      BY <2>3, <3>1, <3>2 DEF ToRemove, In
  <2>4. ToRemove(p)'
    <3>1. \/ \E B \in SUBSET Pkg, rm \in {"rm", "rmdeb"} :
               /\ script' = << [op |-> rm, pkgs |-> B], [op |-> "make", pkgs |-> B] >>
               /\ Named' = B
          \/ \E x \in Pkg, U \in SUBSET Pkg :
               /\ script' = << [op |-> "rm", pkgs |-> {x}], [op |-> "make", pkgs |-> {x}],
                               [op |-> "rmdeb", pkgs |-> U], [op |-> "make", pkgs |-> U] >>
               /\ Named' = {x} \cup U
      BY <1>2, ScriptStart, Zenon
    <3> QED
      BY <2>2, <2>3, <3>1, Zenon
  <2> QED
    BY <2>1, <2>4 DEF Fresh
<1>3. CASE phase = "run" /\ command' = command /\ before' = before
  <2>1. Rebuilding /\ p \in Named /\ Named' = Named /\ \A q \in Named : Fresh(q)
    BY <1>3 DEF Rebuilding, Named, AllFresh
  <2>2. CASE UNCHANGED vars
    <3>1. /\ script' = script /\ dir' = dir /\ gen' = gen /\ from' = from /\ deb' = deb
          /\ pool' = pool /\ stack' = stack
      BY <2>2 DEF vars, tree
    <3>2. Busy(p)' = Busy(p)
      BY <1>1, <1>3, <3>1 DEF Busy, At, Top
    <3>3. \A d : ToRemove(d)' = ToRemove(d) /\ ToMake(d)' = ToMake(d)
      BY <3>1, InSame DEF ToRemove, ToMake
    <3>4. p \in Pkg
      BY <2>1, NamedType
    <3> QED
      BY <1>3, <2>1, <3>1, <3>2, <3>3, <3>4, FreshKept
  <2>3. CASE BuildStart
    BY <2>1, <2>3, FreshBuildStart
  <2>4. CASE BuildOk
    BY <2>1, <2>4, FreshBuildOk
  <2>5. ASSUME ~UNCHANGED vars, ~BuildStart
        PROVE  ~At("building")'
    BY <1>1, <2>5, NotBusy
  <2>6. ASSUME NEW q \in Pkg, Remove(q) PROVE Fresh(p)'
    BY <2>1, <2>6, FreshRemove
  <2>7. ASSUME NEW q \in Pkg, MakeNothing(q), ~At("building")' PROVE Fresh(p)'
    <3>1. /\ stack = <<>> /\ script # <<>> /\ Head(script).op \in {"make", "build"}
          /\ q \in Head(script).pkgs /\ hasbeenbuilt(q) /\ Done(q) /\ CopyDeb(q)
          /\ dir' = dir /\ gen' = gen /\ from' = from /\ deb' = deb
      BY <2>7 DEF MakeNothing, MainAt
    <3>2. script[1].op = "make" /\ q \in script[1].pkgs
      BY <2>1, <3>1, HeadOp
    <3>3. dir[q] # "none" /\ ~At("building")
      BY <2>1, <3>1 DEF hasbeenbuilt, Rebuilding, dryrun, At
    <3> QED
      BY <1>3, <2>1, <2>7, <3>1, <3>2, <3>3, FreshDone
  <2>8. ASSUME NEW q \in Pkg, VisitBuild(q) \/ Visited(q) PROVE FALSE
    <3>1. script # <<>> /\ Head(script).op = "visit"
      BY <2>8 DEF VisitBuild, Visited, MainAt
    <3> QED
      BY <2>1, <3>1, HeadOp
  <2>9. CASE (NextLoop \/ \E q \in Pkg : Make(q)) /\ ~At("building")'
    <3>1. /\ script' = script \/ NextLoop
          /\ stack = <<>> /\ gen' = gen /\ from' = from /\ deb' = deb /\ pool' = pool /\ dir' = dir
      BY <2>9 DEF NextLoop, Make, MainAt, tree
    <3>2. ~At("building")
      BY <3>1 DEF At
    <3> QED
      BY <1>3, <2>1, <2>9, <3>1, <3>2, FreshQuiet
  <2>10. CASE (SkipSeen \/ Descend \/ Include \/ CompatOk \/ PatchOk) /\ ~At("building")'
    <3>1. /\ script' = script /\ gen' = gen /\ from' = from /\ deb' = deb /\ pool' = pool
          /\ dir' = dir /\ ~At("building")
      BY <2>10 DEF SkipSeen, Descend, Include, CompatOk, DepsDone, PatchOk, At, steps, tree
    <3> QED
      BY <1>3, <2>1, <2>10, <3>1, FreshQuiet
  <2>11. CASE FetchOk /\ ~At("building")'
    <3>1. /\ script' = script /\ gen' = gen /\ from' = from /\ deb' = deb /\ pool' = pool
          /\ dir' = [dir EXCEPT ![Top.pkg] = "none"] /\ At("fetch")
      BY <2>11 DEF FetchOk
    <3>2. Building /\ stack # <<>> /\ Top.pc = "fetch" /\ ~At("building")
      BY <2>1, <3>1 DEF Building, At, Rebuilding, dryrun
    <3>3. dir[Top.pkg] = "none"
      BY <3>2, TopInv
    <3>4. dir' = dir
      BY <3>1, <3>3 DEF TypeOK
    <3> QED
      BY <1>3, <2>1, <2>11, <3>1, <3>2, <3>4, FreshQuiet
  <2>12. CASE Return /\ ~At("building")'
    BY <2>1, <2>12, FreshReturn
  <2>13. CASE DryReturn
    BY <2>1, <2>13 DEF DryReturn, Rebuilding, dryrun
  <2>14. CASE CompatError \/ FetchFail \/ PatchError \/ BuildFail \/ CallerError \/ ExitOne
                \/ Failed \/ Crash \/ Finish \/ TarError
    BY <1>1, <2>14 DEF CompatError, FetchFail, PatchError, BuildFail, CallerError, ExitOne, Error,
                       ReturnTwo, Failed, Crash, Finish, TarError
  <2>15. CASE Start
    BY <1>3, <2>15 DEF Start, Begin, DepcheckError
  <2>16. CASE Main
    BY <2>3, <2>2, <2>5, <2>6, <2>7, <2>9, <2>14, <2>15, <2>16 DEF Main
  <2>17. CASE Visit
    BY <2>8, <2>14, <2>17 DEF Visit
  <2>18. CASE Subshell
    BY <2>2, <2>3, <2>4, <2>5, <2>10, <2>11, <2>12, <2>13, <2>14, <2>18 DEF Subshell
  <2> QED
    BY <2>2, <2>14, <2>16, <2>17, <2>18 DEF Next, Unwind
<1>4. \/ Start \/ (phase = "run" /\ command' = command /\ before' = before)
  <2>1. \/ Start \/ UNCHANGED vars
        \/ \E q \in Pkg : Remove(q) \/ Make(q) \/ MakeNothing(q) \/ VisitBuild(q) \/ Visited(q)
        \/ NextLoop \/ Subshell
    BY <1>1 DEF Next, Main, Finish, Visit, TarError, Unwind, CallerError, ExitOne, Failed, Crash
  <2>2. CASE UNCHANGED vars
    BY <1>1, <2>2 DEF vars, fixed
  <2>3. CASE \E q \in Pkg : Remove(q) \/ Make(q) \/ MakeNothing(q) \/ VisitBuild(q) \/ Visited(q)
    BY <2>3 DEF Remove, Make, MakeNothing, VisitBuild, Visited, MainAt, fixed
  <2>4. CASE NextLoop
    BY <2>4 DEF NextLoop, fixed
  <2>5. CASE Subshell
    BY <2>5 DEF Subshell, SkipSeen, Descend, Include, CompatOk, CompatError, FetchOk, FetchFail,
         PatchOk, PatchError, BuildStart, BuildOk, BuildFail, Return, DryReturn, DepsDone, At,
         steps, fixed
  <2> QED
    BY <2>1, <2>2, <2>3, <2>4, <2>5
<1> QED
  BY <1>2, <1>3, <1>4

(* When build, all or abibreak succeeds, every package it was asked for    *)
(* has been built exactly once, out of what the same run made of the       *)
(* others, and its .deb is in debs/ (build.sh:544-572, 605-637, 719-734).  *)
THEOREM NamedCorrect == Spec => []NamedFresh
<1> DEFINE Inv == TypeOK /\ StackInv
           More == ScriptOK /\ BottomOK /\ AllFresh
<1>1. Init => More
  BY DEF Init, ScriptOK, BottomOK, AllFresh, Rebuilding
<1>2. Inv /\ More /\ [Next]_vars => More'
  BY ScriptNext, BottomNext, FreshNext
<1>3. Inv /\ More => NamedFresh
  <2> SUFFICES ASSUME Inv, More, AtEnd, NEW p \in Named
               PROVE  /\ gen[p] = before[p] + 1
                      /\ p # SdkPkg => dir[p] = "full"
                      /\ pool[p] = gen[p]
                      /\ \A d \in Named \cap Range(Deps[p]) : <<d, gen[d], "full">> \in from[p]
    BY DEF NamedFresh
  <2>1. Rebuilding
    <3>1. command.verb \in {"build", "all", "abibreak"}
      BY DEF Named
    <3> QED
      BY <3>1 DEF AtEnd, Rebuilding
  <2>2. ~ToRemove(p) /\ ~ToMake(p) /\ ~Busy(p)
    <3>1. Len(script) = 0
      BY EmptySeq DEF AtEnd
    <3> QED
      BY <3>1 DEF AtEnd, ToRemove, ToMake, In, Busy, At
  <2>3. Fresh(p)
    BY <2>1 DEF AllFresh
  <2> QED
    BY <2>2, <2>3 DEF Fresh, MadeFrom
<1> QED
  <2> HIDE DEF More
  <2> QED
    BY <1>1, <1>2, <1>3, StackAlways, PTL DEF Spec

--------------------------------------------------------------------------------
(* What sysroot() adds to a run of PkgBuild are two variables and the      *)
(* order in which it does steps that PkgBuild has: what is proved of       *)
(* PkgBuild is true of it.                                                 *)

Visits == [pkg : Pkg, todo : Seq(Pkg)]

LEMMA LatestFacts ==
  ASSUME TypeOK, CopiesTypeOK, Reading
  PROVE  /\ Latest \in Visits /\ visits \in Seq(Visits)
         /\ Len(visits) \in Nat \ {0}
<1>1. visits \in Seq(Visits) /\ visits # <<>>
  BY DEF Reading, CopiesTypeOK, Frames, Visits
<1>2. Len(visits) \in Nat \ {0} /\ Len(visits) \in 1 .. Len(visits)
  BY <1>1, EmptySeq
<1> QED
  BY <1>1, <1>2, ElementOfSeq DEF Latest

(* Every call is of a package of pkgs/: a named one, or a line of a        *)
(* dependencies.txt.                                                       *)
LEMMA NamedFacts ==
  ASSUME TypeOK, script # <<>>
  PROVE  Head(script).pkgs \in SUBSET Pkg
<1>1. Head(script) \in Op
  BY HeadTailProperties DEF TypeOK
<1> QED
  BY <1>1 DEF Op

LEMMA RestOfCaller ==
  ASSUME TypeOK, CopiesTypeOK, Reading, Latest.todo # <<>>
  PROVE  /\ Head(Latest.todo) \in Pkg
         /\ [visits EXCEPT ![Len(visits)].todo = Tail(@)] \in Seq(Visits)
<1>1. /\ Latest \in Visits /\ visits \in Seq(Visits) /\ Len(visits) \in Nat \ {0}
  BY LatestFacts
<1>2. Latest.todo \in Seq(Pkg)
  BY <1>1 DEF Visits
<1>3. Head(Latest.todo) \in Pkg /\ Tail(Latest.todo) \in Seq(Pkg)
  BY <1>2, HeadTailProperties
<1> DEFINE v == [Latest EXCEPT !.todo = Tail(@)]
<1>4. v \in Visits
  BY <1>1, <1>3 DEF Visits
<1>5. [visits EXCEPT ![Len(visits)].todo = Tail(@)] = [visits EXCEPT ![Len(visits)] = v]
  BY DEF Latest
<1> HIDE DEF v
<1>6. [visits EXCEPT ![Len(visits)] = v] \in Seq(Visits)
  BY <1>1, <1>4, ExceptSeq
<1> QED
  BY <1>3, <1>5, <1>6

LEMMA CallStep ==
  ASSUME NEW p \in Pkg, NEW below \in Seq(Visits), CopiesTypeOK, Call(p, below)
  PROVE  [Next]_vars /\ CopiesTypeOK'
<1>1. [Next]_vars
  BY DEF Call, Next, Visit
<1>2. [pkg |-> p, todo |-> Deps[p]] \in Visits
  BY DepsAssumption DEF Visits
<1>3. visits' \in Seq(Visits)
  BY <1>2, AppendProperties DEF Call
<1> QED
  BY <1>1, <1>3 DEF Call, CopiesTypeOK, Frames, Visits

(* A step of AllNext is a step of PkgBuild, or one that PkgBuild does not  *)
(* see.                                                                    *)
LEMMA AllStep ==
  ASSUME TypeOK, CopiesTypeOK, [AllNext]_<<vars, copies>>
  PROVE  [Next]_vars /\ CopiesTypeOK'
<1>1. CASE UNCHANGED <<vars, copies>>
  BY <1>1 DEF copies, CopiesTypeOK
<1>2. CASE Elsewhere
  <2>1. [Next]_vars
    BY <1>2 DEF Elsewhere, Next, Visit
  <2>2. (sysroot' = sysroot \/ sysroot' = {}) /\ (visits' = visits \/ visits' = <<>>)
    BY <1>2 DEF Elsewhere, Rest
  <2>3. visits' \in Seq(Visits)
    BY <2>2, EmptySeq DEF CopiesTypeOK, Frames, Visits
  <2> QED
    BY <2>1, <2>2, <2>3 DEF CopiesTypeOK, Frames, Visits
<1>3. CASE CallNamed
  <2>1. /\ Head(script).pkgs \in SUBSET Pkg
        /\ <<>> \in Seq(Visits)
    BY <1>3, NamedFacts, EmptySeq DEF CallNamed, MainAt
  <2> QED
    BY <1>3, <2>1, CallStep DEF CallNamed
<1>4. CASE CallDep
  BY <1>4, RestOfCaller, CallStep DEF CallDep
<1>5. CASE Copy
  <2>1. /\ Latest \in Visits /\ visits \in Seq(Visits) /\ Len(visits) \in Nat \ {0}
    BY <1>5, LatestFacts DEF Copy
  <2>2. Latest.pkg \in Pkg
    BY <2>1 DEF Visits
  <2>3. [Next]_vars
    BY <1>5, <2>2 DEF Copy, Next, Visit
  <2>4. visits' \in Seq(Visits)
    BY <1>5, <2>1, SubSeqProperties DEF Copy
  <2>5. sysroot' \in SUBSET Content
    BY <1>5, <2>2, OutputType DEF Copy, CopiesTypeOK
  <2> QED
    BY <2>3, <2>4, <2>5 DEF CopiesTypeOK, Frames, Visits
<1> QED
  BY <1>1, <1>2, <1>3, <1>4, <1>5 DEF AllNext

(* A run with sysroot() in it is a run of PkgBuild (build.sh:515-545,      *)
(* 639-688).                                                               *)
THEOREM SysrootIsBuild == AllSpec => Spec /\ []CopiesTypeOK
<1>1. AllInit => Init /\ TypeOK /\ CopiesTypeOK
  BY TypeInit, EmptySeq DEF AllInit, CopiesTypeOK, Frames
<1>2. TypeOK /\ CopiesTypeOK /\ [AllNext]_<<vars, copies>> =>
        [Next]_vars /\ TypeOK' /\ CopiesTypeOK'
  BY AllStep, TypeNext
<1> QED
  BY <1>1, <1>2, PTL DEF AllSpec, Spec

(* So in such a run too a package's build.sh sees the base SDK, its own    *)
(* overlay and its dependencies, and no others (build.sh:401-432), and all *)
(* else that is proved of PkgBuild.                                        *)
THEOREM SysrootStaged ==
  AllSpec => /\ [](TypeOK /\ StagedExact /\ LibOwn /\ NoHalfBuilt /\ ReleasedOnce)
             /\ [](PristineWhenPatched /\ DryrunOrdered /\ NamedFresh)
             /\ PackagesKept /\ ImplementsTopo
BY SysrootIsBuild, TypeCorrect, StagedCorrect, LibCorrect, NoHalfBuiltCorrect, ReleasedCorrect,
   PristineCorrect, DryrunCorrect, NamedCorrect, PackagesSafe, TopoImplemented, PTL

--------------------------------------------------------------------------------
(* The inductive invariant behind SysrootExact.                            *)

Rooting == phase = "run" /\ command.verb \in {"sysroot", "bootstrap"}

(* While main builds what it was given, nothing is said of the directory.  *)
Copying == Rooting /\ (Len(script) # 3 \/ visits # <<>>)

(* The named packages that have yet to be visited. *)
Todo == IF Len(script) = 2 THEN script[1].pkgs
        ELSE IF Len(script) = 3 THEN script[2].pkgs ELSE {}

(* The script is what is left of main's three loops, or the last two under *)
(* the one package that the innermost call of sysroot() has built.         *)
RootScript == Rooting =>
  \/ Len(script) = 0 /\ visits = <<>>
  \/ Len(script) = 1 /\ visits = <<>> /\ script[1].op = "tar"
  \/ /\ Len(script) = 2 /\ script[1].op = "visit" /\ script[2].op = "tar"
     /\ script[1].pkgs \subseteq command.args
  \/ /\ Len(script) = 3 /\ script[1].op = "build" /\ script[2].op = "visit"
     /\ script[3].op = "tar" /\ script[2].pkgs \subseteq command.args
     /\ visits = <<>> => script[2].pkgs = command.args
     /\ visits # <<>> => script[1].pkgs \subseteq {Latest.pkg}

RootBottom == Rooting /\ stack # <<>> =>
  Len(script) = 3 /\ stack[1].pkg \in script[1].pkgs

CallsEnd == phase \in {"idle", "exit"} => visits = <<>>

(* The packages that have been copied or whose call of sysroot() is at its *)
(* dependencies are not built again.                                       *)
Reached == {u[1] : u \in sysroot}
Around == {visits[i].pkg : i \in 1 .. Len(visits) - 1}
Settled == (Reached \cup Around) \ {SdkPkg}

SettledOK == Copying =>
  /\ \A p \in Settled : dir[p] # "none"
  /\ \A j \in 1 .. Len(stack) : stack[j].pkg \notin Settled

(* What was copied is current, closed, and all that was asked for so far.  *)
CopiedOK == Copying =>
  /\ \A u \in sysroot : u[1] \in Wanted /\ (u[1] # SdkPkg => u[2] = gen[u[1]])
  /\ \A p \in Reached : Range(Deps[p]) \subseteq Reached
  /\ \A p \in command.args \ Todo :
       (p = SdkPkg \/ p \in Reached) /\ Range(Deps[p]) \subseteq Reached

CompleteOK == Copying /\ crashes = 0 =>
  /\ \A u \in sysroot : u[3] = "full"
  /\ command.verb = "bootstrap" =>
       \A p \in command.args \ (Todo \cup {SdkPkg}) : pool[p] = gen[p]

(* The calls of sysroot(): each has read some lines of its list, and what  *)
(* it read has been copied, or is being copied by the next call.           *)
CallOK(i) ==
  /\ visits[i].pkg \in Wanted
  /\ i > 1 => visits[i].pkg # SdkPkg
  /\ Range(visits[i].todo) \subseteq Range(Deps[visits[i].pkg])
  /\ \A d \in Range(Deps[visits[i].pkg]) :
       \/ d \in Range(visits[i].todo) \/ d \in Reached
       \/ i < Len(visits) /\ d = visits[i + 1].pkg

LatestBuilt == \/ dir[Latest.pkg] # "none" \/ Latest.pkg = SdkPkg
               \/ Len(script) = 3 /\ Latest.pkg \in script[1].pkgs

CallsOK == Rooting /\ visits # <<>> =>
  /\ visits[1].pkg \in Todo
  /\ \A i \in 1 .. Len(visits) : CallOK(i)
  /\ LatestBuilt

(* Unless a run was killed, a complete output's .deb is next to it. *)
DebsOK == crashes = 0 => \A p \in Pkg : dir[p] = "full" => deb[p] = gen[p]

SysrootInv == /\ RootScript /\ RootBottom /\ CallsEnd /\ SettledOK
              /\ CopiedOK /\ CompleteOK /\ CallsOK

--------------------------------------------------------------------------------
(* Steps of a run that makes a sysroot.                                    *)

LEMMA RootBuilding == Rooting => Building
BY DEF Rooting, Building, dryrun

LEMMA RootHead ==
  ASSUME TypeOK, RootScript, Rooting, script # <<>>
  PROVE  /\ Len(script) \in 1 .. 3 /\ Head(script) = script[1] /\ script[1] \in Op
         /\ script[1].op \in {"build", "visit", "tar"}
         /\ script[1].op = "build" => Len(script) = 3
         /\ script[1].op = "visit" => Len(script) = 2
         /\ script[1].op = "tar" => Len(script) = 1
<1>1. Len(script) \in Nat \ {0} /\ 1 \in 1 .. Len(script) /\ Head(script) = script[1]
      /\ script[1] \in Op
  BY EmptySeq, ElementOfSeq DEF TypeOK
<1> QED
  BY <1>1 DEF RootScript

(* main's next loop puts one for a single package in front.                *)
LEMMA VisitBuildScript ==
  ASSUME TypeOK, NEW p \in Pkg, Len(script) = 2, VisitBuild(p)
  PROVE  /\ Len(script') = 3
         /\ script'[1] = [op |-> "build", pkgs |-> {p}]
         /\ script'[2] = script[1] /\ script'[3] = script[2]
<1> DEFINE b == [op |-> "build", pkgs |-> {p}]
           s == << b >>
<1>1. script' = s \o script
  BY DEF VisitBuild
<1>2. b \in Op
  BY DEF Op
<1> HIDE DEF b
<1>3. s \in Seq(Op) /\ Len(s) = 1 /\ s[1] = b
  BY <1>2
<1> HIDE DEF s
<1>4. script \in Seq(Op) /\ Len(script) = 2
  BY DEF TypeOK
<1>5. /\ Len(s \o script) = 1 + 2
      /\ \A i \in 1 .. 1 + 2 : (s \o script)[i] = IF i <= 1 THEN s[i] ELSE script[i - 1]
  BY <1>3, <1>4, ConcatProperties, SMTT(30)
<1>6. 1 + 2 = 3 /\ 1 \in 1 .. 3 /\ 2 \in 1 .. 3 /\ 3 \in 1 .. 3 /\ 2 - 1 = 1 /\ 3 - 1 = 2
  OBVIOUS
<1>7. (s \o script)[1] = b /\ (s \o script)[2] = script[1] /\ (s \o script)[3] = script[2]
  <2>1. (s \o script)[1] = s[1]
    BY <1>5, <1>6
  <2>2. (s \o script)[2] = script[2 - 1]
    BY <1>5, <1>6
  <2>3. (s \o script)[3] = script[3 - 1]
    BY <1>5, <1>6
  <2> QED
    BY <1>3, <1>6, <2>1, <2>2, <2>3
<1> QED
  BY <1>1, <1>5, <1>6, <1>7 DEF b

(* A subshell changes nothing but its own package.                         *)
LEMMA WorkTree ==
  ASSUME TypeOK, Subshell, phase' = "run"
  PROVE  /\ phase = "run" /\ stack # <<>> /\ Top.pkg \in Pkg
         /\ command' = command /\ crashes' = crashes
         /\ \A p \in Pkg : p # Top.pkg => dir'[p] = dir[p] /\ gen'[p] = gen[p]
<1>1. /\ phase = "run" /\ stack # <<>> /\ command' = command /\ crashes' = crashes
  BY DEF Subshell, SkipSeen, Descend, Include, CompatOk, CompatError, FetchOk, FetchFail,
     PatchOk, PatchError, BuildStart, BuildOk, BuildFail, Return, DryReturn, DepsDone, At,
     Error, ReturnTwo, steps, fixed
<1>2. Top.pkg \in Pkg
  BY <1>1, TopTypes
<1>3. /\ dir' = dir \/ \E x : dir' = [dir EXCEPT ![Top.pkg] = x]
      /\ gen' = gen \/ \E x : gen' = [gen EXCEPT ![Top.pkg] = x]
  <2>1. CASE SkipSeen \/ Descend \/ Include \/ CompatOk \/ CompatError \/ PatchOk \/ PatchError
             \/ DryReturn
    BY <2>1 DEF SkipSeen, Descend, Include, CompatOk, CompatError, PatchOk, PatchError,
                DryReturn, tree, steps
  <2>2. CASE FetchOk \/ FetchFail \/ BuildFail \/ BuildOk \/ Return
    <3>1. gen' = gen
      BY <2>2 DEF FetchOk, FetchFail, BuildFail, BuildOk, Return
    <3>2. dir' = dir \/ \E x : dir' = [dir EXCEPT ![Top.pkg] = x]
      BY <2>2 DEF FetchOk, FetchFail, BuildFail, BuildOk, Return
    <3> QED
      BY <3>1, <3>2
  <2>3. CASE BuildStart
    <3>1. dir' = [dir EXCEPT ![Top.pkg] = "partial"]
      BY <2>3 DEF BuildStart
    <3>2. gen' = [gen EXCEPT ![Top.pkg] = gen[Top.pkg] + 1]
      BY <2>3 DEF BuildStart
    <3> QED
      BY <3>1, <3>2
  <2> QED
    BY <2>1, <2>2, <2>3 DEF Subshell
<1>4. DOMAIN dir = Pkg /\ DOMAIN gen = Pkg
  BY DEF TypeOK
<1>5. ASSUME NEW p \in Pkg, p # Top.pkg PROVE dir'[p] = dir[p] /\ gen'[p] = gen[p]
  BY <1>3, <1>4, <1>5
<1> QED
  BY <1>1, <1>2, <1>5

(* The packages being built stay, or one more that has no output.          *)
LEMMA WorkStack ==
  ASSUME TypeOK, Subshell, phase' = "run", ~dryrun
  PROVE  \A j \in 1 .. Len(stack') :
           \/ \E i \in 1 .. Len(stack) : stack'[j].pkg = stack[i].pkg
           \/ stack'[j].pkg \in Pkg /\ dir[stack'[j].pkg] = "none"
<1>0. stack # <<>> /\ phase = "run"
  BY WorkTree
<1>00. /\ Len(stack) \in Nat \ {0} /\ stack \in Seq(Frame) /\ Top = stack[Len(stack)]
       /\ Top \in Frame /\ DOMAIN stack = 1 .. Len(stack)
  BY <1>0, TopFacts, LenProperties DEF TypeOK, Top
<1>1. CASE \/ SkipSeen \/ Include \/ CompatOk \/ FetchOk \/ PatchOk \/ BuildStart \/ BuildOk
  <2>3. \E f : SetTop(f) /\ f.pkg = Top.pkg
    <3>1. CASE SkipSeen
      <4>1. [Top EXCEPT !.todo = Tail(@)].pkg = Top.pkg
        BY <1>00 DEF Frame
      <4> QED
        BY <3>1, <4>1 DEF SkipSeen
    <3>2. CASE Include
      <4> DEFINE f == [Top EXCEPT
                         !.pc = "deps",
                         !.todo = (IF recursivedeps THEN Deps[Head(Top.todo)] ELSE <<>>) \o Tail(@),
                         !.seen = @ \cup {Head(Top.todo)}]
      <4>1. SetTop(f)
        BY <3>2 DEF Include
      <4>2. f.pkg = Top.pkg
        BY <1>00 DEF Frame
      <4> HIDE DEF f
      <4> QED
        BY <4>1, <4>2
    <3>3. CASE CompatOk \/ FetchOk \/ PatchOk \/ BuildStart \/ BuildOk
      <4>1. PICK pc : Goto(pc)
        BY <3>3, Zenon DEF CompatOk, FetchOk, PatchOk, BuildStart, BuildOk
      <4>2. SetTop([Top EXCEPT !.pc = pc]) /\ [Top EXCEPT !.pc = pc].pkg = Top.pkg
        BY <1>00, <4>1 DEF Goto, Frame
      <4> QED
        BY <4>2
    <3> QED
      BY <1>1, <3>1, <3>2, <3>3
  <2>4. PICK f : stack' = [stack EXCEPT ![Len(stack)] = f] /\ f.pkg = Top.pkg
    BY <2>3 DEF SetTop
  <2>5. DOMAIN stack' = 1 .. Len(stack) /\ Len(stack') = Len(stack)
    BY <1>00, <2>4
  <2>6. ASSUME NEW j \in 1 .. Len(stack) PROVE stack'[j].pkg = stack[j].pkg
    BY <1>00, <2>4
  <2> QED
    BY <2>5, <2>6
<1>2. CASE Descend
  <2> DEFINE d == Head(Top.todo)
             f == [Top EXCEPT !.pc = "include"]
             caller == [stack EXCEPT ![Len(stack)] = f]
  <2>1. /\ Top.todo # <<>> /\ ~hasbeenbuilt(d) /\ d \in Pkg
        /\ \E left : Enter(d, caller, left)
    <3>1. Top.todo # <<>> /\ ~hasbeenbuilt(d)
      BY <1>2 DEF Descend
    <3>2. d \in Pkg
      BY <1>0, <3>1, TopTypes
    <3>3. \E left : Enter(d, [stack EXCEPT ![Len(stack)].pc = "include"], left)
      BY <1>2 DEF Descend
    <3>4. [stack EXCEPT ![Len(stack)].pc = "include"] = caller
      BY DEF Top
    <3> QED
      BY <3>1, <3>2, <3>3, <3>4
  <2>2. dir[d] = "none"
    BY <2>1 DEF hasbeenbuilt
  <2>3. f \in Frame /\ f.pkg = Top.pkg
    BY <1>00, <2>1 DEF Frame, PCs
  <2> HIDE DEF f, d
  <2>4. /\ caller \in Seq(Frame) /\ Len(caller) = Len(stack)
        /\ \A i \in 1 .. Len(stack) : caller[i] = IF i = Len(stack) THEN f ELSE stack[i]
    BY <1>00, <2>3, ExceptSeq
  <2> HIDE DEF caller
  <2>5. PICK left : Enter(d, caller, left)
    BY <2>1
  <2>6. /\ Len(stack') = Len(stack) + 1 /\ Top' = NewFrame(d)
        /\ \A i \in 1 .. Len(stack) : stack'[i] = caller[i]
    BY <2>1, <2>4, <2>5, EnterFacts
  <2>7. stack'[Len(stack) + 1].pkg = d
    BY <2>6 DEF Top, NewFrame
  <2>8. ASSUME NEW j \in 1 .. Len(stack) PROVE stack'[j].pkg = stack[j].pkg
    BY <1>00, <2>3, <2>4, <2>6
  <2>9. \A j \in 1 .. Len(stack') : j \in 1 .. Len(stack) \/ j = Len(stack) + 1
    BY <1>00, <2>6
  <2> QED
    BY <2>1, <2>2, <2>7, <2>8, <2>9
<1>3. CASE Return \/ DryReturn
  <2>1. stack' = Below
    BY <1>3 DEF Return, DryReturn
  <2>2. Len(Below) = Len(stack) - 1 /\ \A i \in 1 .. Len(stack) - 1 : Below[i] = stack[i]
    BY <1>0, BelowFacts DEF TypeOK
  <2>3. \A j \in 1 .. Len(stack) - 1 : j \in 1 .. Len(stack)
    BY <1>00
  <2> QED
    BY <2>1, <2>2, <2>3
<1>4. CASE CompatError \/ FetchFail \/ PatchError \/ BuildFail
  BY <1>4 DEF CompatError, FetchFail, PatchError, BuildFail, Error, ReturnTwo
<1> QED
  BY <1>1, <1>2, <1>3, <1>4 DEF Subshell

(* main's list changes when its package is done.                           *)
LEMMA WorkScript ==
  ASSUME TypeOK, Subshell, phase' = "run", ~dryrun
  PROVE  \/ script' = script /\ pool' = pool
         \/ /\ Return /\ Below = <<>> /\ stack' = <<>>
            /\ Done(Top.pkg) /\ CopyDeb(Top.pkg)
<1>1. CASE SkipSeen \/ Descend \/ Include \/ CompatOk \/ FetchOk \/ PatchOk \/ BuildStart
           \/ BuildOk
  BY <1>1 DEF SkipSeen, Descend, Include, CompatOk, FetchOk, PatchOk, BuildStart, BuildOk,
              steps, tree
<1>2. CASE CompatError \/ FetchFail \/ PatchError \/ BuildFail
  BY <1>2 DEF CompatError, FetchFail, PatchError, BuildFail, Error, ReturnTwo
<1>3. CASE Return
  <2>1. CASE Below = <<>>
    BY <1>3, <2>1 DEF Return
  <2>2. CASE Below # <<>>
    BY <1>3, <2>2 DEF Return
  <2> QED
    BY <2>1, <2>2
<1>4. CASE DryReturn
  BY <1>4 DEF DryReturn
<1> QED
  BY <1>1, <1>2, <1>3, <1>4 DEF Subshell

LEMMA SettledFacts ==
  ASSUME sysroot' = sysroot, visits' = visits
  PROVE  Reached' = Reached /\ Around' = Around /\ Settled' = Settled
BY DEF Reached, Around, Settled

(* A step that copies nothing and leaves what is settled alone.            *)
LEMMA CopiedKept ==
  ASSUME Copying, Copying', SettledOK, CopiedOK, CompleteOK,
         command' = command, crashes' = crashes, Todo' = Todo,
         sysroot' = sysroot, pool' = pool,
         \A p \in Settled : dir'[p] = dir[p] /\ gen'[p] = gen[p]
  PROVE  CopiedOK' /\ CompleteOK'
<1>1. Wanted' = Wanted /\ Reached' = Reached
  BY DEF Wanted, Reached
<1>2. \A u \in sysroot : u[1] # SdkPkg => u[1] \in Settled
  BY DEF Settled, Reached
<1>3. CopiedOK'
  BY <1>1, <1>2 DEF CopiedOK
<1>4. ASSUME crashes = 0, command.verb = "bootstrap",
             NEW p \in command.args \ (Todo \cup {SdkPkg})
      PROVE  pool'[p] = gen'[p]
  <2>1. p \in Settled
    BY <1>4 DEF CopiedOK, Settled
  <2> QED
    BY <1>4, <2>1 DEF CompleteOK
<1>5. CompleteOK'
  BY <1>4 DEF CompleteOK
<1> QED
  BY <1>3, <1>5

LEMMA QuietStep ==
  ASSUME TypeOK, SysrootInv, Rooting, phase' = "run", command' = command, crashes' = crashes,
         sysroot' = sysroot, visits' = visits,
         script' = script \/ (Len(script) = 3 /\ \E p : Done(p)),
         Copying => /\ \A p \in Settled : dir'[p] = dir[p] /\ gen'[p] = gen[p]
                    /\ pool' = pool
                    /\ \A j \in 1 .. Len(stack') : stack'[j].pkg \notin Settled,
         visits # <<>> => LatestBuilt',
         RootBottom'
  PROVE  SysrootInv'
<1>1. /\ Len(script') = Len(script)
      /\ \A i \in 1 .. Len(script) :
           /\ script'[i].op = script[i].op
           /\ script'[i].pkgs \subseteq script[i].pkgs
           /\ i # 1 \/ Len(script) # 3 => script'[i].pkgs = script[i].pkgs
  <2>1. CASE script' = script
    BY <2>1
  <2>2. CASE Len(script) = 3 /\ \E p : Done(p)
    <3>1. script # <<>>
      BY <2>2, EmptySeq
    <3>2. PICK p : Done(p)
      BY <2>2
    <3> QED
      BY <2>2, <3>1, <3>2, ScriptDone
  <2> QED
    BY <2>1, <2>2
<1>2. Rooting' /\ Copying' = Copying
  BY <1>1 DEF Rooting, Copying
<1>3. /\ RootScript /\ CallsEnd /\ SettledOK /\ CopiedOK /\ CompleteOK /\ CallsOK
  BY DEF SysrootInv
<1>4. Len(script) \in {0, 1, 2, 3}
  BY <1>3 DEF RootScript
<1>5. Todo' = Todo
  <2>1. Len(script) = 2 => script'[1].pkgs = script[1].pkgs
    BY <1>1
  <2>2. Len(script) = 3 => script'[2].pkgs = script[2].pkgs
    BY <1>1
  <2> QED
    BY <1>1, <2>1, <2>2 DEF Todo
<1>6. RootScript'
  <2>1. Latest' = Latest
    BY DEF Latest
  <2>2. CASE Len(script) \in {0, 1}
    BY <1>1, <1>2, <1>3, <2>2 DEF RootScript
  <2>3. CASE Len(script) = 2
    <3>1. /\ script[1].op = "visit" /\ script[2].op = "tar"
          /\ script[1].pkgs \subseteq command.args
      BY <1>3, <2>3 DEF RootScript
    <3>2. 1 \in 1 .. 2 /\ 2 \in 1 .. 2
      OBVIOUS
    <3>3. /\ script'[1].op = "visit" /\ script'[2].op = "tar" /\ Len(script') = 2
          /\ script'[1].pkgs \subseteq command'.args
      BY <1>1, <2>3, <3>1, <3>2
    <3> QED
      BY <3>3 DEF RootScript
  <2>4. CASE Len(script) = 3
    <3>1. /\ script[1].op = "build" /\ script[2].op = "visit"
          /\ script[3].op = "tar" /\ script[2].pkgs \subseteq command.args
          /\ visits = <<>> => script[2].pkgs = command.args
          /\ visits # <<>> => script[1].pkgs \subseteq {Latest.pkg}
      BY <1>3, <2>4 DEF RootScript
    <3>2. 1 \in 1 .. 3 /\ 2 \in 1 .. 3 /\ 3 \in 1 .. 3
      OBVIOUS
    <3>3. /\ script'[1].op = "build" /\ script'[2].op = "visit"
          /\ script'[3].op = "tar" /\ script'[2].pkgs \subseteq command'.args /\ Len(script') = 3
          /\ visits' = <<>> => script'[2].pkgs = command'.args
          /\ visits' # <<>> => script'[1].pkgs \subseteq {Latest.pkg}'
      BY <1>1, <2>1, <2>4, <3>1, <3>2
    <3> QED
      BY <3>3 DEF RootScript
  <2> QED
    BY <1>4, <2>2, <2>3, <2>4
<1>7. CallsEnd'
  BY DEF CallsEnd
<1>8. SettledOK'
  BY <1>2, <1>3, SettledFacts DEF SettledOK
<1>9. CopiedOK' /\ CompleteOK'
  <2>1. CASE Copying
    BY <1>2, <1>3, <1>5, <2>1, CopiedKept
  <2>2. CASE ~Copying
    BY <1>2, <2>2 DEF CopiedOK, CompleteOK
  <2> QED
    BY <2>1, <2>2
<1>10. CallsOK'
  <2> SUFFICES ASSUME visits # <<>>
               PROVE  visits'[1].pkg \in Todo' /\ \A i \in 1 .. Len(visits') : CallOK(i)'
    BY DEF CallsOK
  <2>1. visits[1].pkg \in Todo /\ \A i \in 1 .. Len(visits) : CallOK(i)
    BY <1>3 DEF CallsOK
  <2>2. Wanted' = Wanted /\ Reached' = Reached
    BY DEF Wanted, Reached
  <2>3. ASSUME NEW i \in 1 .. Len(visits) PROVE CallOK(i)'
    BY <2>1, <2>2 DEF CallOK
  <2> QED
    BY <1>5, <2>1, <2>3
<1> QED
  BY <1>6, <1>7, <1>8, <1>9, <1>10 DEF SysrootInv

LEMMA WantedType == ASSUME TypeOK PROVE Wanted \in SUBSET Pkg
<1>1. command.args \in SUBSET Pkg
  BY DEF TypeOK, Command
<1>2. \A p : Needs(p, TRUE) \in SUBSET Pkg
  BY DEF Needs
<1> QED
  BY <1>1, <1>2 DEF Wanted

LEMMA SettledType ==
  ASSUME TypeOK, CopiesTypeOK, CopiedOK, CallsOK, Copying
  PROVE  Settled \in SUBSET Pkg
<1>1. Reached \subseteq Pkg
  BY WantedType DEF CopiedOK, Reached
<1>2. Around \subseteq Pkg
  <2>1. CASE visits = <<>>
    <3>1. Len(visits) = 0
      BY <2>1, EmptySeq
    <3>2. 1 .. 0 - 1 = {}
      OBVIOUS
    <3> QED
      BY <3>1, <3>2 DEF Around
  <2>2. CASE visits # <<>>
    <3>1. \A i \in 1 .. Len(visits) : visits[i].pkg \in Wanted
      BY <2>2 DEF CallsOK, CallOK, Copying
    <3>2. Len(visits) \in Nat
      BY EmptySeq DEF CopiesTypeOK, Frames
    <3> QED
      BY <3>1, <3>2, WantedType DEF Around
  <2> QED
    BY <2>1, <2>2
<1> QED
  BY <1>1, <1>2 DEF Settled

(* A step of a subshell, when main's loop is one of builds.                *)
LEMMA RootWork ==
  ASSUME TypeOK, CopiesTypeOK, StackInv, SysrootInv, Rooting, phase' = "run", Subshell, Rest
  PROVE  SysrootInv'
<1>1. /\ Building /\ ~dryrun /\ stack # <<>> /\ Top.pkg \in Pkg
      /\ command' = command /\ crashes' = crashes
      /\ \A p \in Pkg : p # Top.pkg => dir'[p] = dir[p] /\ gen'[p] = gen[p]
  BY RootBuilding, WorkTree DEF Building
<1>2. sysroot' = sysroot /\ visits' = visits
  BY <1>1 DEF Rest, RootMade
<1>3. /\ Len(script) = 3 /\ script # <<>> /\ stack[1].pkg \in script[1].pkgs
      /\ Head(script) = script[1] /\ script[1].op = "build"
  <2>1. Len(script) = 3 /\ stack[1].pkg \in script[1].pkgs
    BY <1>1 DEF SysrootInv, RootBottom
  <2>2. script # <<>>
    BY <2>1, EmptySeq
  <2> QED
    BY <2>1, <2>2, RootHead DEF SysrootInv
<1>4. /\ Len(stack) \in Nat \ {0} /\ Len(stack) \in 1 .. Len(stack) /\ Top = stack[Len(stack)]
  BY <1>1, TopFacts DEF TypeOK, Top
<1>5. \/ script' = script /\ pool' = pool
      \/ /\ Return /\ Below = <<>> /\ stack' = <<>> /\ Done(Top.pkg) /\ pool' = pool
  <2>1. CopyDeb(Top.pkg) => pool' = pool
    BY <1>3 DEF CopyDeb
  <2> QED
    BY <1>1, <2>1, WorkScript
<1>6. ASSUME Copying
      PROVE  /\ \A p \in Settled : dir'[p] = dir[p] /\ gen'[p] = gen[p]
             /\ \A j \in 1 .. Len(stack') : stack'[j].pkg \notin Settled
  <2>1. /\ \A p \in Settled : dir[p] # "none"
        /\ \A j \in 1 .. Len(stack) : stack[j].pkg \notin Settled
        /\ Settled \in SUBSET Pkg
    BY <1>6, SettledType DEF SysrootInv, SettledOK
  <2>2. Top.pkg \notin Settled
    BY <1>4, <2>1
  <2>3. \A j \in 1 .. Len(stack') : stack'[j].pkg \notin Settled
    BY <1>1, <2>1, WorkStack
  <2> QED
    BY <1>1, <2>1, <2>2, <2>3
<1>7. ASSUME visits # <<>> PROVE LatestBuilt'
  <2>1. Latest.pkg = stack[1].pkg /\ Latest' = Latest
    <3>1. script[1].pkgs \subseteq {Latest.pkg}
      BY <1>3, <1>7 DEF SysrootInv, RootScript
    <3> QED
      BY <1>2, <1>3, <3>1 DEF Latest
  <2>2. CASE script' = script
    BY <1>3, <2>1, <2>2 DEF LatestBuilt
  <2>3. CASE Return /\ Below = <<>>
    <3>1. Len(Below) = 0 /\ Len(Below) = Len(stack) - 1
      BY <1>1, <2>3, BelowFacts, EmptySeq DEF TypeOK
    <3>2. Top = stack[1]
      <4>1. Len(stack) = 1
        BY <1>4, <3>1
      <4> QED
        BY <1>4, <4>1
    <3>3. dir[Top.pkg] = "full"
      BY <1>1, <2>3 DEF Return, StackInv, DirsOK
    <3>4. CASE Top.pkg = SdkPkg
      BY <2>1, <3>2, <3>4 DEF LatestBuilt
    <3>5. CASE Top.pkg # SdkPkg
      <4>1. dir' = dir
        BY <2>3, <3>5 DEF Return
      <4>2. dir'[Latest.pkg] # "none"
        BY <2>1, <3>2, <3>3, <4>1
      <4> QED
        BY <2>1, <4>2 DEF LatestBuilt
    <3> QED
      BY <3>4, <3>5
  <2> QED
    BY <1>5, <2>2, <2>3
<1>8. RootBottom'
  <2>1. CASE stack' = <<>>
    BY <2>1 DEF RootBottom
  <2>2. CASE stack' # <<>>
    <3>1. script' = script /\ stack'[1].pkg = stack[1].pkg
      BY <2>2, BottomStays
    <3> QED
      BY <1>3, <3>1 DEF RootBottom
  <2> QED
    BY <2>1, <2>2
<1> QED
  BY <1>1, <1>2, <1>3, <1>5, <1>6, <1>7, <1>8, QuietStep

LEMMA RootMake ==
  ASSUME TypeOK, CopiesTypeOK, SysrootInv, Rooting, NEW p \in Pkg, Make(p), Rest
  PROVE  SysrootInv'
<1>1. /\ phase = "run" /\ stack = <<>> /\ script # <<>> /\ Head(script).op \in {"make", "build"}
      /\ p \in Head(script).pkgs /\ ~hasbeenbuilt(p) /\ Enter(p, stack, staged)
      /\ phase' = phase /\ script' = script /\ dir' = dir /\ gen' = gen /\ pool' = pool
      /\ command' = command /\ crashes' = crashes
  BY DEF Make, MainAt, tree, fixed
<1>2. Len(script) = 3 /\ Head(script) = script[1]
  BY <1>1, RootHead DEF SysrootInv
<1>3. sysroot' = sysroot /\ visits' = visits
  BY <1>1 DEF Rest, RootMade
<1>4. dir[p] = "none"
  BY <1>1 DEF hasbeenbuilt, Rooting, dryrun
<1>5. Len(stack') = 1 /\ stack'[1].pkg = p
  <2>1. stack \in Seq(Frame) /\ Len(stack) = 0
    BY <1>1, EmptySeq DEF TypeOK
  <2>2. Len(stack') = Len(stack) + 1 /\ Top' = NewFrame(p)
    BY <1>1, <2>1, EnterFacts
  <2>3. Len(stack') = 1
    BY <2>1, <2>2
  <2>4. stack'[1] = NewFrame(p)
    BY <2>2, <2>3 DEF Top
  <2> QED
    BY <2>3, <2>4 DEF NewFrame
<1>6. Copying => \A j \in 1 .. Len(stack') : stack'[j].pkg \notin Settled
  BY <1>4, <1>5 DEF SysrootInv, SettledOK
<1>7. visits # <<>> => LatestBuilt'
  <2>1. LatestBuilt' = LatestBuilt
    BY <1>1, <1>3 DEF LatestBuilt, Latest
  <2> QED
    BY <2>1 DEF SysrootInv, CallsOK
<1>8. RootBottom'
  BY <1>1, <1>2, <1>5 DEF RootBottom
<1> QED
  BY <1>1, <1>3, <1>6, <1>7, <1>8, QuietStep

LEMMA RootMakeNothing ==
  ASSUME TypeOK, CopiesTypeOK, SysrootInv, Rooting, NEW p \in Pkg, MakeNothing(p), Rest
  PROVE  SysrootInv'
<1>1. /\ phase = "run" /\ stack = <<>> /\ script # <<>> /\ Head(script).op \in {"make", "build"}
      /\ p \in Head(script).pkgs /\ hasbeenbuilt(p) /\ Done(p) /\ CopyDeb(p)
      /\ phase' = phase /\ stack' = stack /\ dir' = dir /\ gen' = gen
      /\ command' = command /\ crashes' = crashes
  BY DEF MakeNothing, MainAt, fixed
<1>2. Len(script) = 3 /\ Head(script) = script[1] /\ script[1].op = "build"
  BY <1>1, RootHead DEF SysrootInv
<1>3. sysroot' = sysroot /\ visits' = visits
  BY <1>1 DEF Rest, RootMade
<1>4. dir[p] # "none" /\ pool' = pool
  BY <1>1, <1>2 DEF hasbeenbuilt, Rooting, dryrun, CopyDeb
<1>5. Len(stack') = 0
  BY <1>1, EmptySeq
<1>6. visits # <<>> => LatestBuilt'
  <2> SUFFICES ASSUME visits # <<>> PROVE LatestBuilt'
    OBVIOUS
  <2>1. script[1].pkgs \subseteq {Latest.pkg}
    BY <1>2 DEF SysrootInv, RootScript
  <2>2. p = Latest.pkg /\ Latest' = Latest
    BY <1>1, <1>2, <1>3, <2>1 DEF Latest
  <2> QED
    BY <1>1, <1>4, <2>2 DEF LatestBuilt
<1>7. RootBottom'
  BY <1>1 DEF RootBottom
<1> QED
  BY <1>1, <1>2, <1>3, <1>4, <1>5, <1>6, <1>7, QuietStep

(* A loop of main ends.                                                    *)
LEMMA RootLoop ==
  ASSUME TypeOK, CopiesTypeOK, SysrootInv, Rooting, NextLoop, Rest
  PROVE  SysrootInv'
<1>1. /\ phase = "run" /\ stack = <<>> /\ script # <<>> /\ command' = command
      /\ Len(script) \in Nat \ {0} /\ Len(script') = Len(script) - 1
      /\ script[1].pkgs = {}
      /\ \A i \in 1 .. Len(script) - 1 : script'[i] = script[i + 1]
  BY ScriptTail
<1>2. /\ phase' = phase /\ stack' = stack /\ dir' = dir /\ gen' = gen /\ pool' = pool
      /\ crashes' = crashes
  BY DEF NextLoop, tree
<1>3. /\ RootScript /\ CallsEnd /\ SettledOK /\ CopiedOK /\ CompleteOK /\ CallsOK
  BY DEF SysrootInv
<1>4. Rooting' /\ visits' = visits /\ Len(stack') = 0
  BY <1>1, <1>2, EmptySeq DEF Rooting, Rest
<1>5. RootBottom' /\ CallsEnd'
  BY <1>1, <1>2 DEF RootBottom, CallsEnd
<1>6. CASE Len(script) = 3
  <2>1. /\ script[2].op = "visit" /\ script[3].op = "tar"
        /\ script[2].pkgs \subseteq command.args
        /\ visits = <<>> => script[2].pkgs = command.args
    BY <1>3, <1>6 DEF RootScript
  <2>2. Len(script') = 2 /\ script'[1] = script[2] /\ script'[2] = script[3]
    <3>1. 1 \in 1 .. 3 - 1 /\ 2 \in 1 .. 3 - 1 /\ 1 + 1 = 2 /\ 2 + 1 = 3 /\ 3 - 1 = 2
      OBVIOUS
    <3>2. script'[1] = script[1 + 1] /\ script'[2] = script[2 + 1]
      BY <1>1, <1>6, <3>1
    <3> QED
      BY <1>1, <1>6, <3>1, <3>2
  <2>3. RootScript'
    BY <1>1, <2>1, <2>2 DEF RootScript
  <2>4. Copying' /\ Todo' = script[2].pkgs /\ Todo = script[2].pkgs
    BY <1>4, <1>6, <2>2 DEF Copying, Todo
  <2>5. CASE visits = <<>>
    <3>1. RootMade
      BY <1>1, <1>6, <2>1, <2>5 DEF RootMade
    <3>2. sysroot' = {} /\ visits' = <<>> /\ Len(visits') = 0
      BY <1>4, <2>5, <3>1, EmptySeq DEF Rest
    <3>3. Reached' = {} /\ Around' = {} /\ Settled' = {}
      <4>1. 1 .. 0 - 1 = {}
        OBVIOUS
      <4> QED
        BY <3>2, <4>1 DEF Reached, Around, Settled
    <3>4. SettledOK' /\ CallsOK'
      BY <1>4, <3>2, <3>3 DEF SettledOK, CallsOK
    <3>5. CopiedOK'
      BY <1>1, <2>1, <2>4, <2>5, <3>2, <3>3 DEF CopiedOK
    <3>6. CompleteOK'
      BY <1>1, <2>1, <2>4, <2>5, <3>2 DEF CompleteOK
    <3> QED
      BY <1>5, <2>3, <3>4, <3>5, <3>6 DEF SysrootInv
  <2>6. CASE visits # <<>>
    <3>1. Copying /\ sysroot' = sysroot
      BY <2>6 DEF Copying, Rest, RootMade
    <3>2. SettledOK'
      BY <1>2, <1>3, <1>4, <3>1, SettledFacts DEF SettledOK
    <3>3. CopiedOK' /\ CompleteOK'
      BY <1>1, <1>2, <1>3, <2>4, <3>1, CopiedKept
    <3>4. CallsOK'
      <4>1. /\ visits[1].pkg \in Todo /\ \A i \in 1 .. Len(visits) : CallOK(i)
            /\ LatestBuilt
        BY <1>3, <2>6 DEF CallsOK
      <4>2. Wanted' = Wanted /\ Reached' = Reached
        BY <1>1, <3>1 DEF Wanted, Reached
      <4>3. ASSUME NEW i \in 1 .. Len(visits) PROVE CallOK(i)'
        BY <1>4, <4>1, <4>2 DEF CallOK
      <4>4. LatestBuilt'
        <5>1. Latest' = Latest
          BY <1>4 DEF Latest
        <5> QED
          BY <1>1, <1>2, <4>1, <5>1 DEF LatestBuilt
      <4> QED
        BY <1>4, <2>4, <4>1, <4>3, <4>4 DEF CallsOK
    <3> QED
      BY <1>5, <2>3, <3>2, <3>3, <3>4 DEF SysrootInv
  <2> QED
    BY <2>5, <2>6
<1>7. CASE Len(script) \in {1, 2}
  <2>1. visits = <<>>
    <3>1. CASE Len(script) = 1
      BY <1>3, <3>1 DEF RootScript
    <3>2. CASE Len(script) = 2
      BY <1>1, <1>3, <3>2 DEF CallsOK, Todo
    <3> QED
      BY <1>7, <3>1, <3>2
  <2>2. Copying /\ Copying' /\ Todo = {} /\ Todo' = {}
    <3>1. Len(script') # 2 /\ Len(script') # 3 /\ Len(script) # 3
      BY <1>1, <1>7, SMTT(30)
    <3>2. Copying /\ Copying'
      BY <1>4, <3>1 DEF Copying
    <3> QED
      BY <1>1, <3>1, <3>2 DEF Todo
  <2>3. sysroot' = sysroot
    <3>1. Len(script) = 2 => script[2].op = "tar"
      BY <1>3 DEF RootScript
    <3> QED
      BY <1>7, <3>1 DEF Rest, RootMade
  <2>4. RootScript'
    <3>1. CASE Len(script) = 1
      BY <1>1, <1>4, <2>1, <3>1 DEF RootScript
    <3>2. CASE Len(script) = 2
      <4>1. script[2].op = "tar" /\ 1 \in 1 .. 2 - 1 /\ 1 + 1 = 2
        BY <1>3, <3>2 DEF RootScript
      <4>2. script'[1] = script[1 + 1]
        BY <1>1, <3>2, <4>1
      <4> QED
        BY <1>1, <1>4, <2>1, <3>2, <4>1, <4>2 DEF RootScript
    <3> QED
      BY <1>7, <3>1, <3>2
  <2>5. SettledOK'
    BY <1>2, <1>3, <1>4, <2>2, <2>3, SettledFacts DEF SettledOK
  <2>6. CopiedOK' /\ CompleteOK'
    BY <1>1, <1>2, <1>3, <2>2, <2>3, CopiedKept
  <2>7. CallsOK'
    BY <1>4, <2>1 DEF CallsOK
  <2> QED
    BY <1>5, <2>4, <2>5, <2>6, <2>7 DEF SysrootInv
<1>8. Len(script) \in {1, 2, 3}
  BY <1>1, <1>3 DEF RootScript
<1> QED
  BY <1>6, <1>7, <1>8

(* A call of sysroot(): below is what the calls around it have come to.    *)
LEMMA CallFacts ==
  ASSUME TypeOK, CopiesTypeOK, SysrootInv, Rooting, stack = <<>>, Len(script) = 2,
         NEW p \in Pkg, NEW below \in Seq(Visits), Call(p, below)
  PROVE  /\ Rooting' /\ Copying /\ Copying' /\ command' = command /\ crashes' = crashes
         /\ stack' = <<>> /\ phase' = "run" /\ sysroot' = sysroot /\ pool' = pool
         /\ dir' = dir /\ gen' = gen /\ Todo = script[1].pkgs /\ Todo' = Todo
         /\ Len(visits') = Len(below) + 1 /\ visits' # <<>>
         /\ \A i \in 1 .. Len(below) : visits'[i] = below[i]
         /\ visits'[Len(below) + 1] = [pkg |-> p, todo |-> Deps[p]]
         /\ RootScript' /\ LatestBuilt'
<1> DEFINE new == [pkg |-> p, todo |-> Deps[p]]
<1>1. /\ visits' = Append(below, new) /\ sysroot' = sysroot
      /\ VisitBuild(p) \/ (dir[p] # "none" /\ UNCHANGED vars)
  BY DEF Call
<1>2. /\ command' = command /\ crashes' = crashes /\ stack' = stack /\ phase' = phase
      /\ pool' = pool /\ dir' = dir /\ gen' = gen
  BY <1>1 DEF VisitBuild, vars, tree, fixed
<1>3. phase = "run" /\ Rooting'
  BY <1>2 DEF Rooting
<1>4. new \in Visits
  BY DepsAssumption DEF Visits
<1> HIDE DEF new
<1>5. /\ Len(visits') = Len(below) + 1 /\ visits' # <<>>
      /\ \A i \in 1 .. Len(below) : visits'[i] = below[i]
      /\ visits'[Len(below) + 1] = new
  BY <1>1, <1>4, AppendProperties, EmptySeq
<1>6. Latest'.pkg = p
  <2>1. Latest' = new
    BY <1>5 DEF Latest
  <2> QED
    BY <2>1 DEF new
<1>7. /\ script[1].op = "visit" /\ script[2].op = "tar"
      /\ script[1].pkgs \subseteq command.args
  BY DEF SysrootInv, RootScript
<1>8. Copying /\ Copying' /\ Todo = script[1].pkgs
  BY <1>3, <1>5 DEF Copying, Todo
<1>9. CASE VisitBuild(p)
  <2>1. /\ Len(script') = 3
        /\ script'[1] = [op |-> "build", pkgs |-> {p}]
        /\ script'[2] = script[1] /\ script'[3] = script[2]
    BY <1>9, VisitBuildScript
  <2>2. Todo' = script[1].pkgs
    BY <2>1 DEF Todo
  <2>3. RootScript'
    BY <1>2, <1>5, <1>6, <1>7, <2>1 DEF RootScript
  <2>4. LatestBuilt'
    BY <1>6, <2>1 DEF LatestBuilt
  <2> QED
    BY <1>1, <1>2, <1>3, <1>5, <1>8, <2>2, <2>3, <2>4 DEF new
<1>10. CASE dir[p] # "none" /\ UNCHANGED vars
  <2>1. script' = script
    BY <1>10 DEF vars
  <2>2. Todo' = script[1].pkgs /\ RootScript'
    BY <1>2, <1>7, <2>1 DEF Todo, RootScript
  <2>3. LatestBuilt'
    BY <1>2, <1>6, <1>10 DEF LatestBuilt
  <2> QED
    BY <1>1, <1>2, <1>3, <1>5, <1>8, <2>2, <2>3 DEF new
<1> QED
  BY <1>1, <1>9, <1>10

LEMMA RootCall ==
  ASSUME TypeOK, CopiesTypeOK, SysrootInv, Rooting, stack = <<>>, Len(script) = 2,
         NEW p \in Pkg, NEW below \in Seq(Visits), Call(p, below), p \in Wanted,
         IF Len(below) = 0 THEN p \in Todo ELSE below[1].pkg \in Todo /\ p # SdkPkg,
         \A i \in 1 .. Len(below) :
           /\ below[i].pkg \in Wanted
           /\ below[i].pkg = SdkPkg \/ dir[below[i].pkg] # "none"
           /\ i > 1 => below[i].pkg # SdkPkg
           /\ Range(below[i].todo) \subseteq Range(Deps[below[i].pkg])
           /\ \A d \in Range(Deps[below[i].pkg]) :
                \/ d \in Range(below[i].todo) \/ d \in Reached
                \/ i < Len(below) /\ d = below[i + 1].pkg
                \/ i = Len(below) /\ d = p
  PROVE  SysrootInv'
<1> DEFINE n == Len(below)
<1>1. /\ Rooting' /\ Copying /\ Copying' /\ command' = command /\ crashes' = crashes
      /\ stack' = <<>> /\ phase' = "run" /\ sysroot' = sysroot /\ pool' = pool
      /\ dir' = dir /\ gen' = gen /\ Todo = script[1].pkgs /\ Todo' = Todo
      /\ Len(visits') = n + 1 /\ visits' # <<>>
      /\ \A i \in 1 .. n : visits'[i] = below[i]
      /\ visits'[n + 1] = [pkg |-> p, todo |-> Deps[p]]
      /\ RootScript' /\ LatestBuilt'
  BY CallFacts
<1>2. n \in Nat
  BY LenProperties
<1>3. visits'[n + 1].pkg = p /\ visits'[n + 1].todo = Deps[p]
  BY <1>1
<1> HIDE DEF n
<1>4. SettledOK /\ CopiedOK /\ CompleteOK
  BY DEF SysrootInv
<1>5. RootBottom' /\ CallsEnd'
  BY <1>1 DEF RootBottom, CallsEnd
<1>6. CopiedOK' /\ CompleteOK'
  BY <1>1, <1>4, CopiedKept
<1>7. SettledOK'
  <2>1. Around' = {visits'[i].pkg : i \in 1 .. n}
    <3>1. Len(visits') - 1 = n
      BY <1>1, <1>2
    <3> QED
      BY <3>1 DEF Around
  <2>2. \A q \in Around' : q = SdkPkg \/ dir[q] # "none"
    BY <1>1, <2>1 DEF n
  <2>3. \A q \in Reached : q = SdkPkg \/ dir[q] # "none"
    BY <1>1, <1>4 DEF SettledOK, Settled
  <2>4. Reached' = Reached
    BY <1>1 DEF Reached
  <2>5. \A q \in Settled' : dir'[q] # "none"
    BY <1>1, <2>2, <2>3, <2>4 DEF Settled
  <2>6. 1 .. Len(stack') = {}
    BY <1>1, EmptySeq
  <2> QED
    BY <2>5, <2>6 DEF SettledOK
<1>8. Wanted' = Wanted /\ Reached' = Reached
  BY <1>1 DEF Wanted, Reached
<1>9. visits'[1].pkg \in Todo'
  <2>1. CASE n = 0
    BY <1>1, <1>3, <2>1 DEF n
  <2>2. CASE n # 0
    <3>1. 1 \in 1 .. n
      BY <1>2, <2>2
    <3> QED
      BY <1>1, <2>2, <3>1 DEF n
  <2> QED
    BY <2>1, <2>2
<1>10. ASSUME NEW i \in 1 .. n PROVE CallOK(i)'
  <2>1. visits'[i] = below[i] /\ i < n + 1
    BY <1>1, <1>2
  <2>2. ASSUME NEW d \in Range(Deps[below[i].pkg])
        PROVE  \/ d \in Range(below[i].todo) \/ d \in Reached
               \/ d = visits'[i + 1].pkg
    <3>1. CASE i < n /\ d = below[i + 1].pkg
      <4>1. i + 1 \in 1 .. n
        BY <1>2, <3>1
      <4> QED
        BY <1>1, <3>1, <4>1
    <3>2. CASE i = n /\ d = p
      BY <1>3, <3>2
    <3> QED
      BY <2>2, <3>1, <3>2 DEF n
  <2>3. /\ below[i].pkg \in Wanted
        /\ i > 1 => below[i].pkg # SdkPkg
        /\ Range(below[i].todo) \subseteq Range(Deps[below[i].pkg])
    BY DEF n
  <2> QED
    BY <1>1, <1>8, <2>1, <2>2, <2>3 DEF CallOK
<1>11. CallOK(n + 1)'
  <2>1. n + 1 > 1 => p # SdkPkg
    BY <1>2 DEF n
  <2> QED
    BY <1>3, <1>8, <2>1 DEF CallOK
<1>12. \A i \in 1 .. n + 1 : i \in 1 .. n \/ i = n + 1
  BY <1>2
<1>13. \A i \in 1 .. Len(visits') : CallOK(i)'
  BY <1>1, <1>10, <1>11, <1>12
<1>14. CallsOK'
  BY <1>1, <1>9, <1>13 DEF CallsOK
<1> QED
  BY <1>1, <1>5, <1>6, <1>7, <1>14 DEF SysrootInv

(* main calls sysroot() for a package of its loop.                         *)
LEMMA RootNamed ==
  ASSUME TypeOK, CopiesTypeOK, SysrootInv, Rooting, CallNamed
  PROVE  SysrootInv'
<1>1. /\ stack = <<>> /\ script # <<>> /\ Head(script).op = "visit" /\ visits = <<>>
      /\ \E p \in Head(script).pkgs : Call(p, <<>>)
  BY DEF CallNamed, MainAt
<1>2. Len(script) = 2 /\ Head(script) = script[1]
  BY <1>1, RootHead DEF SysrootInv
<1>3. PICK p \in script[1].pkgs : Call(p, <<>>)
  BY <1>1, <1>2
<1>4. script[1].pkgs \subseteq command.args
  BY <1>2 DEF SysrootInv, RootScript
<1>5. p \in Wanted /\ p \in Pkg /\ p \in Todo
  BY <1>2, <1>3, <1>4, WantedType DEF Wanted, Todo
<1>6. <<>> \in Seq(Visits) /\ Len(<<>>) = 0 /\ 1 .. 0 = {}
  BY EmptySeq
<1> QED
  BY <1>1, <1>2, <1>3, <1>5, <1>6, RootCall

LEMMA WantedClosed ==
  ASSUME TypeOK, NEW p \in Wanted
  PROVE  p \in Pkg /\ Range(Deps[p]) \subseteq Wanted
<1>1. p \in Pkg /\ command.args \subseteq Pkg
  BY WantedType DEF Wanted
<1>2. CASE p \in command.args
  <2>1. Range(Deps[p]) \subseteq Needs(p, TRUE)
    BY <1>1, NeedsFacts
  <2> QED
    BY <1>1, <1>2, <2>1 DEF Wanted
<1>3. ASSUME NEW a \in command.args, p \in Needs(a, TRUE)
      PROVE  p \in Pkg /\ Range(Deps[p]) \subseteq Wanted
  <2>1. Range(Deps[p]) \subseteq Needs(a, TRUE)
    BY <1>1, <1>3, NeedsFacts
  <2> QED
    BY <1>1, <1>3, <2>1 DEF Wanted
<1> QED
  BY <1>2, <1>3 DEF Wanted

(* sysroot() calls itself for the next line of its list.                   *)
LEMMA RootDep ==
  ASSUME TypeOK, CopiesTypeOK, SysrootInv, Rooting, CallDep
  PROVE  SysrootInv'
<1> DEFINE n == Len(visits)
           p == Head(Latest.todo)
           below == [visits EXCEPT ![n].todo = Tail(@)]
<1>1. /\ stack = <<>> /\ script # <<>> /\ Head(script).op = "visit" /\ visits # <<>>
      /\ Latest.todo # <<>> /\ Call(p, below) /\ Reading
  BY DEF CallDep, Reading, MainAt
<1>2. Len(script) = 2
  BY <1>1, RootHead DEF SysrootInv
<1>3. /\ Latest \in Visits /\ visits \in Seq(Visits) /\ n \in Nat \ {0} /\ n \in 1 .. n
      /\ Latest = visits[n]
  BY <1>1, LatestFacts DEF Latest
<1>4. /\ visits[1].pkg \in Todo /\ \A i \in 1 .. n : CallOK(i)
      /\ LatestBuilt
  BY <1>1 DEF SysrootInv, CallsOK
<1>5. Copying /\ SettledOK
  BY <1>2 DEF Copying, SysrootInv
<1>6. p \in Pkg /\ below \in Seq(Visits)
  BY <1>1, RestOfCaller
<1>7. /\ Latest.todo \in Seq(Pkg)
      /\ p \in Range(Latest.todo) /\ Range(Latest.todo) = {p} \cup Range(Tail(Latest.todo))
  BY <1>1, <1>3, RangeFacts DEF Visits
<1> DEFINE v == [Latest EXCEPT !.todo = Tail(@)]
<1>8. below = [visits EXCEPT ![n] = v]
  BY DEF Latest
<1>9. v \in Visits /\ v.pkg = Latest.pkg /\ v.todo = Tail(Latest.todo)
  <2>1. Tail(Latest.todo) \in Seq(Pkg)
    BY <1>1, <1>7, HeadTailProperties
  <2> QED
    BY <1>3, <2>1 DEF Visits
<1> HIDE DEF v, below, p
<1>10. /\ Len(below) = n
       /\ \A i \in 1 .. n : below[i] = IF i = n THEN v ELSE visits[i]
  BY <1>3, <1>8, <1>9, ExceptSeq
<1> HIDE DEF n
<1>11. \A i \in 1 .. n : below[i].pkg = visits[i].pkg
  BY <1>3, <1>9, <1>10
<1>12. /\ Latest.pkg \in Wanted
       /\ Range(Latest.todo) \subseteq Range(Deps[Latest.pkg])
  BY <1>3, <1>4 DEF CallOK
<1>13. p \in Wanted /\ p # SdkPkg
  <2>1. p \in Range(Deps[Latest.pkg]) /\ Latest.pkg \in Pkg
    BY <1>7, <1>12, WantedClosed
  <2> QED
    BY <1>12, <2>1, WantedClosed, DepsFacts
<1>14. below[1].pkg \in Todo
  <2>1. 1 \in 1 .. n
    BY <1>3
  <2> QED
    BY <1>4, <1>11, <2>1
<1>15. ASSUME NEW i \in 1 .. n
       PROVE  below[i].pkg = SdkPkg \/ dir[below[i].pkg] # "none"
  <2>1. CASE i = n
    BY <1>2, <1>3, <1>4, <1>11, <2>1 DEF LatestBuilt
  <2>2. CASE i # n
    <3>1. i \in 1 .. n - 1
      BY <1>3, <2>2
    <3>2. visits[i].pkg \in Around
      BY <3>1 DEF Around, n
    <3> QED
      BY <1>5, <1>11, <3>2 DEF SettledOK, Settled
  <2> QED
    BY <2>1, <2>2
<1>16. ASSUME NEW i \in 1 .. n
       PROVE  /\ Range(below[i].todo) \subseteq Range(Deps[below[i].pkg])
              /\ \A d \in Range(Deps[below[i].pkg]) :
                   \/ d \in Range(below[i].todo) \/ d \in Reached
                   \/ i < n /\ d = below[i + 1].pkg
                   \/ i = n /\ d = p
  <2>1. CASE i = n
    <3>1. below[i] = v
      BY <1>10, <2>1
    <3>2. ASSUME NEW d \in Range(Deps[Latest.pkg])
          PROVE  d \in Range(Latest.todo) \/ d \in Reached
      <4>1. CallOK(n)
        BY <1>3, <1>4
      <4>2. ~(n < n)
        BY <1>3
      <4> QED
        BY <1>3, <4>1, <4>2 DEF CallOK, n
    <3> QED
      BY <1>7, <1>9, <1>12, <2>1, <3>1, <3>2
  <2>2. CASE i # n
    <3>1. below[i] = visits[i] /\ i < n /\ i + 1 \in 1 .. n
      BY <1>3, <1>10, <2>2
    <3>2. below[i + 1].pkg = visits[i + 1].pkg
      BY <1>11, <3>1
    <3>3. CallOK(i)
      BY <1>4
    <3> QED
      BY <3>1, <3>2, <3>3 DEF CallOK
  <2> QED
    BY <2>1, <2>2
<1>17. \A i \in 1 .. n : /\ below[i].pkg \in Wanted
                         /\ i > 1 => below[i].pkg # SdkPkg
  BY <1>4, <1>11 DEF CallOK
<1>18. n # 0
  BY <1>3
<1> QED
  BY <1>1, <1>2, <1>6, <1>10, <1>13, <1>14, <1>15, <1>16, <1>17, <1>18, RootCall

(* The copy of a package whose dependencies have all been copied.          *)
LEMMA CopyFacts ==
  ASSUME TypeOK, CopiesTypeOK, NoHalfBuilt, SysrootInv, Rooting, Copy, NEW p, p = Latest.pkg
  PROVE  /\ stack = <<>> /\ Len(script) = 2 /\ Head(script) = script[1]
         /\ script[1].op = "visit" /\ Copying /\ visits # <<>>
         /\ Len(visits) \in Nat \ {0} /\ visits[Len(visits)].pkg = p
         /\ p \in Pkg /\ p \in Wanted /\ (p = SdkPkg \/ dir[p] # "none")
         /\ Reached' = IF dir[p] = "none" THEN Reached ELSE Reached \cup {p}
         /\ Range(Deps[p]) \subseteq Reached
         /\ \A u \in sysroot' : u \in sysroot \/ u = <<p, gen[p], dir[p]>>
         /\ crashes = 0 /\ dir[p] # "none" => dir[p] = "full"
         /\ \A u \in sysroot' : u \in sysroot \/ dir[p] # "none"
<1>1. /\ stack = <<>> /\ script # <<>> /\ Head(script).op = "visit" /\ visits # <<>>
      /\ Latest.todo = <<>> /\ Reading /\ sysroot' = sysroot \cup Output(p)
  BY DEF Copy, Reading, MainAt
<1>2. Len(script) = 2 /\ Head(script) = script[1]
  BY <1>1, RootHead DEF SysrootInv
<1>3. /\ Latest \in Visits /\ Len(visits) \in Nat \ {0}
      /\ Len(visits) \in 1 .. Len(visits) /\ Latest = visits[Len(visits)]
  BY <1>1, LatestFacts DEF Latest
<1>4. p \in Pkg
  BY <1>3 DEF Visits
<1>5. CallOK(Len(visits)) /\ LatestBuilt
  BY <1>1, <1>3 DEF SysrootInv, CallsOK
<1>6. p \in Wanted /\ Range(Deps[p]) \subseteq Reached
  <2>1. Range(Latest.todo) = {}
    BY <1>1, RangeEmpty
  <2>2. ~(Len(visits) < Len(visits))
    BY <1>3
  <2> QED
    BY <1>3, <1>5, <2>1, <2>2 DEF CallOK
<1>7. p = SdkPkg \/ dir[p] # "none"
  BY <1>2, <1>5 DEF LatestBuilt
<1>8. Output(p) = IF dir[p] = "none" THEN {} ELSE {<<p, gen[p], dir[p]>>}
  BY DEF Output, Rooting, dryrun
<1>9. Reached' = IF dir[p] = "none" THEN Reached ELSE Reached \cup {p}
  <2>1. CASE dir[p] = "none"
    BY <1>1, <1>8, <2>1 DEF Reached
  <2>2. CASE dir[p] # "none"
    <3> DEFINE v == <<p, gen[p], dir[p]>>
    <3>1. sysroot' = sysroot \cup {v} /\ v[1] = p
      BY <1>1, <1>8, <2>2
    <3> HIDE DEF v
    <3>2. Reached' = {u[1] : u \in sysroot \cup {v}}
      BY <3>1 DEF Reached
    <3>3. Reached' = Reached \cup {p}
      BY <3>1, <3>2 DEF Reached
    <3> QED
      BY <2>2, <3>3
  <2> QED
    BY <2>1, <2>2
<1>10. crashes = 0 /\ dir[p] # "none" => dir[p] = "full"
  BY <1>1, <1>4 DEF NoHalfBuilt, At, TypeOK
<1> QED
  BY <1>1, <1>2, <1>3, <1>4, <1>6, <1>7, <1>8, <1>9, <1>10 DEF Copying

LEMMA RootCopy ==
  ASSUME TypeOK, CopiesTypeOK, NoHalfBuilt, Attempted, DebsOK, SysrootInv, Rooting, Copy
  PROVE  SysrootInv'
<1> DEFINE n == Len(visits)
<1>0. PICK p : p = Latest.pkg
  OBVIOUS
<1>1. /\ stack = <<>> /\ Len(script) = 2 /\ Head(script) = script[1]
      /\ script[1].op = "visit" /\ Copying /\ visits # <<>>
      /\ n \in Nat \ {0} /\ visits[n].pkg = p
      /\ p \in Pkg /\ p \in Wanted /\ (p = SdkPkg \/ dir[p] # "none")
      /\ Reached' = IF dir[p] = "none" THEN Reached ELSE Reached \cup {p}
      /\ Range(Deps[p]) \subseteq Reached
      /\ \A u \in sysroot' : u \in sysroot \/ u = <<p, gen[p], dir[p]>>
      /\ crashes = 0 /\ dir[p] # "none" => dir[p] = "full"
      /\ \A u \in sysroot' : u \in sysroot \/ dir[p] # "none"
  BY <1>0, CopyFacts
<1>2. /\ RootScript /\ CallsEnd /\ SettledOK /\ CopiedOK /\ CompleteOK /\ CallsOK
  BY DEF SysrootInv
<1>3. /\ script[2].op = "tar" /\ script[1].pkgs \subseteq command.args /\ Todo = script[1].pkgs
  BY <1>1, <1>2 DEF RootScript, Todo
<1>4. /\ visits[1].pkg \in Todo /\ \A i \in 1 .. n : CallOK(i)
  BY <1>1, <1>2 DEF CallsOK
<1>5. phase = "run" /\ phase' = "run" /\ stack' = <<>> /\ command' = command /\ dir' = dir /\ gen' = gen
      /\ crashes' = crashes
  BY <1>1 DEF Copy, Visited, vars, tree, fixed, Rooting
<1>6. /\ Len(visits') = n - 1 /\ \A i \in 1 .. n - 1 : visits'[i] = visits[i]
      /\ visits' \in Seq(Visits)
  <2>1. visits' = SubSeq(visits, 1, n - 1) /\ visits \in Seq(Visits)
    BY DEF Copy, CopiesTypeOK, Frames, Visits
  <2>2. n - 1 \in Nat /\ n - 1 < n
    BY <1>1
  <2> HIDE DEF n
  <2>3. n = Len(visits)
    BY DEF n
  <2> QED
    BY <2>1, <2>2, <2>3, PrefixFacts
<1> HIDE DEF n
<1>7. Rooting' /\ RootBottom' /\ CallsEnd' /\ Wanted' = Wanted
  BY <1>5 DEF Rooting, RootBottom, CallsEnd, Wanted
<1>8. /\ \A u \in sysroot' : u[1] \in Wanted /\ (u[1] # SdkPkg => u[2] = gen[u[1]])
      /\ \A q \in Reached' : Range(Deps[q]) \subseteq Reached'
      /\ \A q \in command.args \ Todo :
           (q = SdkPkg \/ q \in Reached') /\ Range(Deps[q]) \subseteq Reached'
      /\ p = SdkPkg \/ p \in Reached'
      /\ Range(Deps[p]) \subseteq Reached'
  <2>1. /\ \A u \in sysroot : u[1] \in Wanted /\ (u[1] # SdkPkg => u[2] = gen[u[1]])
        /\ \A q \in Reached : Range(Deps[q]) \subseteq Reached
        /\ \A q \in command.args \ Todo :
             (q = SdkPkg \/ q \in Reached) /\ Range(Deps[q]) \subseteq Reached
    BY <1>1, <1>2 DEF CopiedOK
  <2>2. Reached \subseteq Reached' /\ \A q \in Reached' : q \in Reached \/ q = p
    BY <1>1
  <2>3. ASSUME NEW u \in sysroot'
        PROVE  u[1] \in Wanted /\ (u[1] # SdkPkg => u[2] = gen[u[1]])
    BY <1>1, <2>1, <2>3
  <2> QED
    BY <1>1, <2>1, <2>2, <2>3
<1>9. ASSUME crashes = 0, NEW u \in sysroot' PROVE u[3] = "full"
  BY <1>1, <1>2, <1>9 DEF CompleteOK
<1>10. Settled' = (Reached' \cup Around') \ {SdkPkg}
  BY DEF Settled
<1>11. \A q \in Reached' : q = SdkPkg \/ dir'[q] # "none"
  <2>1. \A q \in Reached : q = SdkPkg \/ dir[q] # "none"
    BY <1>1, <1>2 DEF SettledOK, Settled
  <2> QED
    BY <1>1, <1>5, <2>1
<1>12. 1 .. Len(stack') = {}
  BY <1>5, EmptySeq
<1>13. CASE n = 1
  <2>1. /\ Done(p)
        /\ command.verb = "bootstrap" => CopyDeb(p)
    BY <1>0, <1>13 DEF Copy, Visited, n
  <2>2. script # <<>>
    BY <1>1, EmptySeq
  <2>3. /\ Len(script') = 2
        /\ script'[1].op = script[1].op /\ script'[1].pkgs = script[1].pkgs \ {p}
        /\ script'[2].op = script[2].op
    <3>1. Len(script') = Len(script)
          /\ \A i \in 1 .. Len(script) :
               /\ script'[i].op = script[i].op
               /\ script'[i].pkgs = IF i = 1 THEN script[i].pkgs \ {p} ELSE script[i].pkgs
      BY <2>1, <2>2, ScriptDone
    <3>2. 1 \in 1 .. 2 /\ 2 \in 1 .. 2
      OBVIOUS
    <3> QED
      BY <1>1, <3>1, <3>2
  <2>4. Todo' = Todo \ {p} /\ RootScript' /\ Copying'
    BY <1>1, <1>3, <1>5, <1>7, <2>3 DEF Todo, RootScript, Copying
  <2>5. visits' = <<>> /\ Around' = {}
    <3>1. Len(visits') = 0
      BY <1>6, <1>13
    <3>2. 1 .. 0 - 1 = {}
      OBVIOUS
    <3> QED
      BY <1>6, <3>1, <3>2, EmptySeq DEF Around
  <2>6. SettledOK' /\ CallsOK'
    BY <1>10, <1>11, <1>12, <2>5 DEF SettledOK, CallsOK
  <2>7. CopiedOK'
    BY <1>5, <1>7, <1>8, <2>4 DEF CopiedOK
  <2>8. ASSUME crashes = 0, command.verb = "bootstrap",
               NEW q \in command.args \ (Todo' \cup {SdkPkg})
        PROVE  pool'[q] = gen[q]
    <3>1. q \in Pkg
      BY WantedType DEF Wanted
    <3>2. pool' = IF deb[p] = 0 THEN pool ELSE [pool EXCEPT ![p] = deb[p]]
      BY <1>1, <2>1, <2>8 DEF CopyDeb, dryrun
    <3>3. CASE q = p
      <4>1. dir[p] = "full" /\ deb[p] = gen[p] /\ gen[p] # 0
        BY <1>1, <2>8, <3>3 DEF DebsOK, Attempted
      <4>2. pool' = [pool EXCEPT ![p] = deb[p]]
        BY <3>2, <4>1
      <4> QED
        BY <3>1, <3>3, <4>1, <4>2 DEF TypeOK
    <3>4. CASE q # p
      <4>1. pool'[q] = pool[q]
        BY <3>1, <3>2, <3>4 DEF TypeOK
      <4>2. q \in command.args \ (Todo \cup {SdkPkg})
        BY <2>4, <2>8, <3>4
      <4> QED
        BY <1>1, <1>2, <2>8, <4>1, <4>2 DEF CompleteOK
    <3> QED
      BY <3>3, <3>4
  <2>9. CompleteOK'
    BY <1>5, <1>9, <2>8 DEF CompleteOK
  <2> QED
    BY <1>7, <2>4, <2>6, <2>7, <2>9 DEF SysrootInv
<1>14. CASE n # 1
  <2>1. script' = script /\ pool' = pool
    BY <1>14 DEF Copy, vars, tree, n
  <2>2. n - 1 \in 1 .. n - 1 /\ n - 1 \in 1 .. n /\ 1 \in 1 .. n - 1 /\ n \in 1 .. n /\ n > 1
        /\ n - 1 + 1 = n
    BY <1>1, <1>14
  <2>3. visits' # <<>> /\ Latest' = visits[n - 1]
    BY <1>6, <2>2, EmptySeq DEF Latest
  <2>4. Todo' = Todo /\ RootScript' /\ Copying'
    BY <1>1, <1>2, <1>5, <1>7, <2>1 DEF Todo, RootScript, Copying
  <2>5. p # SdkPkg /\ p \in Reached'
    <3>1. CallOK(n)
      BY <1>4, <2>2
    <3> QED
      BY <1>1, <1>8, <2>2, <3>1 DEF CallOK
  <2>6. Around' \subseteq Around
    <3>1. \A i \in 1 .. (n - 1) - 1 : i \in 1 .. n - 1
      BY <1>1
    <3>2. Around' = {visits'[i].pkg : i \in 1 .. (n - 1) - 1}
      BY <1>6 DEF Around
    <3> QED
      BY <1>6, <3>1, <3>2 DEF Around, n
  <2>7. \A q \in Around : q = SdkPkg \/ dir'[q] # "none"
    BY <1>1, <1>2, <1>5 DEF SettledOK, Settled
  <2>8. SettledOK'
    BY <1>10, <1>11, <1>12, <2>6, <2>7 DEF SettledOK
  <2>9. CopiedOK'
    BY <1>5, <1>7, <1>8, <2>4 DEF CopiedOK
  <2>10. CompleteOK'
    BY <1>1, <1>2, <1>5, <1>9, <2>1, <2>4 DEF CompleteOK
  <2>11. ASSUME NEW i \in 1 .. n - 1 PROVE CallOK(i)'
    <3>1. CallOK(i) /\ visits'[i] = visits[i] /\ i \in 1 .. n
      BY <1>1, <1>4, <1>6
    <3>2. ASSUME NEW d \in Range(Deps[visits[i].pkg])
          PROVE  \/ d \in Range(visits[i].todo) \/ d \in Reached'
                 \/ i < n - 1 /\ d = visits'[i + 1].pkg
      <4>1. CASE d \in Range(visits[i].todo) \/ d \in Reached
        BY <1>1, <4>1
      <4>2. CASE i < n /\ d = visits[i + 1].pkg
        <5>1. CASE i = n - 1
          BY <1>1, <2>2, <2>5, <4>2, <5>1
        <5>2. CASE i # n - 1
          <6>1. i < n - 1 /\ i + 1 \in 1 .. n - 1
            BY <1>1, <5>2
          <6> QED
            BY <1>6, <4>2, <6>1
        <5> QED
          BY <5>1, <5>2
      <4> QED
        BY <3>1, <4>1, <4>2 DEF CallOK, n
    <3> QED
      BY <1>6, <1>7, <3>1, <3>2 DEF CallOK
  <2>12. LatestBuilt'
    <3>1. visits[n - 1].pkg \in Around
      BY <2>2 DEF Around, n
    <3> QED
      BY <2>3, <2>7, <3>1 DEF LatestBuilt
  <2>13. visits'[1].pkg \in Todo'
    BY <1>4, <1>6, <2>2, <2>4
  <2>14. CallsOK'
    BY <1>6, <2>11, <2>12, <2>13 DEF CallsOK
  <2> QED
    BY <1>7, <2>4, <2>8, <2>9, <2>10, <2>14 DEF SysrootInv
<1> QED
  BY <1>13, <1>14

--------------------------------------------------------------------------------
(* Every step.                                                             *)

LEMMA RootStart ==
  ASSUME TypeOK, StackInv, SysrootInv, Rooting', Start, Rest
  PROVE  SysrootInv'
<1>1. /\ phase = "idle" /\ phase' = "run" /\ stack' = stack
      /\ script' = Script(command') /\ command'.verb \in {"sysroot", "bootstrap"}
  BY DEF Start, Begin, DepcheckError, Rooting
<1>2. visits = <<>> /\ visits' = visits /\ stack' = <<>>
  BY <1>1 DEF Rest, SysrootInv, CallsEnd, StackInv, Dry
<1>3. script' = SysrootLoops(command'.args)
  BY <1>1 DEF Script
<1>4. /\ Len(script') = 3 /\ script'[1].op = "build" /\ script'[2].op = "visit"
      /\ script'[3].op = "tar" /\ script'[2].pkgs = command'.args
  BY <1>3 DEF SysrootLoops
<1>5. RootScript'
  BY <1>2, <1>4 DEF RootScript
<1>6. ~Copying'
  BY <1>2, <1>4 DEF Copying
<1>7. RootBottom' /\ CallsEnd' /\ SettledOK' /\ CopiedOK' /\ CompleteOK' /\ CallsOK'
  BY <1>1, <1>2, <1>6 DEF RootBottom, CallsEnd, SettledOK, CopiedOK, CompleteOK, CallsOK
<1> QED
  BY <1>5, <1>7 DEF SysrootInv

LEMMA CallPhase ==
  ASSUME CallNamed \/ CallDep \/ Copy
  PROVE  phase = "run" /\ phase' = "run" /\ command' = command
<1>1. CASE CallNamed \/ CallDep
  <2>1. PICK p, below : Call(p, below)
    BY <1>1 DEF CallNamed, CallDep
  <2>2. phase = "run"
    BY <1>1 DEF CallNamed, CallDep, Reading, MainAt
  <2> QED
    BY <2>1, <2>2 DEF Call, VisitBuild, vars, fixed
<1>2. CASE Copy
  BY <1>2 DEF Copy, Reading, MainAt, Visited, vars, fixed
<1> QED
  BY <1>1, <1>2

LEMMA RootStep ==
  ASSUME TypeOK, CopiesTypeOK, StackInv, NoHalfBuilt, Attempted, DebsOK, SysrootInv,
         [AllNext]_<<vars, copies>>
  PROVE  SysrootInv'
<1>1. [Next]_vars
  BY AllStep
<1>2. CASE ~Rooting'
  <2>1. CallsEnd'
    <3>1. CASE Elsewhere
      BY <3>1 DEF Elsewhere, Rest, CallsEnd
    <3>2. CASE CallNamed \/ CallDep \/ Copy
      BY <3>2, CallPhase DEF CallsEnd
    <3>3. CASE UNCHANGED <<vars, copies>>
      BY <3>3 DEF vars, copies, CallsEnd, SysrootInv
    <3> QED
      BY <3>1, <3>2, <3>3 DEF AllNext
  <2>2. RootScript' /\ RootBottom' /\ SettledOK' /\ CopiedOK' /\ CompleteOK' /\ CallsOK'
    BY <1>2 DEF RootScript, RootBottom, SettledOK, CopiedOK, CompleteOK, CallsOK, Copying
  <2> QED
    BY <2>1, <2>2 DEF SysrootInv
<1>3. CASE Rooting' /\ ~Rooting
  <2>1. phase' = "run"
    BY <1>3 DEF Rooting
  <2>2. Start \/ (phase = "run" /\ command' = command)
    <3>1. NextLoop => phase = "run" /\ command' = command
      BY DEF NextLoop, fixed
    <3>2. (\E p \in Pkg : VisitBuild(p)) => phase = "run" /\ command' = command
      BY DEF VisitBuild, MainAt, fixed
    <3> QED
      BY <1>1, <2>1, <3>1, <3>2, ScriptStays
  <2>3. Start
    BY <1>3, <2>2 DEF Rooting
  <2>4. phase = "idle"
    BY <2>3 DEF Start, Begin, DepcheckError
  <2>5. Elsewhere
    <3>1. ~UNCHANGED <<vars, copies>>
      BY <2>1, <2>4 DEF vars
    <3>2. ~(CallNamed \/ CallDep \/ Copy)
      BY <2>4, CallPhase
    <3> QED
      BY <3>1, <3>2 DEF AllNext
  <2> QED
    BY <1>3, <2>3, <2>5, RootStart DEF Elsewhere
<1>4. CASE Rooting' /\ Rooting
  <2>1. phase' = "run" /\ phase = "run"
    BY <1>4 DEF Rooting
  <2>2. CASE UNCHANGED <<vars, copies>>
    <3>1. /\ command' = command /\ crashes' = crashes /\ sysroot' = sysroot /\ visits' = visits
          /\ script' = script /\ dir' = dir /\ gen' = gen /\ pool' = pool /\ stack' = stack
      BY <2>2 DEF vars, copies, tree, fixed
    <3>2. Copying => \A j \in 1 .. Len(stack') : stack'[j].pkg \notin Settled
      BY <3>1 DEF SysrootInv, SettledOK
    <3>3. visits # <<>> => LatestBuilt'
      <4>1. LatestBuilt' = LatestBuilt
        BY <3>1 DEF LatestBuilt, Latest
      <4> QED
        BY <1>4, <4>1 DEF SysrootInv, CallsOK
    <3>4. RootBottom'
      BY <1>4, <3>1 DEF SysrootInv, RootBottom
    <3> QED
      BY <1>4, <2>1, <3>1, <3>2, <3>3, <3>4, QuietStep
  <2>3. CASE Elsewhere
    <3>0. Rest
      BY <2>3 DEF Elsewhere
    <3>1. CASE Subshell
      BY <1>4, <2>1, <3>0, <3>1, RootWork
    <3>2. CASE NextLoop
      BY <1>4, <3>0, <3>2, RootLoop
    <3>3. ASSUME NEW p \in Pkg, Make(p) PROVE SysrootInv'
      BY <1>4, <3>0, <3>3, RootMake
    <3>4. ASSUME NEW p \in Pkg, MakeNothing(p) PROVE SysrootInv'
      BY <1>4, <3>0, <3>4, RootMakeNothing
    <3>5. ASSUME NEW p \in Pkg, Remove(p) PROVE FALSE
      <4>1. script # <<>> /\ Head(script).op \in {"rm", "rmdeb", "rmpool"}
        BY <3>5 DEF Remove, MainAt
      <4> QED
        BY <1>4, <4>1, RootHead DEF SysrootInv
    <3>6. CASE Start \/ Finish \/ TarError \/ Unwind \/ Crash
      BY <2>1, <3>6 DEF Start, Begin, DepcheckError, Finish, TarError, Unwind, CallerError, ExitOne, Failed, Crash
    <3> QED
      BY <2>3, <3>1, <3>2, <3>3, <3>4, <3>5, <3>6 DEF Elsewhere, Main
  <2>4. CASE CallNamed
    BY <1>4, <2>4, RootNamed
  <2>5. CASE CallDep
    BY <1>4, <2>5, RootDep
  <2>6. CASE Copy
    BY <1>4, <2>6, RootCopy
  <2> QED
    BY <2>2, <2>3, <2>4, <2>5, <2>6 DEF AllNext
<1> QED
  BY <1>2, <1>3, <1>4

LEMMA DebsNext ==
  ASSUME TypeOK, DebsOK, [Next]_vars
  PROVE  DebsOK'
<1> SUFFICES ASSUME crashes' = 0, NEW p \in Pkg, dir'[p] = "full" PROVE deb'[p] = gen'[p]
  BY DEF DebsOK
<1>1. DOMAIN dir = Pkg /\ DOMAIN deb = Pkg /\ DOMAIN gen = Pkg /\ crashes \in Nat
  BY DEF TypeOK
<1>2. ASSUME crashes' = crashes, dir'[p] = dir[p], deb'[p] = deb[p], gen'[p] = gen[p]
      PROVE  deb'[p] = gen'[p]
  BY <1>2 DEF DebsOK
<1>3. CASE UNCHANGED vars \/ Start \/ NextLoop \/ Finish \/ Visit \/ Unwind
            \/ \E q \in Pkg : Make(q) \/ MakeNothing(q)
  <2>1. crashes' = crashes /\ dir' = dir /\ deb' = deb /\ gen' = gen
    BY <1>3 DEF vars, Start, Begin, DepcheckError, NextLoop, Finish, Visit, TarError, VisitBuild, Visited,
       Unwind, CallerError, ExitOne, Failed, Make, MakeNothing, tree, steps
  <2> QED
    BY <1>2, <2>1
<1>4. ASSUME NEW q \in Pkg, Remove(q) PROVE deb'[p] = gen'[p]
  <2>1. /\ dir' = [dir EXCEPT ![q] = "none"] /\ gen' = gen /\ crashes' = crashes
        /\ deb' = deb \/ deb' = [deb EXCEPT ![q] = 0]
    BY <1>4 DEF Remove
  <2>2. p # q
    BY <1>1, <2>1
  <2> QED
    BY <1>1, <1>2, <2>1, <2>2
<1>5. CASE SkipSeen \/ Descend \/ Include \/ CompatOk \/ CompatError \/ PatchOk \/ PatchError
            \/ DryReturn
  <2>1. crashes' = crashes /\ dir' = dir /\ deb' = deb /\ gen' = gen
    BY <1>5 DEF SkipSeen, Descend, Include, CompatOk, CompatError, PatchOk, PatchError,
                DryReturn, tree, steps
  <2> QED
    BY <1>2, <2>1
<1>6. CASE FetchOk \/ FetchFail \/ BuildFail \/ Return
  <2>1. /\ gen' = gen /\ deb' = deb /\ crashes' = crashes
        /\ dir' = [dir EXCEPT ![Top.pkg] = "none"] \/ dir' = dir
    BY <1>6 DEF FetchOk, FetchFail, BuildFail, AfterFailure, Return
  <2>2. dir'[p] = dir[p]
    BY <1>1, <2>1
  <2> QED
    BY <1>2, <2>1, <2>2
<1>7. CASE BuildStart
  <2>1. /\ gen' = [gen EXCEPT ![Top.pkg] = @ + 1] /\ deb' = deb /\ crashes' = crashes
        /\ dir' = [dir EXCEPT ![Top.pkg] = "partial"]
    BY <1>7 DEF BuildStart
  <2>2. p # Top.pkg
    BY <1>1, <2>1
  <2>3. dir'[p] = dir[p] /\ gen'[p] = gen[p]
    BY <1>1, <2>1, <2>2
  <2> QED
    BY <1>2, <2>1, <2>3
<1>8. CASE BuildOk
  <2>1. /\ gen' = gen /\ deb' = [deb EXCEPT ![Top.pkg] = gen[Top.pkg]] /\ crashes' = crashes
        /\ dir' = [dir EXCEPT ![Top.pkg] = "full"]
    BY <1>8 DEF BuildOk
  <2>2. CASE p = Top.pkg
    BY <1>1, <2>1, <2>2
  <2>3. CASE p # Top.pkg
    <3>1. dir'[p] = dir[p] /\ deb'[p] = deb[p]
      BY <1>1, <2>1, <2>3
    <3> QED
      BY <1>2, <2>1, <3>1
  <2> QED
    BY <2>2, <2>3
<1>9. CASE Crash
  <2>1. crashes' = crashes + 1
    BY <1>9 DEF Crash
  <2> QED
    BY <1>1, <2>1
<1> QED
  BY <1>3, <1>4, <1>5, <1>6, <1>7, <1>8, <1>9 DEF Next, Main, Subshell

LEMMA DebsAlways == Spec => [](Attempted /\ DebsOK)
<1>1. Init => Attempted /\ FromStaged /\ DebsOK
  BY DEF Init, Attempted, FromStaged, At, DebsOK
<1>2. TypeOK /\ StackInv /\ Attempted /\ FromStaged /\ DebsOK /\ [Next]_vars =>
        Attempted' /\ FromStaged' /\ DebsOK'
  BY AttemptedNext, FromStagedNext, DebsNext
<1> QED
  BY <1>1, <1>2, StackAlways, PTL DEF Spec

LEMMA SysrootAlways == AllSpec => []SysrootInv
<1> DEFINE Inv == /\ TypeOK /\ CopiesTypeOK /\ StackInv /\ NoHalfBuilt
                  /\ Attempted /\ DebsOK
<1>1. AllInit => SysrootInv
  BY DEF AllInit, Init, SysrootInv, RootScript, RootBottom, CallsEnd, SettledOK, CopiedOK,
         CompleteOK, CallsOK, Copying, Rooting
<1>2. Inv /\ SysrootInv /\ [AllNext]_<<vars, copies>> => SysrootInv'
  BY RootStep
<1>3. AllSpec => []Inv
  BY SysrootIsBuild, StackAlways, NoHalfBuiltCorrect, DebsAlways, PTL
<1> QED
  <2> HIDE DEF Inv
  <2> QED
    BY <1>1, <1>2, <1>3, PTL DEF AllSpec

(* When a sysroot run succeeds, what it copied is the present output of    *)
(* what it was given and of all that needs, complete unless a run was      *)
(* killed, and bootstrap's .debs are in debs/ (build.sh:515-545, 639-688). *)
THEOREM SysrootCorrect == AllSpec => []SysrootExact
<1>1. ASSUME TypeOK, SysrootInv PROVE SysrootExact
  <2> SUFFICES ASSUME AtEnd, command.verb \in {"sysroot", "bootstrap"}
               PROVE  /\ {<<u[1], u[2]>> : u \in {v \in sysroot : v[1] # SdkPkg}}
                           = {<<p, gen[p]>> : p \in Wanted \ {SdkPkg}}
                      /\ crashes = 0 =>
                           /\ \A u \in sysroot : u[3] = "full"
                           /\ command.verb = "bootstrap" =>
                                \A p \in command.args \ {SdkPkg} : pool[p] = gen[p]
    BY DEF SysrootExact
  <2>1. Len(script) = 0
    BY EmptySeq DEF AtEnd
  <2>2. Copying /\ Todo = {}
    BY <2>1 DEF AtEnd, Rooting, Copying, Todo
  <2>3. /\ \A u \in sysroot : u[1] \in Wanted /\ (u[1] # SdkPkg => u[2] = gen[u[1]])
        /\ \A p \in Reached : Range(Deps[p]) \subseteq Reached
        /\ \A p \in command.args :
             (p = SdkPkg \/ p \in Reached) /\ Range(Deps[p]) \subseteq Reached
    BY <1>1, <2>2 DEF SysrootInv, CopiedOK
  <2>4. Reached \in SUBSET Pkg /\ Closed(Reached)
    BY <1>1, <2>3, WantedType DEF Reached, Closed
  <2>5. ASSUME NEW p \in Wanted, p # SdkPkg PROVE p \in Reached
    <3>1. CASE p \in command.args
      BY <2>3, <2>5, <3>1
    <3>2. ASSUME NEW a \in command.args, p \in Needs(a, TRUE) PROVE p \in Reached
      BY <2>3, <2>4, <3>2 DEF Needs
    <3> QED
      BY <3>1, <3>2 DEF Wanted
  <2>6. ASSUME NEW u \in sysroot, u[1] # SdkPkg
        PROVE  <<u[1], u[2]>> \in {<<p, gen[p]>> : p \in Wanted \ {SdkPkg}}
    BY <2>3, <2>6
  <2>7. ASSUME NEW p \in Wanted \ {SdkPkg}
        PROVE  <<p, gen[p]>> \in {<<u[1], u[2]>> : u \in {v \in sysroot : v[1] # SdkPkg}}
    <3>1. PICK u \in sysroot : u[1] = p
      BY <2>5 DEF Reached
    <3>2. u[2] = gen[p]
      BY <2>3, <3>1
    <3> QED
      BY <3>1, <3>2
  <2>8. {<<u[1], u[2]>> : u \in {v \in sysroot : v[1] # SdkPkg}}
          = {<<p, gen[p]>> : p \in Wanted \ {SdkPkg}}
    BY <2>6, <2>7
  <2> QED
    BY <1>1, <2>2, <2>8 DEF SysrootInv, CompleteOK
<1> QED
  BY <1>1, SysrootIsBuild, TypeCorrect, SysrootAlways, PTL

(* A run that succeeds has done what it was asked for.                     *)
THEOREM AskedForCorrect == AllSpec => []AskedFor
<1>1. NamedFresh /\ SysrootExact => AskedFor
  BY DEF AskedFor
<1> QED
  BY <1>1, SysrootIsBuild, NamedCorrect, SysrootCorrect, PTL

================================================================================
