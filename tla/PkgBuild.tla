------------------------------- MODULE PkgBuild -------------------------------
(***************************************************************************)
(* One target's package builds: main(), build(), includedeps() and         *)
(* hasbeenbuilt() of build.sh, run after run.                              *)
(*                                                                         *)
(* build() works in a subshell of its own and calls itself for each        *)
(* dependency that has no output yet, so a run is a stack of subshells.    *)
(* They all share the directories under $_TMP: the staged SDK is moved out *)
(* of the way around a nested build and moved back after it.  Any step may *)
(* fail; a run may be killed at any moment and leave its files behind.     *)
(*                                                                         *)
(* Abstractions: a directory's content is the set of what was copied into  *)
(* it, <<package, generation, state>>; main's loops take packages in   *)
(* any order (the code: the order given, or alphabetical).                 *)
(***************************************************************************)
EXTENDS Naturals, Sequences, FiniteSets, Functions

CONSTANTS
  Pkg,            \* the directories of pkgs/
  Deps,           \* Deps[p]: the lines of p's dependencies.txt
  HasFetch,       \* packages with a fetch.sh
  HasPatches,     \* packages with a patches directory
  HasCompat,      \* packages with a compatfuncs.txt
  SdkPkg,         \* the package called sdk
  NotInAll,       \* toolchain-shell and the packages of Architecture: all
  BaseSdk,        \* the target's own SDK, copied first into every staged one
  Commands,       \* the commands a run may be given
  MaxRuns,        \* bound: runs started
  Crashes         \* bound: runs killed

ASSUME DepsAssumption == /\ Deps \in [Pkg -> Seq(Pkg)]
                         /\ \A p \in Pkg : SdkPkg \notin Range(Deps[p])
(* The dependency files describe an acyclic graph: build() has no guard    *)
(* against a cycle.                                                        *)
ASSUME AcyclicAssumption ==
  \E rank \in [Pkg -> 0 .. Cardinality(Pkg)] :
    \A p \in Pkg : \A d \in Range(Deps[p]) : rank[d] < rank[p]
ASSUME PkgAssumption == /\ BaseSdk \notin Pkg
                        /\ HasPatches \subseteq HasFetch
                        /\ MaxRuns \in Nat /\ Crashes \in Nat

Command == [verb : {"build", "all", "all-noclean", "abibreak",
                    "clean", "cleanall", "dryrun", "sysroot", "bootstrap"},
            args : SUBSET Pkg,
            keepsrc : BOOLEAN]   \* --keepsrc

ASSUME CommandsAssumption ==
  /\ Commands \subseteq Command
  /\ \A c \in Commands : c.verb = "abibreak" => \E x \in Pkg : c.args = {x}   \* $2

VARIABLES
  recursivedeps, \* set by depcheck for the oldest targets
  sdk,      \* whether the target's own SDK, sdks/$_TRIPLE, is there
  phase,    \* "idle" between runs; "run"; "fail": a build() just returned 1;
            \* "exit": status 1 goes up through the subshells
  script,   \* what main still has to do: a sequence of [op, pkgs]
  stack,    \* the subshells of build(), outermost first
  staged,   \* what $_SDK holds; {} when the directory does not exist
  parked,   \* parked[d]: what $_SDK.d holds, {} when it does not exist
  lib,      \* the packages whose functions $_TMP/libcompat.a holds
  dir,      \* dir[p]: pkg-$_TRIPLE, "none", "partial" or "full"
  src,      \* src[p]: src-$_TRIPLE
  gen,      \* gen[p]: how many times p's build.sh was started
  from,     \* from[p]: what was staged when p's build.sh was last started
  deb,      \* deb[p]: the generation of p's .deb in its directory, 0: none
  pool,     \* pool[p]: the generation of p's .deb in debs/, 0: none
  listed,   \* what a dry run has printed: $_TMP/.builtpkgs
  cleanups, \* how often this run called cleanup
  before,   \* gen when the run started
  command,  \* the command of the run
  runs, crashes

tree == <<dir, src, gen, from, deb, pool>>
tmp == <<staged, parked, lib, listed>>
fixed == <<recursivedeps, before, command, sdk>>
vars == <<phase, script, stack, tree, tmp, cleanups, fixed, runs, crashes>>

--------------------------------------------------------------------------------
(* Commands: main() as the sequence of its loops.                          *)

Op == [op : {"rm", "rmdeb", "rmpool", "make", "build", "visit", "tar"}, pkgs : SUBSET Pkg]

Dependents(x) == {p \in Pkg : x \in Range(Deps[p])}

AllPkgs(excluded) == Pkg \ (excluded \cup NotInAll)

(* Every package of the command is removed before the first one is built.  *)
Rebuild_NoRm(rm, A) == << [op |-> "make", pkgs |-> A] >>
Rebuild(rm, A) == << [op |-> rm, pkgs |-> A], [op |-> "make", pkgs |-> A] >>

(* Packages are built, copied with what they need, and packed. *)
SysrootLoops(A) == << [op |-> "build", pkgs |-> A], [op |-> "visit", pkgs |-> A],
                      [op |-> "tar", pkgs |-> {}] >>

Script(c) ==
  CASE c.verb = "build" -> Rebuild("rmdeb", c.args)
    [] c.verb = "all" -> Rebuild("rm", AllPkgs(c.args))
    [] c.verb = "all-noclean" -> << [op |-> "make", pkgs |-> AllPkgs(c.args)] >>
    [] c.verb = "abibreak" -> LET users == UNION {Dependents(x) : x \in c.args} IN
                              Rebuild("rm", c.args) \o Rebuild("rmdeb", users)
    [] c.verb = "clean" -> << [op |-> "rmdeb", pkgs |-> c.args] >>
    [] c.verb \in {"sysroot", "bootstrap"} -> SysrootLoops(c.args)
    [] c.verb = "cleanall" -> << [op |-> "rmpool", pkgs |-> Pkg] >>
    [] OTHER -> << [op |-> "make", pkgs |-> IF c.args = {} THEN Pkg ELSE c.args] >>

dryrun == command.verb = "dryrun"

hasbeenbuilt_DirOnly(p) == dir[p] # "none"
hasbeenbuilt(p) == IF dryrun THEN p \in Range(listed) ELSE dir[p] # "none"

--------------------------------------------------------------------------------
(* The call stack. *)

PCs == {"deps", "include", "fetch", "patch", "build", "building", "done"}

Frame == {f \in [pkg : Pkg, pc : PCs, todo : Seq(Pkg), seen : SUBSET Pkg] :
            f.pc = "include" => f.todo # <<>>}

Top == stack[Len(stack)]
Below == SubSeq(stack, 1, Len(stack) - 1)
SetTop(f) == stack' = [stack EXCEPT ![Len(stack)] = f]
Goto(pc) == SetTop([Top EXCEPT !.pc = pc])


At(pc) == phase = "run" /\ stack # <<>> /\ Top.pc = pc

(* Main is between two calls of build(), with an op of kind k next. *)
MainAt(k) == /\ phase = "run" /\ stack = <<>>
             /\ script # <<>> /\ Head(script).op \in k

Drop(p) == [Head(script) EXCEPT !.pkgs = @ \ {p}]
Done(p) == script' = [script EXCEPT ![1] = Drop(p)]

Content == (Pkg \cup {BaseSdk}) \X Nat \X {"partial", "full"}
NoneParked == [p \in Pkg |-> {}]

(* unset includeddeps *)
NoneIncluded == {}

(* build()'s entry: a subshell of its own, whose includedeps creates $_SDK *)
(* if need be and copies the base SDK into whatever is there.              *)
Enter(p, below, left) ==
  /\ stack' = Append(below, [pkg |-> p, pc |-> "deps", todo |-> Deps[p], seen |-> NoneIncluded])
  /\ staged' = IF dryrun THEN staged ELSE left \cup {<<BaseSdk, 0, "full">>}

(* cleanup(): the lock and everything under $_TMP are gone. *)
cleanup == /\ cleanups' = cleanups + 1
           /\ staged' = {} /\ parked' = NoneParked /\ lib' = {} /\ listed' = <<>>

--------------------------------------------------------------------------------
(* Main. *)

(* rm -rf "$_TMP"; mkdir -p "$_TMP" *)
FreshTmp == staged' = {} /\ parked' = NoneParked /\ lib' = {} /\ listed' = <<>>

(* All commands but these two call depcheck, which refuses to go on when a *)
(* program is missing or the target has no SDK.                            *)
Depchecked(c) == c.verb \notin {"clean", "cleanall"}

Begin_AnySdk(c) == phase' = "run" /\ script' = Script(c) /\ cleanups' = 0
Begin(c) == /\ Depchecked(c) => sdk'
            /\ phase' = "run" /\ script' = Script(c) /\ cleanups' = 0

(* error(): what its cleanup removes, the run has only just created. *)
DepcheckError(c) == /\ Depchecked(c)
                    /\ phase' = "exit" /\ script' = <<>> /\ cleanups' = 1

(* An SDK is put there by hand, between two runs.                          *)
Start == /\ phase = "idle" /\ runs < MaxRuns
         /\ runs' = runs + 1
         /\ sdk' \in {sdk, TRUE}
         /\ \E c \in Commands : command' = c /\ (Begin(c) \/ DepcheckError(c))
         /\ before' = gen
         /\ FreshTmp
         /\ UNCHANGED <<recursivedeps, stack, tree, crashes>>

(* One of the background rm -rf of a loop ends. *)
Remove(p) == /\ MainAt({"rm", "rmdeb", "rmpool"}) /\ p \in Head(script).pkgs
             /\ Done(p)
             /\ dir' = [dir EXCEPT ![p] = "none"]
             /\ src' = [src EXCEPT ![p] = "none"]
             /\ deb' = IF Head(script).op = "rm" THEN deb ELSE [deb EXCEPT ![p] = 0]
             /\ pool' = IF Head(script).op = "rmpool" THEN [pool EXCEPT ![p] = 0] ELSE pool
             /\ UNCHANGED <<phase, stack, gen, from, tmp, cleanups, fixed, runs, crashes>>

(* build "$pkg" from main when there is something to build. *)
Make(p) == /\ MainAt({"make", "build"}) /\ p \in Head(script).pkgs
           /\ ~hasbeenbuilt(p)
           /\ Enter(p, stack, staged)
           /\ UNCHANGED <<phase, script, tree, parked, lib, listed, cleanups, fixed, runs, crashes>>

(* cp -f "$pkgdir/$pkg"/*.deb debs: quiet when there is none; not in the    *)
(* loop of builds before a sysroot.                                        *)
CopyDeb_Always(p) == pool' = IF deb[p] = 0 THEN pool ELSE [pool EXCEPT ![p] = deb[p]]
CopyDeb(p) == pool' = IF dryrun \/ Head(script).op = "build" \/ deb[p] = 0
                      THEN pool ELSE [pool EXCEPT ![p] = deb[p]]

MakeNothing(p) == /\ MainAt({"make", "build"}) /\ p \in Head(script).pkgs
                  /\ hasbeenbuilt(p)
                  /\ Done(p) /\ CopyDeb(p)
                  /\ UNCHANGED <<phase, stack, dir, src, gen, from, deb, tmp, cleanups, fixed, runs, crashes>>

(* The loop, with its wait, is over. *)
NextLoop == /\ phase = "run" /\ stack = <<>> /\ script # <<>>
            /\ Head(script).pkgs = {}
            /\ script' = Tail(script)
            /\ UNCHANGED <<phase, stack, tree, tmp, cleanups, fixed, runs, crashes>>

(* main returned: the last line of build.sh. *)
Finish == /\ phase = "run" /\ stack = <<>> /\ script = <<>>
          /\ cleanup
          /\ phase' = "idle"
          /\ UNCHANGED <<script, stack, tree, fixed, runs, crashes>>

(* sysroot(), called in a loop of main and by itself: what it copies is in *)
(* SysrootBuild.  It builds a package that has no output; a package that   *)
(* main named and it has visited is done with.                             *)
VisitBuild(p) ==
  /\ MainAt({"visit"}) /\ dir[p] = "none"
  /\ script' = << [op |-> "build", pkgs |-> {p}] >> \o script
  /\ UNCHANGED <<phase, stack, tree, tmp, cleanups, fixed, runs, crashes>>

Visited(p) ==
  /\ MainAt({"visit"}) /\ p \in Head(script).pkgs
  /\ Done(p)
  /\ \/ command.verb = "bootstrap" /\ CopyDeb(p)
     \/ command.verb # "bootstrap" /\ UNCHANGED pool
  /\ UNCHANGED <<phase, stack, dir, src, gen, from, deb, tmp, cleanups, fixed, runs, crashes>>

(* The tarball of the sysroot fails: error(), from main. *)
TarError == /\ MainAt({"tar"})
            /\ cleanup
            /\ phase' = "exit"
            /\ UNCHANGED <<script, stack, tree, fixed, runs, crashes>>

--------------------------------------------------------------------------------
(* One subshell of build(). *)

steps == <<script, tree, parked, lib, listed, cleanups, fixed, runs, crashes>>

(* The next line of the dependency list was included before: continue. *)
SkipSeen == /\ At("deps") /\ Top.todo # <<>>
            /\ recursivedeps /\ Head(Top.todo) \in Top.seen
            /\ SetTop([Top EXCEPT !.todo = Tail(@)])
            /\ UNCHANGED <<phase, staged, steps>>

(* A dependency without output: the staged SDK is moved away and build()   *)
(* calls itself.                                                           *)
MovedAway_Copied == staged
MovedAway == {}

Descend ==
  /\ At("deps") /\ Top.todo # <<>>
  /\ ~(recursivedeps /\ Head(Top.todo) \in Top.seen)
  /\ ~hasbeenbuilt(Head(Top.todo))
  /\ LET d == Head(Top.todo)
         caller == [stack EXCEPT ![Len(stack)].pc = "include"]
     IN IF dryrun
        THEN Enter(d, caller, staged) /\ UNCHANGED parked
        ELSE Enter(d, caller, MovedAway) /\ parked' = [parked EXCEPT ![d] = staged]
  /\ UNCHANGED <<phase, script, tree, lib, listed, cleanups, fixed, runs, crashes>>

(* cp -a of a dependency's output, if there is one, over the staged SDK;   *)
(* for the oldest targets its own dependencies come next.                  *)
Output(d) == IF dryrun \/ dir[d] = "none" THEN {} ELSE {<<d, gen[d], dir[d]>>}

Include ==
  /\ \/ At("include")
     \/ /\ At("deps") /\ Top.todo # <<>>
        /\ ~(recursivedeps /\ Head(Top.todo) \in Top.seen)
        /\ hasbeenbuilt(Head(Top.todo))
  /\ LET d == Head(Top.todo) IN
       /\ staged' = staged \cup Output(d)
       /\ SetTop([Top EXCEPT
            !.pc = "deps",
            !.todo = (IF recursivedeps THEN Deps[d] ELSE <<>>) \o Tail(@),
            !.seen = @ \cup {d}])
  /\ UNCHANGED <<phase, steps>>

DepsDone == At("deps") /\ Top.todo = <<>>

(* error(): cleanup, and this subshell exits with 1. *)
Error == /\ cleanup
         /\ phase' = "exit"
         /\ stack' = Below

(* The package's own sdk/ files and compatibility headers are copied last, *)
(* its functions archived.                                                 *)
CompatOk == /\ DepsDone /\ ~dryrun
            /\ staged' = staged \cup {<<Top.pkg, 0, "full">>}
            /\ lib' = IF Top.pkg \in HasCompat THEN lib \cup {Top.pkg} ELSE lib
            /\ Goto(IF Top.pkg \in HasFetch THEN "fetch" ELSE "build")
            /\ UNCHANGED <<phase, script, tree, parked, listed, cleanups, fixed, runs, crashes>>

CompatError == /\ DepsDone /\ ~dryrun /\ Top.pkg \in HasCompat
               /\ Error
               /\ UNCHANGED <<script, tree, fixed, runs, crashes>>

(* fetch.sh removes what is left of an earlier source tree and moves the   *)
(* unpacked one to src-$_TRIPLE: inside it, if that still existed.         *)
AfterRm_KeepsOld(t) == t
AfterRm(t) == "none"
Unpacked(t) == IF t = "none" THEN "pristine" ELSE "nested"

FetchOk == /\ At("fetch")
           /\ dir' = [dir EXCEPT ![Top.pkg] = "none"]
           /\ src' = [src EXCEPT ![Top.pkg] = Unpacked(AfterRm(@))]
           /\ Goto(IF Top.pkg \in HasPatches THEN "patch" ELSE "build")
           /\ UNCHANGED <<phase, script, gen, from, deb, pool, tmp, cleanups, fixed, runs, crashes>>

(* The subshell returns 2, so build() returns 1 to its caller. *)
ReturnTwo == phase' = "fail" /\ stack' = Below /\ staged' = {}

FetchFail == /\ At("fetch")
             /\ dir' = [dir EXCEPT ![Top.pkg] = "none"]
             /\ src' = [src EXCEPT ![Top.pkg] = "none"]
             /\ ReturnTwo
             /\ UNCHANGED <<script, gen, from, deb, pool, parked, lib, listed, cleanups, fixed, runs, crashes>>

PatchOk == /\ At("patch")
           /\ src' = [src EXCEPT ![Top.pkg] = "patched"]
           /\ Goto("build")
           /\ UNCHANGED <<phase, script, dir, gen, from, deb, pool, tmp, cleanups, fixed, runs, crashes>>

(* Of several patches some may have been applied when one fails. *)
PatchError == /\ At("patch")
              /\ \E t \in {"pristine", "patched"} : src' = [src EXCEPT ![Top.pkg] = t]
              /\ Error
              /\ UNCHANGED <<script, dir, gen, from, deb, pool, fixed, runs, crashes>>

(* build.sh of the package starts and fills pkg-$_TRIPLE. *)
BuildStart == /\ At("build")
              /\ dir' = [dir EXCEPT ![Top.pkg] = "partial"]
              /\ gen' = [gen EXCEPT ![Top.pkg] = @ + 1]
              /\ from' = [from EXCEPT ![Top.pkg] = staged]
              /\ Goto("building")
              /\ UNCHANGED <<phase, script, src, deb, pool, tmp, cleanups, fixed, runs, crashes>>

(* builddeb, the last line of build.sh, has written the package's .deb. *)
BuildOk == /\ At("building")
           /\ dir' = [dir EXCEPT ![Top.pkg] = "full"]
           /\ deb' = [deb EXCEPT ![Top.pkg] = gen[Top.pkg]]
           /\ Goto("done")
           /\ UNCHANGED <<phase, script, src, gen, from, pool, tmp, cleanups, fixed, runs, crashes>>

(* rm -rf "$_DESTDIR" when build.sh fails *)
AfterFailure_NoRm == "partial"
AfterFailure == "none"

BuildFail == /\ At("building")
             /\ dir' = [dir EXCEPT ![Top.pkg] = AfterFailure]
             /\ ReturnTwo
             /\ UNCHANGED <<script, src, gen, from, deb, pool, parked, lib, listed, cleanups, fixed, runs, crashes>>

(* The subshell ends with 0: build() returns to _includedeps, which moves  *)
(* its own SDK back, or to main, which copies the .deb.                    *)
LibAfter_Kept == lib
LibAfter == {}

Return ==
  /\ At("done")
  /\ src' = IF command.keepsrc THEN src ELSE [src EXCEPT ![Top.pkg] = "none"]
  /\ dir' = IF Top.pkg = SdkPkg THEN [dir EXCEPT ![Top.pkg] = "none"] ELSE dir
  /\ lib' = LibAfter
  /\ stack' = Below
  /\ IF Below = <<>>
     THEN staged' = {} /\ UNCHANGED parked /\ Done(Top.pkg) /\ CopyDeb(Top.pkg)
     ELSE /\ staged' = parked[Top.pkg]
          /\ parked' = [parked EXCEPT ![Top.pkg] = {}]
          /\ UNCHANGED <<script, pool>>
  /\ UNCHANGED <<phase, gen, from, deb, listed, cleanups, fixed, runs, crashes>>

(* The rm -rf "$_SDK" at the end of build(): in a dry run includedeps has   *)
(* staged nothing, so that is still the target's own SDK.                  *)
DryReturn == /\ DepsDone /\ dryrun
             /\ listed' = Append(listed, Top.pkg)
             /\ sdk' = FALSE
             /\ lib' = LibAfter
             /\ stack' = Below
             /\ IF Below = <<>> THEN Done(Top.pkg) ELSE UNCHANGED script
             /\ UNCHANGED <<phase, tree, staged, parked, cleanups,
                            recursivedeps, before, command, runs, crashes>>

--------------------------------------------------------------------------------
(* Failure and death. *)

(* build() returned 1: its caller, a subshell or main, calls error(). *)
CallerError_Ignored == /\ phase = "fail" /\ phase' = "run"
                       /\ UNCHANGED <<stack, staged, steps>>
CallerError == /\ phase = "fail"
               /\ cleanup
               /\ phase' = "exit"
               /\ stack' = IF stack = <<>> THEN <<>> ELSE Below
               /\ UNCHANGED <<script, tree, fixed, runs, crashes>>

(* A subshell exited with 1: so does the one around it. *)
ExitOne_Error == /\ phase = "exit" /\ stack # <<>>
                 /\ cleanup /\ stack' = Below
                 /\ UNCHANGED <<phase, script, tree, fixed, runs, crashes>>
ExitOne == /\ phase = "exit" /\ stack # <<>>
           /\ stack' = Below
           /\ UNCHANGED <<phase, script, tree, tmp, cleanups, fixed, runs, crashes>>

Failed == /\ phase = "exit" /\ stack = <<>>
          /\ phase' = "idle" /\ script' = <<>>
          /\ UNCHANGED <<stack, tree, tmp, cleanups, fixed, runs, crashes>>

(* The run is killed: no trap is set, so nothing is cleaned up.  A deletion *)
(* in progress leaves part of its directory.                               *)
Crash == /\ phase # "idle" /\ crashes < Crashes
         /\ crashes' = crashes + 1
         /\ phase' = "idle" /\ script' = <<>> /\ stack' = <<>>
         /\ \E torn \in SUBSET (IF MainAt({"rm", "rmdeb", "rmpool"})
                                THEN Head(script).pkgs ELSE {}) :
              dir' = [p \in Pkg |-> IF p \in torn /\ dir[p] = "full" THEN "partial" ELSE dir[p]]
         /\ UNCHANGED <<src, gen, from, deb, pool, tmp, cleanups, fixed, runs>>

--------------------------------------------------------------------------------
Init == /\ phase = "idle" /\ script = <<>> /\ stack = <<>>
        /\ staged = {} /\ parked = NoneParked /\ lib = {} /\ listed = <<>>
        /\ dir = [p \in Pkg |-> "none"] /\ src = [p \in Pkg |-> "none"]
        /\ gen = [p \in Pkg |-> 0] /\ from = [p \in Pkg |-> {}]
        /\ deb = [p \in Pkg |-> 0] /\ pool = [p \in Pkg |-> 0]
        /\ cleanups = 0 /\ before = gen
        /\ command = [verb |-> "cleanall", args |-> {}, keepsrc |-> FALSE]
        /\ recursivedeps \in BOOLEAN /\ sdk = FALSE
        /\ runs = 0 /\ crashes = 0

Main == Start \/ NextLoop \/ Finish \/ \E p \in Pkg : Remove(p) \/ Make(p) \/ MakeNothing(p)

Visit == TarError \/ \E p \in Pkg : VisitBuild(p) \/ Visited(p)

Subshell == \/ SkipSeen \/ Descend \/ Include
            \/ CompatOk \/ CompatError \/ FetchOk \/ FetchFail
            \/ PatchOk \/ PatchError \/ BuildStart \/ BuildOk \/ BuildFail
            \/ Return \/ DryReturn

Unwind == CallerError \/ ExitOne \/ Failed

Next == Main \/ Visit \/ Subshell \/ Unwind \/ Crash

Spec == Init /\ [][Next]_vars

--------------------------------------------------------------------------------
(* Properties. *)

TypeOK ==
  /\ phase \in {"idle", "run", "fail", "exit"}
  /\ script \in Seq(Op)
  /\ stack \in Seq(Frame)
  /\ staged \in SUBSET Content
  /\ parked \in [Pkg -> SUBSET Content]
  /\ lib \in SUBSET Pkg
  /\ dir \in [Pkg -> {"none", "partial", "full"}]
  /\ src \in [Pkg -> {"none", "pristine", "patched"}]
  /\ gen \in [Pkg -> Nat] /\ before \in [Pkg -> Nat]
  /\ from \in [Pkg -> SUBSET Content]
  /\ deb \in [Pkg -> Nat] /\ pool \in [Pkg -> Nat]
  /\ listed \in Seq(Pkg)
  /\ command \in Command /\ recursivedeps \in BOOLEAN /\ sdk \in BOOLEAN
  /\ cleanups \in Nat /\ runs \in Nat /\ crashes \in Nat

(* The packages that must be staged for p: its direct dependencies, or for *)
(* the oldest targets the least closed set around them (build.sh:401-432). *)
Closed(S) == \A d \in S : Range(Deps[d]) \subseteq S

Needs(p, rec) ==
  IF rec
  THEN {d \in Pkg : \A S \in SUBSET Pkg :
                       Range(Deps[p]) \subseteq S /\ Closed(S) => d \in S}
  ELSE Range(Deps[p])

Expected(p) == {<<BaseSdk, 0, "full">>, <<p, 0, "full">>}
                 \cup {<<d, gen[d], "full">> : d \in Needs(p, recursivedeps)}

(* When a package's own build.sh starts, $_SDK holds the base SDK, its own *)
(* overlay and the current output of exactly its dependencies: nothing of  *)
(* the builds that were nested in it, that it is nested in, or of a killed *)
(* run.  Every output is complete unless a run was killed.                 *)
StagedExact == At("build") =>
  /\ {<<u[1], u[2]>> : u \in staged} = {<<u[1], u[2]>> : u \in Expected(Top.pkg)}
  /\ crashes = 0 => staged = Expected(Top.pkg)

(* libcompat.a holds the functions of the package being built, no others.  *)
LibOwn == At("build") => lib = HasCompat \cap {Top.pkg}

(* Unless a run is killed, an output directory that is not complete belongs *)
(* to the build.sh now running: a failure never leaves one behind for      *)
(* hasbeenbuilt to find in a later run.                                    *)
NoHalfBuilt == crashes = 0 => \A p \in Pkg : dir[p] = "partial" => At("building") /\ Top.pkg = p

(* A run gives up its lock and $_TMP once, however deep the failure was,   *)
(* and does no more work after that.                                       *)
ReleasedOnce == /\ cleanups <= 1
                /\ phase \in {"run", "fail"} => cleanups = 0
                /\ phase = "exit" => cleanups = 1

AtEnd == phase = "run" /\ stack = <<>> /\ script = <<>>

Named == CASE command.verb = "build" -> command.args
           [] command.verb = "all" -> AllPkgs(command.args)
           [] command.verb = "abibreak" ->
                command.args \cup UNION {Dependents(x) : x \in command.args}
           [] OTHER -> {}

(* After a successful build, all or abibreak every package that was asked  *)
(* for has been built exactly once, out of what the same run made of the   *)
(* others, and its new .deb is in debs/.                                   *)
NamedFresh == AtEnd => \A p \in Named :
  /\ gen[p] = before[p] + 1
  /\ p # SdkPkg => dir[p] = "full"
  /\ pool[p] = gen[p]
  /\ \A d \in Named \cap Range(Deps[p]) : <<d, gen[d], "full">> \in from[p]

(* Patches are applied to a pristine tree, whatever an earlier run left.   *)
PristineWhenPatched == At("patch") => src[Top.pkg] = "pristine"

(* A dry run prints every package once, after everything it depends on.    *)
DryrunOrdered == dryrun =>
  \A i \in DOMAIN listed :
    /\ \A j \in 1 .. i - 1 : listed[j] # listed[i]
    /\ Range(Deps[listed[i]]) \subseteq {listed[j] : j \in 1 .. i - 1}

(* A dry run leaves packages and .debs as they are, and so does a run that *)
(* builds after the target's SDK has gone, as it has after a dry run.      *)
PackagesKept == [][dryrun \/ (Depchecked(command) /\ ~sdk) => UNCHANGED tree]_vars

(* build.sh:704: "Pretend to build all packages, for debugging".           *)
DryrunPretends == [][dryrun /\ phase = "run" => UNCHANGED <<tree, sdk>>]_vars

(* Every output that hasbeenbuilt would accept was made, as an atomic step  *)
(* of TopoBuild, from what were then the current outputs of all its        *)
(* dependencies.  (The output of a killed build.sh is accepted too.)       *)
Accepted == {p \in Pkg : dir[p] # "none" /\ ~(At("building") /\ Top.pkg = p)}

Topo == INSTANCE TopoBuild WITH
          DepSet <- [p \in Pkg |-> Range(Deps[p])],
          out <- Accepted,
          from <- [p \in Pkg |-> {<<u[1], u[2]>> : u \in {v \in from[p] : v[2] > 0}}]

ImplementsTopo == Topo!Spec
================================================================================
