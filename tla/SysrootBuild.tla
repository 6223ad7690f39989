----------------------------- MODULE SysrootBuild -----------------------------
(***************************************************************************)
(* The runs of PkgBuild with what sysroot() of build.sh does in them: it   *)
(* copies the output of a package, after those of its dependencies, each   *)
(* once for every path that leads to it, into one directory.  Outputs that *)
(* are missing, since only those of the named packages were looked for,    *)
(* are built on the way.                                                   *)
(***************************************************************************)
EXTENDS PkgBuild

VARIABLES
  sysroot,  \* what sysroot-$_TRIPLE holds
  visits    \* the calls of sysroot(), outermost first: package, lines left to read

copies == <<sysroot, visits>>

Latest == visits[Len(visits)]

(* A call: [ -d pkg ] || build, then the loop over the dependencies.       *)
Call(p, below) == /\ visits' = Append(below, [pkg |-> p, todo |-> Deps[p]])
                  /\ \/ VisitBuild(p)
                     \/ dir[p] # "none" /\ UNCHANGED vars
                  /\ UNCHANGED sysroot

CallNamed == /\ MainAt({"visit"}) /\ visits = <<>>
             /\ \E p \in Head(script).pkgs : Call(p, <<>>)

Reading == MainAt({"visit"}) /\ visits # <<>>

(* A dependency that has been built is taken for one that has been copied. *)
CallDep_Once ==
  /\ Reading /\ Latest.todo # <<>>
  /\ LET d == Head(Latest.todo)
         rest == [visits EXCEPT ![Len(visits)].todo = Tail(@)]
     IN \/ dir[d] = "none" /\ Call(d, rest)
        \/ dir[d] # "none" /\ visits' = rest /\ UNCHANGED <<vars, sysroot>>

CallDep == /\ Reading /\ Latest.todo # <<>>
           /\ Call(Head(Latest.todo),
                   [visits EXCEPT ![Len(visits)].todo = Tail(@)])

(* cp -a, whose failure is ignored when there is no output, as for sdk. *)
Copy == /\ Reading /\ Latest.todo = <<>>
        /\ sysroot' = sysroot \cup Output(Latest.pkg)
        /\ visits' = SubSeq(visits, 1, Len(visits) - 1)
        /\ IF Len(visits) = 1 THEN Visited(Latest.pkg) ELSE UNCHANGED vars

(* rm -rf "sysroot-$_TRIPLE"; mkdir: between the loop of builds and that   *)
(* of copies.  What an exit or a kill ends, it ends with all its calls.    *)
RootMade == /\ phase = "run" /\ stack = <<>> /\ visits = <<>> /\ Len(script) > 1
            /\ Head(script).pkgs = {} /\ script[2].op = "visit"

Rest == /\ sysroot' = IF RootMade THEN {} ELSE sysroot
        /\ visits' = IF phase' \in {"run", "fail"} THEN visits ELSE <<>>

Elsewhere == (Main \/ TarError \/ Subshell \/ Unwind \/ Crash) /\ Rest

AllInit == Init /\ sysroot = {} /\ visits = <<>>

AllNext == Elsewhere \/ CallNamed \/ CallDep \/ Copy

AllSpec == AllInit /\ [][AllNext]_<<vars, copies>>

(* Between its start and its end a run is never blocked on anything: the   *)
(* shell takes its next step.                                              *)
Fairness == /\ WF_<<vars, copies>>((Subshell \/ Unwind) /\ Rest)
            /\ WF_<<vars, copies>>(CallNamed \/ CallDep \/ Copy)
            /\ WF_<<vars, copies>>(phase = "run" /\ Main /\ Rest)

FairSpec == AllSpec /\ Fairness

--------------------------------------------------------------------------------
(* Properties. *)

Frames == Seq([pkg : Pkg, todo : Seq(Pkg)])

CopiesTypeOK == sysroot \in SUBSET Content /\ visits \in Frames

(* When a sysroot or bootstrap run succeeds the directory holds the        *)
(* present outputs of the packages it was given and of all they need, no   *)
(* others, whatever of them was removed or failed before.  Unless a run    *)
(* was killed they are complete, and after bootstrap debs/ has the .debs   *)
(* of just these.  (sdk keeps no output, unless killed.)                   *)
Wanted == command.args \cup UNION {Needs(p, TRUE) : p \in command.args}

SysrootExact == AtEnd /\ command.verb \in {"sysroot", "bootstrap"} =>
  /\ {<<u[1], u[2]>> : u \in {v \in sysroot : v[1] # SdkPkg}} = {<<p, gen[p]>> : p \in Wanted \ {SdkPkg}}
  /\ crashes = 0 =>
       /\ \A u \in sysroot : u[3] = "full"
       /\ command.verb = "bootstrap" => \A p \in command.args \ {SdkPkg} : pool[p] = gen[p]

(* Every run ends, by success or failure. *)
Terminates == phase = "run" ~> phase = "idle"

(* What a run that succeeds was asked for is there: what it built is new,  *)
(* what it copied is complete.                                             *)
AskedFor == NamedFresh /\ SysrootExact
================================================================================
