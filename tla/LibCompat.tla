------------------------------- MODULE LibCompat -------------------------------
(***************************************************************************)
(* libcompat.a, the archive of compatibility functions that build.sh       *)
(* compiles for a package (_includefuncs, _buildfunc).                     *)
(*                                                                         *)
(* The functions are listed in compatfuncs.txt and may depend on others,   *)
(* which are entered first, each in a subshell.  Sources are compiled in   *)
(* the background.  The shell waits for its own jobs: those a subshell     *)
(* started are nobody's once the subshell is over, and neither are those   *)
(* of a run that ended with an error.  All share one directory,            *)
(* $_TMP/libcompat, with the same directory of the next package.           *)
(***************************************************************************)
EXTENDS Naturals, Sequences, SequencesExt

CONSTANTS
  Func,       \* the directories of compat/
  Sourced,    \* those with a .c file
  Deps,       \* Deps[f]: the lines of dependencies.txt, if f has one
  Requests    \* contents of a compatfuncs.txt

CONSTANT Packages     \* bound: packages built one after the other

ASSUME CompatAssumption == /\ Sourced \subseteq Func
                           /\ \A f \in DOMAIN Deps : f \in Func /\ Deps[f] \in Seq(Func)
                           /\ \A r \in Requests : r \in Seq(ToSet(r))
                           /\ Packages \in Nat \ {0}

(* No function of compat/ depends on itself, directly or through others:   *)
(* f.building would end the circle, but with headers that are not there.   *)
ASSUME AcyclicAssumption ==
  \E rank \in [Func -> 0 .. Cardinality(Func)] :
    \A f \in DOMAIN Deps : \A d \in ToSet(Deps[f]) : rank[d] < rank[f]

VARIABLES
  requests,    \* requests[n]: compatfuncs.txt of the n-th package
  pkg,         \* the package being built
  pc,          \* where _includefuncs is
  todo,        \* lines of compatfuncs.txt to read
  calls,       \* _buildfunc: [func, deps to enter], from the outermost in
  dir,         \* $_TMP/libcompat exists
  marked,      \* f.building
  fail,        \* $_TMP/libcompat/fail
  objs,        \* *.o, as the jobs that wrote them
  headers,     \* functions whose headers are in $_SDK
  jobs,        \* running compilers
  started,     \* all compilers started for this package, in order
  archive      \* members of libcompat.a

libcompat == <<dir, marked, fail, objs>>
vars == <<requests, pkg, pc, todo, calls, libcompat, headers, jobs, started, archive>>

Job == [pkg : 1 .. Packages, func : Sourced, shell : {"build", "sub"}]

(* rm -rf of the directory or of $_TMP *)
NoDir == dir' = FALSE /\ marked' = {} /\ fail' = FALSE /\ objs' = {}

--------------------------------------------------------------------------------
(* _includefuncs *)

Includefuncs == /\ pc = "sdk"
                /\ pc' = "funcs" /\ todo' = requests[pkg] /\ calls' = <<>>
                /\ dir' = TRUE /\ marked' = {} /\ fail' = FALSE /\ objs' = {}
                /\ headers' = {} /\ started' = <<>>
                /\ UNCHANGED <<requests, pkg, jobs, archive>>

(* mkdir f.building || return 0 *)
SkipMarked_Never(f) == FALSE
SkipMarked(f) == f \in marked

DepsOf(f) == IF f \in DOMAIN Deps THEN Deps[f] ELSE <<>>

(* [ -d "$bsroot/compat/$func" ] *)
Known(f) == f \in Func

(* _buildfunc f up to its dependencies, with stack the calls around it. *)
Enter(f, stack) ==
  \/ /\ ~Known(f)
     /\ pc' = "error" /\ calls' = <<>> /\ NoDir
  \/ /\ Known(f) /\ SkipMarked(f)
     /\ calls' = stack
     /\ UNCHANGED <<pc, libcompat>>
  \/ /\ Known(f) /\ ~SkipMarked(f)
     /\ marked' = marked \cup {f}
     /\ calls' = Append(stack, [func |-> f, deps |-> DepsOf(f)])
     /\ UNCHANGED <<pc, dir, fail, objs>>

NextLine == /\ pc = "funcs" /\ calls = <<>> /\ todo # <<>>
            /\ Enter(Head(todo), <<>>)
            /\ todo' = Tail(todo)
            /\ UNCHANGED <<requests, pkg, headers, jobs, started, archive>>

NextDep == /\ pc = "funcs" /\ calls # <<>>
           /\ LET f == Last(calls) IN
              /\ f.deps # <<>>
              /\ Enter(Head(f.deps), Append(Front(calls), [f EXCEPT !.deps = Tail(@)]))
           /\ UNCHANGED <<requests, pkg, todo, headers, jobs, started, archive>>

(* Headers are appended in $_SDK, then the compiler is started. *)
ReadyToCompile_Early(f) == TRUE
ReadyToCompile(f) == f.deps = <<>>

Compile == /\ pc = "funcs" /\ calls # <<>>
           /\ LET f == Last(calls)
                  j == [pkg |-> pkg, func |-> f.func,
                        shell |-> IF Len(calls) = 1 THEN "build" ELSE "sub"]
                  new == IF f.func \in Sourced THEN <<j>> ELSE <<>>
              IN /\ ReadyToCompile(f)
                 /\ headers' = headers \cup {f.func}
                 /\ jobs' = jobs \cup ToSet(new)
                 /\ started' = started \o new
           /\ calls' = Front(calls)
           /\ UNCHANGED <<requests, pkg, pc, todo, libcompat, archive>>

EndOfFile == /\ pc = "funcs" /\ calls = <<>> /\ todo = <<>>
             /\ pc' = "wait"
             /\ UNCHANGED <<requests, pkg, todo, calls, libcompat, headers, jobs, started, archive>>

(* wait: for the jobs of this shell. *)
Children == {j \in jobs : j.pkg = pkg /\ j.shell = "build"}

Wait == /\ pc = "wait" /\ Children = {}
        /\ pc' = "check"
        /\ UNCHANGED <<requests, pkg, todo, calls, libcompat, headers, jobs, started, archive>>

Archive == /\ pc = "check" /\ ~fail
           /\ archive' = objs
           /\ pc' = "rm"
           /\ UNCHANGED <<requests, pkg, todo, calls, libcompat, headers, jobs, started>>

CheckError == /\ pc = "check" /\ fail
              /\ pc' = "error" /\ NoDir
              /\ UNCHANGED <<requests, pkg, todo, calls, headers, jobs, started, archive>>

RmDir == /\ pc = "rm"
         /\ pc' = "build" /\ NoDir
         /\ UNCHANGED <<requests, pkg, todo, calls, headers, jobs, started, archive>>

(* The package is built with the archive, which is then removed; or an     *)
(* error has ended the run, its cleanup has removed $_TMP, and there is    *)
(* another run.                                                            *)
NextPackage == /\ pc \in {"build", "error"}
               /\ archive' = {}
               /\ IF pkg < Packages THEN pkg' = pkg + 1 /\ pc' = "sdk"
                                    ELSE pkg' = pkg /\ pc' = "end"
               /\ UNCHANGED <<requests, todo, calls, libcompat, headers, jobs, started>>

--------------------------------------------------------------------------------
(* The compilers, in the background. *)

JobOk(j) == /\ objs' = IF dir THEN {o \in objs : o.func # j.func} \cup {j} ELSE objs
            /\ UNCHANGED fail

(* touch fail: it cannot when the directory is gone. *)
Marker_None == FALSE
Marker == dir

JobFail(j) == fail' = (fail \/ Marker) /\ UNCHANGED objs

JobEnds == \E j \in jobs :
             /\ JobOk(j) \/ JobFail(j)
             /\ jobs' = jobs \ {j}
             /\ UNCHANGED <<requests, pkg, pc, todo, calls, dir, marked, headers, started, archive>>

--------------------------------------------------------------------------------
Init == /\ requests \in [1 .. Packages -> Requests]
        /\ pkg = 1 /\ pc = "sdk" /\ todo = <<>> /\ calls = <<>>
        /\ dir = FALSE /\ marked = {} /\ fail = FALSE /\ objs = {}
        /\ headers = {} /\ jobs = {} /\ started = <<>> /\ archive = {}

Next == \/ Includefuncs \/ NextLine \/ NextDep \/ Compile \/ EndOfFile
        \/ Wait \/ Archive \/ CheckError \/ RmDir \/ NextPackage \/ JobEnds

Spec == Init /\ [][Next]_vars

--------------------------------------------------------------------------------
(* Properties. *)

Line == UNION {ToSet(r) : r \in Requests}

TypeOK ==
  /\ requests \in [1 .. Packages -> Requests] /\ todo \in Seq(Line)
  /\ pkg \in 1 .. Packages
  /\ pc \in {"sdk", "funcs", "wait", "check", "rm", "build", "error", "end"}
  /\ calls \in Seq([func : Func, deps : Seq(Func)])
  /\ marked \subseteq Func /\ headers \subseteq Func
  /\ jobs \subseteq Job /\ objs \subseteq Job /\ archive \subseteq Job
  /\ started \in Seq(Job)
  /\ dir \in BOOLEAN /\ fail \in BOOLEAN

(* No function is compiled twice for a package, whether it is listed       *)
(* twice, is listed and depended on, or is depended on twice.              *)
BuiltOnce == \A i, k \in DOMAIN started : started[i].func = started[k].func => i = k

(* A compiler that runs for this package finds the headers of the          *)
(* functions its own depends on, and of its own, in $_SDK.                 *)
HeadersFirst == \A j \in jobs : j.pkg = pkg /\ pc # "sdk" =>
                  {j.func} \cup ToSet(DepsOf(j.func)) \subseteq headers

(* Every function of a list comes after what it depends on.                *)
DepsListed(r) == \A i \in DOMAIN r : /\ r[i] \in Func
                                     /\ \A d \in ToSet(DepsOf(r[i])) :
                                          \E k \in 1 .. i - 1 : r[k] = d

(* What the build's own shell compiled is in the archive it links with: no *)
(* job is missed and no failure goes unseen.  If the lists of a run are    *)
(* such, an archive holds the objects of its package and of all that is    *)
(* listed for it, and nothing else.                                        *)
ArchiveExact == pc \in {"rm", "build"} =>
  /\ \A j \in ToSet(started) : j.shell = "build" => \E o \in archive : o.func = j.func
  /\ (\A n \in 1 .. Packages : DepsListed(requests[n])) =>
       archive = {j \in Job : j.pkg = pkg /\ j.shell = "build" /\ j.func \in ToSet(requests[pkg])}
================================================================================
