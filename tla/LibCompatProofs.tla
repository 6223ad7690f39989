----------------------------- MODULE LibCompatProofs -----------------------------
(***************************************************************************)
(* Proofs about LibCompat, for all functions, all acyclic dependencies,    *)
(* all lists and any number of packages.                                   *)
(***************************************************************************)
EXTENDS LibCompat, SequenceTheorems, TLAPS

--------------------------------------------------------------------------------
(* Sequences and their elements.                                           *)

Call == [func : Func, deps : Seq(Func)]

LEMMA FrontFacts ==
  ASSUME NEW S, NEW s \in Seq(S), s # <<>>
  PROVE  /\ Len(s) \in Nat \ {0} /\ Last(s) = s[Len(s)] /\ Last(s) \in S
         /\ Front(s) \in Seq(S) /\ Len(Front(s)) = Len(s) - 1
         /\ \A i \in 1 .. Len(s) - 1 : Front(s)[i] = s[i]
<1>1. Len(s) \in Nat \ {0}
  BY EmptySeq
<1>2. \A i \in 1 .. Len(s) : s[i] \in S
  BY ElementOfSeq
<1> DEFINE n == Len(s) - 1
<1>3. n \in Nat /\ \A i \in 1 .. n : s[i] \in S
  BY <1>1, <1>2
<1>4. /\ SubSeq(s, 1, n) \in Seq(S)
      /\ Len(SubSeq(s, 1, n)) = IF 1 <= n THEN n - 1 + 1 ELSE 0
      /\ \A i \in 1 .. n - 1 + 1 : SubSeq(s, 1, n)[i] = s[1 + i - 1]
  BY <1>3, SubSeqProperties
<1>0. Front(s) = SubSeq(s, 1, n)
  BY DEF Front
<1> HIDE DEF n
<1>5. Len(Front(s)) = n
  <2>1. CASE n = 0
    BY <1>0, <1>4, <2>1
  <2>2. CASE n >= 1
    <3>1. n - 1 + 1 = n
      BY <1>3
    <3> QED
      BY <1>0, <1>4, <2>2, <3>1
  <2> QED
    BY <1>3, <2>1, <2>2
<1>6. \A i \in 1 .. n : 1 + i - 1 = i /\ i \in 1 .. n - 1 + 1
  BY <1>3
<1>7. \A i \in 1 .. n : Front(s)[i] = s[i]
  BY <1>0, <1>4, <1>6
<1>8. Last(s) = s[Len(s)] /\ Last(s) \in S
  BY <1>1, <1>2 DEF Last
<1> QED
  BY <1>0, <1>1, <1>4, <1>5, <1>7, <1>8 DEF n

LEMMA ToSetFacts ==
  ASSUME NEW S, NEW s \in Seq(S)
  PROVE  /\ ToSet(s) \subseteq S
         /\ \A x : x \in ToSet(s) <=> \E i \in 1 .. Len(s) : s[i] = x
         /\ s # <<>> => /\ Head(s) \in ToSet(s) /\ Tail(s) \in Seq(S)
                        /\ ToSet(s) = {Head(s)} \cup ToSet(Tail(s))
<1>1. DOMAIN s = 1 .. Len(s) /\ Len(s) \in Nat /\ \A i \in 1 .. Len(s) : s[i] \in S
  BY LenProperties, ElementOfSeq
<1>2. CASE s # <<>>
  <2>1. Len(s) \in Nat \ {0} /\ Head(s) = s[1]
    BY <1>2, EmptySeq
  <2>2. /\ Tail(s) \in Seq(S) /\ DOMAIN Tail(s) = 1 .. Len(s) - 1
        /\ \A i \in 1 .. Len(s) - 1 : Tail(s)[i] = s[i + 1]
    BY <1>2, HeadTailProperties, LenProperties
  <2>3. Head(s) \in ToSet(s)
    BY <1>1, <2>1 DEF ToSet
  <2>4. \A x \in ToSet(Tail(s)) : x \in ToSet(s)
    BY <1>1, <2>1, <2>2 DEF ToSet
  <2>5. ASSUME NEW x \in ToSet(s), x # Head(s) PROVE x \in ToSet(Tail(s))
    <3>1. PICK i \in 1 .. Len(s) : x = s[i]
      BY <1>1 DEF ToSet
    <3>2. i - 1 \in 1 .. Len(s) - 1 /\ Tail(s)[i - 1] = x
      BY <2>1, <2>2, <2>5, <3>1
    <3> QED
      BY <2>2, <3>2 DEF ToSet
  <2> QED
    BY <1>1, <2>2, <2>3, <2>4, <2>5 DEF ToSet
<1> QED
  BY <1>1, <1>2 DEF ToSet

LEMMA DepsOfType == ASSUME NEW f \in Func PROVE DepsOf(f) \in Seq(Func)
BY CompatAssumption, EmptySeq DEF DepsOf

LEMMA RequestType == ASSUME NEW r \in Requests PROVE r \in Seq(Line)
<1>1. r \in Seq(ToSet(r)) /\ ToSet(r) \subseteq Line
  BY CompatAssumption DEF Line
<1> QED
  BY <1>1, SeqMonotonic

--------------------------------------------------------------------------------
(* Type correctness.                                                       *)

LEMMA TypeInit == ASSUME Init PROVE TypeOK
<1>1. /\ <<>> \in Seq(Line) /\ <<>> \in Seq(Job)
      /\ <<>> \in Seq([func : Func, deps : Seq(Func)])
  BY EmptySeq
<1>2. 1 \in 1 .. Packages
  BY CompatAssumption
<1> QED
  BY <1>1, <1>2 DEF Init, TypeOK

(* The calls around and in one that is entered, and its marker.            *)
LEMMA EnterType ==
  ASSUME TypeOK, pc = "funcs", NEW f, NEW s \in Seq(Call), Enter(f, s)
  PROVE  /\ calls' \in Seq(Call)
         /\ marked' \subseteq Func /\ objs' \subseteq Job
         /\ dir' \in BOOLEAN /\ fail' \in BOOLEAN
         /\ pc' \in {"funcs", "error"}
<1>1. CASE ~Known(f) /\ pc' = "error" /\ calls' = <<>> /\ NoDir
  BY <1>1, EmptySeq DEF NoDir
<1>2. CASE calls' = s /\ UNCHANGED <<pc, libcompat>>
  BY <1>2 DEF TypeOK, libcompat
<1>3. CASE /\ Known(f) /\ ~SkipMarked(f)
           /\ marked' = marked \cup {f}
           /\ calls' = Append(s, [func |-> f, deps |-> DepsOf(f)])
           /\ UNCHANGED <<pc, dir, fail, objs>>
  <2>1. [func |-> f, deps |-> DepsOf(f)] \in Call
    BY <1>3, DepsOfType DEF Known, Call
  <2> QED
    BY <1>3, <2>1, AppendProperties DEF TypeOK, Known
<1> QED
  BY <1>1, <1>2, <1>3 DEF Enter

(* What NextDep leaves of the calls before it enters the next one.         *)
Rest == Append(Front(calls), [Last(calls) EXCEPT !.deps = Tail(@)])

LEMMA RestFacts ==
  ASSUME TypeOK, calls # <<>>, Last(calls).deps # <<>>
  PROVE  /\ Len(calls) \in Nat \ {0} /\ Last(calls) = calls[Len(calls)]
         /\ Last(calls) \in Call
         /\ Rest \in Seq(Call) /\ Len(Rest) = Len(calls)
         /\ \A i \in 1 .. Len(calls) - 1 : Rest[i] = calls[i]
         /\ Rest[Len(calls)] = [Last(calls) EXCEPT !.deps = Tail(@)]
         /\ Head(Last(calls).deps) \in Func
<1>1. calls \in Seq(Call)
  BY DEF TypeOK, Call
<1>2. /\ Len(calls) \in Nat \ {0} /\ Last(calls) = calls[Len(calls)] /\ Last(calls) \in Call
      /\ Front(calls) \in Seq(Call) /\ Len(Front(calls)) = Len(calls) - 1
      /\ \A i \in 1 .. Len(calls) - 1 : Front(calls)[i] = calls[i]
  BY <1>1, FrontFacts
<1>3. Last(calls).deps \in Seq(Func)
  BY <1>2 DEF Call
<1>4. Head(Last(calls).deps) \in Func /\ Tail(Last(calls).deps) \in Seq(Func)
  BY <1>3, HeadTailProperties
<1> DEFINE e == [Last(calls) EXCEPT !.deps = Tail(@)]
<1>5. e \in Call
  BY <1>2, <1>4 DEF Call
<1>6. Rest = Append(Front(calls), e)
  BY DEF Rest
<1> HIDE DEF e
<1>7. /\ Rest \in Seq(Call) /\ Len(Rest) = Len(Front(calls)) + 1
      /\ Rest[Len(Front(calls)) + 1] = e
      /\ \A i \in 1 .. Len(Front(calls)) : Rest[i] = Front(calls)[i]
  BY <1>2, <1>5, <1>6, AppendProperties
<1> QED
  BY <1>2, <1>4, <1>7 DEF e

(* The job that Compile starts, if any.                                    *)
Compiler == [pkg |-> pkg, func |-> Last(calls).func,
             shell |-> IF Len(calls) = 1 THEN "build" ELSE "sub"]
New == IF Last(calls).func \in Sourced THEN <<Compiler>> ELSE <<>>

LEMMA NewFacts ==
  ASSUME TypeOK, Compile
  PROVE  /\ New \in Seq(Job)
         /\ jobs' = jobs \cup ToSet(New) /\ started' = started \o New
         /\ started' \in Seq(Job) /\ Len(started) \in Nat
         /\ Len(started') = Len(started) + Len(New)
         /\ \A i \in 1 .. Len(started) : started'[i] = started[i]
         /\ New = <<>> => Len(New) = 0 /\ ToSet(New) = {}
         /\ New # <<>> => /\ Len(New) = 1 /\ ToSet(New) = {Compiler} /\ Compiler \in Job
                          /\ started'[Len(started) + 1] = Compiler
<1>1. jobs' = jobs \cup ToSet(New) /\ started' = started \o New
  BY DEF Compile, New, Compiler
<1>2. calls # <<>> /\ calls \in Seq(Call) /\ started \in Seq(Job)
  BY DEF Compile, TypeOK, Call
<1>3. Last(calls).func \in Sourced => Compiler \in Job
  BY <1>2 DEF Compiler, Job, TypeOK
<1>4. /\ New \in Seq(Job)
      /\ New = <<>> => Len(New) = 0 /\ ToSet(New) = {}
      /\ New # <<>> => /\ New = <<Compiler>> /\ Len(New) = 1 /\ New[1] = Compiler
                       /\ ToSet(New) = {Compiler} /\ Compiler \in Job
  BY <1>3, EmptySeq DEF New, ToSet
<1>5. /\ started' \in Seq(Job) /\ Len(started') = Len(started) + Len(New)
      /\ \A i \in 1 .. Len(started) + Len(New) :
           started'[i] = IF i <= Len(started) THEN started[i] ELSE New[i - Len(started)]
  BY <1>1, <1>2, <1>4, ConcatProperties
<1>6. Len(started) \in Nat /\ Len(New) \in Nat
  BY <1>2, <1>4, LenProperties
<1>7. \A i \in 1 .. Len(started) : started'[i] = started[i]
  BY <1>5, <1>6
<1>8. New # <<>> => started'[Len(started) + 1] = Compiler
  BY <1>4, <1>5, <1>6
<1> QED
  BY <1>1, <1>4, <1>5, <1>6, <1>7, <1>8

LEMMA TypeNext == ASSUME TypeOK, [Next]_vars PROVE TypeOK'
<1>1. CASE Includefuncs
  <2>1. requests[pkg] \in Seq(Line)
    BY RequestType DEF TypeOK
  <2> QED
    BY <1>1, <2>1, EmptySeq DEF Includefuncs, TypeOK
<1>2. CASE NextLine
  <2>1. todo' \in Seq(Line)
    BY <1>2, HeadTailProperties DEF NextLine, TypeOK
  <2>2. <<>> \in Seq(Call)
    BY EmptySeq
  <2> QED
    BY <1>2, <2>1, <2>2, EnterType DEF NextLine, TypeOK, Call
<1>3. CASE NextDep
  <2>1. calls # <<>> /\ Last(calls).deps # <<>> /\ Enter(Head(Last(calls).deps), Rest)
    BY <1>3 DEF NextDep, Rest
  <2>2. Rest \in Seq(Call)
    BY <2>1, RestFacts
  <2> QED
    BY <1>3, <2>1, <2>2, EnterType DEF NextDep, TypeOK, Call
<1>4. CASE Compile
  <2>1. calls \in Seq(Call) /\ calls # <<>>
    BY <1>4 DEF Compile, TypeOK, Call
  <2>2. calls' \in Seq(Call) /\ Last(calls).func \in Func
    <3>1. Front(calls) \in Seq(Call) /\ Last(calls) \in Call
      BY <2>1, FrontFacts
    <3> QED
      BY <1>4, <3>1 DEF Compile, Call
  <2>3. jobs' \subseteq Job /\ started' \in Seq(Job)
    BY <1>4, NewFacts DEF TypeOK
  <2>4. headers' \subseteq Func
    BY <1>4, <2>2 DEF Compile, TypeOK
  <2> QED
    BY <1>4, <2>2, <2>3, <2>4 DEF Compile, TypeOK, libcompat, Call
<1>5. CASE EndOfFile \/ Wait
  BY <1>5 DEF EndOfFile, Wait, TypeOK, libcompat
<1>6. CASE Archive
  BY <1>6 DEF Archive, TypeOK, libcompat
<1>7. CASE CheckError \/ RmDir
  BY <1>7 DEF CheckError, RmDir, NoDir, TypeOK
<1>8. CASE NextPackage
  BY <1>8, CompatAssumption DEF NextPackage, TypeOK, libcompat
<1>9. CASE JobEnds
  <2>1. PICK j \in jobs : /\ JobOk(j) \/ JobFail(j)
                          /\ jobs' = jobs \ {j}
                          /\ UNCHANGED <<requests, pkg, pc, todo, calls, dir, marked, headers, started, archive>>
    BY <1>9 DEF JobEnds
  <2>2. objs' \subseteq Job /\ fail' \in BOOLEAN
    BY <2>1 DEF JobOk, JobFail, Marker, TypeOK
  <2> QED
    BY <2>1, <2>2 DEF TypeOK
<1>10. CASE UNCHANGED vars
  BY <1>10 DEF vars, TypeOK, libcompat
<1> QED
  BY <1>1, <1>2, <1>3, <1>4, <1>5, <1>6, <1>7, <1>8, <1>9, <1>10 DEF Next

(* Every variable keeps its type: what is marked, compiled and archived    *)
(* are functions of compat/.                                               *)
THEOREM TypeCorrect == Spec => []TypeOK
<1>1. TypeOK /\ [Next]_vars => TypeOK'
  BY TypeNext
<1> QED
  BY <1>1, TypeInit, PTL DEF Spec

--------------------------------------------------------------------------------
(* The inductive invariant of the calls: a function is being entered only  *)
(* below functions that depend on it, so it is never met again on the      *)
(* stack, and what a call no longer waits for has its headers in place.    *)

Rank == CHOOSE rank \in [Func -> 0 .. Cardinality(Func)] :
          \A f \in DOMAIN Deps : \A d \in ToSet(Deps[f]) : rank[d] < rank[f]

Chain(s) == \A i, k \in 1 .. Len(s) : i < k => Rank[s[k].func] < Rank[s[i].func]

OnStack(s) == \A i \in 1 .. Len(s) : s[i].func \in marked \ headers

DepsLeft(s) == \A i \in 1 .. Len(s) : ToSet(s[i].deps) \subseteq ToSet(DepsOf(s[i].func))

(* A dependency is done, waits, is the next call, or (x) is about to be.   *)
Pending(s, x) ==
  \A i \in 1 .. Len(s) : \A d \in ToSet(DepsOf(s[i].func)) :
    \/ d \in headers \cup ToSet(s[i].deps)
    \/ i < Len(s) /\ d = s[i + 1].func
    \/ i = Len(s) /\ d \in x

StackInv(s, x) == Chain(s) /\ OnStack(s) /\ DepsLeft(s) /\ Pending(s, x)

(* What is marked has its headers, or is on the stack.                     *)
MarkedDone == /\ headers \subseteq marked
              /\ \A g \in marked : g \in headers \/ \E i \in 1 .. Len(calls) : calls[i].func = g

StartedDone == \A k \in 1 .. Len(started) : started[k].func \in headers

(* Jobs of a package are not before it.                                    *)
JobsPast == \A j \in jobs : j.pkg <= pkg /\ (pc = "sdk" => j.pkg < pkg)

StartedNow == pc # "sdk" => \A k \in 1 .. Len(started) : started[k].pkg = pkg

CallsInv ==
  /\ pc = "funcs" => StackInv(calls, {}) /\ MarkedDone /\ StartedDone
  /\ JobsPast /\ StartedNow
  /\ BuiltOnce /\ HeadersFirst

--------------------------------------------------------------------------------
(* The inductive invariant of the archive: until it is made, a compiler of *)
(* the build's shell runs, has failed, or has left its object.             *)

Kept(k) == started[k] \in jobs \/ fail \/ \E o \in objs : o.func = started[k].func

AllKept == \A k \in 1 .. Len(started) : started[k].shell = "build" => Kept(k)

AllArchived == \A k \in 1 .. Len(started) :
                 started[k].shell = "build" => \E o \in archive : o.func = started[k].func

KeptInv ==
  /\ pc \in {"funcs", "wait", "check"} => dir /\ AllKept
  /\ pc = "check" => Children = {}
  /\ pc \in {"rm", "build"} => AllArchived

(* With dependencies listed before what needs them, no function is entered *)
(* from another: a list is compiled line by line, in the build's shell.    *)
Ordered == \A n \in 1 .. Packages : DepsListed(requests[n])

Lines == requests[pkg]
Read == Len(Lines) - Len(todo)
FuncsRead == {Lines[i] : i \in 1 .. Read}
Called == {calls[i].func : i \in 1 .. Len(calls)}
StartedFuncs == {started[k].func : k \in 1 .. Len(started)}

LineByLine ==
  /\ Len(todo) <= Len(Lines) /\ \A i \in 1 .. Len(todo) : todo[i] = Lines[Read + i]
  /\ Len(calls) <= 1
  /\ \A i \in 1 .. Len(calls) : Read > 0 /\ calls[i].func = Lines[Read]
  /\ marked = FuncsRead

OrderedInv ==
  /\ pc = "funcs" => LineByLine
  /\ pc \in {"funcs", "wait", "check"} =>
       /\ \A k \in 1 .. Len(started) : started[k].shell = "build"
       /\ jobs \cup objs \subseteq ToSet(started)
       /\ StartedFuncs = (FuncsRead \ Called) \cap Sourced
  /\ pc \in {"wait", "check"} => todo = <<>> /\ calls = <<>>
  /\ pc \notin {"funcs", "wait"} => jobs = {}
  /\ pc \in {"rm", "build"} =>
       archive = {j \in Job : j.pkg = pkg /\ j.shell = "build" /\ j.func \in ToSet(Lines)}

ArchiveInv == KeptInv /\ (Ordered => OrderedInv)

--------------------------------------------------------------------------------
(* Each function once, and after what it depends on.                       *)

LEMMA RankFacts ==
  /\ Rank \in [Func -> Int]
  /\ \A f \in Func : \A d \in ToSet(DepsOf(f)) : Rank[d] < Rank[f]
<1> DEFINE Good(rank) == \A f \in DOMAIN Deps : \A d \in ToSet(Deps[f]) : rank[d] < rank[f]
<1>1. \E rank \in [Func -> 0 .. Cardinality(Func)] : Good(rank)
  BY AcyclicAssumption
<1>2. Rank \in [Func -> 0 .. Cardinality(Func)] /\ Good(Rank)
  <2> HIDE DEF Good
  <2>1. Rank = CHOOSE rank \in [Func -> 0 .. Cardinality(Func)] : Good(rank)
    BY Zenon DEF Rank, Good
  <2> QED
    BY <1>1, <2>1, Zenon
<1>3. ToSet(<<>>) = {}
  BY DEF ToSet
<1> QED
  BY <1>2, <1>3 DEF DepsOf

(* Entering f below s, when f ranks below all of s.                        *)
LEMMA EnterInv ==
  ASSUME TypeOK, pc = "funcs", MarkedDone, UNCHANGED headers,
         NEW f, NEW s \in Seq(Call), Enter(f, s), StackInv(s, {f}),
         f \in Func => \A i \in 1 .. Len(s) : Rank[f] < Rank[s[i].func],
         \A i \in 1 .. Len(calls) : \E k \in 1 .. Len(s) : s[k].func = calls[i].func
  PROVE  pc' = "funcs" => StackInv(calls, {})' /\ MarkedDone'
<1>1. CASE pc' = "error"
  BY <1>1
<1>2. /\ Len(s) \in Nat /\ \A i \in 1 .. Len(s) : s[i] \in Call
      /\ Rank \in [Func -> Int]
  BY LenProperties, ElementOfSeq, RankFacts
<1>3. CASE Known(f) /\ SkipMarked(f) /\ calls' = s /\ UNCHANGED <<pc, libcompat>>
  <2>1. f \in Func /\ f \in marked
    BY <1>3 DEF Known, SkipMarked
  <2>2. \A i \in 1 .. Len(s) : s[i].func # f
    BY <1>2, <2>1 DEF Call
  <2>3. f \in headers
    BY <2>1, <2>2 DEF MarkedDone
  <2>4. Pending(s, {})
    BY <2>3 DEF StackInv, Pending
  <2>5. calls' = s /\ marked' = marked /\ headers' = headers
    BY <1>3 DEF libcompat
  <2>6. StackInv(calls, {})'
    BY <2>4, <2>5 DEF StackInv, Chain, OnStack, DepsLeft, Pending
  <2>7. MarkedDone'
    BY <2>5 DEF MarkedDone
  <2> QED
    BY <2>6, <2>7
<1>4. CASE /\ Known(f) /\ ~SkipMarked(f)
           /\ marked' = marked \cup {f}
           /\ calls' = Append(s, [func |-> f, deps |-> DepsOf(f)])
           /\ UNCHANGED <<pc, dir, fail, objs>>
  <2> DEFINE n == Len(s)
             e == [func |-> f, deps |-> DepsOf(f)]
  <2>1. f \in Func /\ f \notin marked /\ f \notin headers /\ n \in Nat
    BY <1>2, <1>4 DEF Known, SkipMarked, MarkedDone
  <2>2. e \in Call /\ e.func = f /\ e.deps = DepsOf(f)
    BY <2>1, DepsOfType DEF Call
  <2> HIDE DEF e
  <2>3. /\ Len(calls') = n + 1 /\ calls'[n + 1] = e
        /\ \A i \in 1 .. n : calls'[i] = s[i]
    BY <1>4, <2>2, AppendProperties DEF e
  <2>4. Chain(calls')
    <3> SUFFICES ASSUME NEW i \in 1 .. n + 1, NEW k \in 1 .. n + 1, i < k
                 PROVE  Rank[calls'[k].func] < Rank[calls'[i].func]
      BY <2>3 DEF Chain
    <3>1. i \in 1 .. n
      BY <2>1
    <3>2. CASE k = n + 1
      BY <2>1, <2>2, <2>3, <3>1, <3>2
    <3>3. CASE k \in 1 .. n
      BY <2>3, <3>1, <3>3 DEF StackInv, Chain
    <3> QED
      BY <2>1, <3>2, <3>3
  <2>5. OnStack(calls)'
    <3> SUFFICES ASSUME NEW i \in 1 .. n + 1
                 PROVE  calls'[i].func \in marked' \ headers'
      BY <2>3 DEF OnStack
    <3>1. CASE i = n + 1
      BY <1>4, <2>1, <2>2, <2>3, <3>1
    <3>2. CASE i \in 1 .. n
      BY <1>4, <2>3, <3>2 DEF StackInv, OnStack
    <3> QED
      BY <2>1, <3>1, <3>2
  <2>6. DepsLeft(calls')
    <3> SUFFICES ASSUME NEW i \in 1 .. n + 1
                 PROVE  ToSet(calls'[i].deps) \subseteq ToSet(DepsOf(calls'[i].func))
      BY <2>3 DEF DepsLeft
    <3>1. CASE i = n + 1
      BY <2>2, <2>3, <3>1
    <3>2. CASE i \in 1 .. n
      BY <2>3, <3>2 DEF StackInv, DepsLeft
    <3> QED
      BY <2>1, <3>1, <3>2
  <2>7. Pending(calls, {})'
    <3> SUFFICES ASSUME NEW i \in 1 .. n + 1, NEW d \in ToSet(DepsOf(calls'[i].func))
                 PROVE  \/ d \in headers \cup ToSet(calls'[i].deps)
                        \/ i < n + 1 /\ d = calls'[i + 1].func
      BY <2>3 DEF Pending
    <3>1. CASE i = n + 1
      BY <2>2, <2>3, <3>1
    <3>2. CASE i = n /\ n > 0
      <4>1. d \in headers \cup ToSet(s[i].deps) \/ d = f
        BY <2>1, <2>3, <3>2 DEF StackInv, Pending
      <4> QED
        BY <2>1, <2>2, <2>3, <3>2, <4>1
    <3>3. CASE i \in 1 .. n /\ i < n
      <4>1. i + 1 \in 1 .. n
        BY <2>1, <3>3
      <4>2. d \in headers \cup ToSet(s[i].deps) \/ d = s[i + 1].func
        BY <2>3, <3>3 DEF StackInv, Pending
      <4> QED
        BY <2>1, <2>3, <3>3, <4>1, <4>2
    <3> QED
      BY <2>1, <3>1, <3>2, <3>3
  <2>8. MarkedDone'
    <3>1. \A g \in marked : g \in headers \/ \E k \in 1 .. n : s[k].func = g
      BY DEF MarkedDone
    <3> QED
      BY <1>4, <2>1, <2>2, <2>3, <3>1, SMTT(30) DEF MarkedDone
  <2> QED
    BY <2>4, <2>5, <2>6, <2>7, <2>8 DEF StackInv, Chain, DepsLeft
<1> QED
  BY <1>1, <1>3, <1>4 DEF Enter
LEMMA CallsInit == ASSUME Init PROVE CallsInv
<1>1. Len(<<>>) = 0
  OBVIOUS
<1> QED
  BY <1>1 DEF Init, CallsInv, JobsPast, StartedNow, BuiltOnce, HeadersFirst

LEMMA NextLineCalls == ASSUME TypeOK, CallsInv, NextLine PROVE CallsInv'
<1>1. /\ pc = "funcs" /\ calls = <<>> /\ Enter(Head(todo), <<>>) /\ UNCHANGED headers
      /\ UNCHANGED <<requests, pkg, jobs, started>>
  BY DEF NextLine
<1>2. <<>> \in Seq(Call) /\ Len(<<>>) = 0 /\ 1 .. 0 = {}
  BY EmptySeq
<1>3. StackInv(<<>>, {Head(todo)})
  BY <1>2 DEF StackInv, Chain, OnStack, DepsLeft, Pending
<1>4. pc' = "funcs" => StackInv(calls, {})' /\ MarkedDone'
  BY <1>1, <1>2, <1>3, EnterInv DEF CallsInv
<1>5. pc' \in {"funcs", "error"}
  BY <1>1, <1>2, EnterType
<1> QED
  BY <1>1, <1>4, <1>5
     DEF CallsInv, StartedDone, JobsPast, StartedNow, BuiltOnce, HeadersFirst

LEMMA NextDepCalls == ASSUME TypeOK, CallsInv, NextDep PROVE CallsInv'
<1> DEFINE f == Head(Last(calls).deps)
           n == Len(calls)
<1>1. /\ pc = "funcs" /\ calls # <<>> /\ Last(calls).deps # <<>>
      /\ Enter(f, Rest) /\ UNCHANGED headers
      /\ UNCHANGED <<requests, pkg, jobs, started>>
  BY DEF NextDep, Rest
<1>2. /\ n \in Nat \ {0} /\ Last(calls) = calls[n] /\ Last(calls) \in Call
      /\ Rest \in Seq(Call) /\ Len(Rest) = n
      /\ \A i \in 1 .. n - 1 : Rest[i] = calls[i]
      /\ Rest[n] = [Last(calls) EXCEPT !.deps = Tail(@)]
      /\ f \in Func
  BY <1>1, RestFacts
<1>3. Rest[n].func = calls[n].func /\ Rest[n].deps = Tail(calls[n].deps)
  BY <1>2 DEF Call
<1>4. ToSet(calls[n].deps) = {f} \cup ToSet(Rest[n].deps)
  BY <1>1, <1>2, <1>3, ToSetFacts DEF Call
<1>5. ASSUME NEW i \in 1 .. n
      PROVE  Rest[i].func = calls[i].func /\ (i # n => Rest[i] = calls[i])
  <2>1. CASE i = n
    BY <1>3, <2>1
  <2>2. CASE i \in 1 .. n - 1
    BY <1>2, <2>2
  <2> QED
    BY <1>2, <2>1, <2>2
<1>6. \A i \in 1 .. n : calls[i] \in Call
  BY ElementOfSeq DEF TypeOK, Call
<1> HIDE DEF f, n
<1>7. StackInv(calls, {}) /\ Len(calls) = n
  BY <1>1 DEF CallsInv, n
<1>8. StackInv(Rest, {f})
  <2>1. Chain(Rest)
    BY <1>2, <1>5, <1>7 DEF StackInv, Chain
  <2>2. OnStack(Rest)
    BY <1>2, <1>5, <1>7 DEF StackInv, OnStack
  <2>3. DepsLeft(Rest)
    <3> SUFFICES ASSUME NEW i \in 1 .. n
                 PROVE  ToSet(Rest[i].deps) \subseteq ToSet(DepsOf(Rest[i].func))
      BY <1>2 DEF DepsLeft
    <3>1. ToSet(calls[i].deps) \subseteq ToSet(DepsOf(calls[i].func))
      BY <1>7 DEF StackInv, DepsLeft
    <3> QED
      BY <1>4, <1>5, <3>1
  <2>4. Pending(Rest, {f})
    <3> SUFFICES ASSUME NEW i \in 1 .. n, NEW d \in ToSet(DepsOf(Rest[i].func))
                 PROVE  \/ d \in headers \cup ToSet(Rest[i].deps)
                        \/ i < n /\ d = Rest[i + 1].func
                        \/ i = n /\ d \in {f}
      BY <1>2 DEF Pending
    <3>1. d \in headers \cup ToSet(calls[i].deps) \/ (i < n /\ d = calls[i + 1].func)
      BY <1>5, <1>7 DEF StackInv, Pending
    <3>2. i < n => i + 1 \in 1 .. n
      BY <1>2
    <3> QED
      BY <1>2, <1>4, <1>5, <3>1, <3>2
  <2> QED
    BY <2>1, <2>2, <2>3, <2>4 DEF StackInv
<1>9. ASSUME NEW i \in 1 .. n PROVE Rank[f] < Rank[Rest[i].func]
  <2>1. f \in ToSet(DepsOf(calls[n].func)) /\ n \in 1 .. n
    BY <1>2, <1>4, <1>7 DEF StackInv, DepsLeft
  <2>2. /\ calls[n].func \in Func /\ calls[i].func \in Func
        /\ Rank[f] \in Int /\ Rank[calls[n].func] \in Int /\ Rank[calls[i].func] \in Int
    BY <1>2, <1>6, <2>1, RankFacts DEF Call
  <2>3. Rank[f] < Rank[calls[n].func]
    BY <2>1, <2>2, RankFacts
  <2>4. i = n \/ Rank[calls[n].func] < Rank[calls[i].func]
    BY <1>2, <1>7, <2>1 DEF StackInv, Chain
  <2> QED
    BY <1>5, <2>2, <2>3, <2>4
<1>10. \A i \in 1 .. Len(calls) : \E k \in 1 .. Len(Rest) : Rest[k].func = calls[i].func
  BY <1>2, <1>5, <1>7
<1>11. \A i \in 1 .. Len(Rest) : Rank[f] < Rank[Rest[i].func]
  BY <1>2, <1>9
<1>12. pc' = "funcs" => StackInv(calls, {})' /\ MarkedDone'
  BY <1>1, <1>2, <1>8, <1>10, <1>11, EnterInv DEF CallsInv
<1>13. pc' \in {"funcs", "error"}
  BY <1>1, <1>2, EnterType
<1> QED
  BY <1>1, <1>12, <1>13
     DEF CallsInv, StartedDone, JobsPast, StartedNow, BuiltOnce, HeadersFirst

LEMMA CompileCalls == ASSUME TypeOK, CallsInv, Compile PROVE CallsInv'
<1> DEFINE n == Len(calls)
           g == Last(calls).func
           m == Len(started)
<1>1. /\ pc = "funcs" /\ pc' = "funcs" /\ calls # <<>> /\ Last(calls).deps = <<>>
      /\ headers' = headers \cup {g} /\ calls' = Front(calls)
      /\ UNCHANGED <<requests, pkg, marked>>
  BY DEF Compile, ReadyToCompile, libcompat
<1>2. /\ n \in Nat \ {0} /\ calls[n] \in Call /\ g = calls[n].func /\ calls[n].deps = <<>>
      /\ Len(calls') = n - 1 /\ \A i \in 1 .. n - 1 : calls'[i] = calls[i]
  <2>1. calls \in Seq(Call)
    BY DEF TypeOK, Call
  <2>2. /\ n \in Nat \ {0} /\ Last(calls) = calls[n] /\ Last(calls) \in Call
        /\ Len(Front(calls)) = n - 1 /\ \A i \in 1 .. n - 1 : Front(calls)[i] = calls[i]
    BY <1>1, <2>1, FrontFacts
  <2> QED
    BY <1>1, <2>2
<1>3. /\ jobs' = jobs \cup ToSet(New) /\ m \in Nat
      /\ Len(started') = m + Len(New) /\ \A i \in 1 .. m : started'[i] = started[i]
      /\ New = <<>> => Len(New) = 0 /\ ToSet(New) = {}
      /\ New # <<>> => Len(New) = 1 /\ ToSet(New) = {Compiler} /\ started'[m + 1] = Compiler
  BY NewFacts
<1>4. Compiler.func = g /\ Compiler.pkg = pkg
  BY DEF Compiler
<1>5. \A i \in 1 .. n : calls[i] \in Call
  BY ElementOfSeq DEF TypeOK, Call
<1>6. StackInv(calls, {}) /\ MarkedDone /\ StartedDone /\ JobsPast /\ StartedNow
      /\ BuiltOnce /\ HeadersFirst
  BY <1>1 DEF CallsInv
<1> HIDE DEF g, m
<1>7. g \in marked \ headers
  BY <1>2, <1>6 DEF StackInv, OnStack
<1>8. ToSet(DepsOf(g)) \subseteq headers
  <2>1. ToSet(calls[n].deps) = {}
    BY <1>2 DEF ToSet
  <2> QED
    BY <1>2, <1>6, <2>1 DEF StackInv, Pending
<1>9. StackInv(calls, {})'
  <2>1. Chain(calls')
    BY <1>2, <1>6 DEF StackInv, Chain
  <2>2. OnStack(calls)'
    <3> SUFFICES ASSUME NEW i \in 1 .. n - 1 PROVE calls'[i].func \in marked' \ headers'
      BY <1>2 DEF OnStack
    <3>1. Rank[g] < Rank[calls[i].func] /\ calls[i].func \in marked \ headers
      BY <1>2, <1>6 DEF StackInv, Chain, OnStack
    <3>2. calls[i].func # g
      BY <1>2, <1>5, <3>1, RankFacts DEF Call
    <3> QED
      BY <1>1, <1>2, <3>1, <3>2
  <2>3. DepsLeft(calls')
    <3>1. \A i \in 1 .. n - 1 : i \in 1 .. n
      BY <1>2
    <3>2. \A i \in 1 .. n : ToSet(calls[i].deps) \subseteq ToSet(DepsOf(calls[i].func))
      BY <1>6 DEF StackInv, DepsLeft
    <3> QED
      BY <1>2, <3>1, <3>2 DEF DepsLeft
  <2>4. Pending(calls, {})'
    <3> SUFFICES ASSUME NEW i \in 1 .. n - 1, NEW d \in ToSet(DepsOf(calls'[i].func))
                 PROVE  \/ d \in headers' \cup ToSet(calls'[i].deps)
                        \/ i < n - 1 /\ d = calls'[i + 1].func
      BY <1>2 DEF Pending
    <3>1. d \in headers \cup ToSet(calls[i].deps) \/ d = calls[i + 1].func
      BY <1>2, <1>6 DEF StackInv, Pending
    <3>2. i = n - 1 \/ (i < n - 1 /\ i + 1 \in 1 .. n - 1)
      BY <1>2
    <3>3. i = n - 1 => calls[i + 1].func = g
      BY <1>2
    <3> QED
      BY <1>1, <1>2, <3>1, <3>2, <3>3
  <2> QED
    BY <2>1, <2>2, <2>3, <2>4 DEF StackInv, Chain, DepsLeft
<1>10. MarkedDone'
  <2>1. ASSUME NEW h \in marked PROVE h \in headers' \/ \E i \in 1 .. n - 1 : calls'[i].func = h
    <3>1. h \in headers \/ \E i \in 1 .. n : calls[i].func = h
      BY <1>6 DEF MarkedDone
    <3>2. ASSUME NEW i \in 1 .. n, calls[i].func = h PROVE h = g \/ i \in 1 .. n - 1
      BY <1>2, <3>2
    <3> QED
      BY <1>1, <1>2, <3>1, <3>2
  <2>2. headers' \subseteq marked'
    BY <1>1, <1>6, <1>7 DEF MarkedDone
  <2> QED
    BY <1>1, <1>2, <2>1, <2>2 DEF MarkedDone
<1>11. StartedDone' /\ StartedNow' /\ BuiltOnce'
  <2>1. /\ \A k \in 1 .. m : started[k].func \in headers /\ started[k].pkg = pkg
        /\ \A i, k \in 1 .. m : started[i].func = started[k].func => i = k
    BY <1>1, <1>6 DEF StartedDone, StartedNow, BuiltOnce, m
  <2>2. CASE New = <<>>
    <3>1. Len(started') = m
      BY <1>3, <2>2
    <3> QED
      BY <1>1, <1>3, <2>1, <3>1 DEF StartedDone, StartedNow, BuiltOnce
  <2>3. CASE New # <<>>
    <3>1. /\ Len(started') = m + 1 /\ started'[m + 1] = Compiler
          /\ \A k \in 1 .. m + 1 : k \in 1 .. m \/ k = m + 1
      <4>1. Len(New) = 1 /\ started'[m + 1] = Compiler
        BY <1>3, <2>3
      <4>2. Len(started') = m + 1
        BY <1>3, <4>1
      <4> QED
        BY <1>3, <4>1, <4>2
    <3>2. StartedDone' /\ StartedNow'
      BY <1>1, <1>3, <1>4, <2>1, <3>1 DEF StartedDone, StartedNow
    <3>3. \A i, k \in 1 .. m + 1 : started'[i].func = started'[k].func => i = k
      BY <1>3, <1>4, <1>7, <2>1, <3>1
    <3> QED
      BY <3>1, <3>2, <3>3 DEF BuiltOnce
  <2> QED
    BY <2>2, <2>3
<1>12. JobsPast' /\ HeadersFirst'
  <2>1. \A j \in jobs' : j \in jobs \/ j = Compiler
    BY <1>3
  <2>2. JobsPast'
    BY <1>1, <1>4, <1>6, <2>1 DEF JobsPast, TypeOK
  <2> QED
    BY <1>1, <1>4, <1>6, <1>8, <2>1, <2>2 DEF HeadersFirst
<1> QED
  BY <1>9, <1>10, <1>11, <1>12 DEF CallsInv

LEMMA CallsNext == ASSUME TypeOK, CallsInv, [Next]_vars PROVE CallsInv'
<1>1. CASE Includefuncs
  <2>1. /\ pc = "sdk" /\ pc' = "funcs" /\ calls' = <<>> /\ marked' = {} /\ headers' = {}
        /\ started' = <<>> /\ UNCHANGED <<pkg, jobs>>
    BY <1>1 DEF Includefuncs
  <2>2. Len(calls') = 0 /\ Len(started') = 0 /\ 1 .. 0 = {}
    BY <2>1
  <2>3. JobsPast' /\ \A j \in jobs' : j.pkg # pkg'
    BY <2>1 DEF CallsInv, JobsPast, TypeOK, Job
  <2>4. StackInv(calls, {})' /\ MarkedDone' /\ StartedDone' /\ StartedNow' /\ BuiltOnce'
    BY <2>1, <2>2 DEF StackInv, Chain, OnStack, DepsLeft, Pending, MarkedDone, StartedDone,
       StartedNow, BuiltOnce
  <2> QED
    BY <2>3, <2>4 DEF CallsInv, HeadersFirst
<1>2. CASE NextPackage
  <2>1. /\ pc \in {"build", "error"} /\ UNCHANGED <<headers, jobs, started>>
        /\ \/ pkg' = pkg + 1 /\ pc' = "sdk"
           \/ pkg' = pkg /\ pc' = "end"
    BY <1>2 DEF NextPackage
  <2>2. JobsPast' /\ StartedNow'
    BY <2>1 DEF CallsInv, JobsPast, StartedNow, TypeOK, Job
  <2> QED
    BY <2>1, <2>2 DEF CallsInv, BuiltOnce, HeadersFirst
<1>3. CASE EndOfFile \/ Wait \/ Archive \/ CheckError \/ RmDir
  <2>1. /\ pc \in {"funcs", "wait", "check", "rm"} /\ pc' \notin {"sdk", "funcs"}
        /\ UNCHANGED <<pkg, headers, jobs, started>>
    BY <1>3 DEF EndOfFile, Wait, Archive, CheckError, RmDir
  <2> QED
    BY <2>1 DEF CallsInv, JobsPast, StartedNow, BuiltOnce, HeadersFirst
<1>4. CASE JobEnds
  <2>1. /\ jobs' \subseteq jobs
        /\ UNCHANGED <<pkg, pc, calls, marked, headers, started>>
    BY <1>4 DEF JobEnds
  <2>2. CallsInv
    OBVIOUS
  <2> QED
    BY <2>1 DEF CallsInv, StackInv, Chain, OnStack, DepsLeft, Pending, MarkedDone, StartedDone,
       JobsPast, StartedNow, BuiltOnce, HeadersFirst
<1>5. CASE UNCHANGED vars
  BY <1>5 DEF vars, libcompat, CallsInv, StackInv, Chain, OnStack, DepsLeft, Pending, MarkedDone,
     StartedDone, JobsPast, StartedNow, BuiltOnce, HeadersFirst
<1> QED
  BY <1>1, <1>2, <1>3, <1>4, <1>5, NextLineCalls, NextDepCalls, CompileCalls DEF Next
--------------------------------------------------------------------------------
(* No object is missed.                                                    *)

(* Entering a function leaves the directory alone, or ends the run.        *)
LEMMA EnterKeeps ==
  ASSUME NEW f, NEW s, Enter(f, s), pc = "funcs"
  PROVE  pc' = "error" \/ (pc' = "funcs" /\ UNCHANGED <<dir, fail, objs>>)
BY DEF Enter, libcompat

LEMMA KeptNext ==
  ASSUME TypeOK, CallsInv, KeptInv, [Next]_vars
  PROVE  KeptInv'
<1>1. CASE Includefuncs
  <2>1. pc' = "funcs" /\ dir' = TRUE /\ started' = <<>>
    BY <1>1 DEF Includefuncs
  <2>2. Len(started') = 0 /\ 1 .. 0 = {}
    BY <2>1
  <2> QED
    BY <2>1, <2>2 DEF KeptInv, AllKept
<1>2. CASE NextLine \/ NextDep
  <2>1. pc = "funcs" /\ UNCHANGED <<jobs, started>>
    BY <1>2 DEF NextLine, NextDep
  <2>2. pc' = "error" \/ (pc' = "funcs" /\ UNCHANGED <<dir, fail, objs>>)
    BY <1>2, <2>1, EnterKeeps DEF NextLine, NextDep
  <2>3. ASSUME pc' = "funcs" PROVE dir' /\ AllKept'
    <3>1. dir /\ AllKept
      BY <2>1 DEF KeptInv
    <3> QED
      BY <2>1, <2>2, <2>3, <3>1 DEF AllKept, Kept
  <2> QED
    BY <2>2, <2>3 DEF KeptInv
<1>3. CASE Compile
  <2>1. pc = "funcs" /\ pc' = "funcs" /\ UNCHANGED <<dir, fail, objs>>
    BY <1>3 DEF Compile, libcompat
  <2>2. /\ jobs' = jobs \cup ToSet(New) /\ Len(started) \in Nat
        /\ Len(started') = Len(started) + Len(New)
        /\ \A i \in 1 .. Len(started) : started'[i] = started[i]
        /\ New = <<>> => Len(New) = 0
        /\ New # <<>> => /\ Len(New) = 1 /\ ToSet(New) = {Compiler}
                         /\ started'[Len(started) + 1] = Compiler
    BY <1>3, NewFacts
  <2>3. ASSUME NEW k \in 1 .. Len(started'), started'[k].shell = "build"
        PROVE  Kept(k)'
    <3>1. CASE k \in 1 .. Len(started)
      <4>1. Kept(k)
        BY <2>1, <2>2, <2>3, <3>1 DEF KeptInv, AllKept
      <4>2. started'[k] = started[k] /\ jobs \subseteq jobs'
        BY <2>2, <3>1
      <4> QED
        BY <2>1, <4>1, <4>2 DEF Kept
    <3>2. CASE k \notin 1 .. Len(started)
      <4>1. New # <<>> /\ k = Len(started) + 1
        <5>1. /\ Len(started') = Len(started) + Len(New) /\ Len(started) \in Nat
              /\ Len(New) = 0 \/ (New # <<>> /\ Len(New) = 1)
          BY <2>2, Zenon
        <5>2. Len(New) = 1
          BY <2>3, <3>2, <5>1
        <5>3. k = Len(started) + 1
          BY <3>2, <5>1, <5>2
        <5> QED
          BY <5>1, <5>2, <5>3
      <4>2. started'[k] = Compiler /\ Compiler \in jobs'
        BY <2>2, <4>1
      <4> QED
        BY <4>2 DEF Kept
    <3> QED
      BY <3>1, <3>2
  <2> QED
    BY <2>1, <2>3 DEF KeptInv, AllKept
<1>4. CASE EndOfFile \/ Wait
  BY <1>4 DEF EndOfFile, Wait, libcompat, KeptInv, AllKept, Kept, Children
<1>5. CASE Archive
  <2>1. pc = "check" /\ pc' = "rm" /\ ~fail /\ archive' = objs /\ UNCHANGED started
    BY <1>5 DEF Archive
  <2>2. ASSUME NEW k \in 1 .. Len(started), started[k].shell = "build"
        PROVE  \E o \in objs : o.func = started[k].func
    <3>1. Kept(k) /\ started[k].pkg = pkg
      BY <2>1, <2>2 DEF KeptInv, AllKept, CallsInv, StartedNow
    <3>2. started[k] \notin jobs
      BY <2>1, <2>2, <3>1 DEF KeptInv, Children
    <3> QED
      BY <2>1, <3>1, <3>2 DEF Kept
  <2>3. AllArchived'
    BY <2>1, <2>2 DEF AllArchived
  <2> QED
    BY <2>1, <2>3 DEF KeptInv
<1>6. CASE CheckError \/ NextPackage
  BY <1>6 DEF CheckError, NextPackage, KeptInv
<1>7. CASE RmDir
  BY <1>7 DEF RmDir, KeptInv, AllArchived
<1>8. CASE JobEnds
  <2>1. PICK j \in jobs : /\ JobOk(j) \/ JobFail(j)
                          /\ jobs' = jobs \ {j}
                          /\ UNCHANGED <<requests, pkg, pc, todo, calls, dir, marked, headers, started, archive>>
    BY <1>8 DEF JobEnds
  <2>2. ASSUME dir, NEW k \in 1 .. Len(started), Kept(k)
        PROVE  Kept(k)'
    <3>1. CASE JobOk(j)
      <4>1. objs' = {o \in objs : o.func # j.func} \cup {j} /\ fail' = fail
        BY <2>2, <3>1 DEF JobOk
      <4> QED
        BY <2>1, <2>2, <4>1 DEF Kept
    <3>2. CASE JobFail(j)
      BY <2>2, <3>2 DEF JobFail, Marker, Kept
    <3> QED
      BY <2>1, <3>1, <3>2
  <2>3. AllKept /\ dir => AllKept'
    BY <2>1, <2>2 DEF AllKept
  <2>4. Children' \subseteq Children
    BY <2>1 DEF Children
  <2>5. AllArchived => AllArchived'
    BY <2>1 DEF AllArchived
  <2> QED
    BY <2>1, <2>3, <2>4, <2>5 DEF KeptInv
<1>9. CASE UNCHANGED vars
  BY <1>9 DEF vars, libcompat, KeptInv, AllKept, AllArchived, Kept, Children
<1> QED
  BY <1>1, <1>2, <1>3, <1>4, <1>5, <1>6, <1>7, <1>8, <1>9 DEF Next
--------------------------------------------------------------------------------
(* Nothing else is archived, when dependencies are listed first.           *)

LEMMA LinesFacts ==
  ASSUME TypeOK
  PROVE  /\ Lines \in Seq(Line) /\ Len(Lines) \in Nat /\ Len(todo) \in Nat
         /\ Ordered => DepsListed(Lines)
         /\ pkg \in 1 .. Packages
<1>1. pkg \in 1 .. Packages /\ Lines \in Requests
  BY DEF TypeOK, Lines
<1>2. Lines \in Seq(Line) /\ todo \in Seq(Line)
  BY <1>1, RequestType DEF TypeOK
<1> QED
  BY <1>1, <1>2, LenProperties DEF Ordered, Lines

LEMMA NextLineOrdered ==
  ASSUME TypeOK, Ordered, OrderedInv, NextLine
  PROVE  OrderedInv'
<1> DEFINE f == Head(todo)
<1>1. /\ pc = "funcs" /\ calls = <<>> /\ todo # <<>> /\ Enter(f, <<>>) /\ todo' = Tail(todo)
      /\ UNCHANGED <<requests, pkg, jobs, started>>
  BY DEF NextLine
<1>2. /\ Len(todo) \in Nat \ {0} /\ f = todo[1]
      /\ Len(todo') = Len(todo) - 1 /\ \A i \in 1 .. Len(todo) - 1 : todo'[i] = todo[i + 1]
  BY <1>1, HeadTailProperties, EmptySeq DEF TypeOK
<1>3. /\ LineByLine /\ \A k \in 1 .. Len(started) : started[k].shell = "build"
      /\ jobs \cup objs \subseteq ToSet(started)
      /\ StartedFuncs = (FuncsRead \ Called) \cap Sourced
  BY <1>1 DEF OrderedInv
<1>4. Len(Lines) \in Nat /\ DepsListed(Lines) /\ DOMAIN Lines = 1 .. Len(Lines)
  BY LinesFacts, LenProperties
<1>5. Lines' = Lines /\ Read \in 0 .. Len(Lines) - 1 /\ Read' = Read + 1
  BY <1>1, <1>2, <1>3, <1>4 DEF LineByLine, Read, Lines
<1>6. f = Lines[Read'] /\ Read' \in 1 .. Len(Lines)
  BY <1>2, <1>3, <1>4, <1>5 DEF LineByLine
<1>7. f \in Func /\ Known(f)
  BY <1>4, <1>6 DEF DepsListed, Known
<1>8. FuncsRead' = FuncsRead \cup {f} /\ FuncsRead = marked /\ Called = {}
  <2>1. \A i \in 1 .. Read + 1 : i \in 1 .. Read \/ i = Read + 1
    BY <1>5
  <2>2. 1 .. Read \subseteq 1 .. Read + 1 /\ Read + 1 \in 1 .. Read + 1
    BY <1>5
  <2>3. Len(calls) = 0
    BY <1>1
  <2> QED
    BY <1>3, <1>5, <1>6, <2>1, <2>2, <2>3 DEF FuncsRead, LineByLine, Called
<1>9. \A i \in 1 .. Len(todo') : todo'[i] = Lines'[Read' + i]
  <2> SUFFICES ASSUME NEW i \in 1 .. Len(todo') PROVE todo'[i] = Lines'[Read' + i]
    OBVIOUS
  <2>1. i + 1 \in 1 .. Len(todo) /\ i \in 1 .. Len(todo) - 1
    BY <1>2
  <2>2. todo'[i] = todo[i + 1] /\ todo[i + 1] = Lines[Read + (i + 1)]
    BY <1>2, <1>3, <2>1 DEF LineByLine
  <2>3. Read' + i = Read + (i + 1)
    BY <1>2, <1>5
  <2> QED
    BY <1>5, <2>2, <2>3
<1>10. Len(todo') <= Len(Lines')
  BY <1>2, <1>3, <1>4, <1>5 DEF LineByLine
<1>11. StartedFuncs' = StartedFuncs
  BY <1>1 DEF StartedFuncs
<1>12. CASE SkipMarked(f) /\ calls' = <<>> /\ UNCHANGED <<pc, libcompat>>
  <2>1. FuncsRead' = marked' /\ Len(calls') = 0 /\ Called' = {} /\ FuncsRead' = FuncsRead
    BY <1>8, <1>12 DEF SkipMarked, libcompat, Called
  <2>2. LineByLine'
    BY <1>9, <1>10, <2>1 DEF LineByLine
  <2> QED
    BY <1>1, <1>3, <1>8, <1>11, <1>12, <2>1, <2>2 DEF OrderedInv, libcompat
<1>13. CASE /\ ~SkipMarked(f)
            /\ marked' = marked \cup {f}
            /\ calls' = Append(<<>>, [func |-> f, deps |-> DepsOf(f)])
            /\ UNCHANGED <<pc, dir, fail, objs>>
  <2>1. Len(calls') = 1 /\ calls'[1].func = f
    BY <1>13
  <2>2. Called' = {f} /\ f \notin FuncsRead
    BY <1>8, <1>13, <2>1 DEF Called, SkipMarked
  <2>3. LineByLine'
    BY <1>5, <1>6, <1>8, <1>9, <1>10, <1>13, <2>1 DEF LineByLine
  <2>4. StartedFuncs' = (FuncsRead' \ Called') \cap Sourced
    BY <1>3, <1>8, <1>11, <2>2
  <2> QED
    BY <1>1, <1>3, <1>13, <2>3, <2>4 DEF OrderedInv
<1> QED
  BY <1>1, <1>7, <1>12, <1>13 DEF Enter

LEMMA NextDepOrdered ==
  ASSUME TypeOK, CallsInv, Ordered, OrderedInv, NextDep
  PROVE  OrderedInv'
<1> DEFINE f == Head(Last(calls).deps)
<1>1. /\ pc = "funcs" /\ calls # <<>> /\ Last(calls).deps # <<>> /\ Enter(f, Rest)
      /\ UNCHANGED <<requests, pkg, todo, jobs, started>>
  BY DEF NextDep, Rest
<1>2. /\ Len(calls) \in Nat \ {0} /\ Last(calls) = calls[Len(calls)] /\ Last(calls) \in Call
      /\ Len(Rest) = Len(calls) /\ Rest[Len(calls)] = [Last(calls) EXCEPT !.deps = Tail(@)]
      /\ f \in Func
  BY <1>1, RestFacts
<1>3. /\ LineByLine /\ StackInv(calls, {})
      /\ \A k \in 1 .. Len(started) : started[k].shell = "build"
      /\ jobs \cup objs \subseteq ToSet(started)
      /\ StartedFuncs = (FuncsRead \ Called) \cap Sourced
  BY <1>1 DEF OrderedInv, CallsInv
<1>4. Len(calls) = 1
  BY <1>2, <1>3 DEF LineByLine
<1>5. Len(Rest) = 1 /\ Rest[1].func = calls[1].func
  BY <1>2, <1>4 DEF Call
<1>6. calls[1].func = Lines[Read] /\ Read > 0 /\ Read \in Int /\ Read <= Len(Lines)
  BY <1>3, <1>4, LinesFacts DEF LineByLine, Read
<1>7. f \in ToSet(DepsOf(Lines[Read]))
  <2>1. f \in ToSet(calls[1].deps)
    BY <1>1, <1>2, <1>4, ToSetFacts DEF Call
  <2> QED
    BY <1>3, <1>4, <1>6, <2>1 DEF StackInv, DepsLeft
<1>8. f \in marked
  <2>1. Lines \in Seq(Line) /\ DOMAIN Lines = 1 .. Len(Lines) /\ Len(Lines) \in Nat
    BY LinesFacts, LenProperties
  <2>2. \E k \in 1 .. Read - 1 : Lines[k] = f
    BY <1>6, <1>7, <2>1, LinesFacts DEF DepsListed
  <2>3. 1 .. Read - 1 \subseteq 1 .. Read
    BY <1>6
  <2> QED
    BY <1>3, <2>2, <2>3 DEF LineByLine, FuncsRead
<1>9. calls' = Rest /\ UNCHANGED <<pc, libcompat>>
  BY <1>1, <1>2, <1>8 DEF Enter, Known, SkipMarked
<1>10. /\ Called' = Called /\ StartedFuncs' = StartedFuncs /\ FuncsRead' = FuncsRead
       /\ Lines' = Lines /\ Read' = Read
  <2>1. Lines' = Lines /\ Read' = Read
    BY <1>1 DEF Lines, Read
  <2>2. calls' = Rest /\ 1 .. 1 = {1}
    BY <1>9
  <2>3. Called = {calls[1].func} /\ Called' = {Rest[1].func}
    BY <1>4, <1>5, <2>2, Zenon DEF Called
  <2> QED
    BY <1>1, <1>5, <2>1, <2>3 DEF StartedFuncs, FuncsRead
<1>11. LineByLine'
  <2>1. Len(calls') = 1 /\ calls'[1].func = calls[1].func /\ marked' = marked /\ todo' = todo
    BY <1>1, <1>5, <1>9 DEF libcompat
  <2>2. calls[1].func = Lines[Read] /\ Read > 0
    BY <1>6
  <2>3. \A i \in 1 .. 1 : i = 1
    OBVIOUS
  <2>4. Len(todo') <= Len(Lines') /\ \A i \in 1 .. Len(todo') : todo'[i] = Lines'[Read' + i]
    BY <1>3, <1>10, <2>1 DEF LineByLine
  <2>5. marked' = FuncsRead'
    BY <1>3, <1>10, <2>1 DEF LineByLine
  <2> QED
    BY <1>10, <2>1, <2>2, <2>3, <2>4, <2>5 DEF LineByLine
<1> QED
  BY <1>1, <1>3, <1>9, <1>10, <1>11 DEF OrderedInv, libcompat
LEMMA CompileOrdered ==
  ASSUME TypeOK, CallsInv, OrderedInv, Compile
  PROVE  OrderedInv'
<1> DEFINE g == Last(calls).func
           m == Len(started)
<1>1. /\ pc = "funcs" /\ calls # <<>> /\ calls' = Front(calls)
      /\ UNCHANGED <<requests, pkg, pc, todo, marked, objs>>
  BY DEF Compile, libcompat
<1>2. /\ LineByLine
      /\ \A k \in 1 .. Len(started) : started[k].shell = "build"
      /\ jobs \cup objs \subseteq ToSet(started)
      /\ StartedFuncs = (FuncsRead \ Called) \cap Sourced
  BY <1>1 DEF OrderedInv
<1>3. calls \in Seq(Call)
  BY DEF TypeOK, Call
<1>4. /\ Len(calls) \in Nat \ {0} /\ Last(calls) = calls[Len(calls)]
      /\ Len(Front(calls)) = Len(calls) - 1
  BY <1>1, <1>3, FrontFacts
<1>5. Len(calls) = 1 /\ g = calls[1].func /\ Len(calls') = 0
  BY <1>1, <1>2, <1>4 DEF LineByLine
<1>6. Called = {g} /\ Called' = {} /\ g \in FuncsRead
  <2>1. g = Lines[Read] /\ Read \in 1 .. Read
    BY <1>2, <1>5, LinesFacts DEF LineByLine, Read
  <2>2. 1 .. Len(calls) = {1} /\ 1 .. Len(calls') = {} /\ g = calls[1].func
    BY <1>5
  <2>3. Called = {g} /\ Called' = {}
    BY <2>2, Zenon DEF Called
  <2> QED
    BY <2>1, <2>3 DEF FuncsRead
<1>7. Lines' = Lines /\ Read' = Read /\ FuncsRead' = FuncsRead
  BY <1>1 DEF Lines, Read, FuncsRead
<1>8. LineByLine'
  <2>1. marked' = marked /\ todo' = todo
    BY <1>1
  <2>2. Len(todo') <= Len(Lines') /\ \A i \in 1 .. Len(todo') : todo'[i] = Lines'[Read' + i]
    BY <1>2, <1>7, <2>1 DEF LineByLine
  <2>3. marked' = FuncsRead'
    BY <1>2, <1>7, <2>1 DEF LineByLine
  <2> QED
    BY <1>5, <2>2, <2>3 DEF LineByLine
<1>9. /\ jobs' = jobs \cup ToSet(New) /\ m \in Nat /\ started' \in Seq(Job)
      /\ Len(started') = m + Len(New) /\ \A i \in 1 .. m : started'[i] = started[i]
      /\ New = <<>> => Len(New) = 0 /\ ToSet(New) = {}
      /\ New # <<>> => Len(New) = 1 /\ ToSet(New) = {Compiler} /\ started'[m + 1] = Compiler
  BY NewFacts
<1>10. Compiler.func = g /\ Compiler.shell = "build"
  BY <1>5 DEF Compiler
<1>11. started \in Seq(Job)
  BY DEF TypeOK
<1>12. \A x : x \in ToSet(started) <=> \E k \in 1 .. m : started[k] = x
  BY <1>11, ToSetFacts
<1>13. \A x : x \in ToSet(started') <=> \E k \in 1 .. Len(started') : started'[k] = x
  BY <1>9, ToSetFacts
<1> HIDE DEF g, m
<1>14. CASE g \notin Sourced
  <2>1. New = <<>> /\ Len(started') = m /\ jobs' = jobs
    <3>1. New = <<>>
      BY <1>14 DEF New, g
    <3> QED
      BY <1>9, <3>1
  <2>2. StartedFuncs' = StartedFuncs
    BY <1>9, <2>1 DEF StartedFuncs, m
  <2>3. StartedFuncs' = (FuncsRead' \ Called') \cap Sourced
    BY <1>2, <1>6, <1>7, <1>14, <2>2
  <2>4. jobs' \cup objs' \subseteq ToSet(started')
    BY <1>1, <1>2, <1>9, <1>12, <1>13, <2>1
  <2>5. \A k \in 1 .. Len(started') : started'[k].shell = "build"
    BY <1>2, <1>9, <2>1 DEF m
  <2> QED
    BY <1>1, <1>8, <2>3, <2>4, <2>5 DEF OrderedInv
<1>15. CASE g \in Sourced
  <2>1. /\ Len(started') = m + 1 /\ jobs' = jobs \cup {Compiler}
        /\ started'[m + 1] = Compiler
    <3>1. New # <<>>
      BY <1>15 DEF New, g
    <3> QED
      BY <1>9, <3>1
  <2>2. \A k \in 1 .. m + 1 : k \in 1 .. m \/ k = m + 1
    BY <1>9
  <2>3. 1 .. m \subseteq 1 .. m + 1 /\ m + 1 \in 1 .. m + 1
    BY <1>9
  <2>4. StartedFuncs' = StartedFuncs \cup {g}
    BY <1>9, <1>10, <2>1, <2>2, <2>3 DEF StartedFuncs, m
  <2>5. StartedFuncs' = (FuncsRead' \ Called') \cap Sourced
    BY <1>2, <1>6, <1>7, <1>15, <2>4
  <2>6. jobs' \cup objs' \subseteq ToSet(started')
    <3>1. ToSet(started) \cup {Compiler} \subseteq ToSet(started')
      BY <1>9, <1>12, <1>13, <2>1, <2>3
    <3> QED
      BY <1>1, <1>2, <2>1, <3>1
  <2>7. \A k \in 1 .. Len(started') : started'[k].shell = "build"
    BY <1>2, <1>9, <1>10, <2>1, <2>2 DEF m
  <2> QED
    BY <1>1, <1>8, <2>5, <2>6, <2>7 DEF OrderedInv
<1> QED
  BY <1>14, <1>15

LEMMA ArchiveOrdered ==
  ASSUME TypeOK, CallsInv, KeptInv, OrderedInv, Archive, KeptInv'
  PROVE  OrderedInv'
<1>1. /\ pc = "check" /\ pc' = "rm" /\ archive' = objs
      /\ UNCHANGED <<requests, pkg, jobs, started>>
  BY DEF Archive
<1>2. /\ todo = <<>> /\ calls = <<>> /\ jobs = {}
      /\ \A k \in 1 .. Len(started) : started[k].shell = "build" /\ started[k].pkg = pkg
      /\ objs \subseteq ToSet(started)
      /\ StartedFuncs = (FuncsRead \ Called) \cap Sourced
  BY <1>1 DEF OrderedInv, CallsInv, StartedNow
<1>3. Lines' = Lines /\ Lines \in Seq(Line) /\ Len(Lines) \in Nat
  BY <1>1, LinesFacts DEF Lines
<1>4. FuncsRead = ToSet(Lines) /\ Called = {}
  <2>1. Read = Len(Lines) /\ Len(calls) = 0
    BY <1>2, <1>3 DEF Read
  <2> QED
    BY <1>3, <2>1, ToSetFacts DEF FuncsRead, Called
<1>5. started \in Seq(Job) /\ objs \subseteq Job
  BY DEF TypeOK
<1>6. ASSUME NEW o \in objs
      PROVE  o \in Job /\ o.pkg = pkg /\ o.shell = "build" /\ o.func \in ToSet(Lines)
  <2>1. PICK k \in 1 .. Len(started) : started[k] = o
    BY <1>2, <1>5, ToSetFacts
  <2>2. o.func \in StartedFuncs
    BY <2>1 DEF StartedFuncs
  <2> QED
    BY <1>2, <1>4, <1>5, <2>1, <2>2
<1>7. ASSUME NEW j \in Job, j.pkg = pkg, j.shell = "build", j.func \in ToSet(Lines)
      PROVE  j \in objs
  <2>1. j.func \in StartedFuncs
    BY <1>2, <1>4, <1>7 DEF Job
  <2>2. PICK k \in 1 .. Len(started) : started[k].func = j.func
    BY <2>1 DEF StartedFuncs
  <2>3. PICK o \in objs : o.func = j.func
    BY <1>1, <1>2, <2>2 DEF KeptInv, AllArchived
  <2>4. o \in Job /\ o.pkg = j.pkg /\ o.shell = j.shell
    BY <1>6, <1>7
  <2>5. o = j
    BY <2>3, <2>4 DEF Job
  <2> QED
    BY <2>5
<1>8. objs = {j \in Job : j.pkg = pkg /\ j.shell = "build" /\ j.func \in ToSet(Lines)}
  BY <1>6, <1>7
<1>9. archive' = {j \in Job : j.pkg = pkg' /\ j.shell = "build" /\ j.func \in ToSet(Lines')}
  BY <1>1, <1>3, <1>8
<1> QED
  BY <1>1, <1>2, <1>9 DEF OrderedInv

LEMMA OrderedNext ==
  ASSUME TypeOK, CallsInv, KeptInv, KeptInv', Ordered, OrderedInv, [Next]_vars
  PROVE  OrderedInv'
<1>1. CASE Includefuncs
  <2>1. /\ pc = "sdk" /\ pc' = "funcs" /\ todo' = requests[pkg] /\ calls' = <<>>
        /\ marked' = {} /\ started' = <<>> /\ objs' = {} /\ UNCHANGED <<requests, pkg, jobs>>
    BY <1>1 DEF Includefuncs
  <2>2. jobs' = {} /\ Lines' = Lines /\ todo' = Lines
    BY <2>1 DEF OrderedInv, Lines
  <2>3. /\ Len(calls') = 0 /\ Len(started') = 0 /\ 1 .. 0 = {}
        /\ Len(Lines) \in Nat /\ Read' = 0
    BY <2>1, <2>2, LinesFacts DEF Read
  <2>4. FuncsRead' = {} /\ Called' = {} /\ StartedFuncs' = {}
    BY <2>3 DEF FuncsRead, Called, StartedFuncs
  <2>5. LineByLine'
    BY <2>1, <2>2, <2>3, <2>4 DEF LineByLine
  <2>6. \A k \in 1 .. Len(started') : started'[k].shell = "build"
    BY <2>3
  <2> QED
    BY <2>1, <2>2, <2>4, <2>5, <2>6 DEF OrderedInv
<1>2. CASE EndOfFile
  <2>1. /\ pc = "funcs" /\ pc' = "wait" /\ todo = <<>> /\ calls = <<>>
        /\ UNCHANGED <<requests, pkg, todo, calls, objs, jobs, started>>
    BY <1>2 DEF EndOfFile, libcompat
  <2> QED
    BY <2>1 DEF OrderedInv, FuncsRead, Called, StartedFuncs, Read, Lines
<1>3. CASE Wait
  <2>1. /\ pc = "wait" /\ pc' = "check" /\ Children = {}
        /\ UNCHANGED <<requests, pkg, todo, calls, objs, jobs, started>>
    BY <1>3 DEF Wait, libcompat
  <2>2. jobs = {}
    <3>1. started \in Seq(Job)
      BY DEF TypeOK
    <3>2. \A x \in ToSet(started) : x.shell = "build" /\ x.pkg = pkg
      BY <2>1, <3>1, ToSetFacts DEF OrderedInv, CallsInv, StartedNow
    <3>3. \A x \in jobs : x \in Children
      BY <2>1, <3>2 DEF OrderedInv, Children
    <3> QED
      BY <2>1, <3>3
  <2> QED
    BY <2>1, <2>2 DEF OrderedInv, FuncsRead, Called, StartedFuncs, Read, Lines
<1>4. CASE CheckError \/ NextPackage
  <2>1. jobs' = jobs /\ pc \in {"check", "build", "error"} /\ pc' \in {"error", "sdk", "end"}
    BY <1>4 DEF CheckError, NextPackage
  <2> QED
    BY <2>1 DEF OrderedInv
<1>5. CASE RmDir
  <2>1. pc = "rm" /\ pc' = "build" /\ UNCHANGED <<requests, pkg, jobs, archive>>
    BY <1>5 DEF RmDir
  <2> QED
    BY <2>1 DEF OrderedInv, Lines
<1>6. CASE JobEnds
  <2>1. PICK j \in jobs : /\ JobOk(j) \/ JobFail(j)
                          /\ jobs' = jobs \ {j}
                          /\ UNCHANGED <<requests, pkg, pc, todo, calls, dir, marked, headers, started, archive>>
    BY <1>6 DEF JobEnds
  <2>2. objs' \subseteq objs \cup jobs
    BY <2>1 DEF JobOk, JobFail
  <2>3. pc \in {"funcs", "wait"}
    BY DEF OrderedInv
  <2>4. LineByLine => LineByLine'
    BY <2>1 DEF LineByLine, FuncsRead, Read, Lines
  <2>5. FuncsRead' = FuncsRead /\ Called' = Called /\ StartedFuncs' = StartedFuncs
    BY <2>1 DEF FuncsRead, Called, StartedFuncs, Read, Lines
  <2> QED
    BY <2>1, <2>2, <2>3, <2>4, <2>5 DEF OrderedInv
<1>7. CASE UNCHANGED vars
  <2>1. /\ UNCHANGED <<requests, pkg, pc, todo, calls, marked, objs, jobs, started, archive>>
    BY <1>7 DEF vars, libcompat
  <2>2. /\ FuncsRead' = FuncsRead /\ Called' = Called /\ StartedFuncs' = StartedFuncs
        /\ Lines' = Lines /\ Read' = Read
    BY <2>1 DEF FuncsRead, Called, StartedFuncs, Read, Lines
  <2>3. LineByLine => LineByLine'
    BY <2>1, <2>2 DEF LineByLine
  <2> QED
    BY <2>1, <2>2, <2>3 DEF OrderedInv
<1> QED
  BY <1>1, <1>2, <1>3, <1>4, <1>5, <1>6, <1>7, NextLineOrdered, NextDepOrdered, CompileOrdered,
     ArchiveOrdered DEF Next

--------------------------------------------------------------------------------
(* The theorems.                                                           *)

LibInv == TypeOK /\ CallsInv /\ ArchiveInv

LEMMA LibInvCorrect == Spec => []LibInv
<1>1. ASSUME Init PROVE LibInv
  <2>1. KeptInv
    BY <1>1 DEF Init, KeptInv
  <2>2. OrderedInv
    BY <1>1 DEF Init, OrderedInv
  <2> QED
    BY <1>1, <2>1, <2>2, TypeInit, CallsInit DEF LibInv, ArchiveInv
<1>2. ASSUME LibInv, [Next]_vars PROVE LibInv'
  <2>1. TypeOK' /\ CallsInv' /\ KeptInv'
    BY <1>2, TypeNext, CallsNext, KeptNext DEF LibInv, ArchiveInv
  <2>2. UNCHANGED requests
    BY <1>2 DEF Next, vars, Includefuncs, NextLine, NextDep, Compile, EndOfFile, Wait, Archive,
       CheckError, RmDir, NextPackage, JobEnds
  <2>3. Ordered' => Ordered
    BY <2>2 DEF Ordered
  <2> QED
    BY <1>2, <2>1, <2>3, OrderedNext DEF LibInv, ArchiveInv
<1> QED
  BY <1>1, <1>2, PTL DEF Spec

(* No function is compiled twice for a package, whatever the lists say and *)
(* however functions depend on each other (_buildfunc).                    *)
THEOREM CompiledOnce == Spec => []BuiltOnce
<1>1. LibInv => BuiltOnce
  BY DEF LibInv, CallsInv
<1> QED
  BY <1>1, LibInvCorrect, PTL

(* A compiler is started when the headers of all that its function depends *)
(* on are in $_SDK, and they stay there as long as it may run (_buildfunc).*)
THEOREM HeadersInPlace == Spec => []HeadersFirst
<1>1. LibInv => HeadersFirst
  BY DEF LibInv, CallsInv
<1> QED
  BY <1>1, LibInvCorrect, PTL

(* The archive misses no object of the build's own shell, and for lists    *)
(* with dependencies first it is exactly what the package asked for        *)
(* (_includefuncs).                                                        *)
THEOREM ArchiveCorrect == Spec => []ArchiveExact
<1>1. ASSUME LibInv, pc \in {"rm", "build"} PROVE ArchiveExact
  <2>1. started \in Seq(Job)
    BY <1>1 DEF LibInv, TypeOK
  <2>2. \A j \in ToSet(started) : j.shell = "build" => \E o \in archive : o.func = j.func
    BY <1>1, <2>1, ToSetFacts DEF LibInv, ArchiveInv, KeptInv, AllArchived
  <2> QED
    BY <1>1, <2>2 DEF LibInv, ArchiveInv, OrderedInv, Ordered, Lines, ArchiveExact
<1>2. LibInv => ArchiveExact
  BY <1>1 DEF ArchiveExact
<1> QED
  BY <1>2, LibInvCorrect, PTL

================================================================================
