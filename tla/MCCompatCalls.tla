------------------------------ MODULE MCCompatCalls ------------------------------
(* Programs for five targets, on systems on both sides of each version that *)
(* open and fdopendir ask for: first two threads with three descriptors,    *)
(* then, for two of the targets, every other function of compat/ on inputs  *)
(* around its boundaries.  And all targets there are.                       *)
EXTENDS CompatCalls

T(cpu, os, v) == [cpu |-> cpu, os |-> os, version |-> v]

Tiger == T("i386", "macos", <<10, 4, 0>>)
TigerPpc == T("ppc", "macos", <<10, 4, 11>>)
LeopardPpc == T("ppc", "macos", <<10, 5, 0>>)
Phone1 == T("armv6", "ios", <<1, 0, 0>>)
Phone2 == T("armv6", "ios", <<2, 0, 0>>)
Lion64 == T("x86_64", "macos", <<10, 10, 1>>)

(* All targets: processors with the versions of their systems. *)
Macs == {T("i386", "macos", <<10, m, p>>) : m \in 4 .. 14, p \in {0, 1, 9, 11}}
        \cup {T("x86_64", "macos", <<10, m, p>>) : m \in 4 .. 15, p \in {0, 1, 9, 11}}
        \cup {T("x86_64", "macos", <<m, p, 0>>) : m \in (11 .. 15) \cup {26}, p \in {0, 4}}
        \cup {T("arm64", "macos", <<m, 0, 0>>) : m \in (11 .. 15) \cup {26}}
        \cup {T("ppc", "macos", <<10, m, p>>) : m \in {4, 5}, p \in {0, 11}}
Phones == {T("armv6", "ios", <<m, n, 0>>) : m \in 1 .. 4, n \in 0 .. 3}
          \cup {T("armv7", "ios", <<m, n, p>>) : m \in 3 .. 10, n \in 0 .. 4, p \in 0 .. 1}
          \cup {T("arm64", o, <<m, n, p>>) : o \in {"ios", "tvos"}, m \in (7 .. 19) \cup {26}, n \in 0 .. 6, p \in {0, 12}}
Watches == {T(c, "watchos", <<m, n, 0>>) : c \in {"armv7k", "arm64"}, m \in (2 .. 12) \cup {26}, n \in 0 .. 3}

MCTargets == Macs \cup Phones \cup Watches

Systems(t) == {v \in (IF t.os = "macos" THEN {1040, 1050, 1070, 101000}
                                        ELSE {10000, 20000, 40300, 80000}) :
                 v \in MINVER(t) .. MAXVER(t)}

Threaded == {Tiger, TigerPpc, LeopardPpc, Phone1, Phone2}

MCInit == /\ target \in Targets
          /\ system \in IF target \in Threaded THEN Systems(target) ELSE {MINVER(target)}
          /\ ProgramInit

(* The functions that are single steps are called by a program that has    *)
(* opened nothing: one, after calls of those that keep something.          *)
Alone == Fresh /\ (target = Lion64 \/ (target = Tiger /\ system = 101000))

MCNext ==
  \/ target \in Threaded /\ asked = Nothing /\ DescriptorsNext /\ UNCHANGED library
  \/ /\ Alone \/ asked.fn \in {"clock_gettime", "posix_memalign"}
     /\ CallsNext /\ UNCHANGED descriptors

MCSpec == MCInit /\ [][MCNext]_<<descriptors, library>>

--------------------------------------------------------------------------------
MCTimebases == {<<1, 1>>, <<125, 3>>}

Show(r, u, s, t, n) == [real |-> r, user |-> u, system |-> s, ticks |-> t, nanos |-> n]
MCShowing == {Show(r, u, s, t, t) : r \in {1999999}, u \in {0, 999999, 1500000},
                                    s \in {0, 1, 1999999}, t \in {0, 16000000}}
             \cup {Show(5000001, 0, 0, 17000000, 1539)}

Stamp == {Timespec(3, 0), Timespec(4, 999999999)}
MCFiles == Stamp \X Stamp
MCTimePairs == {NULL} \cup ({Timespec(9, n) : n \in {UTIME_NOW, UTIME_OMIT, -3, 0, 1999, 999999999, 1000000000}}
                            \X {Timespec(8, n) : n \in {UTIME_NOW, UTIME_OMIT, 5000, 1000000000}})
MCGarbage == {Timeval(0, 0), Timeval(77, 1)}

Upto(S, n) == UNION {[1 .. k -> S] : k \in 0 .. n}
MCStrings == Upto({"a", "b"}, 3) \cup {<<"a", "a", "a", "b">>, <<"a", "b", "a", "b">>}
MCNeedles == Upto({"a", "b"}, 2)
MCAligns == {0, 1, 4, 8, 12, 16, 24, 32, 4096, 8192}

================================================================================
