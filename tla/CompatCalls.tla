-------------------------------- MODULE CompatCalls --------------------------------
(***************************************************************************)
(* The rest of the functions of compat/ in such a program: each call is    *)
(* one step, as its thread has its arguments for itself, but clock_gettime,*)
(* clock_getres and posix_memalign keep what they have found out.          *)
(***************************************************************************)
EXTENDS Descriptors, CompatTime, CompatStrings

CONSTANTS
  Timebases,     \* what mach_timebase_info can give
  Showing,       \* what the clocks of the system can show
  TimePairs,     \* times that callers pass
  Files, Garbage,\* the times of a file; what an array can hold by chance
  Strings, Needles, Letters,
  Places, Rooms, Lengths, Aligns,  \* addresses, sizes and alignments
  Page                             \* the page size

(* A tick of the clock is no shorter than a nanosecond. *)
ASSUME TimesAssumption ==
  /\ NoFactor \notin Timebases
  /\ Timebases \subseteq (Nat \ {0}) \X (Nat \ {0}) /\ \A f \in Timebases : f[1] >= f[2]
  /\ Showing \subseteq [real : Nat, user : Nat, system : Nat, ticks : Nat, nanos : Nat]
  /\ TimePairs \ {NULL} \subseteq [sec : Int, nsec : Int] \X [sec : Int, nsec : Int]

ASSUME CallsAssumption ==
  /\ NUL \notin Letters /\ Strings \cup Needles \subseteq Seq(Letters)
  /\ Places \cup Rooms \cup Lengths \cup Aligns \subseteq Nat
  /\ Page \in Powers /\ \A n \in Aligns : n <= 1048576

VARIABLES
  mach_time_factor, pagesize,  \* static
  ticked,                      \* a clock has been read
  asked, answer                \* the last call and what it gave

statics == <<mach_time_factor, pagesize, ticked>>
library == <<statics, asked, answer>>

Nothing == [fn |-> "none"]
Failed(e) == [err |-> e]

Hires == HIRES_THREAD_TIME(target)
Ptr == Pointer(target)

--------------------------------------------------------------------------------
ClockGettime ==
  \E c \in Clock, now \in Showing :
    /\ asked' = [fn |-> "clock_gettime", clock |-> c, now |-> now]
    /\ \/ mach_time_factor # NoFactor /\ UNCHANGED mach_time_factor
       \/ mach_time_factor = NoFactor /\ mach_time_factor' \in Timebases \cup {NoFactor}
    /\ IF mach_time_factor' = NoFactor THEN answer' = Failed("mach_timebase_info")
       ELSE answer' \in clock_gettime(c, Hires, mach_time_factor', now)
    /\ ticked' = (ticked \/ mach_time_factor' # NoFactor)
    /\ UNCHANGED pagesize

ClockGetres ==
  \E c \in Clock :
    /\ asked' = [fn |-> "clock_getres", clock |-> c]
    /\ answer' = clock_getres(c, Hires, mach_time_factor)
    /\ UNCHANGED statics

Futimens ==
  \E times \in TimePairs, st \in Files, now \in {Micro(n) : n \in UNION {{f[1], f[2]} : f \in Files}} :
    /\ asked' = [fn |-> "futimens", times |-> times, st |-> st, now |-> now]
    /\ answer' \in futimens(times, st, now, Garbage)
    /\ UNCHANGED statics

Lutimes ==
  \E f \in Files, islink \in BOOLEAN, given \in BOOLEAN :
    LET times == <<Micro(f[1]), Micro(f[2])>>
        now == Timeval(7, 7)
    IN /\ asked' = [fn |-> "lutimes", times |-> IF given THEN times ELSE NULL, now |-> now]
       /\ answer' = lutimes(islink, IF given THEN times ELSE NULL, now)
       /\ UNCHANGED statics

PosixMemalign ==
  \E align \in Aligns, found \in {0, Page} :
    /\ asked' = [fn |-> "posix_memalign", align |-> align]
    /\ pagesize' = IF align > 16 /\ align >= Ptr /\ PowerOfTwo(align) /\ pagesize = 0
                   THEN found ELSE pagesize
    /\ \/ answer' = posix_memalign(align, Ptr, pagesize')
       \/ answer' = Failed("ENOMEM") /\ align >= Ptr /\ PowerOfTwo(align)
    /\ UNCHANGED <<mach_time_factor, ticked>>

Search ==
  \E s \in Strings, n \in Needles, c \in Letters, k \in Lengths :
    /\ asked' = [fn |-> "search", s |-> s, n |-> n, c |-> c, len |-> Len(s), max |-> k]
    /\ answer' = [memmem |-> memmem(s, n), memrchr |-> memrchr(s, c, Len(s)),
                  strchrnul |-> strchrnul(Append(s, NUL), c),
                  strnlen |-> strnlen(Append(s, NUL), k), strndup |-> strndup(Append(s, NUL), k)]
    /\ UNCHANGED statics

Copy ==
  \E s \in Strings, n \in Lengths :
    /\ asked' = [fn |-> "stpncpy", s |-> s, n |-> n]
    /\ answer' = stpncpy(Append(s, NUL), n)
    /\ UNCHANGED statics

FillRandom ==
  \E n \in Rooms :
    /\ asked' = [fn |-> "arc4random_buf", size |-> n]
    /\ answer' = [written |-> arc4random_buf(n, 4)]
    /\ UNCHANGED statics

LookUpService ==
  \E a \in Places, n \in Rooms, prots \in {"tcp", "udp", "other"} :
    /\ asked' = [fn |-> "getservbyport_r", address |-> a, buflen |-> n, prots |-> prots]
    /\ answer' = getservbyport_r(a, n, Ptr, prots)
    /\ UNCHANGED statics

FindService ==
  \E found \in [{"tcp", "udp"} -> {"name", "number", "EAI_MEMORY"}], prots \in {"tcp", "udp", "none"} :
    /\ asked' = [fn |-> "service", found |-> found, prots |-> prots]
    /\ answer' = getservbyport(found, prots)
    /\ UNCHANGED statics

ProgramInit == /\ DescriptorsInit
               /\ mach_time_factor = NoFactor /\ pagesize = 0 /\ ticked = FALSE
               /\ asked = Nothing /\ answer = Nothing

CallsNext == \/ ClockGettime \/ ClockGetres \/ Futimens \/ Lutimes \/ PosixMemalign
             \/ Search \/ Copy \/ FillRandom \/ LookUpService \/ FindService

ProgramNext == \/ DescriptorsNext /\ UNCHANGED library
               \/ CallsNext /\ UNCHANGED descriptors

ProgramSpec == ProgramInit /\ [][ProgramNext]_<<descriptors, library>>

--------------------------------------------------------------------------------
(* Properties. *)

(* A clock that can be read shows what the system does, its nanoseconds    *)
(* less than a second however large the parts they are added from; only a  *)
(* thread that has used no time has used one.  A clock of ticks is right   *)
(* to a nanosecond and the precision of doubles, and exact when a tick is  *)
(* whole nanoseconds, till doubles no longer are.                          *)
Micros(ts) == ts.sec * 1000000 + ts.nsec \div 1000

TicksRight(shown, ticks) ==
  LET n == ticks * mach_time_factor[1]  d == mach_time_factor[2] IN
  /\ d * shown <= n + n \div Precision /\ n <= d * (shown + 1) + n \div Precision
  /\ mach_time_factor[1] % d = 0 /\ n \div d < Precision => shown = n \div d

ClockRight == asked.fn = "clock_gettime" /\ "err" \notin DOMAIN answer =>
  LET now == asked.now  used == now.user + now.system IN
  /\ answer.nsec \in 0 .. Billion - 1
  /\ CASE asked.clock = "REALTIME" -> Micros(answer) = now.real
       [] asked.clock = "PROCESS_CPUTIME_ID" -> Micros(answer) = used
       [] asked.clock = "THREAD_CPUTIME_ID" /\ ~Hires ->
            Micros(answer) = used /\ answer.nsec % 1000 = IF used = 0 THEN 1 ELSE 0
       [] OTHER -> TicksRight(answer.sec * Billion + answer.nsec,
                              IF asked.clock = "THREAD_CPUTIME_ID" THEN now.nanos ELSE now.ticks)

(* The resolution of a clock is only given as zero by a program that has   *)
(* read no clock yet.                                                      *)
ResolutionRight == asked.fn = "clock_getres" /\ "err" \notin DOMAIN answer =>
  answer.sec = 0 /\ (answer.nsec > 0 \/ ~ticked)

(* futimens keeps a time that is to be omitted, to the microsecond, and    *)
(* sets the other to what the caller says; but when it omits just one, the *)
(* other can become anything, and is not checked.                          *)
Wanted(i) == CASE Is(asked.times, i, UTIME_OMIT) -> Nano(Micro(asked.st[i]))
               [] Is(asked.times, i, UTIME_NOW) -> Nano(asked.now)
               [] OTHER -> Nano(Micro(asked.times[i]))

Omitted == {i \in {1, 2} : asked.times # NULL /\ Is(asked.times, i, UTIME_OMIT)}

FutimensRight == asked.fn = "futimens" =>
  CASE asked.times = NULL -> answer = <<Nano(asked.now), Nano(asked.now)>>
    [] asked.times # NULL /\ Omitted = {1, 2} -> answer = asked.st
    [] asked.times # NULL /\ Omitted # {1, 2} ->
         IF Omitted = {} /\ \E i \in {1, 2} : asked.times[i].nsec \notin 0 .. Billion - 1 /\ ~Is(asked.times, i, UTIME_NOW)
         THEN answer = EINVAL
         ELSE \A i \in {1, 2} : Omitted \in {{}, {i}} => answer[i] = Wanted(i)

(* lutimes sets both times of a link, each to its own, as utimes does.     *)
LutimesRight == asked.fn = "lutimes" =>
  answer = IF asked.times = NULL THEN <<Nano(asked.now), Nano(asked.now)>>
           ELSE <<Nano(asked.times[1]), Nano(asked.times[2])>>

(* The block is a multiple of what was asked for, and what is refused as   *)
(* no alignment is none.                                                   *)
MemalignRight == asked.fn = "posix_memalign" =>
  CASE answer.err = "0" -> answer.multiple % asked.align = 0
    [] answer.err = "EINVAL" -> \A p \in Powers : asked.align # Ptr * p
    [] OTHER -> \E p \in Powers : asked.align = Ptr * p

(* The first place where the needle is, the last or the first of a byte,   *)
(* or nowhere; and the part of a string before its end.                    *)
SearchRight == asked.fn = "search" =>
  LET s == asked.s
      there == {i \in 0 .. Len(s) : IsPrefix(asked.n, SubSeq(s, i + 1, Len(s)))}
      here == {i \in 0 .. Len(s) - 1 : s[i + 1] = asked.c}
      part == Least(asked.max, Len(s))
  IN /\ answer.memmem = IF there = {} THEN NoPtr ELSE Min(there)
     /\ answer.memrchr = IF here = {} THEN NoPtr ELSE Max(here)
     /\ answer.strchrnul = IF here = {} THEN Len(s) ELSE Min(here)
     /\ answer.strnlen = part
     /\ answer.strndup = SubSeq(s, 1, part) \o <<NUL>>

(* All n bytes are written: the string, then zeros; the end of what came   *)
(* from the string is returned.                                            *)
CopyRight == asked.fn = "stpncpy" =>
  /\ answer.moved = Least(asked.n, Len(asked.s))
  /\ answer.out = [i \in 1 .. asked.n |-> IF i <= Len(asked.s) THEN asked.s[i] ELSE NUL]

FillRight == asked.fn = "arc4random_buf" => answer.written = 0 .. asked.size - 1

(* The two pointers lie on an address fit for them, the name behind them,  *)
(* all inside the buffer; and a buffer that is large enough is not refused.*)
(* Only in one shorter than three pointers can there be no room for the    *)
(* name, so that strtol, if it is reached, reads past its end.             *)
ServiceFits == asked.fn = "getservbyport_r" =>
  CASE "aliases" \in DOMAIN answer ->
         /\ answer.aliases >= 0 /\ (asked.address + answer.aliases) % Ptr = 0
         /\ answer.name = answer.aliases + 2 * Ptr
         /\ answer.room >= 0 /\ answer.name + answer.room = asked.buflen
         /\ answer.strtol = "name" \/ asked.buflen < 3 * Ptr
    [] "err" \in DOMAIN answer ->
         answer.err = "ERANGE" => asked.buflen < 3 * Ptr - 1

ServiceFound == asked.fn = "service" =>
  (answer.err = "0" <=> \E p \in {"tcp", "udp"} : asked.prots \in {p, "none"} /\ asked.found[p] = "name")

AnswersRight == /\ ClockRight /\ ResolutionRight /\ FutimensRight /\ LutimesRight /\ MemalignRight
                /\ SearchRight /\ CopyRight /\ FillRight /\ ServiceFits /\ ServiceFound

(* A program that has done nothing. *)
Fresh == opens = [t \in Opener |-> 0] /\ execs = 0 /\ asked = Nothing

(* For each target there is, what depcheck and platforminfo.h make of it   *)
(* is right, also in comparison with the others.                           *)
TargetsRight == Fresh =>
  /\ VersionRight(target) /\ TablesAgree(target) /\ RangeRight(target)
  /\ \A u \in Targets : NeverBack(target, u) /\ ArchRight(target, u)
================================================================================
