-------------------------------- MODULE CompatTime --------------------------------
(***************************************************************************)
(* The clocks and file times of compat/, as operators: clock_gettime,      *)
(* clock_getres, futimens and lutimes.                                     *)
(***************************************************************************)
EXTENDS Integers

CONSTANT Precision  \* of doubles: a product of three is right to one part in Precision

ASSUME PrecisionAssumption == Precision \in Nat \ {0}

Billion == 1000000000

EINVAL == [err |-> "EINVAL"]
Timespec(s, ns) == [sec |-> s, nsec |-> ns]
Timeval(s, us) == [sec |-> s, usec |-> us]

--------------------------------------------------------------------------------
(* Clocks.  `now' is what the system's own clocks show: now.real and       *)
(* now.user, now.system (of the process or the thread) in microseconds,    *)
(* now.ticks of mach_absolute_time, now.nanos of __thread_selfusage.  The  *)
(* factor is the fraction <<numer, denom>>; no factor is <<0, 1>>.         *)

NoFactor == <<0, 1>>

Scaled_Whole(ticks, factor) == {ticks * (factor[1] \div factor[2])}

(* The factor is a double, and so is its product with the ticks, which is  *)
(* cut off: what can come of it.  Whole numbers of that size are exact.    *)
Scaled(ticks, factor) ==
  LET n == ticks * factor[1]
      off == n \div Precision + IF n % Precision = 0 THEN 0 ELSE 1
  IN IF factor[1] % factor[2] = 0 /\ n \div factor[2] < Precision THEN {n \div factor[2]}
     ELSE (n - off) \div factor[2] .. (n + n \div Precision) \div factor[2]

Ticking(hires) ==
  {"MONOTONIC", "MONOTONIC_RAW", "MONOTONIC_RAW_APPROX", "UPTIME_RAW", "UPTIME_RAW_APPROX"}
  \cup (IF hires THEN {"THREAD_CPUTIME_ID"} ELSE {})

Clock == {"REALTIME", "PROCESS_CPUTIME_ID", "THREAD_CPUTIME_ID", "other"} \cup Ticking(FALSE)

Parts(tv) == [sec |-> tv \div 1000000, usec |-> tv % 1000000]

(* timeradd: external *)
timeradd(x, y) == Parts(x.sec * 1000000 + x.usec + y.sec * 1000000 + y.usec)

Carried(s, ns) == IF ns >= Billion THEN Timespec(s + 1, ns - Billion) ELSE Timespec(s, ns)

ThreadTime(user, system) ==
  LET t == Carried(user.sec + system.sec, (user.usec + system.usec) * 1000) IN
    IF t = Timespec(0, 0) THEN Timespec(0, 1) ELSE t

Nanos(ns) == Timespec(ns \div Billion, ns % Billion)

(* The set of what it can answer. *)
clock_gettime(clockid, hires, factor, now) ==
  CASE clockid = "REALTIME" -> LET tv == Parts(now.real) IN {Timespec(tv.sec, tv.usec * 1000)}
    [] clockid = "PROCESS_CPUTIME_ID" ->
         LET tv == timeradd(Parts(now.user), Parts(now.system)) IN {Timespec(tv.sec, tv.usec * 1000)}
    [] clockid = "THREAD_CPUTIME_ID" /\ ~hires ->
         {ThreadTime(Parts(now.user), Parts(now.system))}
    [] clockid \in Ticking(hires) ->
         {Nanos(ns) : ns \in Scaled(IF clockid = "THREAD_CPUTIME_ID" THEN now.nanos ELSE now.ticks,
                                    factor)}
    [] OTHER -> {EINVAL}

(* CLOCK_MONOTONIC is missing in the switch. *)
clock_getres(clockid, hires, factor) ==
  CASE clockid \in {"REALTIME", "PROCESS_CPUTIME_ID"} -> Timespec(0, 1000)
    [] clockid = "THREAD_CPUTIME_ID" /\ ~hires -> Timespec(0, 1000)
    [] clockid \in Ticking(hires) \ {"MONOTONIC"} -> Timespec(0, factor[1] \div factor[2])
    [] OTHER -> EINVAL

--------------------------------------------------------------------------------
(* File times.  A file has two, st[1] and st[2], to the nanosecond.        *)

UTIME_NOW == -1
UTIME_OMIT == -2
NULL == <<>>

Is(times, i, special) == times[i].nsec = special
Micro(ts) == Timeval(ts.sec, ts.nsec \div 1000)
Nano(tv) == Timespec(tv.sec, tv.usec * 1000)

(* futimes: external.  The set of what it can leave. *)
futimes(tvs) == {<<Nano(tv[1]), Nano(tv[2])>> : tv \in tvs}

Invalid(times, i) == (times[i].nsec < 0 \/ times[i].nsec > 999999999) /\ ~Is(times, i, UTIME_NOW)

OneKept(times, st, garbage) ==
  {tv \in [{1, 2} -> {Micro(st[1]), Micro(st[2])} \cup garbage] :
     \A i \in {1, 2} : Is(times, i, UTIME_OMIT) => tv[i] = Micro(st[i])}

Converted(times, i, now) == IF Is(times, i, UTIME_NOW) THEN now ELSE Micro(times[i])

(* What may become of the file's times: the element of tv for the time     *)
(* that is not omitted is never written.                                   *)
futimens(times, st, now, garbage) ==
  CASE times = NULL \/ (Is(times, 1, UTIME_NOW) /\ Is(times, 2, UTIME_NOW)) ->
         futimes({<<now, now>>})
    [] times # NULL /\ Is(times, 1, UTIME_OMIT) /\ Is(times, 2, UTIME_OMIT) -> {st}
    [] times # NULL /\ Is(times, 1, UTIME_OMIT) # Is(times, 2, UTIME_OMIT) ->
         futimes(OneKept(times, st, garbage))
    [] times # NULL /\ (\A i \in {1, 2} : ~Is(times, i, UTIME_OMIT))
                    /\ (\E i \in {1, 2} : Invalid(times, i)) -> {EINVAL}
    [] OTHER -> futimes({<<Converted(times, 1, now), Converted(times, 2, now)>>})

(* setattrlist: external.  Attributes lie in the buffer in the order of    *)
(* their bits: the time of modification, then that of access.              *)
setattrlist(buffer) == <<buffer[2], buffer[1]>>

lutimes(islink, times, now) ==
  LET tv == IF times = NULL THEN <<now, now>> ELSE times IN
    IF ~islink THEN <<Nano(tv[1]), Nano(tv[2])>>                        \* utimes
               ELSE setattrlist(<<Nano(tv[2]), Nano(tv[1])>>)
================================================================================
