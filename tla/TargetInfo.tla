-------------------------------- MODULE TargetInfo --------------------------------
(***************************************************************************)
(* What build.sh and compat/platforminfo.h make of a target: the numbers   *)
(* and names depcheck derives from the triple, and the systems that a      *)
(* program built for it can meet, by which compat/ chooses its code.       *)
(***************************************************************************)
EXTENDS Integers

(* A target is a processor, a subsystem and the version in its triple, a   *)
(* sequence of three numbers.  Versions are compared as such.              *)
IsTarget(t) == t.os \in {"macos", "ios", "tvos", "watchos"} /\ t.version \in Nat \X Nat \X Nat

Older(v, w) == \/ v[1] < w[1]
               \/ v[1] = w[1] /\ (v[2] < w[2] \/ (v[2] = w[2] /\ v[3] < w[3]))

Least(a, b) == IF a < b THEN a ELSE b

(* __ENVIRONMENT_OS_VERSION_MIN_REQUIRED__ of clang: external *)
Required(os, v) ==
  IF os = "macos" /\ Older(v, <<10, 10, 0>>) THEN 1000 + v[2] * 10 + Least(v[3], 9)
                                             ELSE v[1] * 10000 + v[2] * 100 + v[3]

OSVER(t) == Required(t.os, t.version)

--------------------------------------------------------------------------------
(* depcheck *)

SUBSYSTEMVER_Hundreds(osver) == <<osver \div 10000, osver \div 100 % 10, osver % 100>>

SUBSYSTEMVER(osver) ==
  IF osver < 10000 THEN <<10, (osver - 1000) \div 10, (osver - 1000) % 10>>
                   ELSE <<osver \div 10000, (osver % 10000) \div 100, osver % 100>>

(* The cases of a row, first those that are fit for iOS and tvOS.  Versions*)
(* without a row are an error.                                             *)
Unsupported == <<0, 0, 0>>

MacOfPhone(osver) ==
  LET major == osver \div 10000 IN
  CASE major \in {1, 2} -> <<10, 5, 0>>
    [] major \in {3, 4} /\ osver < 40300 -> <<10, 6, 0>>
    [] major \in {4, 5} /\ osver >= 40300 -> <<10, 7, 0>>
    [] major \in 6 .. 13 -> <<10, major + 2, 0>>
    [] major \in 14 .. 18 -> <<major - 3, 0, 0>>
    [] OTHER -> Unsupported

MacOfWatch(osver) ==
  LET major == osver \div 10000 IN
  CASE major \in 2 .. 6 -> <<10, major + 9, 0>>
    [] major \in 7 .. 11 -> <<major + 4, 0, 0>>
    [] OTHER -> Unsupported

MACVER(t) ==
  IF OSVER(t) >= 260000 \/ t.os = "macos" THEN SUBSYSTEMVER(OSVER(t))
  ELSE IF t.os = "watchos" THEN MacOfWatch(OSVER(t)) ELSE MacOfPhone(OSVER(t))

(* Targets whose linker does not find what libraries need in turn. *)
recursivedeps(t) == \/ t.os = "ios" /\ OSVER(t) < 20000
                    \/ t.os = "macos" /\ OSVER(t) < 1050

Arm64 == {"arm64", "arm64e", "aarch64"}
Arm32 == {"armv6", "armv7", "armv7s", "armv7k"}
Intel64 == {"x86_64", "x86_64h"}

DPKGARCH(t) ==
  CASE t.cpu \in Arm64 /\ t.os = "ios" -> "all"
    [] t.cpu \in Arm64 /\ t.os = "tvos" -> "appletvos-arm64"
    [] t.cpu \in Arm64 /\ t.os \notin {"ios", "tvos"} -> "darwin-arm64"
    [] t.cpu \in Arm32 -> IF OSVER(t) < 20000 THEN "darwin-arm" ELSE "iphoneos-arm"
    [] t.cpu \in Intel64 -> "darwin-amd64"
    [] t.cpu = "i386" -> "darwin-i386"
    [] t.cpu = "ppc64" -> "darwin-ppc64"
    [] t.cpu = "ppc" -> "darwin-powerpc"

(* supportsrust of files/lib.sh *)
supportsrust(t) == ~(\/ t.os = "ios" /\ OSVER(t) < 20000
                     \/ t.os = "macos" /\ OSVER(t) < 1050)

--------------------------------------------------------------------------------
(* platforminfo.h *)

MINVER(t) == OSVER(t)

MAXVER(t) ==
  CASE t.os = "macos" /\ t.cpu = "ppc" -> 1069
    [] t.os = "macos" /\ t.cpu = "ppc64" -> 1059
    [] t.os = "macos" /\ t.cpu = "i386" -> 101499
    [] t.os = "macos" /\ t.cpu \in Intel64 -> 279999
    [] t.os = "ios" /\ MINVER(t) < 20000 -> 19999
    [] t.os = "ios" /\ MINVER(t) >= 20000 /\ t.cpu \in Arm32 -> 109999
    [] OTHER -> 999999

(* A function is in the systems from since[1], since[2] or since[3] on.    *)
From(t, since) == since[CASE t.os = "macos" -> 1 [] t.os \in {"ios", "tvos"} -> 2 [] t.os = "watchos" -> 3]

MINVER_LT(t, since) == MINVER(t) < From(t, since)
MAXVER_GE(t, since) == MAXVER(t) >= From(t, since)

Pointer(t) == IF t.cpu \in Arm64 \cup Intel64 \cup {"ppc64"} THEN 8 ELSE 4

(* The first lines of the sources in compat/. *)
open_since == <<1070, 40300, 0>>
realpath_since == <<1060, 30200, 0>>
posix_memalign_since == <<1060, 30000, 0>>
lutimes_since == <<1050, 20000, 0>>
lchmod_since == <<1050, 0, 0>>
dirfd_since == <<1080, 60000, 0>>
proc_pid_rusage_since == <<1090, 70000, 0>>
fdopendir_since == <<101000, 80000, 0>>
clock_gettime_since == <<101200, 100000, 30000>>
futimens_since == <<101300, 110000, 40000>>
strchrnul_since == <<150400, 180400, 110400>>

HIRES_THREAD_TIME(t) == MINVER(t) >= From(t, <<101000, 80000, 0>>)   \* in clock_gettime.c

--------------------------------------------------------------------------------
(* Properties of a target. *)

(* The targets there are: which processors run which versions of a system, *)
(* as far as its numbers and platforminfo.h rely on it.                    *)
Existing(t) ==
  /\ IsTarget(t)
  /\ t.version[1] \in 1 .. 99 /\ t.version[2] < 100 /\ t.version[3] < 100
  /\ t.os = "macos" =>
       /\ t.version[1] >= 10
       /\ t.cpu \in {"ppc", "ppc64"} => t.version[1] = 10 /\ t.version[2] < 6
       /\ t.cpu = "i386" => t.version[1] = 10 /\ t.version[2] < 15
       /\ t.cpu \in Intel64 => t.version[1] < 28
  /\ t.os = "ios" /\ t.cpu \in Arm32 => t.version[1] < 11
  /\ t.os = "tvos" => t.version[1] >= 7

(* The numbers depcheck takes apart are the version of the triple, but for *)
(* the patch of a macOS before 10.10, of which clang keeps one digit.      *)
VersionRight(t) ==
  SUBSYSTEMVER(OSVER(t)) =
    IF t.os = "macos" /\ Older(t.version, <<10, 10, 0>>)
    THEN <<t.version[1], t.version[2], Least(t.version[3], 9)>> ELSE t.version

(* A target and the macOS that depcheck says it is like agree about which  *)
(* functions there are, though the tables were written apart: if the       *)
(* system lacks a function so does that macOS, but for realpath in iOS 3.0 *)
(* and 3.1 and lutimes in 1.x.  (The system may have one that it lacks.)   *)
AllSince == {open_since, realpath_since, posix_memalign_since, lutimes_since, lchmod_since,
             dirfd_since, proc_pid_rusage_since, fdopendir_since, clock_gettime_since,
             futimens_since, strchrnul_since}

TablesAgree(t) == \A since \in AllSince :
  MACVER(t) # Unsupported /\ MINVER_LT(t, since)
  => \/ Required("macos", MACVER(t)) < since[1]
     \/ t.os = "ios" /\ since = realpath_since /\ 30000 <= OSVER(t) /\ OSVER(t) < 30200
     \/ t.os = "ios" /\ since = lutimes_since /\ OSVER(t) < 20000

(* A newer system of the same kind is never like an older macOS, and every *)
(* system between two that are supported is supported, except that no      *)
(* version is numbered between 18 (of watchOS, 11) and 26.                 *)
NeverBack(t, u) ==
  t.os = u.os /\ Older(t.version, u.version) /\ MACVER(t) # Unsupported
  => \/ ~Older(MACVER(u), MACVER(t)) /\ MACVER(u) # Unsupported
     \/ MACVER(u) = Unsupported /\ u.version[1] \in 12 .. 25

(* The systems a program can meet include those for which it was built,    *)
(* and where it needs recursive inclusion of libraries and has no rust it  *)
(* never meets a system that changed the ABI, on a phone.                  *)
RangeRight(t) == /\ MAXVER(t) >= MINVER(t)
                 /\ recursivedeps(t) = ~supportsrust(t)
                 /\ recursivedeps(t) /\ t.os = "ios" => ~MAXVER_GE(t, lutimes_since)

(* Packages of two targets for 32-bit phones have the same architecture,   *)
(* so that dpkg takes either, just when there is a system both run on.     *)
ArchRight(t, u) ==
  t.os = "ios" /\ u.os = "ios" /\ t.cpu \in Arm32 /\ u.cpu \in Arm32
  => (DPKGARCH(t) = DPKGARCH(u) <=> MINVER(t) <= MAXVER(u) /\ MINVER(u) <= MAXVER(t))
================================================================================
