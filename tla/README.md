# iphoneports in TLA+

iphoneports cross-compiles about 180 Unix packages for iOS and old Mac OS X.
It is a set of shell scripts around a cross toolchain, a C library of
compatibility functions (`compat/`) that is compiled into the packages, and a
few small programs for the device (`pkgs/base`). What is hard in it is not
what the recipes do but what happens around them: a build that calls itself
for its dependencies and shares a staging directory with them, background
jobs, directories whose mere existence means "built", lock files, and runs
that fail or are killed at any step.

## 1. The system

| part | state | operations | talks to |
|---|---|---|---|
| `build.sh` `main`, `build`, `includedeps` | `pkgs/*/pkg-$_TRIPLE`, `src-$_TRIPLE`, `.deb` files, `debs/`; under `$_TMP`: `sdk`, `sdk.<dep>`, `.builtpkgs`; shell variables `includeddeps`, `fail`, `dryrun` | `all`, `all-noclean`, `build`, `clean`, `cleanall`, `dryrun`, `abibreak`, `sysroot`, `bootstrap` | calls itself in subshells, answers by exit status 0, 1 or 2; runs `fetch.sh` and `build.sh` of packages |
| `build.sh` package lock | `files/pkglock-$_TRIPLE`, `.disabled`, `$_TMP` | wait, take, park, unpark, remove | other runs, `toolchain/build.sh` |
| `build.sh` `_includefuncs`, `_buildfunc` | `$_TMP/libcompat/` (`*.building`, `*.o`, `fail`), `$_TMP/libcompat.a`, headers in `$_SDK`, `LICENSE.*` | enter a function and its dependencies, compile in the background, `wait`, `ar` | its background jobs |
| `build.sh` `depcheck` | none | tool checks, target triple to version numbers and names | |
| `files/lib.sh` | `DEBIAN/`, `$_TMP/suidbinaries`, `$_TMP/LICENSE*` | `builddeb`, `installsuid`, `installlicense`, `strip_and_sign`, `supportsrust` | recipes |
| `files/dllib.sh` | `dlcache/`, `src-$_TRIPLE` | `hashcheck`, `dlfile` (five tries), `dlsrc` | recipes, network |
| `toolchain/build.sh` | `toolchainlock`, `currenttoolchainver`, `bin`, `lib` | wait, lock, skip or remove, build, nested `build.sh compiler-rt`, install | `build.sh` |
| `compat/` *at calls on one path | the process's working directory, `errno`, lazily found function pointers | one emulated call each | kernel, other threads |
| `compat/` `renameat`, `linkat`, `faccessat` | paths made of descriptors; the process's user and group IDs | one emulated call each | kernel, other threads, each other |
| `compat/` `open`, `fdopendir`, `dirfd` | the process's descriptors, directory streams, static version | one call each | kernel, other threads, programs that are started |
| `compat/` `getline` | the caller's buffer, a `FILE` | one call each | other threads |
| `compat/` clocks, file times, memory, strings | the tick factor and page size found once | one call each | |
| `compat/platforminfo.h` | none | the oldest and newest system of a target | all of `compat/` |
| `pkgs/base` shell, chsh, fixup, `postinst` | `/var/usr`, `/var/jb/iphoneports`, the link `/var/usr/shell` | one program each | each other |

Not logic of this system, and left out for good: the recipes' own commands,
vendored headers, `gnu-config`, patches of LLVM and rust, the compiler
wrappers (stateless argument rewriting) and `multitarget.sh` (one run after
the other). The repository is large because of them: the project's own
scripts and C sources are about 4500 lines, and nearly everything else
is third-party text or recipes of a few lines that call `configure` and `make`.

What makes the parts correct:

* builds: a package is compiled against the outputs of exactly what it
  depends on; no failure leaves an output that a later run takes for good;
  what the user names is really rebuilt; the lock is given up once;
* locks: one run per target; no stale lock blocks; a version file that is
  there vouches for the tools; a run has the `$_TMP` it made;
* compatibility archive: each function once, after its headers, none missing;
* downloads: nothing with a wrong hash is unpacked, the tries end, and a good file
  in the cache is not downloaded again;
* *at calls: an effect in the directory of the descriptor and nowhere else, the
  working directory, the descriptors and the IDs as before on every path;
* `open`, `fdopendir`: flags an old kernel does not know are kept all the same; no
  descriptor of another thread is closed or taken;
* `getdelim`: no write outside the buffer, no line torn between threads, the
  `FILE` unlocked on every path;
* clocks, times, strings, alignment: the results the newer system's own
  functions would give, at all boundaries;
* targets: the numbers derived from a triple agree with each other, though they are
  written down in three places;
* shells on the device: no program file is lost in a move, whoever is killed; a user gets a
  shell, and the one chosen last.

PROJECT.json lists the hazards with their lines and the properties that watch them.

## 2. Modules

| module | role |
|---|---|
| `TopoBuild` | abstract: a package is made in one step from current outputs of all its dependencies |
| `PkgBuild` | `main`, `build`, `hasbeenbuilt`, `includedeps`, `applypatches`, `cleanup`, `error` |
| `SysrootBuild` | `sysroot` in the runs of `PkgBuild`: its recursion and what it copies |
| `PkgBuildProofs` | theorems about the two |
| `PkgLock` | the two locks, `$_TMP`, the nested toolchain build, interrupts |
| `PkgLockProofs` | theorems about `PkgLock` |
| `LibCompat` | `_includefuncs`, `_buildfunc` and the background compilers |
| `LibCompatProofs` | theorems about `LibCompat` |
| `PathCalls` | external: what path calls of the kernel do to a name |
| `AtAtomic` | abstract: an *at call has its effect at one instant, in one directory |
| `AtCalls` | `openat`, `mkdirat`, `unlinkat`, `fstatat`, `symlinkat`, `readlinkat`, `faccessat`, `setattrlistat` |
| `AtCallsProofs` | theorems about `AtCalls` |
| `CompatThreads` | what threads in `renameat`, `linkat` and `faccessat` share |
| `TwoPaths` | `renameat` and `linkat` |
| `Faccessat` | the swap of user and group IDs in `faccessat` |
| `CompatProcess` | composes `TwoPaths` and `Faccessat`: one program, its threads in any of the three |
| `CompatProcessProofs` | theorems about `CompatProcess` and the three it is made of |
| `GetDelim` | `getdelim` and `getline` |
| `DlCache` | `hashcheck`, `dlfile`, `dlsrc`, `curl` and `tar` over the shared cache |
| `DlCacheProofs` | theorems about `DlCache` |
| `TargetInfo` | `depcheck`'s numbers and names, `supportsrust`, `platforminfo.h` |
| `Descriptors` | `open`, `fdopendir`, `dirfd`, on the systems `TargetInfo` allows |
| `StreamProofs` | theorems about `GetDelim`, `Descriptors`, `TargetInfo` and `CompatCalls` |
| `CompatTime` | `clock_gettime`, `clock_getres`, `futimens`, `lutimes` as operators |
| `CompatStrings` | string functions, `arc4random_buf`, `getservbyport_r`, `posix_memalign` as operators |
| `CompatCalls` | composes `Descriptors`, `CompatTime` and `CompatStrings`: calls of a program, with what it keeps between them |
| `BaseShell` | `iphoneports-shell`, `-fixup`, `-chsh` and the `postinst` of `pkgs/base` |
| `BaseShellProofs` | theorems about `BaseShell` |
| `MC...` | constants and small instances for TLC |

### PkgBuild

One target, run after run. `stack` is the chain of subshells `build()` makes of
itself: a frame is a package, where its subshell is, the lines of
`dependencies.txt` still to read, and `includeddeps`. `script` is what `main`
has still to do, as the sequence of its loops. `staged` is the content of
`$_SDK`, `parked[d]` that of `$_SDK.d`, `lib` that of `libcompat.a`. A directory's
content is the set of what was copied into it, each part a package, the
generation of its build and whether it was complete then. `sdk` says whether the target's own
SDK, `sdks/$_TRIPLE`, is there. `phase` is the exit
status on its way up: `fail` when a `build()` has returned 1, `exit` when
subshells exit with 1 one after the other.

| action | code |
|---|---|
| `Start`, `Finish` | build.sh:22-54, 739-740; in `Start` also `depcheck`, with `DepcheckError` |
| `Remove`, `Make`, `MakeNothing`, `NextLoop` | the loops of `main` |
| `Descend`, `Include`, `SkipSeen` | one line of `_includedeps` |
| `CompatOk`, `CompatError` | the end of `includedeps` |
| `FetchOk`, `FetchFail`, `PatchOk`, `PatchError`, `BuildStart`, `BuildOk`, `BuildFail` | the body of `build` |
| `Return`, `DryReturn` | the subshell ends with 0 |
| `CallerError`, `ExitOne`, `Failed` | `error` and the exit statuses above it |
| `VisitBuild`, `Visited`, `TarError` | `sysroot` builds what has no output; `main` is through with a package; `error` after `tar` |
| `Crash` | no trap is set |

`SysrootBuild` adds what `sysroot` copies: `sysroot` is the content of the directory,
`visits` the calls of the function, which calls itself for every line of `dependencies.txt`, with the
lines left to read. `CallNamed` and `CallDep` are its entry from `main` and from itself (build.sh:532-537), `Copy`
the `cp -a` at its end. A package without output is built in between: `VisitBuild` puts that in front of `main`'s
script. Since only the named packages are looked at first, a dependency removed by a `clean` is met there. `Elsewhere` is every other
step of `PkgBuild`; with the first of its copies `main` empties the directory (`RootMade`).

`main`'s loops take packages in any order. The code's order is the one given
or alphabetical, so the model has more behaviours. That a loop of `rm -rf`
runs in the background shows as `Remove` in any order, some of it torn by a kill.
`--keepsrc` and the extra recursion for the oldest targets (`recursivedeps`) are
inputs. Errors about a package directory that does not exist are left
out: they go the way of `CompatError`.

`Start` includes `depcheck`, which fails when a program is missing or the target has no SDK. The
repository comes without SDKs; users put them there, and may do so between any two runs. A
run takes one away: in a dry run `_SDK` is never set to the staged copy, so that the `rm -rf "$_SDK"`
at the end of `build` (build.sh:366) deletes the target's own SDK (`DryReturn`). A kill in the middle of that `rm` is
taken for one before or after it.

### PkgLock

A run is a chain of processes: `build.sh`, `toolchain/build.sh` when the toolchain
is out of date, and the nested `build.sh` for compiler-rt. A lock file holds a
PID, is being written (`Empty`), or is not there. Reading, truncating and
writing are separate actions, as they are separate system calls. `Interrupt`
kills a whole chain, as Ctrl-C does, and leaves the files.

`tmp[t]` says who made the `$_TMP` of target `t`: `MakeTmp` is build.sh:52-53, `Cleanup`
removes directory and lock of the target, whoever's they are.

The locks cannot bear every order of starts: `MayStart` says which ones they
can when `orderly` is TRUE. It is an assumption about users and not something
the code enforces. It says that one run at a time reads or waits for a lock,
that during a rebuild of the toolchain a further run starts only when
the earlier ones are past their removal of the old tools, and then on a target of its own that
is not the default one, and that nobody rebuilds by hand under a build. `Tooling` are the runs
without their lock in place: it is moved aside for the rebuild, and a run whose rebuild failed has yet
to go through `error`. A build of the same target does not start beside one,
since that run's `cleanup` would remove the newcomer's lock.
`orderly` is a variable, so that one run of TLC looks at both kinds of users.
`Exclusive`, `LockSeen`, `TmpOwn` and `ToolsReady` are about orderly ones: without
that TLC finds each of them violated (two runs read a lock
together; a parked lock lets a run in and `.disabled` is overwritten).

The waiting is looked at for all. `Awaited(p)` is the process `p` cannot go on without,
`Stuck(p)` that following it leads into a circle. `OneCircle` says there is one
kind of circle only: a run of the default target that holds its lock waits for
`toolchainlock`, whose holder's nested build waits for that lock. It takes a
start that is not orderly; that there is no other is a theorem, too. `EveryRunEnds` says that a run ends or is stuck that way.
`TmpOwn` has an exception that the code has too: the nested build of
compiler-rt removes the `$_TMP` of the default target, which may be that of the run that
caused it. These are in the list of hazards.

### LibCompat

`calls` is the stack of `_buildfunc`; a frame above the first is in a subshell. A
job remembers the package and the shell that started it, since `wait` covers
only the children of the shell that calls it. A job may end, well or badly,
at any time, also during a later package, whose `$_TMP/libcompat` has the same
path. Appending headers and starting the compiler of one function are one
action: only running jobs could see the difference, in headers of functions
they do not depend on. `started` is a record kept for the properties.

### AtCalls

Eight functions of `compat/` share one text, in two variants. With
`pthread_fchdir_np` (`Private`, Mac OS X 10.5 and iPhone OS 2 on) a thread opens
".", leaves the directory it may have of its own, enters that of the
descriptor, makes the call and goes back. Before, it asks for the descriptor's
path and calls with that. Each of these system calls is an action (`SaveCwd`,
`Leave`, `Enter`, `Operate`, `Restore`, `Close`; `Fstat`, `GetPath`, `OnPath`), and
between two of them other threads call, take descriptors or `chdir`, and other
programs rename directories. `Body` puts the actions together, and a function of
the repository is `Body` with the call it makes. `Native` is the function of
libSystem found by `dlsym`: since the flag and the pointer are not
synchronised, a thread may also take the other way.

A directory holds one name, which is a file, a directory, a dangling link or
nothing: the properties ask where a call has its effect, and one name tells. `own[t]`
is the thread's directory, `saved[t]` what the descriptor `cwd` refers to, `used`
the number of descriptors. `before`, `lost` and `given` are records for the
properties. All directories may be searched; which of them can be opened is
`Readable`. The swap of IDs in `faccessat` is in `Faccessat`.

`AtAtomic` has a call, its effect and its return. The effect is that of the step
`Operate` (or `Native`, `Direct`, `OnPath`); a call on something that is no
directory is refused when it goes back, since `errno` is settled only then. `Refusal` has one reason for
each thing that is no directory. The one exception is the code's: going back with `pthread_fchdir_np(-1)`
fails when the thread has left no directory of its own, so that openat.c:76 turns the `ENOTDIR` of a file into
`EBADF`. `back` (in `AtCalls`: it had a directory and could open it) tells when that can happen.

### TwoPaths, Faccessat and CompatProcess

`renameat` and `linkat` go by path in every build. Their actions are the blocks of the
code: `FstatOld` and `FstatNew` (descriptor is a directory, or `ENOTDIR`, or `EBADF`), `GetOld`
and `GetNew` (`F_GETPATH`), `Lstat` (linkat.c:52-60) and `Act`, which calls `rename` or `link` of
the kernel (both external). Other threads act between any two, and `MoveDir`
renames a directory. Both paths are arrays of inner blocks, which have ended (renameat.c:50 and 65, linkat.c:50 and 75)
while `oldpath` and `newpath` still point to them. `OldNow` and `NewNow` are what may be found there when `lstat`, `rename` or
`link` reads them: `Anything`, which includes the path itself, the other one, and text that leads out of the modelled
directories (`elsewhere`). That is undefined behaviour, and the model allows each outcome a compiler can make of it.
`did` and `moved` are records for `ActsOnNamed`, which asks for the right directory of each path that is the caller's own
or was not overwritten; of the others nothing can be asked.

`Faccessat` has a label for each of `getuid`, `geteuid`, `getgid`, `getegid`
(faccessat.c:43-44), for the two swaps, the path, `access`, and the two swaps back. `ids` are those
of the whole process. Which directory is meant is in `AtCalls`; here `Path` only
decides whether the call goes on or returns with the IDs as they are, as
faccessat.c:68-73 and 96-101 do. That and overlapping calls are recorded in
`marred`: the properties say that nothing else leaves the IDs swapped or judges by the
wrong ones. Since the functions swap back to what they read and not to what the
program had, two overlapping calls can exchange the IDs for good.

`CompatProcess` puts them together, since `rename` and `link` are judged by the effective user that
`faccessat` exchanges. A request is one of `TwoPathsRequest` and `FaccessatRequest`.

### Descriptors, TargetInfo and CompatCalls

`TargetInfo` has no state. A target is a processor, a subsystem and a version of three numbers.
`OSVER` is clang's number for it (external), `SUBSYSTEMVER`, `MACVER`, `DPKGARCH` and `recursivedeps`
are the shell arithmetic and the tables of `depcheck` (build.sh:197-303), `MINVER` and `MAXVER` those of
platforminfo.h. `..._since` are the versions in the first line of each source in `compat/`.

In `Descriptors` a program built for `target` runs on `system`, any version the target's range allows.
`Determined` is what the preprocessor leaves of `_open`: a fixed kind of system or a look at
run time. `Version`, `ChangeFlags`, `KernelOpens` and `SetCloexec` are open.c:24-61 in order. At
run time the version that `uname` gives is stored in a variable of an inner block
(open.c:32) and the static one stays unset, so it is the oldest system that is
assumed after all, unless `uname` fails. `Fdopendir`, `Opendir`, `CloseOwn`, `StoreFd` and `SetFd` are
fdopendir.c; the descriptor table is the process's and the lowest free entry is given
out, so that a thread that opens between `CloseOwn` and `StoreFd` gets the one just closed. `Exec` is a
`fork` and `exec` by another thread. Each entry of `table` says who has it, from which
function and whether close-on-exec was asked for and set.

`CompatTime` and `CompatStrings` are operators for functions that keep nothing (a pointer is an offset).
The tick factor, a `double` in the code, is a fraction, and what can come of its product with the ticks, cut off to a
whole number (clock_gettime.c:49, 116), is a set, `Scaled`: at 125/3 a clock of 1539 ticks can show 64124 nanoseconds
in place of 64125. How wide it is follows from `Precision`, one part in which three roundings can
lose: 2^51 of them on the hardware. A factor of whole nanoseconds is exact. What is external or undefined is an argument: what the
clocks show, what an array that was never written holds (`garbage`, for the element of `tv`
that futimens.c leaves unset). `CompatCalls` calls them, one step a call, with the two static variables:
`mach_time_factor`, which `clock_gettime` finds and `clock_getres` uses even when
nobody has found it, and `pagesize`. Each answer is compared with a definition of its own
(`ClockRight` ... `ServiceFound`, together `AnswersRight`) that says what the
function promises and not how it goes about it: `stpncpy`'s loop against
the copy padded with zeros, `memmem`'s scan against the least match, sums of microseconds
against carried pairs.

### BaseShell

A device whose root is not writable: dpkg has unpacked the files of base in the directory `/var/usr`, and
`postinst` moves them to `/var/jb/iphoneports` and makes `/var/usr` a link.
`usr` is what `/var/usr` is, `tree` what each of four names is in either directory
(`old` and `new` are versions, `partial` a file being copied), `todo` what `cp` or `rm` has before it, `opened` the file
that `cp` has truncated and not yet written. Every system call is
an action: `AccessUsr`, `AccessJb`, `ExecFixup`, `AccessShell`, `Readlink`,
`CheckChoice`, `Check`, `Exec` of iphoneports-shell.c, `FixupUsr`, `FixupJb`, `Symlink` of
iphoneports-fixup.c, which runs as a child of the shell, `Stat`, `Unlink`, `Relink`
of iphoneports-chsh.c, and `Test`, `Mv`, `Glob`, `Truncate`, `Write`, `CpFails`, `Copied`, `Rm`,
`Rmdir`, `Ln` of DEBIAN/postinst:5-21. `Kill` ends any process anywhere; `ChildKilled` is a killed
fixup, which its parent takes for a success (`WEXITSTATUS` without `WIFEXITED`). `Configure`
runs `postinst` again, as dpkg does after a failure.

`excused`, `muddled`, `torn` and `chosen` are records: of what may have made a shell fail, of a
`chsh` that was killed or ran while the files were moved, of a `postinst` that stopped in its
removal, and of the shell asked for last. The properties hold in all other cases, which shows that
those are the only ones.

### GetDelim

Threads read one `FILE`, each with its buffer. `n` is `ptr - *buf`, `top` the end
of what was written in this call, `start` where the call began to read. The
characters of the file are those the delimiter is compared with. A failure of
`getc_unlocked` or `realloc` may come at any call. The stream's error flag is left out: no
property is about it.

### DlCache

Each run fetches one package's source: `pc` is `first` in the `hashcheck` of
dllib.sh:15, `curl` and `write` in line 19 before and after curl opens its output,
`again` in the `hashcheck` of that line, `tar` in line 36. The runs share `file`, which curl
truncates in place; `sha256sum` and `tar` read it block by block (`off`, `ok`), so that
another run's curl can cut it below them, and two curls can leave a hole. curl is external: it opens its
output with the first byte, takes an error page for a success (there is no `-f`)
and may break off anywhere. `cut` is a history variable: another run wrote to the file since
this one began to hash it. Two targets that fetch the same source at once can
spoil each other's download, and even unpack a file they have not hashed: the code has no lock on
`dlcache/`. `UnpackedGenuine` says that this is the only way, and `SettledStays`
that it cannot happen any more once the file is complete.

Recipes that do their own download instead of calling `dlsrc` (such as `pkgs/file`) are not modelled.

## 3. Runs

| run | question | bounds |
|---|---|---|
| `build` | all safety properties of `PkgBuild`, is what was asked for there (`AskedFor`: packages, `.deb` files, sysroot), that it implements `TopoBuild`, and does a run always end? | 5 packages with a diamond, two runs of any of 19 commands and a third that copies a sysroot after a `clean`, one kill |
| `build_dryrun` | "pretend to build"? (violated) | one run |
| `lock` | do the locks exclude, whose is `$_TMP`, does the version file vouch, who waits in a circle, does everybody else end? | two runs of either script, started in order, 3 targets; or two builds at any time, or three with the toolchain in order, 2 targets; one interrupt |
| `libcompat` | once, after the headers, nothing missing? | 3 packages, 5 lists, 4 functions |
| `atcalls` | is each call atomic and in its directory, are directory and descriptors as before? | any request of one thread against a creating `openat` of another, 2 directories, 2 descriptors, one rename, one `chdir` |
| `atcalls_path` | the same for the builds that go by path, without renames | the same |
| `process` | where do `renameat` and `linkat` act, are the IDs back, whose IDs decide? | a thread with any two `faccessat`, another with one of any call, 2 directories, 3 places, 4 trees, 3 sets of IDs, one rename |
| `twopaths_races` | "this has race conditions", and otherwise? (violated) | one thread, no renames |
| `getdelim` | bounds, whole lines, every call returns? | 2 threads, 3 calls each, 4 lines, buffers of 0, 1 and 3, limit 6 |
| `dlcache` | what is unpacked, when is the cache settled, do the tries end? | 2 runs that fetch again and again, files of up to 2 blocks, 3 tries, any number of kills |
| `calls` | descriptors and flags; all answers of the single-step functions; all targets | 5 threaded targets on up to 4 systems, 2 threads, 3 descriptors, one call each, one `exec`; every released version of each system |
| `baseshell` | no file lost, does every shell start, which one? | 2 shells and a chsh, or one shell and two of chsh; 2 tries of `postinst`, one kill |

Why the bounds are enough. In `build` the graph (git needs openssl, curl and
zlib; curl needs openssl and zlib) has nesting of depth three, a dependency
reached twice, and one built by a sibling before it is needed; the second run meets whatever
the first left, and one kill is enough to leave a partial output. The third run is only taken where it matters: `curl` is
there, `openssl` that it needs was cleaned, and `sysroot curl` must build it again.
The proofs below cover every graph and any number of runs and kills. In `lock` three targets allow the default
one, and two others that rebuild together; for orderly users the proofs below hold with
any number of runs. Three runs
started at any time give two waiters for one holder; a circle needs two. In `libcompat` the third package can meet
compilers of the first two, and the lists name a function twice, before its
dependency, without it, and one that does not exist.
In `atcalls` one thread makes every kind of call from every kind of start; the other one makes
what can disturb it: it creates the name, holds a descriptor for a while and keeps one, so
that 2 descriptors are too few at times. One call each is enough since a call
starts from any directory, and the theorems do not depend on it. In `process` the second `faccessat`
of a thread meets the IDs the first one left, and the trees have a file, a link, two names of one file and a name that is taken.
The directory is renamed only while the first thread has made no call, since `faccessat` does not
look at places here. In `getdelim`
a buffer of 1 grows from the smallest size, 3 meets the limit after
one doubling, and the longest line fits no first buffer. In `dlcache` two blocks
allow a file that is partial, one with a hole and one whose second block is from another writer; 3 tries
instead of the code's 5 reach the first, a middle and the last one. In `calls` the
threaded targets are one for each outcome of the preprocessor, and the systems lie
on either side of each version that `open` and `fdopendir` ask for. Three descriptors are what two threads in `fdopendir` need when one
stream is there already, and one too few for all of them at once. The functions that are one step have no interleavings of
their own, so that they are called for two targets, which differ in pointer size and clocks; their inputs lie
around the boundaries (a second's worth of microseconds, needles as long as the string, every
residue of an address, buffers without and with room for a name). `Precision` is 10^9 in place of 2^51, since TLC counts to 2^31: some products of ticks
lie below and some above it, so that a clock can be off by the cut or by what the rounding loses; the theorem is for any `Precision`. `TargetsRight` compares each pair of targets.
In `baseshell` two shells suffice to race for the link, two of chsh for the shell's, and a second try of `postinst`
meets what the first left wherever it stopped; the proofs below hold for any number of each.

Fairness. `PkgBuild`: a run is one chain of processes, each of which waits only
for its child, so its next step is always taken as long as it is not killed (weak fairness on the
steps of `main`, of the subshells and of `sysroot`; `SysrootBuild.FairSpec`). `PkgLock`: weak fairness per run, as
processes are scheduled by the system. Waiting is a loop of `sleep 1` and is not a fair
step while the other process lives. `GetDelim`: weak fairness per thread in a call; a thread that waits for the
`FILE` gets it since each one calls a bounded number of times. `DlCache`: weak fairness per run, which includes that curl ends:
an assumption about the network, since the code gives curl no time limit. No fairness is
assumed of users, kills or failures. The other modules have safety properties only: their
processes run a bounded number of steps and wait for nobody.

### Disagreements with what the repository says

* `build_dryrun`: build.sh:704 says that `dryrun` pretends to build all packages. The first
  `build()` that ends in it deletes the target's SDK. `multitarget.sh dryrun` deletes those of all targets.
* `twopaths_races`: the comment in renameat.c and linkat.c says that race conditions
  are what is wrong with the emulation. Without any, `rename` can be called on paths that
  are not those it was given, since `oldpath` and `newpath` point to arrays that have ended.

Noticed while reading and not the subject of a run: the README says that `all` builds all packages
except those named, but an excluded one is built after all when another one needs it; the usage text says
`--no-tmp`, build.sh:43 tests `--no-tmpfs`; wait4_unix03.c asks for
`HAVE_UNIX03_SYMBOLS`, platforminfo.h defines `HAS_UNIX03_SYMBOLS`; in multitarget.sh `|| break` hides
a failure from the exit status; `clock_getres` lacks `CLOCK_MONOTONIC`, and gives 0 as the resolution of ticking clocks
until `clock_gettime` has run (`ResolutionRight` allows it); the *at calls report `EBADF` for a file in place of a directory when
the thread has no working directory of its own (openat.c:76, `AtAtomic!Refusal` allows it); a clock of ticks can show a
nanosecond less than the ticks make, and more the longer it has run past what a `double` holds (`ClockRight` allows it);
in the smallest buffer that it accepts `getservbyport_r` has no room for the name: `getnameinfo` gets the length 0 and, if it
succeeds, line 57 reads past the end (`ServiceFits` allows it below three pointers' size); futimens.c leaves an element of
`tv` unwritten when exactly one time is `UTIME_OMIT` (`FutimensRight` allows it); the variable `ver` in open.c:32 hides the static one of the same name, so that what
`uname` says is never used (`FlagsKept` holds all the same but on 10.4);
`suidbinaries` is not consumed for macOS targets; recipes that are built inside of a `while read`
loop have the rest of the dependency list as their standard input.

## 4. Proofs

Every theorem holds for all values of the constants that satisfy the named assumptions, which TLC
evaluates in every run. Each rests on an invariant that is inductive, which TLC has checked
on small instances before it was proved.

### PkgBuildProofs

| theorem | says |
|---|---|
| `TypeCorrect` | types |
| `StagedCorrect` | `StagedExact`: what is staged when a package is compiled |
| `LibCorrect` | `LibOwn`: what the compatibility archive holds then |
| `NoHalfBuiltCorrect` | `NoHalfBuilt`: no failure leaves a partial output |
| `ReleasedCorrect` | `ReleasedOnce`: `cleanup` once, at the end |
| `PristineCorrect` | `PristineWhenPatched`: patches meet a fresh source tree |
| `PackagesSafe` | `PackagesKept`: a dry run changes no package, nor does a later run while the SDK is gone |
| `DryrunCorrect` | `DryrunOrdered`: it prints each package once, after what it needs |
| `NamedCorrect` | `NamedFresh`: what was asked for was built, once, out of the new outputs |
| `TopoImplemented` | `ImplementsTopo`: `PkgBuild` implements `TopoBuild` |

Assumptions: dependencies are packages, `sdk` is nobody's dependency, the graph
is acyclic, patches come only with a fetch, and `abibreak` is given one package (build.sh reads `$2` only).

`StagedExact` is not inductive: it speaks of one moment of the innermost
subshell, and what is staged then was moved aside by `mv` any number of times
before. The invariant `StackInv` says of every frame of the stack what its staging
directory holds, be it in `$_SDK` (the top frame) or in `$_SDK.d` (the others, `SdksHeld`): base
SDK plus what has been included so far, each output the current generation. That
stays true during nested builds only because they do not rebuild what is
already included (`DirsOK`), and `$_SDK.d` is not overwritten only because the
packages on the stack are distinct: each frame's package depends on the next
one's (`Nested`), so their ranks fall strictly. That is where acyclicity is used.
For the oldest targets `Needs` is the least closed set around the direct
dependencies, and `FramesOK` says that what is seen and what is still to do
together contain, and are contained in, that set. A step that preserves the
invariant has one lemma each for a descent, a return, an inclusion and a skip.

The refinement is proved from `StackInv`. Two small invariants give what `TopoBuild` asks for: a package with an
output has been attempted (`Attempted`), and what a compiling package is made from is what is staged
(`FromStaged`). Then `BuildStart` is `Attempt` and `BuildOk` is `Produce`. So is a kill: what it leaves counts as an output.

`DryrunOrdered` needs `DryStack`: of every subshell of a dry run, its package is not yet printed, what it has
included is, and each dependency is one or the other of included and still to be read. `PackagesSafe` needs
`OnlyMakes`, that the script of a dry run removes nothing, and `SdkThere`, that any other run which has passed `depcheck` keeps its SDK.

`NamedFresh` speaks of the end of a run, when its script is empty. Its invariant says what the script is on the way
there (`ScriptOK`): a loop that removes is followed by the one that makes what it removed, no package is in two
loops of a kind, and what is made before others are removed is deeper in the graph. A named package is then
to be removed, or removed and to be made, or made once out of new outputs (`AllFresh`).
A subshell that makes a package ahead of its turn, because another one needs it, keeps that up since the package's turn
finds it there. With more than one package in `abibreak` it is false, hence the assumption.

### SysrootBuild (in PkgBuildProofs)

| theorem | says |
|---|---|
| `SysrootIsBuild` | every behaviour of `SysrootBuild` is one of `PkgBuild` |
| `SysrootStaged` | so all of the theorems above hold in it |
| `SysrootCorrect` | `SysrootExact`: what the directory holds after `sysroot` or `bootstrap` |
| `AskedForCorrect` | `AskedFor`: `NamedFresh` and `SysrootExact` |

`SysrootExact` has two halves. That nothing else is in the directory is easy; that nothing is missing or old
is not, since `sysroot` calls itself in the middle of a list, builds what has no output, and takes a package
for done when it finds one copy of it. `SysrootInv` says that what was copied is current and closed under
dependencies (`CopiedOK`), and that each dependency of a call's package is copied, or still to be read, or what the next call is
about (`CallsOK`). A build in between could make a copy stale: it does not, as packages copied, and those
whose call is under way, have their outputs (`SettledOK`), and `build` descends only to packages that have none. That copies are complete
and the `.deb` files in place is said of behaviours without a kill (`CompleteOK`, `DebsOK`):
after one, a partial output counts as built, there and for the rest of the code.

### PkgLockProofs

| theorem | says |
|---|---|
| `TypeCorrect` | types, in any order of starts |
| `MutualExclusion` | `Exclusive`: two `build.sh` do not work on one target at once |
| `LockStays` | `LockSeen`: one that works has its lock in place |
| `TmpStays` | `TmpOwn`: and the `$_TMP` it made, or its nested build removed it |
| `ToolchainReady` | `ToolsReady`: the version file vouches for a complete toolchain |
| `OneCircleOnly` | `OneCircle`: who alone waits in a circle, in any order of starts |

All but the first and the last are about orderly users (`MayStart`), with any number of runs, targets and
interrupts. The invariant is `LockInv`. `Chains` says which process of a run can be where while another one waits
for it. The rest holds for orderly users: at most one run decides to
rebuild (`OneDecides`), and one rebuilds, with `toolchainlock` (`OneRebuilds`); work rests on a
current toolchain (`ToolsOK`); beside a run without its lock there is none of its target, nor one of the default target
(`Apart`); and a process from `mktmp` to `cleanup` has its lock, while others of that target are still to read it or wait for that process
(`LocksOK`), and its `$_TMP` (`TmpOK`). Each needs the others: the lock is moved aside because the tools are
old, and nobody takes it meanwhile because of who may start.
The attempt at the proof is what brought `Tooling` into `MayStart`: without it a run that starts beside
one whose rebuild has failed loses its lock to the other's `cleanup`.

`OneCircle` says more of orderly users than of others: of them, that nobody is ever stuck. Its invariant `CircleInv` adds two things.
`Holders`, in any order of starts: a process that a lock file names, or that another one waits for, is
past its own taking of that lock (it holds it, or has gone on, or is dead), so it does not wait for a lock of
the same kind. `NotBack`, for orderly users: a run that has parked its lock is found by no nested build.
So along the processes that wait for each other each has got further than the one before
(`Awaited` goes from a build's lock to its toolchain run, to `toolchainlock`, to the nested
build, and ends), but for one step: from a nested build across to a `build.sh` that waits for its own
toolchain run (`Across`). A circle must take it, which is what `NestedWaits` says; in order
`NotBack` and `Apart` exclude it. `Stuck` follows the chain of waiting processes for as many steps
as there are processes: by the pigeonhole principle a chain that has not ended then has gone round (`CircleOf`). This is
why runs are assumed to be finitely many. `Follow` is a function defined by recursion; what the proof needs of it
is that it exists and what its steps are (`ChainExists`, `ChainFacts`), and both
follow from the least number for which they fail.

### LibCompatProofs

| theorem | says |
|---|---|
| `TypeCorrect` | types |
| `CompiledOnce` | `BuiltOnce` |
| `HeadersInPlace` | `HeadersFirst`: while a function is compiled, the headers it needs are there |
| `ArchiveCorrect` | `ArchiveExact`: what `ar` puts into the archive |

Assumptions: the functions' dependencies are functions and acyclic. The invariant is `LibInv`. Down the stack
of `_buildfunc` ranks fall, a function on it is marked and has no headers yet, and each of
its dependencies has them, or is still to be read, or is the next frame (`StackInv` there). So headers are complete before
the compiler starts, and stay so while it runs, whatever else is appended. For the archive `AllKept` follows each compiler of the build's
own shell: it runs, or failed, or left its object; `OrderedInv` adds, when lists name dependencies first, that
nothing is compiled in a subshell, whose jobs `wait` would not see.

### AtCallsProofs

Of any threads, directories, requests, limits, and any functions the system has:

| theorem | says |
|---|---|
| `AtCallsAtomic` | `ImplementsAtomic`, when `Private` |
| `AtCallsKeepCwd` | `CwdKept`, in all builds |
| `AtCallsNoLeak` | `NoLeak`, in all builds |
| `AtCallsByPath` | `ImplementsAtomic`, in all builds, as long as no directory is renamed |
| `TypeCorrect` | types; no more descriptors than the limit |

The first rests on `Dirs`: a thread at `operate` is in the directory of its
descriptor, and one that goes back after its call of the system has a directory to leave,
so that going back does not fail and overwrite `errno`. One that could not enter (`undo`) may have none; with `Cwds` it
then had none to go back to, which is when `Refusal` allows `EBADF` of a file. Each function makes the call its
flags ask for (`OneOp`), so that one case per action is left: it is a step of `AtAtomic` (`SyscallActs`,
`RefusedActs`), `open(".")` that fails is `Lose`, or it is none (`Stutters`). The second rests on `Cwds`, which says label by label
whether the old directory is in `own` or in `saved`; it cannot be in neither, unless
`lost`. The third counts: a step of a thread changes its own membership in
`Held` only, by one, together with `used`. By path the directory is the one whose place `F_GETPATH` gave: there is
only one, since no two directories are in one place (`Placed`). Assumptions: there are as many places as directories, threads are finitely many, and
requests and names are of their types.

### CompatProcessProofs

Of one program, with any threads and calls, any IDs, and any renames of directories:

| theorem | says |
|---|---|
| `TypeCorrect` | types; the IDs are always a mixture of the program's own |
| `IdsComeBack` | `IdsBack`: the program has its own IDs when no call is under way |
| `IdsAreRight` | `RightIds`: each answer is about the IDs asked for, each rename by the program's own user |
| `NamedOnly` | `ActsOnNamed`: where `renameat` and `linkat` act by each path that is intact |

The invariant is `ProcessInv`. `IdsInv` says, as long as calls for `AT_EACCESS` have not overlapped, that there is at most one
under way, which IDs are swapped at which of its labels, and that its `local` copies are
the program's own. `AloneInv` carries over to the answer that nobody else was swapping when `access` was
called. `PathsInv` says label by label what `oldpath` and `newpath` name: the directory of the request, as long as none
was renamed since the call began. Assumptions: there are as many places as directories, the texts `"relative"` and
`"garbage"` (any other text) are no places, and IDs are what `ReadsIds` says.

### BaseShellProofs

Of any number of shells, calls of `chsh`, kills and runs of `postinst`:

| theorem | says |
|---|---|
| `TypeCorrect` | types; no half-written file in `/var/usr` |
| `FilesKeptCorrect` | `FilesKept`: each program is whole in one of the two directories |
| `InstalledCorrect` | `Installed`: where `/var/usr` leads after a `postinst` that ended well |
| `ShellStartsCorrect` | `ShellStarts`: what alone may make a shell fail |
| `LinkIsLastCorrect` | `LinkIsLast`: the link is the one of the last `chsh` that succeeded |

The invariant is `ShellInv`. `Places` says what the directories can hold for each thing that `/var/usr` can be; `Stages` what
`postinst` has done when it is at a label: while it copies, each program is still in `/var/usr` or already
in `/var/jb/iphoneports`, and when it removes, all are there. `Interrupted` says that `/var/usr` is missing, or lacks
a program, only on the way through the removal or after `postinst` stopped in it. `Shells` follows a shell that
nothing excuses: while it looks for the link there is none, so that its own fixup makes it; once it has found
it, the link or directory stays, and so does the program it chose. `Links` follows `/var/usr/shell` through the move: no `chsh`
that is between its `unlink` and its `symlink` overlaps with the copying, or the state is `muddled`, so that what is
copied is what was chosen. Assumptions: shells and calls of `chsh` are different processes, and neither is `postinst`.

### StreamProofs

Of `GetDelim` with any threads, file, sizes and limits; of `Descriptors` with any threads, descriptors
and target, on every system in the target's range; and of `CompatCalls` with any target and arguments:

| theorem | says |
|---|---|
| `TypeCorrect` | types of `GetDelim`; the size never passes `SSIZE_MAX` |
| `BoundsCorrect` | `InBounds` |
| `LinesCorrect` | `LinesWhole` |
| `OwnDescriptorsCorrect` | `OwnDescriptors`: what a thread has is its own, and nothing is lost |
| `FlagsKeptCorrect` | `FlagsKept`: where alone `O_CLOEXEC` and `O_SYMLINK` fail |
| `ProgramIsDescriptors` | every behaviour of `CompatCalls` is one of `Descriptors`, so that both hold in it (`ProgramDescriptors`) |
| `TargetsRightCorrect` | `TargetsRight`: versions, tables and ranges of every target, and of each pair |
| `AnswersRightCorrect` | `AnswersRight`: what each function of one step answers |

`InBounds` is not inductive: that the terminator fits at the end of the file
follows from what was left when the last character was stored. `Room` says that
between two characters there is room for one, and for two when one
is about to be stored. `LinesWhole` needs that a thread that reads holds the `FILE` (`HolderReads`): then
what it has stored is the part of the file between its start and the current position (`LineOf`).

`OwnDescriptors` needs `Holds`, which says what a thread has at each label of `open` and `fdopendir`: in particular that the
descriptor of `opendir` is not the caller's own, because that one was open when the kernel chose a free one. Each step then
changes at most one descriptor of one thread (`StepOfOne`). `FlagsKept` needs `Kept`, of the descriptors
that are open and the calls that are about to open: an entry without close-on-exec that was asked for is not
finished, or `ver` was wrong. It rests on `KernelFacts`: where the build settles the version, every system in the
target's range is of that kind. Assumption: no thread is called `"nobody"`.

`TargetsRight` says of every target there can be (`Existing`: versions with major, minor
and patch numbers below a hundred, on a processor that runs them) what `calls` checks of a list. The version
is recovered from clang's number, which is `a * 10000 + b * 100 + d`
or, for old versions of macOS, `1000 + b * 10` and one digit (`TargetNumbers`). The tables of `depcheck` are then taken row by
row: within one major version of iOS or watchOS the macOS version lies between bounds that depend on the minor number only (`PhoneRow`,
`WatchRow`), rows follow each other without going back (`NeverGoesBack`), and each
comparison of platforminfo.h falls on the same side of them (`TablesAreRight`).

`AnswersRight` is proved of each function from its own definition, then of each action. What carries from call to call is `LibraryInv`: the factor is none or one
that the system gave, none only if no clock has been read, and the page size is unknown or right. Microseconds and nanoseconds are carried
over in linear arithmetic (`ThreadTimeOf`, `timeraddOf`, `NanosOf`); whatever `Scaled` allows differs from the exact
product by less than a nanosecond and the precision of doubles (`ScaledRight`, from the quotient's bounds), and a factor of at least
one keeps the resolution above zero (`ResolutionGives`). The name of a service has room in any buffer of three pointers, since less than one is
skipped (`SkipOf`, `ServicePlaced`). `memrchr` and `stpncpy` are loops, written as functions by recursion: a closed form
is shown to satisfy the equation, so that the function exists, and the least round in which it could differ from it is
none (`MemrchrLast`, `StpncpyCopies`). The words of `arc4random_buf` are counted through a bijection (`RandomFills`). Assumptions
(`PrecisionAssumption`, `TimesAssumption`, `CallsAssumption`): the precision of doubles is positive; a tick of the clock is no shorter than a nanosecond, as on every Mac and device;
the page size is a power of two; alignments are at most 2^20, the powers of two that `PowerOfTwo` knows; strings do
not contain NUL; sizes and addresses are natural numbers that do not overflow.

### DlCacheProofs

Of any runs, length of the file and number of tries:

| theorem | says |
|---|---|
| `TypeCorrect` | types; `$tries` stays between 0 and its maximum |
| `UnpackedCorrect` | `UnpackedGenuine` |
| `SettledCorrect` | `SettledStays` |

`UnpackedGenuine` rests on `Prefix`: as long as nobody else writes, what a run
has read is the beginning of the file as it is now, so that a match at its end is a
statement about the whole file (`MatchVouches`), which `Vouched` carries over to `tar`.

### Only model-checked

Liveness, which is out of the prover's reach, as is `ENABLED`: `Terminates` of `PkgBuild`, `EveryRunEnds` of
`PkgLock`, `CallsReturn` of `GetDelim` and `EveryFetchEnds` of `DlCache`. And the two violations, which are
counterexamples found by TLC. Every invariant and every action property of the passing runs is also a theorem.

## 5. Not modelled

* What `tar` packs after `sysroot` and `bootstrap`; only that it may fail.
* `builddeb`, `installsuid`, `installlicense`, `strip_and_sign`: they write into the
  package that is being built; `PkgBuild` sees only whether the package is complete.
* The search for GNU tools, the entitlements and rust's name of a target in `depcheck`.
* `realpath`, `lchmod`, `fgetattrlist`, `fsetattrlist`, `SecRandomCopyBytes`, `getentropy`,
  `proc_pid_rusage`, `host_statistics64` and the pthread functions of `compat/`: each passes its arguments on
  to one or two calls. The variants of a function's symbol (`$UNIX2003`, `$INODE64`) only rename it.
* The compiler wrappers, `multitarget.sh`, the recipes, and what is vendored (see 1).
* Recipes that do their own download instead of calling `dlsrc` (such as `pkgs/file`).
* Reuse of a PID by another program: a lock then names a live process that is no run, and a
  run waits for it.

## 6. Plan

1. Done: all modules of section 2, and the theorems of section 4.
2. Left: the remaining small functions of `compat/`, each of which passes its arguments on.
3. Left: what the compiler wrappers do to the arguments they are given.
