------------------------------ MODULE MCPkgBuild ------------------------------
(* Small instances of PkgBuild and SysrootBuild: git and what it needs, cut *)
(* from pkgs/, the sdk package, and the commands that matter to each run.   *)
EXTENDS SysrootBuild

CONSTANTS zlib, openssl, curl, git, sdkpkg

MCPkg == {zlib, openssl, curl, git, sdkpkg}
MCDeps == [p \in MCPkg |-> CASE p = curl -> <<openssl, zlib>>
                             [] p = git  -> <<openssl, curl, zlib>>
                             [] OTHER    -> <<>>]

Cmd(v, A) == [verb : {v}, args : A, keepsrc : {FALSE}]

SomeCommands ==
       Cmd("build", {{git}, {curl}, {sdkpkg}, {zlib, git}, {openssl, curl}})
  \cup [verb : {"build"}, args : {{git}}, keepsrc : {TRUE}]
  \cup Cmd("abibreak", {{zlib}, {openssl}})
  \cup Cmd("all", {{}, {zlib}}) \cup Cmd("all-noclean", {{git}})
  \cup Cmd("clean", {{openssl}}) \cup Cmd("cleanall", {{}})
  \cup Cmd("sysroot", {{curl}, {zlib, git}, {sdkpkg}}) \cup Cmd("bootstrap", {{openssl, curl}})
  \cup Cmd("dryrun", {{}, {git, zlib}})

(* Two runs; and a third one that copies curl after openssl was cleaned.    *)
MayStart == runs = 2 => /\ command.verb = "clean" /\ dir[curl] = "full" /\ crashes = 0
                        /\ command'.verb = "sysroot" /\ command'.args = {curl}

MCNext == AllNext /\ (phase = "idle" => MayStart)

MCSpec == AllInit /\ [][MCNext]_<<vars, copies>> /\ Fairness
================================================================================
