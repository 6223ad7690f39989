-------------------------------- MODULE BaseShell --------------------------------
(***************************************************************************)
(* The programs of pkgs/base on a device whose root is not writable: its   *)
(* files live in /var/jb/iphoneports and /var/usr is a link to there.      *)
(*   postinst             moves what dpkg unpacked in /var/usr there       *)
(*   iphoneports-shell    starts the user's shell, iphoneports-fixup being *)
(*                        its child when the link is missing               *)
(*   iphoneports-chsh     changes the link /var/usr/shell                  *)
(* They share the two directories and know nothing of each other, and each *)
(* may be killed between any two system calls.                             *)
(***************************************************************************)
EXTENDS Naturals, FiniteSets

CONSTANTS
  User,       \* those who start iphoneports-shell
  Changer,    \* calls of iphoneports-chsh
  Wants,      \* Wants[c]: the argument of a call
  Kills, Tries \* bounds: processes killed, runs of postinst

ASSUME ShellAssumption == /\ Wants \in [Changer -> {"bash", "zsh"}]
                          /\ User \cap Changer = {} /\ "postinst" \notin User \cup Changer
                          /\ Kills \in Nat /\ Tries \in Nat

Program == {"bash", "zsh", "fixup"}
Name == Program \cup {"shell"}       \* the last is a link to a program
Postinst == {"postinst"}
Process == User \cup Changer \cup Postinst

VARIABLES
  usr,       \* what /var/usr is: "absent", "link" or "dir"
  jb,        \* /var/jb/iphoneports exists
  tree,      \* tree.usr, tree.jb: what each name is in the directory
  pc,
  choice,    \* choice[u]: char shell[PATH_MAX]
  todo,      \* what cp or rm has before it
  opened,    \* the file that cp has truncated, or "none"
  chosen,    \* the shell of the last chsh that ended well, or the first one
  excused,   \* excused[u]: what ShellStarts lets a shell fail for
  muddled,   \* a chsh was killed, or ran while postinst moved the files
  removed,   \* zsh was removed
  torn,      \* postinst was killed, or failed, in or after its removal
  kills, tries

disk == <<usr, jb, tree>>
left == <<todo, opened>>
ghosts == <<chosen, excused, muddled, removed, torn, kills, tries>>
vars == <<disk, pc, choice, left, ghosts>>

At(p, l) == pc[p] = l
Goto(p, l) == pc' = [pc EXCEPT ![p] = l]

(* Where /var/usr leads. *)
Where == IF usr = "dir" THEN {"usr"} ELSE IF usr = "link" /\ jb THEN {"jb"} ELSE {}

File(n) == IF Where = {} THEN "none" ELSE tree[CHOOSE d \in Where : TRUE][n]
Put(d, n, c) == tree' = [tree EXCEPT ![d][n] = c]

Runs(c) == c \in {"old", "new"}

--------------------------------------------------------------------------------
(* iphoneports-shell *)

(* Shells that have begun to look are excused for what changes meanwhile.  *)
Excuse == excused' = [u \in User |-> excused[u] \/ pc[u] # "access usr"]

Fail(u) == Goto(u, "failed") /\ UNCHANGED <<disk, choice>>

AccessUsr(u) == /\ At(u, "access usr")
                /\ Goto(u, IF Where # {} THEN "shell" ELSE "access jb")
                /\ UNCHANGED <<disk, choice, left, ghosts>>

AccessJb(u) == /\ At(u, "access jb")
               /\ \/ jb /\ Goto(u, "fixup") /\ UNCHANGED <<disk, choice>>
                  \/ ~jb /\ Fail(u)
               /\ UNCHANGED <<left, ghosts>>

(* execl fails, or the child finds the link made by another, or makes it.  *)
ExecFixup(u) == /\ At(u, "fixup")
                /\ \/ Runs(tree.jb["fixup"]) /\ Goto(u, "fixup usr") /\ UNCHANGED <<disk, choice>>
                   \/ ~Runs(tree.jb["fixup"]) /\ Fail(u)
                /\ UNCHANGED <<left, ghosts>>

FixupUsr(u) == /\ At(u, "fixup usr")
               /\ Goto(u, IF Where # {} THEN "shell" ELSE "fixup jb")
               /\ UNCHANGED <<disk, choice, left, ghosts>>

FixupJb(u) == /\ At(u, "fixup jb")
              /\ \/ jb /\ Goto(u, "symlink") /\ UNCHANGED <<disk, choice>>
                 \/ ~jb /\ Fail(u)
              /\ UNCHANGED <<left, ghosts>>

(* EEXIST is a failure. *)
Symlink(u) == /\ At(u, "symlink")
              /\ \/ /\ usr = "absent" /\ usr' = "link" /\ Goto(u, "shell")
                    /\ Excuse
                    /\ UNCHANGED <<jb, tree, choice>>
                 \/ usr # "absent" /\ Fail(u) /\ UNCHANGED excused
              /\ UNCHANGED <<left, chosen, muddled, removed, torn, kills, tries>>

(* A killed child has WEXITSTATUS 0: its parent goes on. *)
ChildKilled(u) == /\ pc[u] \in {"fixup", "fixup usr", "fixup jb", "symlink"} /\ kills < Kills
                  /\ Goto(u, "shell") /\ excused' = [excused EXCEPT ![u] = TRUE]
                  /\ kills' = kills + 1
                  /\ UNCHANGED <<disk, choice, left, chosen, muddled, removed, torn, tries>>

Default_Kept(u) == choice
Default(u) == [choice EXCEPT ![u] = "bash"]

(* access follows the link. *)
AccessShell(u) == /\ At(u, "shell")
                  /\ choice' = Default(u)
                  /\ Goto(u, IF File("shell") # "none" /\ File(File("shell")) # "none"
                             THEN "readlink" ELSE "check")
                  /\ UNCHANGED <<disk, left, ghosts>>

Readlink(u) == /\ At(u, "readlink")
               /\ \/ /\ File("shell") = "none" /\ Goto(u, "check") /\ UNCHANGED choice
                  \/ /\ File("shell") # "none" /\ Goto(u, "checkshell")
                     /\ choice' = [choice EXCEPT ![u] = File("shell")]
               /\ UNCHANGED <<disk, left, ghosts>>

checkshell(u) == File(choice[u]) # "none"

CheckChoice(u) == /\ At(u, "checkshell")
                  /\ choice' = IF checkshell(u) THEN choice ELSE Default(u)
                  /\ Goto(u, "check")
                  /\ UNCHANGED <<disk, left, ghosts>>

Check(u) == /\ At(u, "check")
            /\ \/ checkshell(u) /\ Goto(u, "exec") /\ UNCHANGED <<disk, choice>>
               \/ ~checkshell(u) /\ Fail(u)
            /\ UNCHANGED <<left, ghosts>>

Exec(u) == /\ At(u, "exec")
           /\ \/ Runs(File(choice[u])) /\ Goto(u, "started") /\ UNCHANGED <<disk, choice>>
              \/ ~Runs(File(choice[u])) /\ Fail(u)
           /\ UNCHANGED <<left, ghosts>>

ShellStep(u) == \/ AccessUsr(u) \/ AccessJb(u) \/ ExecFixup(u) \/ FixupUsr(u) \/ FixupJb(u)
                \/ Symlink(u) \/ ChildKilled(u) \/ AccessShell(u) \/ Readlink(u)
                \/ CheckChoice(u) \/ Check(u) \/ Exec(u)

--------------------------------------------------------------------------------
(* iphoneports-chsh *)

Moving == pc["postinst"] \in {"cp", "write", "rm", "rmdir"}

Stat(c) == /\ At(c, "stat")
           /\ Goto(c, IF Runs(File(Wants[c])) THEN "unlink" ELSE "failed")
           /\ muddled' = (muddled \/ Moving)
           /\ UNCHANGED <<disk, choice, left, chosen, excused, removed, torn, kills, tries>>

Unlink(c) == /\ At(c, "unlink")
             /\ \/ \E d \in Where : Put(d, "shell", "none")
                \/ Where = {} /\ UNCHANGED tree           \* ENOENT
             /\ Goto(c, "symlink")
             /\ UNCHANGED <<usr, jb, choice, left, ghosts>>

(* A link made by another call is taken for this one's. *)
Relink_Ignored(c) ==
  /\ At(c, "symlink")
  /\ tree' = [d \in {"usr", "jb"} |->
                IF d \in Where /\ File("shell") = "none"
                THEN [tree[d] EXCEPT !["shell"] = Wants[c]] ELSE tree[d]]
  /\ chosen' = Wants[c] /\ Goto(c, "ended")
  /\ UNCHANGED <<usr, jb, choice, left, excused, muddled, removed, torn, kills, tries>>

Relink(c) == /\ At(c, "symlink")
             /\ \/ /\ File("shell") = "none"
                   /\ \E d \in Where : Put(d, "shell", Wants[c])
                   /\ chosen' = Wants[c] /\ Goto(c, "ended")
                \/ /\ Where = {} \/ File("shell") # "none"
                   /\ Goto(c, "failed") /\ UNCHANGED <<tree, chosen>>
             /\ UNCHANGED <<usr, jb, choice, left, excused, muddled, removed, torn, kills, tries>>

ChshStep(c) == Stat(c) \/ Unlink(c) \/ Relink(c)

--------------------------------------------------------------------------------
(* postinst.  Another process may be in chsh while it moves the files.     *)

Present == {n \in Name : usr = "dir" /\ tree.usr[n] # "none"}
Changing == \E c \in Changer : pc[c] \in {"unlink", "symlink"}

To(l) == Goto("postinst", l)

Configure == /\ pc["postinst"] \in {"idle", "failed", "stuck", "killed"} /\ tries < Tries
             /\ tries' = tries + 1
             /\ To("test")
             /\ UNCHANGED <<disk, choice, left, chosen, excused, muddled, removed, torn, kills>>

Test == /\ At("postinst", "test")
        /\ \/ usr = "link" /\ To("installed")
           \/ usr # "link" /\ jb /\ To("glob")
           \/ usr # "link" /\ ~jb /\ To("mv")
        /\ UNCHANGED <<disk, choice, left, ghosts>>

(* mv: a rename, or a copy and a removal when /var/jb is another volume.  *)
Mv == /\ At("postinst", "mv")
      /\ \/ /\ usr = "dir" /\ To("ln") /\ Excuse
            /\ usr' = "absent" /\ jb' = TRUE
            /\ tree' = [usr |-> [n \in Name |-> "none"], jb |-> tree.usr]
         \/ usr = "dir" /\ To("glob") /\ jb' = TRUE /\ UNCHANGED <<usr, tree, excused>>
      /\ muddled' = (muddled \/ Changing)
      /\ UNCHANGED <<choice, left, chosen, removed, torn, kills, tries>>

(* /var/usr/*: without a match cp has no file to copy. *)
Glob == /\ At("postinst", "glob")
        /\ todo' = Present /\ opened' = "none"
        /\ To(IF Present = {} THEN "stuck" ELSE "cp")
        /\ muddled' = (muddled \/ Changing)
        /\ UNCHANGED <<disk, choice, chosen, excused, removed, torn, kills, tries>>

(* cp opens and truncates one file after the other, and replaces links.    *)
Truncate == /\ At("postinst", "cp")
            /\ \E n \in todo : /\ Put("jb", n, IF n = "shell" THEN "none" ELSE "partial")
                               /\ todo' = todo \ {n} /\ opened' = n
            /\ To("write")
            /\ UNCHANGED <<usr, jb, choice, ghosts>>

Write == /\ At("postinst", "write")
         /\ Put("jb", opened, tree.usr[opened]) /\ opened' = "none"
         /\ To("cp")
         /\ UNCHANGED <<usr, jb, choice, todo, ghosts>>

(* set -e ends the script at a cp that fails. *)
AfterCpFailed_Rm == "rm"
AfterCpFailed == "failed"

CpFails == /\ pc["postinst"] \in {"cp", "write"}
           /\ todo' = Present /\ opened' = "none"
           /\ To(AfterCpFailed)
           /\ UNCHANGED <<disk, choice, ghosts>>

Copied == /\ At("postinst", "cp") /\ todo = {}
          /\ todo' = Present
          /\ To("rm")
          /\ UNCHANGED <<disk, choice, opened, ghosts>>

Rm == /\ At("postinst", "rm")
      /\ \E n \in todo : Put("usr", n, "none") /\ todo' = todo \ {n}
      /\ Excuse
      /\ UNCHANGED <<usr, jb, pc, choice, opened, chosen, muddled, removed, torn, kills, tries>>

Rmdir == /\ At("postinst", "rm") /\ todo = {}
         /\ \/ Present = {} /\ usr' = "absent" /\ To("ln") /\ UNCHANGED torn
            \/ Present # {} /\ To("failed") /\ UNCHANGED usr /\ torn' = TRUE
         /\ Excuse
         /\ UNCHANGED <<jb, tree, choice, left, chosen, muddled, removed, kills, tries>>

(* When a fixup has made the link already, ln makes one inside of it.      *)
Ln == /\ At("postinst", "ln")
      /\ usr' = "link" /\ To("installed")
      /\ Excuse
      /\ UNCHANGED <<jb, tree, choice, left, chosen, muddled, removed, torn, kills, tries>>

PostinstStep == \/ Configure \/ Test \/ Mv \/ Glob \/ Truncate \/ Write \/ CpFails
                \/ Copied \/ Rm \/ Rmdir \/ Ln

--------------------------------------------------------------------------------
Over == {"idle", "failed", "stuck", "killed", "started", "ended", "installed"}

Kill(p) == /\ pc[p] \notin Over /\ kills < Kills
           /\ kills' = kills + 1
           /\ Goto(p, "killed")
           /\ muddled' = (muddled \/ p \in Changer)
           /\ torn' = (torn \/ (p \in Postinst /\ pc[p] \in {"rm", "ln"}))
           /\ UNCHANGED <<disk, choice, left, chosen, excused, removed, tries>>

(* dpkg removes zsh while it has nothing else to do. *)
RemoveZsh == /\ usr = "link" /\ ~removed /\ At("postinst", "idle")
             /\ Put("jb", "zsh", "none") /\ removed' = TRUE
             /\ Excuse
             /\ UNCHANGED <<usr, jb, pc, choice, left, chosen, muddled, torn, kills, tries>>

(* What a device may look like: dpkg has unpacked files where there were   *)
(* none, or over older ones whose link is lost; or the link is there; or   *)
(* it is lost and dpkg does not run.                                       *)
All(c, s) == [n \in Name |-> IF n = "shell" THEN s ELSE c]
Without == All("none", "none")

Init == /\ \/ usr = "dir" /\ jb = FALSE /\ tree = [usr |-> All("new", "none"), jb |-> Without]
           \/ usr = "dir" /\ jb = TRUE
              /\ tree = [usr |-> All("new", "none"), jb |-> All("old", "zsh")]
           \/ usr \in {"link", "absent"} /\ jb = TRUE
              /\ \E s \in {"none", "zsh"} : tree = [usr |-> Without, jb |-> All("new", s)]
        /\ chosen = tree.jb["shell"]
        /\ pc \in [Process -> {"idle", "access usr", "stat"}]
        /\ \A p \in Process : pc[p] = "idle" \/ pc[p] = IF p \in User THEN "access usr" ELSE "stat"
        /\ At("postinst", "idle")
        /\ choice = [u \in User |-> "bash"]
        /\ todo = {} /\ opened = "none" /\ muddled = FALSE /\ removed = FALSE /\ torn = FALSE
        /\ excused = [u \in User |-> FALSE]
        /\ kills = 0 /\ tries = IF usr = "absent" THEN Tries ELSE 0

Next == \/ \E u \in User : ShellStep(u)
        \/ \E c \in Changer : ChshStep(c)
        \/ PostinstStep \/ RemoveZsh
        \/ \E p \in Process : Kill(p)

Spec == Init /\ [][Next]_vars

--------------------------------------------------------------------------------
(* Properties. *)

(* Whatever is killed or fails, each program has a whole copy of its last  *)
(* version in one of the two directories.                                  *)
Installable == Program \ (IF removed THEN {"zsh"} ELSE {})

FilesKept == \A n \in Installable : tree.usr[n] = "new" \/ tree.jb[n] = "new"

(* When postinst has ended well /var/usr leads to the last version of all  *)
(* programs.  It finds nothing to move only when it is run again after it  *)
(* stopped in its removal of the directory or right after that.            *)
Installed == /\ At("postinst", "installed") =>
                  usr = "link" /\ \A n \in Installable : File(n) = "new"
             /\ At("postinst", "stuck") => torn

(* A shell does not start only when the link was made by another process   *)
(* under its fixup, or its fixup was killed, or files were moved away or   *)
(* removed since it began; or when postinst has stopped in its removal of  *)
(* the directory.  In all cases but the last it only needs to be started   *)
(* again, whatever /var/usr/shell leads to.                                *)
Emptied == usr = "dir" /\ \E n \in Installable : tree.usr[n] = "none"

ShellStarts == \A u \in User : At(u, "failed") => excused[u] \/ Emptied

(* What /var/usr/shell leads to, and a new shell thus runs, is what the    *)
(* last successful chsh was asked for, even if several ran at once; unless *)
(* one was killed or ran while postinst moved the files.                   *)
LinkIsLast == /\ usr = "link" /\ ~muddled
              /\ \A c \in Changer : pc[c] \notin {"symlink"}
              => tree.jb["shell"] = chosen
================================================================================
