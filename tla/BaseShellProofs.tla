---------------------------- MODULE BaseShellProofs ----------------------------
(***************************************************************************)
(* Proofs about BaseShell, for every number of shells, of calls of chsh,   *)
(* of kills and of runs of postinst.                                       *)
(***************************************************************************)
EXTENDS BaseShell, TLAPS

(***************************************************************************)
(* The two directories.  What is proved of FilesKept, Installed,           *)
(* ShellStarts and LinkIsLast needs all of what follows.                   *)
(***************************************************************************)
PO == pc["postinst"]

Label == {"idle", "access usr", "access jb", "fixup", "fixup usr", "fixup jb", "symlink",
          "shell", "readlink", "checkshell", "check", "exec", "started", "failed", "stat",
          "unlink", "ended", "killed", "test", "mv", "glob", "cp", "write", "rm", "ln",
          "installed", "stuck"}

Version == {"none", "old", "new", "partial"}
Target == {"none", "bash", "zsh"}
Files == [Name -> Version \cup Target]

Types == /\ usr \in {"absent", "link", "dir"} /\ jb \in BOOLEAN
         /\ tree \in [usr : Files, jb : Files]
         /\ tree.usr["shell"] \in Target /\ tree.jb["shell"] \in Target
         /\ \A n \in Program : tree.usr[n] \in {"none", "new"}
         /\ \A n \in Program : tree.jb[n] \in Version
         /\ pc \in [Process -> Label]
         /\ choice \in [User -> {"bash", "zsh"}]
         /\ todo \in SUBSET Name /\ opened \in Name \cup {"none"}
         /\ chosen \in Target
         /\ excused \in [User -> BOOLEAN]
         /\ muddled \in BOOLEAN /\ removed \in BOOLEAN /\ torn \in BOOLEAN
         /\ tries \in Nat

AllNew(files) == \A n \in Program : files[n] = "new"
Vacant(files) == \A n \in Name : files[n] = "none"

Places == /\ ~jb => usr = "dir" /\ AllNew(tree.usr) /\ Vacant(tree.jb)
          /\ usr # "dir" => Vacant(tree.usr)
          /\ removed => /\ usr = "link" /\ tree.jb["zsh"] = "none"
                        /\ PO \in {"idle", "test", "installed", "killed"}

(* Where postinst is in its work tells what it has done. *)
Copying == PO \in {"cp", "write"}

Stages == /\ PO = "mv" => ~jb /\ usr = "dir"
          /\ PO = "glob" => jb /\ (usr = "dir" \/ torn)
          /\ PO \in {"cp", "write", "rm"} => jb /\ usr = "dir"
          /\ PO = "cp" => opened = "none"
          /\ PO = "write" => opened \in Name \ todo
          /\ Copying => \A n \in Program :
               IF n \in todo \cup {opened} THEN tree.usr[n] = "new" ELSE tree.jb[n] = "new"
          /\ PO = "rm" => AllNew(tree.jb)
          /\ PO = "ln" => usr # "dir"
          /\ PO = "installed" => usr = "link"
          /\ PO = "stuck" => torn

Interrupted ==
  /\ usr = "absent" => torn \/ PO = "ln" \/ (PO = "idle" /\ ~(tries < Tries))
  /\ usr = "dir" => torn \/ PO = "rm" \/ AllNew(tree.usr)

(* A shell that nothing excuses. *)
Looking(u) == pc[u] \in {"access jb", "fixup", "fixup usr", "fixup jb", "symlink"}
Found(u) == pc[u] \in {"shell", "readlink", "checkshell", "check", "exec"}

Starting(u) == /\ Looking(u) => usr = "absent"
               /\ Found(u) => usr # "absent"
               /\ pc[u] \in {"readlink", "check", "exec"} => choice[u] \in Installable
               /\ At(u, "failed") => Emptied

Shells == \A u \in User : excused[u] \/ Starting(u)

(* The link, as long as nothing has muddled it. *)
Relinking == \E c \in Changer : At(c, "symlink")

Links == ~muddled =>
  /\ usr = "link" => /\ tree.jb["shell"] # "none" => tree.jb["shell"] = chosen
                     /\ tree.jb["shell"] = "none" => Relinking \/ chosen = "none"
  /\ usr = "dir" => /\ tree.usr["shell"] # "none" => tree.usr["shell"] = chosen
                    /\ tree.usr["shell"] = "none" => Relinking \/ tree.jb["shell"] = chosen
  /\ usr = "absent" => ~Changing /\ tree.jb["shell"] = chosen
  /\ PO \in {"cp", "write", "rm"} => ~Changing
  /\ Copying => IF "shell" \in todo \cup {opened} THEN tree.usr["shell"] # "none"
                                                  ELSE tree.jb["shell"] = chosen
  /\ PO = "rm" => tree.jb["shell"] = chosen

ShellInv == Types /\ Places /\ FilesKept /\ Stages /\ Interrupted /\ Shells /\ Links

--------------------------------------------------------------------------------
(* What the helpers do. *)

LEMMA GotoFacts ==
  ASSUME Types, NEW p \in Process, NEW l \in Label, Goto(p, l)
  PROVE  /\ pc' \in [Process -> Label]
         /\ pc'[p] = l
         /\ \A q \in Process \ {p} : pc'[q] = pc[q]
BY DEF Types, Goto

LEMMA Apart ==
  /\ "postinst" \in Process /\ "postinst" \notin User /\ "postinst" \notin Changer
  /\ User \subseteq Process /\ Changer \subseteq Process
  /\ \A u \in User : u \notin Changer
BY ShellAssumption DEF Process, Postinst

LEMMA FileFacts ==
  ASSUME Types, NEW n \in Name
  PROVE  /\ usr = "dir" => Where = {"usr"} /\ File(n) = tree.usr[n]
         /\ usr = "link" /\ jb => Where = {"jb"} /\ File(n) = tree.jb[n]
         /\ usr = "absent" \/ (usr = "link" /\ ~jb) => Where = {} /\ File(n) = "none"
<1>1. CASE usr = "dir"
  <2>1. Where = {"usr"}
    BY <1>1 DEF Where
  <2>2. (CHOOSE d \in {"usr"} : TRUE) = "usr"
    OBVIOUS
  <2> QED
    BY <1>1, <2>1, <2>2 DEF File
<1>2. CASE usr = "link" /\ jb
  <2>1. Where = {"jb"}
    BY <1>2 DEF Where
  <2>2. (CHOOSE d \in {"jb"} : TRUE) = "jb"
    OBVIOUS
  <2> QED
    BY <1>2, <2>1, <2>2 DEF File
<1>3. CASE usr = "absent" \/ (usr = "link" /\ ~jb)
  BY <1>3 DEF Where, File
<1> QED
  BY <1>1, <1>2, <1>3 DEF Types

LEMMA PutFacts ==
  ASSUME Types, NEW d \in {"usr", "jb"}, NEW n \in Name, NEW c \in Version \cup Target,
         Put(d, n, c)
  PROVE  /\ tree' \in [usr : Files, jb : Files]
         /\ d = "usr" => tree'.jb = tree.jb /\ tree'.usr = [tree.usr EXCEPT ![n] = c]
         /\ d = "jb" => tree'.usr = tree.usr /\ tree'.jb = [tree.jb EXCEPT ![n] = c]
<1>1. tree \in [usr : Files, jb : Files]
  BY DEF Types
<1>2. tree.usr \in Files /\ tree.jb \in Files
  BY <1>1
<1>3. [tree.usr EXCEPT ![n] = c] \in Files /\ [tree.jb EXCEPT ![n] = c] \in Files
  BY <1>2 DEF Files
<1>4. CASE d = "usr"
  <2>1. tree' = [tree EXCEPT !["usr"] = [tree.usr EXCEPT ![n] = c]]
    BY <1>4 DEF Put
  <2> QED
    BY <1>1, <1>2, <1>3, <1>4, <2>1
<1>5. CASE d = "jb"
  <2>1. tree' = [tree EXCEPT !["jb"] = [tree.jb EXCEPT ![n] = c]]
    BY <1>5 DEF Put
  <2> QED
    BY <1>1, <1>2, <1>3, <1>5, <2>1
<1> QED
  BY <1>4, <1>5

--------------------------------------------------------------------------------
(* Steps of a shell that change no file. *)

LEMMA UserGoto ==
  ASSUME Types, NEW u \in User, NEW l \in Label, Goto(u, l)
  PROVE  /\ pc' \in [Process -> Label] /\ pc'[u] = l
         /\ \A v \in User \ {u} : pc'[v] = pc[v]
         /\ PO' = PO /\ Changing' = Changing /\ Relinking' = Relinking
<1>1. \A q \in Process \ {u} : pc'[q] = pc[q]
  BY GotoFacts, Apart
<1>2. \A c \in Changer : pc'[c] = pc[c]
  BY <1>1, Apart
<1>3. PO' = PO
  BY <1>1, Apart DEF PO
<1>4. Changing' = Changing /\ Relinking' = Relinking
  BY <1>2 DEF Changing, Relinking, At
<1> QED
  BY <1>1, <1>3, <1>4, GotoFacts, Apart

LEMMA ShellQuiet ==
  ASSUME ShellInv, NEW u \in User, NEW l \in Label, Goto(u, l),
         UNCHANGED <<disk, left, chosen, muddled, removed, torn, tries>>,
         choice' \in [User -> {"bash", "zsh"}],
         \A v \in User \ {u} : choice'[v] = choice[v],
         excused' \in [User -> BOOLEAN],
         \A v \in User : excused[v] => excused'[v],
         excused'[u] \/ Starting(u)'
  PROVE  ShellInv'
<1>1. Types
  BY DEF ShellInv
<1>2. /\ pc' \in [Process -> Label]
      /\ \A v \in User \ {u} : pc'[v] = pc[v]
      /\ PO' = PO /\ Changing' = Changing /\ Relinking' = Relinking
  BY <1>1, UserGoto
<1>3. /\ usr' = usr /\ jb' = jb /\ tree' = tree /\ todo' = todo /\ opened' = opened
      /\ chosen' = chosen /\ muddled' = muddled /\ removed' = removed /\ torn' = torn
      /\ tries' = tries
  BY DEF disk, left
<1>4. Installable' = Installable /\ (Emptied' <=> Emptied)
  BY <1>3 DEF Installable, Emptied
<1>5. Types'
  BY <1>1, <1>2, <1>3 DEF Types
<1>6. Places'
  BY <1>2, <1>3 DEF ShellInv, Places, AllNew, Vacant
<1>7. FilesKept'
  BY <1>3, <1>4 DEF ShellInv, FilesKept
<1>8. Stages'
  BY <1>2, <1>3 DEF ShellInv, Stages, Copying, AllNew
<1>9. Interrupted'
  BY <1>2, <1>3 DEF ShellInv, Interrupted, AllNew
<1>10. Links'
  BY <1>2, <1>3 DEF ShellInv, Links, Copying
<1>11. Shells'
  <2> SUFFICES ASSUME NEW v \in User, ~excused'[v] PROVE Starting(v)'
    BY DEF Shells
  <2>1. CASE v = u
    BY <2>1
  <2>2. CASE v # u
    <3>1. Starting(v)
      BY DEF ShellInv, Shells
    <3>2. pc'[v] = pc[v] /\ choice'[v] = choice[v]
      BY <1>2, <2>2
    <3> QED
      BY <1>3, <1>4, <3>1, <3>2 DEF Starting, Looking, Found, At
  <2> QED
    BY <2>1, <2>2
<1> QED
  BY <1>5, <1>6, <1>7, <1>8, <1>9, <1>10, <1>11 DEF ShellInv

(* Where a shell looks. *)
LEMMA Leads ==
  ASSUME ShellInv
  PROVE  /\ usr # "absent" => Where # {}
         /\ usr = "absent" => Where = {} /\ jb /\ Runs(tree.jb["fixup"])
         /\ \A n \in Name : File(n) = IF usr = "dir" THEN tree.usr[n]
                                      ELSE IF usr = "link" THEN tree.jb[n] ELSE "none"
         /\ usr = "link" => jb
<1>1. Types /\ Places /\ FilesKept
  BY DEF ShellInv
<1>2. usr # "dir" => jb
  BY <1>1 DEF Places, Types
<1>3. "fixup" \in Installable /\ "fixup" \in Name
  BY DEF Installable, Program, Name
<1>4. ASSUME usr = "absent" PROVE Runs(tree.jb["fixup"])
  <2>1. tree.usr["fixup"] = "none"
    BY <1>1, <1>3, <1>4 DEF Places, Vacant
  <2> QED
    BY <1>1, <1>3, <2>1 DEF FilesKept, Runs
<1>5. usr # "absent" => Where # {}
  BY <1>1, <1>2, "shell" \in Name, FileFacts DEF Types, Name
<1>6. usr = "absent" => Where = {}
  BY DEF Where
<1>7. \A n \in Name : File(n) = IF usr = "dir" THEN tree.usr[n]
                                ELSE IF usr = "link" THEN tree.jb[n] ELSE "none"
  BY <1>1, <1>2, FileFacts DEF Types
<1> QED
  BY <1>2, <1>4, <1>5, <1>6, <1>7

(* A program that a shell has found is there, or postinst was stopped.     *)
LEMMA FoundRuns ==
  ASSUME ShellInv, usr # "absent", NEW n \in Installable
  PROVE  Runs(File(n)) \/ (File(n) = "none" /\ Emptied)
<1>1. Types /\ Places /\ FilesKept
  BY DEF ShellInv
<1>2. n \in Program /\ n \in Name
  BY DEF Installable, Name
<1>3. CASE usr = "dir"
  <2>1. File(n) = tree.usr[n] /\ tree.usr[n] \in {"none", "new"}
    BY <1>1, <1>2, <1>3, Leads DEF Types
  <2> QED
    BY <1>3, <2>1 DEF Runs, Emptied
<1>4. CASE usr = "link"
  <2>1. File(n) = tree.jb[n] /\ tree.usr[n] = "none"
    BY <1>1, <1>2, <1>4, Leads DEF Places, Vacant
  <2> QED
    BY <1>1, <2>1 DEF FilesKept, Runs
<1> QED
  BY <1>1, <1>3, <1>4 DEF Types

LEMMA ShellReads ==
  ASSUME ShellInv, NEW u \in User,
         \/ AccessUsr(u) \/ AccessJb(u) \/ ExecFixup(u) \/ FixupUsr(u) \/ FixupJb(u)
         \/ ChildKilled(u)
  PROVE  ShellInv'
<1>1. Types
  BY DEF ShellInv
<1>2. excused[u] \/ Starting(u)
  BY DEF ShellInv, Shells
<1>3. choice \in [User -> {"bash", "zsh"}] /\ excused \in [User -> BOOLEAN]
  BY <1>1 DEF Types
<1>4. CASE AccessUsr(u)
  <2>1. PICK l \in {"shell", "access jb"} : /\ Goto(u, l) /\ (l = "shell" <=> Where # {})
    BY <1>4 DEF AccessUsr
  <2>2. pc'[u] = l
    BY <1>1, <2>1, UserGoto DEF Label
  <2>3. UNCHANGED <<disk, choice, left, ghosts>>
    BY <1>4 DEF AccessUsr
  <2>4. Starting(u)'
    BY <2>1, <2>2, <2>3, Leads DEF Starting, Looking, Found, At, disk
  <2> QED
    BY <1>3, <2>1, <2>3, <2>4, ShellQuiet DEF Label, ghosts
<1>5. CASE AccessJb(u)
  <2>1. UNCHANGED <<disk, choice, left, ghosts>>
    BY <1>5 DEF AccessJb, Fail
  <2>2. PICK l \in {"fixup", "failed"} : Goto(u, l) /\ (l = "fixup" \/ ~jb)
    BY <1>5 DEF AccessJb, Fail
  <2>3. pc'[u] = l
    BY <1>1, <2>2, UserGoto DEF Label
  <2>4. Starting(u) => usr = "absent" /\ l = "fixup"
    BY <1>5, <2>2, Leads DEF AccessJb, At, Starting, Looking
  <2>5. excused[u] \/ Starting(u)'
    BY <1>2, <2>1, <2>3, <2>4 DEF Starting, Looking, Found, At, disk
  <2> QED
    BY <1>3, <2>1, <2>2, <2>5, ShellQuiet DEF Label, ghosts
<1>6. CASE ExecFixup(u)
  <2>1. UNCHANGED <<disk, choice, left, ghosts>>
    BY <1>6 DEF ExecFixup, Fail
  <2>2. PICK l \in {"fixup usr", "failed"} :
           Goto(u, l) /\ (l = "fixup usr" \/ ~Runs(tree.jb["fixup"]))
    BY <1>6 DEF ExecFixup, Fail
  <2>3. pc'[u] = l
    BY <1>1, <2>2, UserGoto DEF Label
  <2>4. Starting(u) => usr = "absent" /\ l = "fixup usr"
    BY <1>6, <2>2, Leads DEF ExecFixup, At, Starting, Looking
  <2>5. excused[u] \/ Starting(u)'
    BY <1>2, <2>1, <2>3, <2>4 DEF Starting, Looking, Found, At, disk
  <2> QED
    BY <1>3, <2>1, <2>2, <2>5, ShellQuiet DEF Label, ghosts
<1>7. CASE FixupUsr(u)
  <2>1. PICK l \in {"shell", "fixup jb"} : /\ Goto(u, l) /\ (l = "shell" <=> Where # {})
    BY <1>7 DEF FixupUsr
  <2>2. pc'[u] = l
    BY <1>1, <2>1, UserGoto DEF Label
  <2>3. UNCHANGED <<disk, choice, left, ghosts>>
    BY <1>7 DEF FixupUsr
  <2>4. Starting(u)'
    BY <2>1, <2>2, <2>3, Leads DEF Starting, Looking, Found, At, disk
  <2> QED
    BY <1>3, <2>1, <2>3, <2>4, ShellQuiet DEF Label, ghosts
<1>8. CASE FixupJb(u)
  <2>1. UNCHANGED <<disk, choice, left, ghosts>>
    BY <1>8 DEF FixupJb, Fail
  <2>2. PICK l \in {"symlink", "failed"} : Goto(u, l) /\ (l = "symlink" \/ ~jb)
    BY <1>8 DEF FixupJb, Fail
  <2>3. pc'[u] = l
    BY <1>1, <2>2, UserGoto DEF Label
  <2>4. Starting(u) => usr = "absent" /\ l = "symlink"
    BY <1>8, <2>2, Leads DEF FixupJb, At, Starting, Looking
  <2>5. excused[u] \/ Starting(u)'
    BY <1>2, <2>1, <2>3, <2>4 DEF Starting, Looking, Found, At, disk
  <2> QED
    BY <1>3, <2>1, <2>2, <2>5, ShellQuiet DEF Label, ghosts
<1>9. CASE ChildKilled(u)
  <2>1. /\ Goto(u, "shell")
        /\ UNCHANGED <<disk, choice, left, chosen, muddled, removed, torn, tries>>
        /\ excused' = [excused EXCEPT ![u] = TRUE]
    BY <1>9 DEF ChildKilled
  <2>2. /\ excused' \in [User -> BOOLEAN] /\ excused'[u]
        /\ \A v \in User : excused[v] => excused'[v]
    BY <1>3, <2>1
  <2> QED
    BY <1>3, <2>1, <2>2, ShellQuiet DEF Label
<1> QED
  BY <1>4, <1>5, <1>6, <1>7, <1>8, <1>9

LEMMA ShellChooses ==
  ASSUME ShellInv, NEW u \in User,
         AccessShell(u) \/ Readlink(u) \/ CheckChoice(u) \/ Check(u) \/ Exec(u)
  PROVE  ShellInv'
<1>1. Types /\ Places
  BY DEF ShellInv
<1>2. excused[u] \/ Starting(u)
  BY DEF ShellInv, Shells
<1>3. choice \in [User -> {"bash", "zsh"}] /\ excused \in [User -> BOOLEAN]
  BY <1>1 DEF Types
<1>4. /\ Default(u) \in [User -> {"bash", "zsh"}] /\ Default(u)[u] = "bash"
      /\ \A v \in User \ {u} : Default(u)[v] = choice[v]
  BY <1>3 DEF Default
<1>5. "bash" \in Installable /\ {"bash", "zsh", "shell"} \subseteq Name
  BY DEF Installable, Program, Name
<1>6. UNCHANGED <<disk, left, ghosts>>
  BY DEF AccessShell, Readlink, CheckChoice, Check, Exec, Fail
<1>7. Installable' = Installable /\ usr' = usr /\ Emptied' = Emptied /\ excused' = excused
  BY <1>6 DEF Installable, Emptied, disk, ghosts
<1>8. CASE AccessShell(u)
  <2>1. PICK l \in {"readlink", "check"} : Goto(u, l)
    BY <1>8 DEF AccessShell
  <2>2. choice' = Default(u) /\ pc[u] = "shell"
    BY <1>8 DEF AccessShell, At
  <2>3. pc'[u] = l
    BY <1>1, <2>1, UserGoto DEF Label
  <2>4. excused[u] \/ Starting(u)'
    BY <1>2, <1>4, <1>5, <1>7, <2>2, <2>3 DEF Starting, Looking, Found, At
  <2> QED
    BY <1>3, <1>4, <1>6, <1>7, <2>1, <2>2, <2>4, ShellQuiet DEF Label, ghosts
<1>9. CASE Readlink(u)
  <2>1. PICK l \in {"checkshell", "check"} :
          Goto(u, l) /\ (l = "check" => choice' = choice)
            /\ (l = "checkshell" => File("shell") # "none" /\ choice' = [choice EXCEPT ![u] = File("shell")])
    BY <1>9 DEF Readlink
  <2>2. pc'[u] = l /\ pc[u] = "readlink"
    BY <1>1, <1>9, <2>1, UserGoto DEF Label, Readlink, At
  <2>3. File("shell") \in Target
    BY <1>1, <1>5, Leads DEF Types, Target
  <2>4. choice' \in [User -> {"bash", "zsh"}] /\ \A v \in User \ {u} : choice'[v] = choice[v]
    BY <1>3, <2>1, <2>3 DEF Target
  <2>5. excused[u] \/ Starting(u)'
    BY <1>2, <1>7, <2>1, <2>2 DEF Starting, Looking, Found, At
  <2> QED
    BY <1>3, <1>6, <1>7, <2>1, <2>4, <2>5, ShellQuiet DEF Label, ghosts
<1>10. CASE CheckChoice(u)
  <2>1. Goto(u, "check") /\ pc[u] = "checkshell"
    BY <1>10 DEF CheckChoice, At
  <2>2. pc'[u] = "check"
    BY <1>1, <2>1, UserGoto DEF Label
  <2>3. choice' = IF checkshell(u) THEN choice ELSE Default(u)
    BY <1>10 DEF CheckChoice
  <2>4. choice' \in [User -> {"bash", "zsh"}] /\ \A v \in User \ {u} : choice'[v] = choice[v]
    BY <1>3, <1>4, <2>3
  <2>5. choice'[u] \in Installable
    <3>1. CASE ~checkshell(u)
      BY <1>4, <1>5, <2>3, <3>1
    <3>2. CASE checkshell(u)
      <4>1. choice'[u] = choice[u] /\ choice[u] \in {"bash", "zsh"} /\ File(choice[u]) # "none"
        BY <1>3, <2>3, <3>2 DEF checkshell
      <4>2. removed => File("zsh") = "none"
        BY <1>1, <1>5, Leads DEF Places
      <4> QED
        BY <4>1, <4>2 DEF Installable, Program
    <3> QED
      BY <3>1, <3>2
  <2>6. excused[u] \/ Starting(u)'
    BY <1>2, <1>7, <2>1, <2>2, <2>5 DEF Starting, Looking, Found, At
  <2> QED
    BY <1>3, <1>6, <1>7, <2>1, <2>4, <2>6, ShellQuiet DEF Label, ghosts
<1>11. CASE Check(u)
  <2>1. PICK l \in {"exec", "failed"} : Goto(u, l) /\ (l = "exec" \/ ~checkshell(u))
    BY <1>11 DEF Check, Fail
  <2>2. pc'[u] = l /\ choice' = choice /\ pc[u] = "check"
    BY <1>1, <1>11, <2>1, UserGoto DEF Label, Check, Fail, At
  <2>3. Starting(u) => usr # "absent" /\ choice[u] \in Installable /\ (l = "exec" \/ Emptied)
    BY <2>1, <2>2, FoundRuns DEF Starting, Found, checkshell, Runs
  <2>4. excused[u] \/ Starting(u)'
    BY <1>2, <1>7, <2>1, <2>2, <2>3 DEF Starting, Looking, Found, At
  <2> QED
    BY <1>3, <1>6, <1>7, <2>1, <2>2, <2>4, ShellQuiet DEF Label, ghosts
<1>12. CASE Exec(u)
  <2>1. PICK l \in {"started", "failed"} : Goto(u, l) /\ (l = "started" \/ ~Runs(File(choice[u])))
    BY <1>12 DEF Exec, Fail
  <2>2. pc'[u] = l /\ choice' = choice /\ pc[u] = "exec"
    BY <1>1, <1>12, <2>1, UserGoto DEF Label, Exec, Fail, At
  <2>3. Starting(u) => usr # "absent" /\ (l = "started" \/ Emptied)
    BY <2>1, <2>2, FoundRuns DEF Starting, Found
  <2>4. excused[u] \/ Starting(u)'
    BY <1>2, <1>7, <2>1, <2>2, <2>3 DEF Starting, Looking, Found, At
  <2> QED
    BY <1>3, <1>6, <1>7, <2>1, <2>2, <2>4, ShellQuiet DEF Label, ghosts
<1> QED
  BY <1>8, <1>9, <1>10, <1>11, <1>12

--------------------------------------------------------------------------------
(* Shells while another process takes a step. *)

LEMMA ExcusedKept ==
  ASSUME ShellInv, NEW u \in User, Excuse, pc'[u] = pc[u]
  PROVE  excused' \in [User -> BOOLEAN] /\ (excused'[u] \/ Starting(u)')
<1>1. excused' \in [User -> BOOLEAN] /\ (excused'[u] \/ pc[u] = "access usr")
  BY DEF Excuse, ShellInv, Types
<1>2. pc'[u] = "access usr" => Starting(u)'
  BY DEF Starting, Looking, Found, At
<1> QED
  BY <1>1, <1>2

LEMMA ShellsExcused ==
  ASSUME ShellInv, Excuse, \A u \in User : pc'[u] = pc[u]
  PROVE  Shells'
BY ExcusedKept DEF Shells

LEMMA ShellsKept ==
  ASSUME ShellInv, \A u \in User : pc'[u] = pc[u],
         UNCHANGED <<usr, choice, excused, removed>>,
         \A n \in Program : tree'.usr[n] = tree.usr[n]
  PROVE  Shells'
<1>1. Installable' = Installable /\ Installable \subseteq Program
  BY DEF Installable
<1>2. Emptied' <=> Emptied
  BY <1>1 DEF Emptied
<1> SUFFICES ASSUME NEW u \in User, ~excused[u] PROVE Starting(u)'
  BY DEF Shells
<1>3. Starting(u)
  BY DEF ShellInv, Shells
<1> QED
  BY <1>1, <1>2, <1>3 DEF Starting, Looking, Found, At

LEMMA SymlinkStep ==
  ASSUME ShellInv, NEW u \in User, Symlink(u)
  PROVE  ShellInv'
<1>1. /\ Types /\ Places /\ FilesKept /\ Stages /\ Interrupted /\ Links
      /\ excused[u] \/ Starting(u)
  BY DEF ShellInv, Shells
<1>2. CASE usr # "absent"
  <2>1. /\ Goto(u, "failed") /\ UNCHANGED <<disk, left, chosen, muddled, removed, torn, tries>>
        /\ UNCHANGED <<choice, excused>> /\ pc[u] = "symlink"
    BY <1>2 DEF Symlink, Fail, At
  <2>2. excused'[u]
    BY <1>1, <1>2, <2>1 DEF Starting, Looking
  <2> QED
    BY <1>1, <2>1, <2>2, ShellQuiet DEF Types, Label
<1>3. CASE usr = "absent"
  <2>1. /\ usr' = "link" /\ Goto(u, "shell") /\ Excuse /\ pc[u] = "symlink"
        /\ UNCHANGED <<jb, tree, choice, todo, opened, chosen, muddled, removed, torn, tries>>
    BY <1>3 DEF Symlink, Fail, At, left
  <2>2. /\ pc' \in [Process -> Label] /\ pc'[u] = "shell" /\ \A v \in User \ {u} : pc'[v] = pc[v]
        /\ PO' = PO /\ Changing' = Changing /\ Relinking' = Relinking
    BY <1>1, <2>1, UserGoto DEF Label
  <2>3. excused' \in [User -> BOOLEAN] /\ excused'[u]
    BY <1>1, <2>1 DEF Excuse, Types
  <2>4. Types'
    BY <1>1, <2>1, <2>2, <2>3 DEF Types
  <2>5. jb /\ Vacant(tree.usr) /\ ~removed
    BY <1>1, <1>3 DEF Places, Types
  <2>6. Places'
    BY <2>1, <2>5 DEF Places, Vacant
  <2>7. FilesKept'
    BY <1>1, <2>1 DEF FilesKept, Installable
  <2>8. PO \notin {"mv", "cp", "write", "rm"} /\ (PO = "glob" => torn)
    BY <1>1, <1>3 DEF Stages
  <2>9. Stages'
    BY <1>1, <2>1, <2>2, <2>5, <2>8 DEF Stages, Copying
  <2>10. Interrupted'
    BY <2>1 DEF Interrupted
  <2>11. Links'
    BY <1>1, <1>3, <2>1, <2>2, <2>8 DEF Links, Copying
  <2>12. Shells'
    BY <2>1, <2>2, <2>3, ExcusedKept DEF Shells
  <2> QED
    BY <2>4, <2>6, <2>7, <2>9, <2>10, <2>11, <2>12 DEF ShellInv
<1> QED
  BY <1>2, <1>3

LEMMA UserStep == ASSUME ShellInv, NEW u \in User, ShellStep(u) PROVE ShellInv'
BY ShellReads, ShellChooses, SymlinkStep DEF ShellStep

--------------------------------------------------------------------------------
(* Steps of chsh. *)

LEMMA ChangerGoto ==
  ASSUME Types, NEW c \in Changer, NEW l \in Label, Goto(c, l)
  PROVE  /\ pc' \in [Process -> Label] /\ pc'[c] = l
         /\ \A e \in Changer \ {c} : pc'[e] = pc[e]
         /\ PO' = PO /\ \A u \in User : pc'[u] = pc[u]
<1>1. \A q \in Process \ {c} : pc'[q] = pc[q]
  BY GotoFacts, Apart
<1> QED
  BY <1>1, GotoFacts, Apart DEF PO

(* It changes nothing but the link. *)
LEMMA OnlyLink ==
  ASSUME ShellInv, pc' \in [Process -> Label], PO' = PO, \A u \in User : pc'[u] = pc[u],
         UNCHANGED <<usr, jb, choice, left, excused, removed, torn, tries>>,
         tree' \in [usr : Files, jb : Files],
         tree'.usr["shell"] \in Target, tree'.jb["shell"] \in Target,
         \A n \in Program : tree'.usr[n] = tree.usr[n] /\ tree'.jb[n] = tree.jb[n],
         ~jb => tree'.jb = tree.jb, usr # "dir" => tree'.usr = tree.usr,
         chosen' \in Target, muddled' \in BOOLEAN
  PROVE  Types' /\ Places' /\ FilesKept' /\ Stages' /\ Interrupted' /\ Shells'
<1>1. todo' = todo /\ opened' = opened
  BY DEF left
<1>2. Types'
  BY <1>1 DEF ShellInv, Types
<1>3. Places'
  BY DEF ShellInv, Places, AllNew, Vacant, Program
<1>4. FilesKept'
  BY DEF ShellInv, FilesKept, Installable
<1>5. Stages'
  BY <1>1 DEF ShellInv, Stages, Copying, AllNew
<1>6. Interrupted'
  BY DEF ShellInv, Interrupted, AllNew
<1>7. Shells'
  BY ShellsKept
<1> QED
  BY <1>2, <1>3, <1>4, <1>5, <1>6, <1>7

LEMMA StatStep == ASSUME ShellInv, NEW c \in Changer, Stat(c) PROVE ShellInv'
<1>1. Types /\ Links /\ Stages
  BY DEF ShellInv
<1>2. PICK l \in {"unlink", "failed"} : Goto(c, l) /\ (l = "unlink" => Runs(File(Wants[c])))
  BY DEF Stat
<1>3. /\ UNCHANGED <<usr, jb, tree, choice, left, chosen, excused, removed, torn, tries>>
      /\ muddled' = (muddled \/ Moving) /\ pc[c] = "stat"
  BY DEF Stat, At, disk
<1>4. /\ pc' \in [Process -> Label] /\ pc'[c] = l /\ PO' = PO
      /\ \A e \in Changer \ {c} : pc'[e] = pc[e]
      /\ \A u \in User : pc'[u] = pc[u]
  BY <1>1, <1>2, ChangerGoto DEF Label
<1>5. Types' /\ Places' /\ FilesKept' /\ Stages' /\ Interrupted' /\ Shells'
  BY <1>1, <1>3, <1>4, OnlyLink DEF Types
<1>6. Wants[c] \in Name
  BY ShellAssumption DEF Name, Program
<1>7. l = "unlink" => usr # "absent"
  BY <1>2, <1>6, Leads DEF Runs
<1>8. Relinking' = Relinking
  BY <1>2, <1>3, <1>4 DEF Relinking, At
<1>9. usr = "absent" => Changing' = Changing
  BY <1>2, <1>3, <1>4, <1>7 DEF Changing
<1>10. ~muddled' => ~muddled /\ PO \notin {"cp", "write", "rm"}
  BY <1>3 DEF Moving, PO
<1>11. Links'
  BY <1>1, <1>3, <1>4, <1>8, <1>9, <1>10 DEF Links, Copying
<1> QED
  BY <1>5, <1>11 DEF ShellInv

(* Between its unlink and its symlink nothing is moved, or it is muddled.  *)
LEMMA WhileChanging ==
  ASSUME ShellInv, NEW c \in Changer, At(c, "unlink") \/ At(c, "symlink"), ~muddled
  PROVE  usr # "absent" /\ PO \notin {"cp", "write", "rm"}
<1>1. Changing
  BY DEF Changing, At
<1> QED
  BY <1>1 DEF ShellInv, Links

LEMMA UnlinkStep == ASSUME ShellInv, NEW c \in Changer, Unlink(c) PROVE ShellInv'
<1>1. Types /\ Links /\ Places
  BY DEF ShellInv
<1>2. Goto(c, "symlink") /\ pc[c] = "unlink"
  BY DEF Unlink, At
<1>3. UNCHANGED <<usr, jb, choice, left, chosen, excused, muddled, removed, torn, tries>>
  BY DEF Unlink, ghosts
<1>4. /\ pc' \in [Process -> Label] /\ pc'[c] = "symlink" /\ PO' = PO
      /\ \A u \in User : pc'[u] = pc[u]
  BY <1>1, <1>2, ChangerGoto DEF Label
<1>5. Relinking'
  BY <1>4 DEF Relinking, At
<1>6. "shell" \in Name /\ "none" \in Version \cup Target /\ "shell" \notin Program
  BY DEF Name, Version, Program
<1>7. CASE usr = "absent"
  <2>1. tree' = tree
    BY <1>7, Leads DEF Unlink
  <2>2. muddled
    BY <1>2, <1>7, WhileChanging DEF At
  <2> QED
    BY <1>1, <1>3, <1>4, <2>1, <2>2, OnlyLink DEF Types, ShellInv, Links
<1>8. CASE usr = "dir"
  <2>1. Put("usr", "shell", "none")
    BY <1>1, <1>6, <1>8, FileFacts DEF Unlink
  <2>2. /\ tree' \in [usr : Files, jb : Files] /\ tree'.jb = tree.jb
        /\ tree'.usr = [tree.usr EXCEPT !["shell"] = "none"]
    BY <1>1, <1>6, <2>1, PutFacts
  <2>3. tree'.usr["shell"] = "none" /\ \A n \in Program : tree'.usr[n] = tree.usr[n]
    BY <1>1, <1>6, <2>2 DEF Types, Files, Name
  <2>4. Types' /\ Places' /\ FilesKept' /\ Stages' /\ Interrupted' /\ Shells'
    BY <1>1, <1>3, <1>4, <1>8, <2>2, <2>3, OnlyLink DEF Types, Target
  <2>5. Links'
    BY <1>2, <1>3, <1>4, <1>5, <1>8, <2>3, WhileChanging DEF Links, Copying, At
  <2> QED
    BY <2>4, <2>5 DEF ShellInv
<1>9. CASE usr = "link"
  <2>1. Put("jb", "shell", "none") /\ jb
    BY <1>1, <1>6, <1>9, FileFacts, Leads DEF Unlink
  <2>2. /\ tree' \in [usr : Files, jb : Files] /\ tree'.usr = tree.usr
        /\ tree'.jb = [tree.jb EXCEPT !["shell"] = "none"]
    BY <1>1, <1>6, <2>1, PutFacts
  <2>3. tree'.jb["shell"] = "none" /\ \A n \in Program : tree'.jb[n] = tree.jb[n]
    BY <1>1, <1>6, <2>2 DEF Types, Files, Name
  <2>4. Types' /\ Places' /\ FilesKept' /\ Stages' /\ Interrupted' /\ Shells'
    BY <1>1, <1>3, <1>4, <1>9, <2>1, <2>2, <2>3, OnlyLink DEF Types, Target
  <2>5. Links'
    BY <1>2, <1>3, <1>4, <1>5, <1>9, <2>3, WhileChanging DEF Links, Copying, At
  <2> QED
    BY <2>4, <2>5 DEF ShellInv
<1> QED
  BY <1>1, <1>7, <1>8, <1>9 DEF Types

LEMMA RelinkStep == ASSUME ShellInv, NEW c \in Changer, Relink(c) PROVE ShellInv'
<1>1. Types /\ Links /\ Places
  BY DEF ShellInv
<1>2. PICK l \in {"ended", "failed"} : Goto(c, l)
  BY DEF Relink
<1>3. /\ UNCHANGED <<usr, jb, choice, left, excused, muddled, removed, torn, tries>>
      /\ pc[c] = "symlink"
  BY DEF Relink, At
<1>4. /\ pc' \in [Process -> Label] /\ PO' = PO
      /\ \A u \in User : pc'[u] = pc[u]
  BY <1>1, <1>2, ChangerGoto DEF Label
<1>5. /\ "shell" \in Name /\ "shell" \notin Program
      /\ Wants[c] \in {"bash", "zsh"} /\ Wants[c] \in Version \cup Target
  BY ShellAssumption DEF Name, Program, Target
<1>6. CASE Where = {} \/ File("shell") # "none"
  <2>1. UNCHANGED <<tree, chosen>>
    BY <1>6 DEF Relink
  <2>2. Types' /\ Places' /\ FilesKept' /\ Stages' /\ Interrupted' /\ Shells'
    BY <1>1, <1>3, <1>4, <2>1, OnlyLink DEF Types
  <2>3. ASSUME ~muddled
        PROVE  /\ usr = "dir" => tree.usr["shell"] # "none"
               /\ usr = "link" => tree.jb["shell"] # "none"
               /\ usr # "absent" /\ PO \notin {"cp", "write", "rm"}
    <3>1. usr # "absent" /\ PO \notin {"cp", "write", "rm"}
      BY <1>3, <2>3, WhileChanging DEF At
    <3> QED
      BY <1>5, <1>6, <3>1, Leads
  <2>4. Links'
    BY <1>1, <1>3, <1>4, <2>1, <2>3 DEF Links, Copying
  <2> QED
    BY <2>2, <2>4 DEF ShellInv
<1>7. CASE Where # {} /\ File("shell") = "none"
  <2>1. chosen' = Wants[c] /\ \E d \in Where : Put(d, "shell", Wants[c])
    BY <1>7 DEF Relink
  <2>2. CASE usr = "dir"
    <3>1. Put("usr", "shell", Wants[c])
      BY <1>1, <1>5, <2>1, <2>2, FileFacts
    <3>2. /\ tree' \in [usr : Files, jb : Files] /\ tree'.jb = tree.jb
          /\ tree'.usr = [tree.usr EXCEPT !["shell"] = Wants[c]]
      BY <1>1, <1>5, <3>1, PutFacts
    <3>3. tree'.usr["shell"] = Wants[c] /\ \A n \in Program : tree'.usr[n] = tree.usr[n]
      BY <1>1, <1>5, <3>2 DEF Types, Files, Name
    <3>4. Types' /\ Places' /\ FilesKept' /\ Stages' /\ Interrupted' /\ Shells'
      BY <1>1, <1>3, <1>4, <1>5, <2>1, <2>2, <3>2, <3>3, OnlyLink DEF Types, Target
    <3>5. Links'
      BY <1>3, <1>4, <1>5, <2>1, <2>2, <3>3, WhileChanging DEF Links, Copying, At
    <3> QED
      BY <3>4, <3>5 DEF ShellInv
  <2>3. CASE usr = "link"
    <3>1. Put("jb", "shell", Wants[c]) /\ jb
      BY <1>1, <1>5, <2>1, <2>3, FileFacts, Leads
    <3>2. /\ tree' \in [usr : Files, jb : Files] /\ tree'.usr = tree.usr
          /\ tree'.jb = [tree.jb EXCEPT !["shell"] = Wants[c]]
      BY <1>1, <1>5, <3>1, PutFacts
    <3>3. tree'.jb["shell"] = Wants[c] /\ \A n \in Program : tree'.jb[n] = tree.jb[n]
      BY <1>1, <1>5, <3>2 DEF Types, Files, Name
    <3>4. Types' /\ Places' /\ FilesKept' /\ Stages' /\ Interrupted' /\ Shells'
      BY <1>1, <1>3, <1>4, <1>5, <2>1, <2>3, <3>1, <3>2, <3>3, OnlyLink DEF Types, Target
    <3>5. Links'
      BY <1>3, <1>4, <1>5, <2>1, <2>3, <3>3, WhileChanging DEF Links, Copying, At
    <3> QED
      BY <3>4, <3>5 DEF ShellInv
  <2> QED
    BY <1>1, <1>7, <2>2, <2>3, Leads DEF Types
<1> QED
  BY <1>6, <1>7

--------------------------------------------------------------------------------
(* Steps of postinst. *)

LEMMA PostinstGoto ==
  ASSUME Types, NEW l \in Label, To(l)
  PROVE  /\ pc' \in [Process -> Label] /\ PO' = l
         /\ \A u \in User : pc'[u] = pc[u]
         /\ Changing' = Changing /\ Relinking' = Relinking
<1>1. pc' \in [Process -> Label] /\ PO' = l /\ \A q \in Process \ {"postinst"} : pc'[q] = pc[q]
  BY GotoFacts, Apart DEF To, PO
<1>2. \A c \in Changer : pc'[c] = pc[c]
  BY <1>1, Apart
<1>3. \A u \in User : pc'[u] = pc[u]
  BY <1>1, Apart
<1> QED
  BY <1>1, <1>2, <1>3 DEF Changing, Relinking, At

(* A step of it that changes no file. *)
LEMMA PostinstQuiet ==
  ASSUME ShellInv, NEW l \in Label, To(l),
         UNCHANGED <<disk, choice, chosen, excused, removed, torn>>,
         todo' \in SUBSET Name, opened' \in Name \cup {"none"},
         muddled' \in BOOLEAN, tries' \in Nat
  PROVE  /\ Types' /\ FilesKept' /\ Shells' /\ PO' = l
         /\ usr' = usr /\ jb' = jb /\ tree' = tree
         /\ Changing' = Changing /\ Relinking' = Relinking
<1>1. Types
  BY DEF ShellInv
<1>2. /\ pc' \in [Process -> Label] /\ PO' = l /\ \A u \in User : pc'[u] = pc[u]
      /\ Changing' = Changing /\ Relinking' = Relinking
  BY <1>1, PostinstGoto
<1>3. usr' = usr /\ jb' = jb /\ tree' = tree
  BY DEF disk
<1>4. Types'
  BY <1>1, <1>2, <1>3 DEF Types
<1>5. FilesKept'
  BY <1>3 DEF ShellInv, FilesKept, Installable
<1>6. Shells'
  BY <1>2, <1>3, ShellsKept
<1> QED
  BY <1>2, <1>3, <1>4, <1>5, <1>6

LEMMA PresentFacts ==
  ASSUME Types
  PROVE  /\ Present \in SUBSET Name
         /\ usr = "dir" => \A n \in Name : n \in Present <=> tree.usr[n] # "none"
         /\ usr # "dir" => Present = {}
BY DEF Present

LEMMA ConfigureStep == ASSUME ShellInv, Configure PROVE ShellInv'
<1>1. Types /\ Places /\ Interrupted /\ Links
  BY DEF ShellInv
<1>2. /\ To("test") /\ UNCHANGED <<disk, choice, left, chosen, excused, muddled, removed, torn>>
      /\ PO \in {"idle", "failed", "stuck", "killed"} /\ tries < Tries /\ tries' = tries + 1
  BY DEF Configure, PO
<1>3. /\ tries' \in Nat /\ todo' = todo /\ opened' = opened /\ muddled' = muddled
      /\ UNCHANGED <<disk, choice, chosen, excused, removed, torn>>
  BY <1>1, <1>2 DEF Types, left
<1>4. /\ Types' /\ FilesKept' /\ Shells' /\ PO' = "test"
      /\ usr' = usr /\ jb' = jb /\ tree' = tree /\ Relinking' = Relinking /\ Changing' = Changing
  BY <1>1, <1>2, <1>3, PostinstQuiet DEF Types, Label
<1>5. Places'
  BY <1>1, <1>2, <1>4 DEF Places, AllNew, Vacant
<1>6. Stages'
  BY <1>4 DEF Stages, Copying
<1>7. Interrupted'
  BY <1>1, <1>2, <1>4 DEF Interrupted, AllNew
<1>8. Links'
  BY <1>1, <1>2, <1>4 DEF Links, Copying
<1> QED
  BY <1>4, <1>5, <1>6, <1>7, <1>8 DEF ShellInv

LEMMA TestStep == ASSUME ShellInv, Test PROVE ShellInv'
<1>1. Types /\ Places /\ Interrupted /\ Links
  BY DEF ShellInv
<1>2. PICK l \in {"installed", "glob", "mv"} :
        /\ To(l)
        /\ l = "installed" => usr = "link"
        /\ l = "glob" => usr # "link" /\ jb
        /\ l = "mv" => usr # "link" /\ ~jb
  BY DEF Test
<1>3. UNCHANGED <<disk, choice, left, ghosts>> /\ PO = "test"
  BY DEF Test, At, PO
<1>4. UNCHANGED <<todo, opened, chosen, excused, muddled, removed, torn, tries>>
  BY <1>3 DEF left, ghosts
<1>5. /\ Types' /\ FilesKept' /\ Shells' /\ PO' = l
      /\ usr' = usr /\ jb' = jb /\ tree' = tree /\ Relinking' = Relinking /\ Changing' = Changing
  <2>1. l \in Label /\ To(l)
    BY <1>2 DEF Label
  <2>2. UNCHANGED <<disk, choice, chosen, excused, removed, torn>>
    BY <1>3, <1>4
  <2>3. /\ todo' \in SUBSET Name /\ opened' \in Name \cup {"none"}
        /\ muddled' \in BOOLEAN /\ tries' \in Nat
    BY <1>1, <1>4 DEF Types
  <2> QED
    BY <2>1, <2>2, <2>3, PostinstQuiet
<1>6. Places'
  BY <1>1, <1>2, <1>4, <1>5 DEF Places, AllNew, Vacant
<1>7. Stages'
  BY <1>1, <1>2, <1>3, <1>4, <1>5 DEF Stages, Copying, Places, Interrupted, Types
<1>8. Interrupted'
  BY <1>1, <1>3, <1>4, <1>5 DEF Interrupted, AllNew
<1>9. Links'
  BY <1>1, <1>2, <1>4, <1>5 DEF Links, Copying
<1> QED
  BY <1>5, <1>6, <1>7, <1>8, <1>9 DEF ShellInv

LEMMA MvStep == ASSUME ShellInv, Mv PROVE ShellInv'
<1>1. Types /\ Places /\ Stages /\ Links
  BY DEF ShellInv
<1>2. /\ PO = "mv" /\ usr = "dir" /\ jb' = TRUE /\ muddled' = (muddled \/ Changing)
      /\ UNCHANGED <<choice, todo, opened, chosen, removed, torn, tries>>
  BY DEF Mv, At, PO, left
<1>3. ~jb /\ AllNew(tree.usr) /\ Vacant(tree.jb) /\ ~removed
  BY <1>1, <1>2 DEF Stages, Places
<1>4. muddled' \in BOOLEAN
  BY <1>1, <1>2 DEF Types, Changing
<1>5. Installable' = Installable /\ Installable = Program /\ Program \subseteq Name
  BY <1>2, <1>3 DEF Installable, Name
<1>6. "shell" \in Name
  BY DEF Name
<1>7. tree.usr \in Files /\ tree.jb \in Files
  BY <1>1 DEF Types
<1>8. CASE To("ln") /\ Excuse /\ usr' = "absent"
             /\ tree' = [usr |-> [n \in Name |-> "none"], jb |-> tree.usr]
  <2>1. /\ pc' \in [Process -> Label] /\ PO' = "ln" /\ \A u \in User : pc'[u] = pc[u]
        /\ Changing' = Changing /\ Relinking' = Relinking
    BY <1>1, <1>8, PostinstGoto DEF Label
  <2>2. tree'.usr = [n \in Name |-> "none"] /\ tree'.jb = tree.usr
    BY <1>8
  <2>3. tree' \in [usr : Files, jb : Files]
    BY <1>7, <1>8 DEF Files, Version
  <2>4. Vacant(tree'.usr) /\ AllNew(tree'.jb)
    BY <1>3, <2>2 DEF Vacant, AllNew
  <2>5. excused' \in [User -> BOOLEAN]
    BY <1>1, <1>8 DEF Excuse, Types
  <2>6. Types'
    <3>1. tree'.usr["shell"] \in Target /\ tree'.jb["shell"] \in Target
      BY <1>1, <1>6, <2>2 DEF Types, Target
    <3>2. \A n \in Program : tree'.usr[n] \in {"none", "new"} /\ tree'.jb[n] \in Version
      BY <1>5, <2>4 DEF Vacant, AllNew, Version
    <3> QED
      BY <1>1, <1>2, <1>4, <1>8, <2>1, <2>3, <2>5, <3>1, <3>2 DEF Types
  <2>7. Places'
    BY <1>2, <1>3, <1>8, <2>4 DEF Places, Vacant
  <2>8. FilesKept'
    BY <1>5, <2>4 DEF FilesKept, AllNew
  <2>9. Stages'
    BY <1>8, <2>1 DEF Stages, Copying
  <2>10. Interrupted'
    BY <1>8, <2>1 DEF Interrupted
  <2>11. Shells'
    BY <1>8, <2>1, ShellsExcused
  <2>12. ASSUME ~muddled' PROVE ~Changing /\ tree.usr["shell"] = chosen
    <3>1. ~muddled /\ ~Changing /\ ~Relinking
      BY <1>2, <2>12 DEF Changing, Relinking, At
    <3>2. tree.jb["shell"] = "none"
      BY <1>3, <1>6 DEF Vacant
    <3> QED
      BY <1>1, <1>2, <3>1, <3>2 DEF Links
  <2>13. Links'
    BY <1>2, <1>8, <2>1, <2>2, <2>12 DEF Links, Copying
  <2> QED
    BY <2>6, <2>7, <2>8, <2>9, <2>10, <2>11, <2>13 DEF ShellInv
<1>9. CASE To("glob") /\ UNCHANGED <<usr, tree, excused>>
  <2>1. /\ pc' \in [Process -> Label] /\ PO' = "glob" /\ \A u \in User : pc'[u] = pc[u]
        /\ Changing' = Changing /\ Relinking' = Relinking
    BY <1>1, <1>9, PostinstGoto DEF Label
  <2>2. Types'
    BY <1>1, <1>2, <1>4, <1>9, <2>1 DEF Types
  <2>3. Places'
    BY <1>2, <1>3, <1>9 DEF Places
  <2>4. FilesKept'
    BY <1>5, <1>9 DEF ShellInv, FilesKept
  <2>5. Stages'
    BY <1>2, <1>9, <2>1 DEF Stages, Copying
  <2>6. Interrupted'
    BY <1>2, <1>3, <1>9 DEF Interrupted, AllNew
  <2>7. Shells'
    BY <1>2, <1>9, <2>1, ShellsKept
  <2>8. Links'
    BY <1>1, <1>2, <1>9, <2>1 DEF Links, Copying
  <2> QED
    BY <2>2, <2>3, <2>4, <2>5, <2>6, <2>7, <2>8 DEF ShellInv
<1> QED
  BY <1>8, <1>9 DEF Mv

LEMMA GlobStep == ASSUME ShellInv, Glob PROVE ShellInv'
<1>1. Types /\ Places /\ Stages /\ Interrupted /\ Links /\ FilesKept
  BY DEF ShellInv
<1>2. PICK l \in {"stuck", "cp"} : To(l) /\ (l = "stuck" <=> Present = {})
  BY DEF Glob
<1>3. /\ PO = "glob" /\ todo' = Present /\ opened' = "none" /\ muddled' = (muddled \/ Changing)
      /\ UNCHANGED <<disk, choice, chosen, excused, removed, torn, tries>>
  BY DEF Glob, At, PO
<1>4. muddled' \in BOOLEAN /\ todo' \in SUBSET Name /\ opened' \in Name \cup {"none"}
  BY <1>1, <1>3, PresentFacts DEF Types, Changing
<1>5. /\ Types' /\ FilesKept' /\ Shells' /\ PO' = l
      /\ usr' = usr /\ jb' = jb /\ tree' = tree /\ Relinking' = Relinking /\ Changing' = Changing
  BY <1>1, <1>2, <1>3, <1>4, PostinstQuiet DEF Types, Label
<1>6. ~removed
  BY <1>1, <1>3 DEF Places
<1>7. Places'
  BY <1>1, <1>3, <1>5, <1>6 DEF Places, AllNew, Vacant
<1>8. Interrupted'
  BY <1>1, <1>3, <1>5 DEF Interrupted, AllNew
<1>9. Program \subseteq Name /\ Installable = Program /\ "none" \notin Program
  BY <1>6 DEF Name, Program, Installable
<1>10. CASE l = "stuck"
  <2>1. torn
    <3>1. SUFFICES ASSUME ~torn PROVE FALSE
      OBVIOUS
    <3>2. usr = "dir" /\ AllNew(tree.usr)
      BY <1>1, <1>3, <3>1 DEF Stages, Interrupted
    <3>3. "fixup" \in Present
      BY <1>1, <1>9, <3>2, PresentFacts DEF AllNew, Program
    <3> QED
      BY <1>2, <1>10, <3>3
  <2>2. Stages'
    BY <1>3, <1>5, <1>10, <2>1 DEF Stages, Copying
  <2>3. Links'
    BY <1>1, <1>3, <1>5, <1>10 DEF Links, Copying
  <2> QED
    BY <1>5, <1>7, <1>8, <2>2, <2>3 DEF ShellInv
<1>11. CASE l = "cp"
  <2>1. usr = "dir" /\ jb
    BY <1>1, <1>2, <1>3, <1>11, PresentFacts DEF Stages
  <2>2. ASSUME NEW n \in Program
        PROVE  IF n \in todo' \cup {opened'} THEN tree.usr[n] = "new" ELSE tree.jb[n] = "new"
    <3>1. n \in Present <=> tree.usr[n] # "none"
      BY <1>1, <1>9, <2>1, <2>2, PresentFacts
    <3>2. tree.usr[n] \in {"none", "new"}
      BY <1>1, <2>2 DEF Types
    <3>3. n \in todo' \cup {opened'} <=> n \in Present
      BY <1>3, <1>9, <2>2
    <3> QED
      BY <1>1, <1>9, <3>1, <3>2, <3>3 DEF FilesKept
  <2>3. Stages'
    BY <1>3, <1>5, <1>11, <2>1, <2>2 DEF Stages, Copying
  <2>4. "shell" \in Present <=> tree.usr["shell"] # "none"
    BY <1>1, <2>1, PresentFacts DEF Name
  <2>5. ~muddled' => ~muddled /\ ~Changing /\ ~Relinking
    BY <1>3 DEF Changing, Relinking, At
  <2>6. Links'
    BY <1>1, <1>3, <1>5, <1>11, <2>1, <2>4, <2>5 DEF Links, Copying
  <2> QED
    BY <1>5, <1>7, <1>8, <2>3, <2>6 DEF ShellInv
<1> QED
  BY <1>10, <1>11

LEMMA TruncateStep == ASSUME ShellInv, Truncate PROVE ShellInv'
<1>1. Types /\ Places /\ Stages /\ Interrupted /\ Links /\ FilesKept
  BY DEF ShellInv
<1>2. PICK n \in todo : /\ Put("jb", n, IF n = "shell" THEN "none" ELSE "partial")
                        /\ todo' = todo \ {n} /\ opened' = n
  BY DEF Truncate
<1>3. /\ PO = "cp" /\ To("write")
      /\ UNCHANGED <<usr, jb, choice, chosen, excused, muddled, removed, torn, tries>>
  BY DEF Truncate, At, PO, ghosts
<1>4. usr = "dir" /\ jb /\ opened = "none" /\ ~removed
  BY <1>1, <1>3 DEF Stages, Places
<1>5. /\ n \in Name /\ "none" \notin Name /\ "shell" \in Name
      /\ Installable' = Installable /\ Installable = Program
      /\ \A m \in Program : m \in Name /\ m # "shell"
  BY <1>1, <1>3, <1>4 DEF Types, Name, Program, Installable
<1>6. DEFINE c == IF n = "shell" THEN "none" ELSE "partial"
<1>7. c \in Version \cup Target /\ c \in Version
  BY DEF Version
<1>8. /\ tree' \in [usr : Files, jb : Files] /\ tree'.usr = tree.usr
      /\ tree'.jb = [tree.jb EXCEPT ![n] = c]
  BY <1>1, <1>2, <1>5, <1>7, PutFacts
<1>9. /\ tree'.jb[n] = c
      /\ \A m \in Name \ {n} : tree'.jb[m] = tree.jb[m]
  BY <1>1, <1>5, <1>8 DEF Types, Files
<1>10. /\ pc' \in [Process -> Label] /\ PO' = "write" /\ \A u \in User : pc'[u] = pc[u]
       /\ Changing' = Changing /\ Relinking' = Relinking
  BY <1>1, <1>3, PostinstGoto DEF Label
<1>11. Types'
  <2>1. todo' \in SUBSET Name /\ opened' \in Name
    BY <1>1, <1>2, <1>5 DEF Types
  <2>2. tree'.jb["shell"] \in Target
    BY <1>1, <1>5, <1>9 DEF Types, Target
  <2>3. \A m \in Program : tree'.jb[m] \in Version
    BY <1>1, <1>5, <1>7, <1>9 DEF Types
  <2> QED
    BY <1>1, <1>3, <1>8, <1>10, <2>1, <2>2, <2>3 DEF Types
<1>12. Places'
  BY <1>3, <1>4 DEF Places
<1>13. ASSUME NEW m \in Program
       PROVE  IF m \in todo \cup {opened} THEN tree.usr[m] = "new" ELSE tree.jb[m] = "new"
  BY <1>1, <1>3, <1>13 DEF Stages, Copying
<1>14. FilesKept'
  <2> SUFFICES ASSUME NEW m \in Program PROVE tree'.usr[m] = "new" \/ tree'.jb[m] = "new"
    BY <1>5 DEF FilesKept
  <2>1. CASE m = n
    BY <1>2, <1>8, <1>13, <2>1
  <2>2. CASE m # n
    BY <1>1, <1>5, <1>8, <1>9, <2>2 DEF FilesKept
  <2> QED
    BY <2>1, <2>2
<1>15. ASSUME NEW m \in Program
       PROVE  IF m \in todo' \cup {opened'} THEN tree'.usr[m] = "new" ELSE tree'.jb[m] = "new"
  <2>1. m # opened /\ m \in Name
    BY <1>4, <1>5
  <2>2. m \in todo' \cup {opened'} <=> m \in todo
    BY <1>2
  <2>3. m \notin todo => m # n
    BY <1>2
  <2> QED
    BY <1>8, <1>9, <1>13, <2>1, <2>2, <2>3
<1>16. Stages'
  BY <1>2, <1>3, <1>4, <1>5, <1>10, <1>15 DEF Stages, Copying
<1>17. Interrupted'
  BY <1>1, <1>3, <1>4, <1>8 DEF Interrupted, AllNew
<1>18. Shells'
  BY <1>3, <1>8, <1>10, ShellsKept
<1>19. Links'
  <2>1. "shell" \in todo' \cup {opened'} <=> "shell" \in todo \cup {opened}
    BY <1>2, <1>4
  <2>2. "shell" \notin todo \cup {opened} => tree'.jb["shell"] = tree.jb["shell"]
    BY <1>2, <1>5, <1>9
  <2>3. ~muddled => ~Changing /\ ~Relinking
    BY <1>1, <1>3 DEF Links, Changing, Relinking, At
  <2>4. ~muddled => IF "shell" \in todo \cup {opened} THEN tree.usr["shell"] # "none"
                                                     ELSE tree.jb["shell"] = chosen
    BY <1>1, <1>3 DEF Links, Copying
  <2>5. ~muddled /\ tree.usr["shell"] # "none" => tree.usr["shell"] = chosen
    BY <1>1, <1>4 DEF Links
  <2>6. ~muddled /\ tree.usr["shell"] = "none" => tree'.jb["shell"] = chosen
    BY <2>2, <2>4
  <2>7. ~muddled => IF "shell" \in todo' \cup {opened'} THEN tree'.usr["shell"] # "none"
                                                       ELSE tree'.jb["shell"] = chosen
    BY <1>8, <2>1, <2>2, <2>4
  <2> QED
    BY <1>3, <1>4, <1>8, <1>10, <2>3, <2>5, <2>6, <2>7 DEF Links, Copying
<1> QED
  BY <1>11, <1>12, <1>14, <1>16, <1>17, <1>18, <1>19 DEF ShellInv

LEMMA WriteStep == ASSUME ShellInv, Write PROVE ShellInv'
<1>1. Types /\ Places /\ Stages /\ Interrupted /\ Links /\ FilesKept
  BY DEF ShellInv
<1>2. /\ PO = "write" /\ To("cp") /\ opened' = "none" /\ Put("jb", opened, tree.usr[opened])
      /\ UNCHANGED <<usr, jb, choice, todo, chosen, excused, muddled, removed, torn, tries>>
  BY DEF Write, At, PO, ghosts
<1>3. usr = "dir" /\ jb /\ opened \in Name \ todo /\ ~removed
  BY <1>1, <1>2 DEF Stages, Places
<1>4. /\ "none" \notin Name /\ "shell" \in Name
      /\ Installable' = Installable /\ Installable = Program
      /\ \A m \in Program : m \in Name /\ m # "shell"
      /\ \A m \in Name : m \in Program \/ m = "shell"
  BY <1>2, <1>3 DEF Name, Program, Installable
<1>5. /\ tree.usr[opened] \in Version \cup Target
      /\ opened = "shell" => tree.usr[opened] \in Target
      /\ opened # "shell" => tree.usr[opened] \in Version
  BY <1>1, <1>3, <1>4 DEF Types, Version
<1>6. /\ tree' \in [usr : Files, jb : Files] /\ tree'.usr = tree.usr
      /\ tree'.jb = [tree.jb EXCEPT ![opened] = tree.usr[opened]]
  BY <1>1, <1>2, <1>3, <1>5, PutFacts
<1>7. /\ tree'.jb[opened] = tree.usr[opened]
      /\ \A m \in Name \ {opened} : tree'.jb[m] = tree.jb[m]
  BY <1>1, <1>3, <1>6 DEF Types, Files
<1>8. /\ pc' \in [Process -> Label] /\ PO' = "cp" /\ \A u \in User : pc'[u] = pc[u]
      /\ Changing' = Changing /\ Relinking' = Relinking
  BY <1>1, <1>2, PostinstGoto DEF Label
<1>9. Types'
  <2>1. tree'.jb["shell"] \in Target
    BY <1>1, <1>4, <1>5, <1>7 DEF Types
  <2>2. \A m \in Program : tree'.jb[m] \in Version
    BY <1>1, <1>4, <1>5, <1>7 DEF Types
  <2> QED
    BY <1>1, <1>2, <1>6, <1>8, <2>1, <2>2 DEF Types
<1>10. Places'
  BY <1>2, <1>3 DEF Places
<1>11. ASSUME NEW m \in Program
       PROVE  IF m \in todo \cup {opened} THEN tree.usr[m] = "new" ELSE tree.jb[m] = "new"
  BY <1>1, <1>2, <1>11 DEF Stages, Copying
<1>12. ASSUME NEW m \in Program
       PROVE  IF m \in todo' \cup {opened'} THEN tree'.usr[m] = "new" ELSE tree'.jb[m] = "new"
  <2>1. m \in todo' \cup {opened'} <=> m \in todo
    BY <1>2, <1>4
  <2>2. CASE m = opened
    BY <1>3, <1>7, <1>11, <2>1, <2>2
  <2>3. CASE m # opened
    BY <1>4, <1>6, <1>7, <1>11, <2>1, <2>3
  <2> QED
    BY <2>2, <2>3
<1>13. FilesKept'
  BY <1>4, <1>12 DEF FilesKept
<1>14. Stages'
  BY <1>2, <1>3, <1>8, <1>12 DEF Stages, Copying
<1>15. Interrupted'
  BY <1>1, <1>2, <1>3, <1>6 DEF Interrupted, AllNew
<1>16. Shells'
  BY <1>2, <1>6, <1>8, ShellsKept
<1>17. Links'
  <2>1. ~muddled => ~Changing /\ ~Relinking
    BY <1>1, <1>2 DEF Links, Changing, Relinking, At
  <2>2. ~muddled => IF "shell" \in todo \cup {opened} THEN tree.usr["shell"] # "none"
                                                     ELSE tree.jb["shell"] = chosen
    BY <1>1, <1>2 DEF Links, Copying
  <2>3. ~muddled /\ tree.usr["shell"] # "none" => tree.usr["shell"] = chosen
    BY <1>1, <1>3 DEF Links
  <2>4. "shell" \in todo' \cup {opened'} <=> "shell" \in todo
    BY <1>2, <1>4
  <2>5. opened = "shell" => tree'.jb["shell"] = tree.usr["shell"]
    BY <1>7
  <2>6. opened # "shell" => tree'.jb["shell"] = tree.jb["shell"]
    BY <1>4, <1>7
  <2>7. ~muddled => IF "shell" \in todo' \cup {opened'} THEN tree'.usr["shell"] # "none"
                                                       ELSE tree'.jb["shell"] = chosen
    BY <1>6, <2>2, <2>3, <2>4, <2>5, <2>6
  <2>8. ~muddled /\ tree.usr["shell"] = "none" => tree'.jb["shell"] = chosen
    BY <1>6, <2>7
  <2> QED
    BY <1>2, <1>3, <1>6, <1>8, <2>1, <2>3, <2>7, <2>8 DEF Links, Copying
<1> QED
  BY <1>9, <1>10, <1>13, <1>14, <1>15, <1>16, <1>17 DEF ShellInv

LEMMA CpFailsStep == ASSUME ShellInv, CpFails PROVE ShellInv'
<1>1. Types /\ Places /\ Stages /\ Interrupted /\ Links
  BY DEF ShellInv
<1>2. /\ To("failed") /\ UNCHANGED <<disk, choice, ghosts>> /\ PO \in {"cp", "write"}
      /\ todo' = Present /\ opened' = "none"
  BY DEF CpFails, AfterCpFailed, PO
<1>3. UNCHANGED <<chosen, excused, muddled, removed, torn, tries>>
  BY <1>2 DEF ghosts
<1>4. todo' \in SUBSET Name
  BY <1>1, <1>2, PresentFacts
<1>5. /\ Types' /\ FilesKept' /\ Shells' /\ PO' = "failed"
      /\ usr' = usr /\ jb' = jb /\ tree' = tree /\ Relinking' = Relinking /\ Changing' = Changing
  BY <1>1, <1>2, <1>3, <1>4, PostinstQuiet DEF Types, Label
<1>6. usr = "dir" /\ jb /\ ~removed
  BY <1>1, <1>2 DEF Stages, Places
<1>7. Places'
  BY <1>3, <1>5, <1>6 DEF Places
<1>8. Stages'
  BY <1>5 DEF Stages, Copying
<1>9. Interrupted'
  BY <1>1, <1>2, <1>3, <1>5, <1>6 DEF Interrupted, AllNew
<1>10. Links'
  BY <1>1, <1>3, <1>5, <1>6 DEF Links, Copying
<1> QED
  BY <1>5, <1>7, <1>8, <1>9, <1>10 DEF ShellInv

LEMMA CopiedStep == ASSUME ShellInv, Copied PROVE ShellInv'
<1>1. Types /\ Places /\ Stages /\ Interrupted /\ Links
  BY DEF ShellInv
<1>2. /\ To("rm") /\ UNCHANGED <<disk, choice, opened, ghosts>> /\ PO = "cp" /\ todo = {}
      /\ todo' = Present
  BY DEF Copied, At, PO
<1>3. UNCHANGED <<chosen, excused, muddled, removed, torn, tries>>
  BY <1>2 DEF ghosts
<1>4. todo' \in SUBSET Name
  BY <1>1, <1>2, PresentFacts
<1>5. /\ Types' /\ FilesKept' /\ Shells' /\ PO' = "rm"
      /\ usr' = usr /\ jb' = jb /\ tree' = tree /\ Relinking' = Relinking /\ Changing' = Changing
  BY <1>1, <1>2, <1>3, <1>4, PostinstQuiet DEF Types, Label
<1>6. usr = "dir" /\ jb /\ ~removed /\ opened = "none"
  BY <1>1, <1>2 DEF Stages, Places
<1>7. Places'
  BY <1>3, <1>5, <1>6 DEF Places
<1>8. AllNew(tree.jb)
  <2>1. \A n \in Program : n \notin todo \cup {opened}
    BY <1>2, <1>6 DEF Program
  <2> QED
    BY <1>1, <1>2, <2>1 DEF Stages, Copying, AllNew
<1>9. Stages'
  BY <1>5, <1>6, <1>8 DEF Stages, Copying, AllNew
<1>10. Interrupted'
  BY <1>5, <1>6 DEF Interrupted
<1>11. ~muddled => ~Changing /\ tree.jb["shell"] = chosen
  BY <1>1, <1>2, <1>6 DEF Links, Copying
<1>12. Links'
  BY <1>1, <1>3, <1>5, <1>6, <1>11 DEF Links, Copying
<1> QED
  BY <1>5, <1>7, <1>9, <1>10, <1>12 DEF ShellInv

LEMMA RmStep == ASSUME ShellInv, Rm PROVE ShellInv'
<1>1. Types /\ Places /\ Stages /\ Links
  BY DEF ShellInv
<1>2. PICK n \in todo : Put("usr", n, "none") /\ todo' = todo \ {n}
  BY DEF Rm
<1>3. /\ PO = "rm" /\ Excuse
      /\ UNCHANGED <<usr, jb, pc, choice, opened, chosen, muddled, removed, torn, tries>>
  BY DEF Rm, At, PO
<1>4. PO' = PO /\ Changing' = Changing /\ Relinking' = Relinking
  BY <1>3 DEF PO, Changing, Relinking, At
<1>5. usr = "dir" /\ jb /\ AllNew(tree.jb) /\ ~removed
  BY <1>1, <1>3 DEF Stages, Places
<1>6. /\ n \in Name /\ "none" \in Version \cup Target /\ "shell" \in Name
      /\ \A m \in Program : m \in Name
  BY <1>1, <1>2 DEF Types, Version, Name
<1>7. /\ tree' \in [usr : Files, jb : Files] /\ tree'.jb = tree.jb
      /\ tree'.usr = [tree.usr EXCEPT ![n] = "none"]
  BY <1>1, <1>2, <1>6, PutFacts
<1>8. tree'.usr[n] = "none" /\ \A m \in Name \ {n} : tree'.usr[m] = tree.usr[m]
  BY <1>1, <1>6, <1>7 DEF Types, Files
<1>9. excused' \in [User -> BOOLEAN]
  BY <1>1, <1>3 DEF Excuse, Types
<1>10. Types'
  <2>1. tree'.usr["shell"] \in Target
    BY <1>1, <1>6, <1>8 DEF Types, Target
  <2>2. \A m \in Program : tree'.usr[m] \in {"none", "new"}
    BY <1>1, <1>6, <1>8 DEF Types
  <2>3. todo' \in SUBSET Name
    BY <1>1, <1>2 DEF Types
  <2> QED
    BY <1>1, <1>3, <1>7, <1>9, <2>1, <2>2, <2>3 DEF Types
<1>11. Places'
  BY <1>3, <1>5 DEF Places
<1>12. AllNew(tree'.jb)
  BY <1>5, <1>7
<1>13. FilesKept'
  BY <1>12 DEF FilesKept, Installable, AllNew
<1>14. Stages'
  BY <1>3, <1>4, <1>5, <1>12 DEF Stages, Copying
<1>15. Interrupted'
  BY <1>3, <1>4, <1>5 DEF Interrupted
<1>16. Shells'
  BY <1>3, ShellsExcused
<1>17. ASSUME ~muddled PROVE /\ ~Changing /\ tree.jb["shell"] = chosen
                             /\ tree.usr["shell"] # "none" => tree.usr["shell"] = chosen
  BY <1>1, <1>3, <1>5, <1>17 DEF Links
<1>18. tree'.usr["shell"] \in {"none", tree.usr["shell"]}
  BY <1>6, <1>8
<1>19. Links'
  BY <1>3, <1>4, <1>5, <1>7, <1>17, <1>18 DEF Links, Copying
<1> QED
  BY <1>10, <1>11, <1>13, <1>14, <1>15, <1>16, <1>19 DEF ShellInv

LEMMA RmdirStep == ASSUME ShellInv, Rmdir PROVE ShellInv'
<1>1. Types /\ Places /\ Stages /\ Links /\ FilesKept
  BY DEF ShellInv
<1>2. /\ PO = "rm" /\ Excuse
      /\ UNCHANGED <<jb, tree, choice, todo, opened, chosen, muddled, removed, tries>>
  BY DEF Rmdir, At, PO, left
<1>3. usr = "dir" /\ jb /\ ~removed
  BY <1>1, <1>2 DEF Stages, Places
<1>4. FilesKept'
  BY <1>1, <1>2 DEF FilesKept, Installable
<1>5. ASSUME ~muddled PROVE /\ ~Changing /\ tree.jb["shell"] = chosen
                            /\ tree.usr["shell"] # "none" => tree.usr["shell"] = chosen
  BY <1>1, <1>2, <1>3, <1>5 DEF Links
<1>6. excused' \in [User -> BOOLEAN]
  BY <1>1, <1>2 DEF Excuse, Types
<1>7. CASE Present = {} /\ usr' = "absent" /\ To("ln") /\ UNCHANGED torn
  <2>1. /\ pc' \in [Process -> Label] /\ PO' = "ln" /\ \A u \in User : pc'[u] = pc[u]
        /\ Changing' = Changing /\ Relinking' = Relinking
    BY <1>1, <1>7, PostinstGoto DEF Label
  <2>2. Types'
    BY <1>1, <1>2, <1>6, <1>7, <2>1 DEF Types
  <2>3. Vacant(tree.usr)
    BY <1>1, <1>3, <1>7, PresentFacts DEF Vacant
  <2>4. Places'
    BY <1>2, <1>3, <1>7, <2>3 DEF Places, Vacant
  <2>5. Stages'
    BY <1>7, <2>1 DEF Stages, Copying
  <2>6. Interrupted'
    BY <1>7, <2>1 DEF Interrupted
  <2>7. Shells'
    BY <1>2, <2>1, ShellsExcused
  <2>8. Links'
    BY <1>2, <1>5, <1>7, <2>1 DEF Links, Copying
  <2> QED
    BY <1>4, <2>2, <2>4, <2>5, <2>6, <2>7, <2>8 DEF ShellInv
<1>8. CASE To("failed") /\ UNCHANGED usr /\ torn' = TRUE
  <2>1. /\ pc' \in [Process -> Label] /\ PO' = "failed" /\ \A u \in User : pc'[u] = pc[u]
        /\ Changing' = Changing /\ Relinking' = Relinking
    BY <1>1, <1>8, PostinstGoto DEF Label
  <2>2. Types'
    BY <1>1, <1>2, <1>6, <1>8, <2>1 DEF Types
  <2>3. Places'
    BY <1>2, <1>3, <1>8 DEF Places
  <2>4. Stages'
    BY <2>1 DEF Stages, Copying
  <2>5. Interrupted'
    BY <1>8 DEF Interrupted
  <2>6. Shells'
    BY <1>2, <2>1, ShellsExcused
  <2>7. Links'
    BY <1>2, <1>3, <1>5, <1>8, <2>1 DEF Links, Copying
  <2> QED
    BY <1>4, <2>2, <2>3, <2>4, <2>5, <2>6, <2>7 DEF ShellInv
<1> QED
  BY <1>7, <1>8 DEF Rmdir

LEMMA LnStep == ASSUME ShellInv, Ln PROVE ShellInv'
<1>1. Types /\ Places /\ Stages /\ Links /\ FilesKept
  BY DEF ShellInv
<1>2. /\ PO = "ln" /\ usr' = "link" /\ To("installed") /\ Excuse
      /\ UNCHANGED <<jb, tree, choice, todo, opened, chosen, muddled, removed, torn, tries>>
  BY DEF Ln, At, PO, left
<1>3. usr # "dir" /\ jb /\ ~removed /\ Vacant(tree.usr)
  BY <1>1, <1>2 DEF Stages, Places, Types
<1>4. /\ pc' \in [Process -> Label] /\ PO' = "installed" /\ \A u \in User : pc'[u] = pc[u]
      /\ Changing' = Changing /\ Relinking' = Relinking
  BY <1>1, <1>2, PostinstGoto DEF Label
<1>5. excused' \in [User -> BOOLEAN]
  BY <1>1, <1>2 DEF Excuse, Types
<1>6. Types'
  BY <1>1, <1>2, <1>4, <1>5 DEF Types
<1>7. Places'
  BY <1>2, <1>3 DEF Places, Vacant
<1>8. FilesKept'
  BY <1>1, <1>2 DEF FilesKept, Installable
<1>9. Stages'
  BY <1>2, <1>4 DEF Stages, Copying
<1>10. Interrupted'
  BY <1>2 DEF Interrupted
<1>11. Shells'
  BY <1>2, <1>4, ShellsExcused
<1>12. Links'
  BY <1>1, <1>2, <1>3, <1>4 DEF Links, Copying, Types
<1> QED
  BY <1>6, <1>7, <1>8, <1>9, <1>10, <1>11, <1>12 DEF ShellInv

LEMMA InstallStep == ASSUME ShellInv, PostinstStep PROVE ShellInv'
BY ConfigureStep, TestStep, MvStep, GlobStep, TruncateStep, WriteStep, CpFailsStep,
   CopiedStep, RmStep, RmdirStep, LnStep DEF PostinstStep

--------------------------------------------------------------------------------
(* Steps of others. *)

LEMMA RemoveStep == ASSUME ShellInv, RemoveZsh PROVE ShellInv'
<1>1. Types /\ Places /\ Links /\ FilesKept
  BY DEF ShellInv
<1>2. /\ usr = "link" /\ PO = "idle" /\ Put("jb", "zsh", "none") /\ removed' = TRUE /\ Excuse
      /\ UNCHANGED <<usr, jb, pc, choice, todo, opened, chosen, muddled, torn, tries>>
  BY DEF RemoveZsh, At, PO, left
<1>3. jb
  BY <1>2, Leads
<1>4. "zsh" \in Name /\ "none" \in Version \cup Target /\ "shell" \in Name \ {"zsh"}
      /\ Program \subseteq Name
  BY DEF Name, Program, Version
<1>5. /\ tree' \in [usr : Files, jb : Files] /\ tree'.usr = tree.usr
      /\ tree'.jb = [tree.jb EXCEPT !["zsh"] = "none"]
  BY <1>1, <1>2, <1>4, PutFacts
<1>6. tree'.jb["zsh"] = "none" /\ \A m \in Name \ {"zsh"} : tree'.jb[m] = tree.jb[m]
  BY <1>1, <1>4, <1>5 DEF Types, Files
<1>7. PO' = PO /\ Changing' = Changing /\ Relinking' = Relinking
  BY <1>2 DEF PO, Changing, Relinking, At
<1>8. excused' \in [User -> BOOLEAN]
  BY <1>1, <1>2 DEF Excuse, Types
<1>9. Types'
  <2>1. tree'.jb["shell"] \in Target /\ \A m \in Program : tree'.jb[m] \in Version
    BY <1>1, <1>4, <1>6 DEF Types, Version
  <2> QED
    BY <1>1, <1>2, <1>5, <1>8, <2>1 DEF Types
<1>10. Places'
  BY <1>1, <1>2, <1>3, <1>5, <1>6, <1>7 DEF Places, Vacant
<1>11. FilesKept'
  <2>1. Installable' = Program \ {"zsh"} /\ Installable' \subseteq Installable
    BY <1>2 DEF Installable
  <2> QED
    BY <1>1, <1>4, <1>5, <1>6, <2>1 DEF FilesKept, Installable
<1>12. Stages'
  BY <1>2, <1>7 DEF Stages, Copying
<1>13. Interrupted'
  BY <1>2 DEF Interrupted
<1>14. Shells'
  BY <1>2, ShellsExcused
<1>15. tree'.jb["shell"] = tree.jb["shell"]
  BY <1>4, <1>6
<1>16. Links'
  BY <1>1, <1>2, <1>7, <1>15 DEF Links, Copying
<1> QED
  BY <1>9, <1>10, <1>11, <1>12, <1>13, <1>14, <1>16 DEF ShellInv

LEMMA KillStep == ASSUME ShellInv, NEW p \in Process, Kill(p) PROVE ShellInv'
<1>1. Types /\ Places /\ Stages /\ Interrupted /\ Links /\ FilesKept
  BY DEF ShellInv
<1>2. /\ pc[p] \notin Over /\ Goto(p, "killed")
      /\ muddled' = (muddled \/ p \in Changer)
      /\ torn' = (torn \/ (p \in Postinst /\ pc[p] \in {"rm", "ln"}))
      /\ UNCHANGED <<usr, jb, tree, choice, todo, opened, chosen, excused, removed, tries>>
  BY DEF Kill, disk, left
<1>3. /\ pc' \in [Process -> Label] /\ pc'[p] = "killed"
      /\ \A q \in Process \ {p} : pc'[q] = pc[q]
  BY <1>1, <1>2, GotoFacts DEF Label
<1>4. Types'
  BY <1>1, <1>2, <1>3 DEF Types
<1>5. FilesKept'
  BY <1>1, <1>2 DEF FilesKept, Installable
<1>6. PO' \in {PO, "killed"}
  BY <1>3, Apart DEF PO
<1>7. Places'
  BY <1>1, <1>2, <1>6 DEF Places, AllNew, Vacant
<1>8. torn => torn'
  BY <1>2
<1>9. Stages'
  BY <1>1, <1>2, <1>6, <1>8 DEF Stages, Copying, AllNew
<1>10. PO' = PO \/ torn' \/ PO \notin {"rm", "ln", "idle"}
  BY <1>2, <1>3, Apart DEF PO, Postinst, Over
<1>11. Interrupted'
  BY <1>1, <1>2, <1>6, <1>8, <1>10 DEF Interrupted, AllNew
<1>12. Shells'
  <2> SUFFICES ASSUME NEW u \in User, ~excused[u] PROVE Starting(u)'
    BY <1>2 DEF Shells
  <2>1. Starting(u)
    BY DEF ShellInv, Shells
  <2>2. Installable' = Installable /\ (Emptied' <=> Emptied)
    BY <1>2 DEF Installable, Emptied
  <2>3. pc'[u] = pc[u] \/ pc'[u] = "killed"
    BY <1>3, Apart
  <2> QED
    BY <1>2, <2>1, <2>2, <2>3 DEF Starting, Looking, Found, At
<1>13. Links'
  <2>1. CASE p \in Changer
    BY <1>2, <2>1 DEF Links
  <2>2. CASE p \notin Changer
    <3>1. \A c \in Changer : pc'[c] = pc[c]
      BY <1>3, <2>2, Apart
    <3>2. Changing' = Changing /\ Relinking' = Relinking
      BY <3>1 DEF Changing, Relinking, At
    <3> QED
      BY <1>1, <1>2, <1>6, <2>2, <3>2 DEF Links, Copying
  <2> QED
    BY <2>1, <2>2
<1> QED
  BY <1>4, <1>5, <1>7, <1>9, <1>11, <1>12, <1>13 DEF ShellInv

--------------------------------------------------------------------------------
(* The theorems. *)

LEMMA ShellInit == Init => ShellInv
<1> SUFFICES ASSUME Init PROVE ShellInv
  OBVIOUS
<1>1. \A c \in Version, s \in Target : /\ All(c, s) \in Files /\ All(c, s)["shell"] = s
                                       /\ \A n \in Program : All(c, s)[n] = c
  BY DEF All, Files, Name, Program
<1>2. /\ Without \in Files /\ Vacant(Without) /\ Without["shell"] = "none"
      /\ \A n \in Program : Without[n] = "none"
  BY DEF Without, All, Files, Vacant, Version, Name, Program
<1>3. \/ usr = "dir" /\ jb = FALSE /\ tree.usr = All("new", "none") /\ tree.jb = Without
      \/ usr = "dir" /\ jb = TRUE /\ tree.usr = All("new", "none") /\ tree.jb = All("old", "zsh")
      \/ /\ usr \in {"link", "absent"} /\ jb = TRUE /\ tree.usr = Without
         /\ \E s \in {"none", "zsh"} : tree.jb = All("new", s)
  <2>1. \/ usr = "dir" /\ jb = FALSE /\ tree = [usr |-> All("new", "none"), jb |-> Without]
        \/ usr = "dir" /\ jb = TRUE
           /\ tree = [usr |-> All("new", "none"), jb |-> All("old", "zsh")]
        \/ usr \in {"link", "absent"} /\ jb = TRUE
           /\ \E s \in {"none", "zsh"} : tree = [usr |-> Without, jb |-> All("new", s)]
    BY DEF Init
  <2> QED
    BY <2>1
<1>4. /\ {"new", "old", "none"} \subseteq Version /\ {"none", "zsh"} \subseteq Target
  BY DEF Version, Target
<1>5. /\ tree.usr \in Files /\ tree.jb \in Files
      /\ tree.usr["shell"] \in Target /\ tree.jb["shell"] \in Target
      /\ \A n \in Program : tree.usr[n] \in {"none", "new"} /\ tree.jb[n] \in Version
  BY <1>1, <1>2, <1>3, <1>4
<1>6. tree \in [usr : Files, jb : Files]
  <2>1. \/ tree = [usr |-> All("new", "none"), jb |-> Without]
        \/ tree = [usr |-> All("new", "none"), jb |-> All("old", "zsh")]
        \/ \E s \in {"none", "zsh"} : tree = [usr |-> Without, jb |-> All("new", s)]
    BY DEF Init
  <2> QED
    BY <1>1, <1>2, <1>4, <2>1
<1>7. /\ pc \in [Process -> Label] /\ PO = "idle" /\ ~Changing
      /\ \A u \in User : pc[u] \in {"idle", "access usr"}
  <2>1. pc \in [Process -> {"idle", "access usr", "stat"}]
    BY DEF Init
  <2>2. \A p \in Process : pc[p] = "idle" \/ pc[p] = IF p \in User THEN "access usr" ELSE "stat"
    BY DEF Init
  <2>3. pc \in [Process -> Label]
    BY <2>1 DEF Label
  <2>4. \A u \in User : pc[u] \in {"idle", "access usr"}
    BY <2>2, Apart
  <2>5. ~Changing
    BY <2>1, Apart DEF Changing
  <2> QED
    BY <2>3, <2>4, <2>5 DEF Init, At, PO
<1>8. Types
  <2>1. usr \in {"absent", "link", "dir"} /\ jb \in BOOLEAN
    BY <1>3
  <2>2. tries \in Nat
    <3>1. tries = IF usr = "absent" THEN Tries ELSE 0
      BY DEF Init
    <3> QED
      BY <3>1, ShellAssumption
  <2>3. chosen \in Target
    BY <1>5 DEF Init
  <2> QED
    BY <1>5, <1>6, <1>7, <2>1, <2>2, <2>3 DEF Init, Types
<1>9. ~removed /\ ~muddled /\ ~torn /\ chosen = tree.jb["shell"]
  BY DEF Init
<1>10. Places
  BY <1>1, <1>2, <1>3, <1>4, <1>9 DEF Places, AllNew
<1>11. FilesKept
  BY <1>1, <1>3, <1>4 DEF FilesKept, Installable
<1>12. Stages
  BY <1>7 DEF Stages, Copying
<1>13. Interrupted
  <2>1. usr = "absent" => ~(tries < Tries)
    <3>1. tries = IF usr = "absent" THEN Tries ELSE 0
      BY DEF Init
    <3> QED
      BY <3>1, ShellAssumption
  <2>2. usr = "dir" => AllNew(tree.usr)
    BY <1>1, <1>3, <1>4 DEF AllNew
  <2> QED
    BY <1>7, <2>1, <2>2 DEF Interrupted
<1>14. Shells
  BY <1>7 DEF Shells, Starting, Looking, Found, At
<1>15. usr = "dir" => tree.usr["shell"] = "none"
  BY <1>1, <1>3, <1>4
<1>16. Links
  BY <1>7, <1>9, <1>15 DEF Links, Copying
<1> QED
  BY <1>8, <1>10, <1>11, <1>12, <1>13, <1>14, <1>16 DEF ShellInv

LEMMA ShellNext == ASSUME ShellInv, [Next]_vars PROVE ShellInv'
<1>1. CASE Next
  BY <1>1, UserStep, StatStep, UnlinkStep, RelinkStep, InstallStep, RemoveStep, KillStep
     DEF Next, ChshStep
<1>2. CASE UNCHANGED vars
  <2>1. /\ UNCHANGED <<usr, jb, tree, pc, choice, todo, opened>>
        /\ UNCHANGED <<chosen, excused, muddled, removed, torn, tries>>
    BY <1>2 DEF vars, disk, left, ghosts
  <2>2. Types' /\ Places' /\ FilesKept'
    BY <2>1 DEF ShellInv, Types, Places, FilesKept, Installable, PO, AllNew, Vacant
  <2>3. Stages' /\ Interrupted'
    BY <2>1 DEF ShellInv, Stages, Interrupted, PO, AllNew, Copying
  <2>4. Shells'
    BY <2>1, ShellsKept
  <2>5. Links'
    BY <2>1 DEF ShellInv, Links, PO, Copying, Changing, Relinking, At
  <2> QED
    BY <2>2, <2>3, <2>4, <2>5 DEF ShellInv
<1> QED
  BY <1>1, <1>2

LEMMA ShellAlways == Spec => []ShellInv
<1>1. Init => ShellInv
  BY ShellInit
<1>2. ShellInv /\ [Next]_vars => ShellInv'
  BY ShellNext
<1> QED
  BY <1>1, <1>2, PTL DEF Spec

(* In particular dpkg's files in /var/usr are never half written: each is  *)
(* whole or was removed, and /var/usr/shell names a shell or is missing.   *)
THEOREM TypeCorrect == Spec => []Types
<1>1. ShellInv => Types
  BY DEF ShellInv
<1> QED
  BY <1>1, ShellAlways, PTL

(* A copy that fails or is killed loses no program: while postinst copies  *)
(* a file the other directory has it, and nothing is removed before all of *)
(* them have been copied.                                                  *)
THEOREM FilesKeptCorrect == Spec => []FilesKept
<1>1. ShellInv => FilesKept
  BY DEF ShellInv
<1> QED
  BY <1>1, ShellAlways, PTL

(* A postinst that ends well leaves a link that leads to all programs.     *)
THEOREM InstalledCorrect == Spec => []Installed
<1>1. ASSUME ShellInv PROVE Installed
  <2>1. At("postinst", "stuck") => torn
    BY <1>1 DEF ShellInv, Stages, PO, At
  <2>2. ASSUME At("postinst", "installed"), NEW n \in Installable
        PROVE  usr = "link" /\ File(n) = "new"
    <3>1. usr = "link"
      BY <1>1, <2>2 DEF ShellInv, Stages, PO, At
    <3>2. n \in Name
      BY DEF Installable, Name
    <3>3. File(n) = tree.jb[n] /\ tree.usr[n] = "none"
      BY <1>1, <3>1, <3>2, Leads DEF ShellInv, Places, Vacant
    <3> QED
      BY <1>1, <3>1, <3>3 DEF ShellInv, FilesKept
  <2>3. "fixup" \in Installable
    BY DEF Installable, Program
  <2> QED
    BY <2>1, <2>2, <2>3 DEF Installed
<1> QED
  BY <1>1, ShellAlways, PTL

(* Nothing but what ShellStarts names makes a shell fail, whatever other   *)
(* shells, calls of chsh and postinst do meanwhile.                        *)
THEOREM ShellStartsCorrect == Spec => []ShellStarts
<1>1. ShellInv => ShellStarts
  BY DEF ShellInv, Shells, Starting, ShellStarts
<1> QED
  BY <1>1, ShellAlways, PTL

(* However many calls of chsh run at once, the link is the one of the last *)
(* that succeeded.                                                         *)
THEOREM LinkIsLastCorrect == Spec => []LinkIsLast
<1>1. ShellInv => LinkIsLast
  BY DEF ShellInv, Links, LinkIsLast, Relinking, At
<1> QED
  BY <1>1, ShellAlways, PTL
================================================================================
