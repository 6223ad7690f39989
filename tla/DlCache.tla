-------------------------------- MODULE DlCache --------------------------------
(* files/dllib.sh: the download of one package's source into dlcache/, which  *)
(* the runs for all targets share, its hash check and its unpacking.          *)
(*                                                                            *)
(* The cached file is a sequence of blocks; curl, sha256sum and tar go        *)
(* through it one block at a time, each with an offset of its own.  Nobody    *)
(* ever unlinks it, so all of them have the same file open.  A file that is   *)
(* absent and one that is empty are not told apart: both fail the hash check. *)
(* Each run has its own $_TMP and $_SRCDIR, so nothing else is shared.        *)
EXTENDS Integers, Sequences

CONSTANTS Run,      \* runs of build.sh, each for a target of its own
          Blocks,   \* length of the genuine file
          Longest,  \* bound: the longest answer of a server
          Tries     \* downloads a run attempts; 5 in the code

ASSUME SizesAssumption == /\ Blocks \in Nat \ {0}
                          /\ Longest \in Nat
                          /\ Tries \in Nat \ {0}

VARIABLES file,   \* dlcache/$cachename
          pc,     \* where the run is
          tries,  \* $tries
          off,    \* offset of the program that has the file open
          ok,     \* all that it has read so far is genuine
          src,    \* $_SRCDIR
          cut     \* history: another run wrote since this one began to hash

vars == <<file, pc, tries, off, ok, src, cut>>

Genuine == [i \in 1..Blocks |-> "good"]

Checking == {"first", "again"}      \* sha256sum, before and after a download
Reading == Checking \union {"tar"}
Downloading == {"curl", "write"}    \* curl before and after it opened the file

TypeOK ==
  /\ file \in Seq({"good", "bad", "hole"})
  /\ pc \in [Run -> {"idle"} \union Reading \union Downloading]
  /\ tries \in [Run -> 0..Tries]
  /\ off \in [Run -> Nat]
  /\ ok \in [Run -> BOOLEAN]
  /\ src \in [Run -> {"none", "pristine", "corrupt"}]
  /\ cut \in [Run -> BOOLEAN]

--------------------------------------------------------------------------------
(* Opening the file to read it from its beginning. *)
Open(r, program) == /\ pc' = [pc EXCEPT ![r] = program]
                    /\ off' = [off EXCEPT ![r] = 0]
                    /\ ok' = [ok EXCEPT ![r] = TRUE]

(* sha256sum and tar read the block at their offset. *)
Read(r) == /\ pc[r] \in Reading
           /\ off[r] < Len(file)
           /\ off' = [off EXCEPT ![r] = off[r] + 1]
           /\ ok' = [ok EXCEPT ![r] = ok[r] /\ file[off[r] + 1] = "good"]
           /\ UNCHANGED <<file, pc, tries, src, cut>>

(* At the end of the file: what was read was the genuine file. *)
AtEnd(r) == off[r] >= Len(file)
ReadGenuine(r) == ok[r] /\ off[r] = Blocks

(* Bug: no look at the cache before the first download. *)
Begin_NoCheck(r) == /\ pc[r] = "idle"
                    /\ pc' = [pc EXCEPT ![r] = "curl"]
                    /\ tries' = [tries EXCEPT ![r] = Tries]
                    /\ src' = [src EXCEPT ![r] = "none"]
                    /\ cut' = [cut EXCEPT ![r] = FALSE]
                    /\ UNCHANGED <<file, off, ok>>

(* The recipe's fetch.sh calls dlsrc. *)
Begin(r) == /\ pc[r] = "idle"
            /\ Open(r, "first")
            /\ src' = [src EXCEPT ![r] = "none"]
            /\ cut' = [cut EXCEPT ![r] = FALSE]
            /\ UNCHANGED <<file, tries>>

(* hashcheck's verdict. *)
Matches(r) == ReadGenuine(r)

HashOk(r) == /\ pc[r] \in Checking
             /\ AtEnd(r)
             /\ Matches(r)
             /\ Open(r, "tar")
             /\ UNCHANGED <<file, tries, src, cut>>

FirstHashFails(r) == /\ pc[r] = "first"
                     /\ AtEnd(r)
                     /\ ~Matches(r)
                     /\ pc' = [pc EXCEPT ![r] = "curl"]
                     /\ tries' = [tries EXCEPT ![r] = Tries]
                     /\ UNCHANGED <<file, off, ok, src, cut>>

(* fetch.sh exits and the recipe's source directory goes. *)
FetchFails(r) == /\ pc' = [pc EXCEPT ![r] = "idle"]
                 /\ src' = [src EXCEPT ![r] = "none"]

(* Bug: the counter is not decremented. *)
TriesLeft_Kept(r) == tries[r]

(* A download failed, or what it left has the wrong hash. *)
TriesLeft(r) == tries[r] - 1

Failed(r) == /\ tries' = [tries EXCEPT ![r] = TriesLeft(r)]
             /\ \/ /\ tries'[r] > 0
                   /\ pc' = [pc EXCEPT ![r] = "curl"]
                   /\ UNCHANGED src
                \/ /\ tries'[r] <= 0
                   /\ FetchFails(r)

HashFails(r) == /\ pc[r] = "again"
                /\ AtEnd(r)
                /\ ~Matches(r)
                /\ Failed(r)
                /\ UNCHANGED <<file, off, ok, cut>>

--------------------------------------------------------------------------------
(* curl.  It opens its output, truncating it, with the first byte of an       *)
(* answer.  Without -f an error page is an answer like any other: the status  *)
(* is 0 whatever the blocks.  It may break off at any point.                  *)
Others(r) == [s \in Run |-> cut[s] \/ (s # r /\ pc[s] \in Reading)]

CurlOpens(r) == /\ pc[r] = "curl"
                /\ pc' = [pc EXCEPT ![r] = "write"]
                /\ file' = <<>>
                /\ off' = [off EXCEPT ![r] = 0]
                /\ cut' = Others(r)
                /\ UNCHANGED <<tries, ok, src>>

(* A block at the offset; where another run has cut the file, a hole before. *)
Longer(m, n) == IF m > n THEN m ELSE n
Written(f, n, b) == [i \in 1..Longer(Len(f), n + 1) |->
                       IF i = n + 1 THEN b
                       ELSE IF i <= Len(f) THEN f[i] ELSE "hole"]

CurlWrites(r) == /\ pc[r] = "write"
                 /\ off[r] < Longest
                 /\ \E b \in {"good", "bad"} : file' = Written(file, off[r], b)
                 /\ off' = [off EXCEPT ![r] = off[r] + 1]
                 /\ cut' = Others(r)
                 /\ UNCHANGED <<pc, tries, ok, src>>

(* Bug: curl's status is taken for the file's hash. *)
CurlEnds_NoCheck(r) == /\ pc[r] = "write"
                       /\ Open(r, "tar")
                       /\ cut' = [cut EXCEPT ![r] = FALSE]
                       /\ UNCHANGED <<file, tries, src>>

CurlEnds(r) == /\ pc[r] = "write"
               /\ Open(r, "again")
               /\ cut' = [cut EXCEPT ![r] = FALSE]
               /\ UNCHANGED <<file, tries, src>>

CurlFails(r) == /\ pc[r] \in Downloading
                /\ Failed(r)
                /\ UNCHANGED <<file, off, ok, cut>>

--------------------------------------------------------------------------------
(* tar at the end of the file, and mv.  What is not the genuine archive may   *)
(* unpack or make tar or mv fail.                                             *)
Unpacks(r) == /\ pc[r] = "tar"
              /\ AtEnd(r)
              /\ pc' = [pc EXCEPT ![r] = "idle"]
              /\ src' = [src EXCEPT ![r] =
                           IF ReadGenuine(r) THEN "pristine" ELSE "corrupt"]
              /\ UNCHANGED <<file, tries, off, ok, cut>>

UnpackFails(r) == /\ pc[r] = "tar"
                  /\ AtEnd(r)
                  /\ ~ReadGenuine(r)
                  /\ FetchFails(r)
                  /\ UNCHANGED <<file, tries, off, ok, cut>>

(* The run is killed, its programs with it. *)
Killed(r) == /\ pc[r] # "idle"
             /\ pc' = [pc EXCEPT ![r] = "idle"]
             /\ UNCHANGED <<file, tries, off, ok, src, cut>>

Step(r) == \/ Read(r) \/ HashOk(r) \/ FirstHashFails(r) \/ HashFails(r)
           \/ CurlOpens(r) \/ CurlWrites(r) \/ CurlEnds(r) \/ CurlFails(r)
           \/ Unpacks(r) \/ UnpackFails(r)

(* The cache starts empty; a user starts runs whenever he likes. *)
Init == /\ file = <<>>
        /\ pc = [r \in Run |-> "idle"]
        /\ tries = [r \in Run |-> 0]
        /\ off = [r \in Run |-> 0]
        /\ ok = [r \in Run |-> TRUE]
        /\ src = [r \in Run |-> "none"]
        /\ cut = [r \in Run |-> FALSE]

Next == \E r \in Run : Begin(r) \/ Step(r) \/ Killed(r)

(* Scripts run on.  That curl ends is an assumption about the network: the    *)
(* code sets no time limit.                                                   *)
Spec == Init /\ [][Next]_vars /\ \A r \in Run : WF_vars(Step(r))

--------------------------------------------------------------------------------
(* A source that is not the genuine one is unpacked only when another run's   *)
(* curl wrote to the cached file after this run began to hash it: in          *)
(* particular never when one run follows the other, whatever servers answered *)
(* and whatever killed runs left behind (dllib.sh:15, 19, 36).                *)
UnpackedGenuine == \A r \in Run : src[r] = "corrupt" => cut[r]

(* The cache holds the genuine file, nobody downloads, and nobody has read    *)
(* anything else.                                                             *)
Settled == /\ file = Genuine
           /\ \A r \in Run : /\ pc[r] \notin Downloading
                             /\ pc[r] \in Reading => ok[r] /\ off[r] <= Blocks

(* Once settled, the cache stays so whatever runs start, overlap or die: no   *)
(* run cuts the file another one unpacks (dllib.sh:15).                       *)
SettledStays == [][Settled => Settled']_vars

(* Every fetch ends, with a source or giving up, though servers and other     *)
(* runs spoil each download (dllib.sh:17-28).                                 *)
EveryFetchEnds == \A r \in Run : pc[r] # "idle" ~> pc[r] = "idle"
================================================================================
