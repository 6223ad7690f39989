----------------------------- MODULE DlCacheProofs -----------------------------
(* Proofs about DlCache, for all runs, lengths of files and numbers of tries. *)
EXTENDS DlCache, TLAPS

(* The parts of the inductive invariant. *)
Counted == \A r \in Run :
  pc[r] \in Downloading \union {"again"} => tries[r] \in 1..Tries

NoSource == \A r \in Run : pc[r] # "idle" => src[r] = "none"

(* What a run has read is the beginning of the file, unless another one wrote. *)
Prefix == \A r \in Run :
  pc[r] \in Reading /\ ~cut[r] =>
    /\ off[r] <= Len(file)
    /\ ok[r] => \A i \in 1..off[r] : file[i] = "good"

(* The hash vouches for the file while nobody writes to it. *)
Vouched == \A r \in Run : pc[r] = "tar" /\ ~cut[r] => file = Genuine /\ ok[r]

IInv == TypeOK /\ Counted /\ NoSource /\ Prefix /\ Vouched /\ UnpackedGenuine

LEMMA GenuineIsFile == /\ Genuine \in Seq({"good", "bad", "hole"})
                       /\ Len(Genuine) = Blocks
                       /\ \A i \in 1..Blocks : Genuine[i] = "good"
BY SizesAssumption DEF Genuine

(* A file of the right length with only genuine blocks is the genuine file. *)
LEMMA AllGood ==
  ASSUME NEW f \in Seq({"good", "bad", "hole"}), Len(f) = Blocks,
         \A i \in 1..Blocks : f[i] = "good"
  PROVE  f = Genuine
<1>1. f = [i \in 1..Blocks |-> f[i]]
  OBVIOUS
<1> QED
  BY <1>1 DEF Genuine

LEMMA WrittenIsFile ==
  ASSUME NEW f \in Seq({"good", "bad", "hole"}), NEW n \in Nat,
         NEW b \in {"good", "bad"}
  PROVE  Written(f, n, b) \in Seq({"good", "bad", "hole"})
<1> DEFINE m == Longer(Len(f), n + 1)
           Block(i) == IF i = n + 1 THEN b ELSE IF i <= Len(f) THEN f[i] ELSE "hole"
<1>1. m \in Nat
  BY DEF Longer
<1>2. \A i \in 1..m : Block(i) \in {"good", "bad", "hole"}
  OBVIOUS
<1>3. Written(f, n, b) = [i \in 1..m |-> Block(i)]
  BY DEF Written
<1> HIDE DEF m, Block
<1>4. [i \in 1..m |-> Block(i)] \in Seq({"good", "bad", "hole"})
  BY <1>1, <1>2
<1> QED
  BY <1>3, <1>4

--------------------------------------------------------------------------------
LEMMA TypeInit == Init => TypeOK
BY SizesAssumption DEF Init, TypeOK

LEMMA FailedType ==
  ASSUME TypeOK, Counted, NEW r \in Run, Failed(r),
         pc[r] \in Downloading \union {"again"}
  PROVE  /\ tries' \in [Run -> 0..Tries]
         /\ pc' \in [Run -> {"idle"} \union Reading \union Downloading]
         /\ src' \in [Run -> {"none", "pristine", "corrupt"}]
         /\ \A s \in Run : s # r => /\ pc'[s] = pc[s]
                                    /\ tries'[s] = tries[s]
                                    /\ src'[s] = src[s]
         /\ pc'[r] = "idle" \/ (pc'[r] = "curl" /\ tries'[r] \in 1..Tries)
         /\ src'[r] = src[r] \/ src'[r] = "none"
<1>1. tries[r] \in 1..Tries /\ tries'[r] = tries[r] - 1
  BY DEF Failed, TriesLeft, TypeOK, Counted
<1>2. tries' = [tries EXCEPT ![r] = tries[r] - 1]
  BY DEF Failed, TriesLeft
<1>3. CASE tries'[r] > 0 /\ pc' = [pc EXCEPT ![r] = "curl"] /\ UNCHANGED src
  BY <1>1, <1>2, <1>3, SizesAssumption DEF TypeOK, Downloading
<1>4. CASE FetchFails(r)
  BY <1>1, <1>2, <1>4, SizesAssumption DEF TypeOK, FetchFails
<1> QED
  BY <1>3, <1>4 DEF Failed

LEMMA OthersType ==
  ASSUME NEW r \in Run, TypeOK, cut' = Others(r)
  PROVE  /\ cut' \in [Run -> BOOLEAN]
         /\ \A s \in Run : cut[s] => cut'[s]
         /\ \A s \in Run : s # r /\ pc[s] \in Reading => cut'[s]
BY Zenon DEF Others, TypeOK

--------------------------------------------------------------------------------
(* One lemma for each kind of step.  The conjuncts of IInv are proved apart.  *)
LEMMA BeginInv == ASSUME IInv, NEW r \in Run, Begin(r) PROVE IInv'
<1> USE DEF Begin, Open, IInv, TypeOK, Reading, Checking, Downloading
<1>1. TypeOK'
  OBVIOUS
<1>2. Counted' /\ NoSource'
  BY DEF Counted, NoSource
<1>3. Prefix'
  BY DEF Prefix
<1>4. Vouched' /\ UnpackedGenuine'
  BY DEF Vouched, UnpackedGenuine
<1> QED
  BY <1>1, <1>2, <1>3, <1>4

LEMMA ReadInv == ASSUME IInv, NEW r \in Run, Read(r) PROVE IInv'
<1> USE DEF Read, IInv, Reading, Checking, Downloading
<1>1. off[r] \in Nat /\ Len(file) \in Nat /\ ok[r] \in BOOLEAN
  BY DEF TypeOK
<1>2. ok' \in [Run -> BOOLEAN]
  BY Zenon DEF TypeOK
<1>3. TypeOK'
  BY <1>2 DEF TypeOK
<1>4. Counted' /\ NoSource' /\ UnpackedGenuine'
  BY DEF Counted, NoSource, UnpackedGenuine
<1>5. off'[r] = off[r] + 1 /\ \A s \in Run : s # r => off'[s] = off[s]
  BY DEF TypeOK
<1>6. ok'[r] <=> ok[r] /\ file[off[r] + 1] = "good"
  BY Zenon DEF TypeOK
<1>7. \A s \in Run : s # r => ok'[s] = ok[s]
  BY Zenon DEF TypeOK
<1>8. Prefix'
  <2> SUFFICES ASSUME NEW s \in Run, pc[s] \in Reading, ~cut[s]
               PROVE  /\ off'[s] <= Len(file)
                      /\ ok'[s] => \A i \in 1..off'[s] : file[i] = "good"
    BY DEF Prefix
  <2>1. CASE s # r
    BY <2>1, <1>5, <1>7 DEF Prefix
  <2>2. CASE s = r
    <3>1. off'[r] <= Len(file)
      BY <1>1, <1>5
    <3>2. ASSUME ok'[r], NEW i \in 1..off'[r] PROVE file[i] = "good"
      <4>1. i \in 1..off[r] \/ i = off[r] + 1
        BY <3>2, <1>1, <1>5
      <4> QED
        BY <4>1, <3>2, <2>2, <1>6 DEF Prefix
    <3> QED
      BY <3>1, <3>2, <2>2
  <2> QED
    BY <2>1, <2>2
<1>9. Vouched'
  <2> SUFFICES ASSUME NEW s \in Run, pc[s] = "tar", ~cut[s]
               PROVE  file = Genuine /\ ok'[s]
    BY DEF Vouched
  <2>1. file = Genuine /\ ok[s]
    BY DEF Vouched
  <2>2. CASE s = r
    <3>1. off[r] + 1 \in 1..Blocks
      BY <2>1, <1>1, GenuineIsFile, SizesAssumption
    <3> QED
      BY <3>1, <2>1, <2>2, <1>6, GenuineIsFile
  <2> QED
    BY <2>1, <2>2, <1>7
<1> QED
  BY <1>3, <1>4, <1>8, <1>9

(* The verdict's own lemma: with nobody writing, it is about the whole file. *)
LEMMA MatchVouches ==
  ASSUME IInv, NEW r \in Run, pc[r] \in Reading, AtEnd(r), ReadGenuine(r), ~cut[r]
  PROVE  file = Genuine
<1>1. off[r] \in Nat /\ Len(file) \in Nat /\ Blocks \in Nat
  BY SizesAssumption DEF IInv, TypeOK
<1>2. off[r] <= Len(file) /\ \A i \in 1..off[r] : file[i] = "good"
  BY DEF IInv, Prefix, ReadGenuine
<1>3. Len(file) = Blocks /\ off[r] = Blocks
  BY <1>1, <1>2 DEF AtEnd, ReadGenuine
<1> QED
  BY <1>2, <1>3, AllGood DEF IInv, TypeOK

LEMMA HashOkInv == ASSUME IInv, NEW r \in Run, HashOk(r) PROVE IInv'
<1> USE DEF HashOk, Open, IInv, Reading, Checking, Downloading
<1>1. TypeOK'
  BY DEF TypeOK
<1>2. Counted' /\ NoSource' /\ UnpackedGenuine'
  BY DEF TypeOK, Counted, NoSource, UnpackedGenuine
<1>3. Prefix'
  BY DEF TypeOK, Prefix
<1>4. ~cut[r] => file = Genuine
  BY MatchVouches DEF Matches
<1>5. Vouched'
  BY <1>4 DEF TypeOK, Vouched
<1> QED
  BY <1>1, <1>2, <1>3, <1>5

LEMMA FirstHashFailsInv ==
  ASSUME IInv, NEW r \in Run, FirstHashFails(r) PROVE IInv'
<1> USE DEF FirstHashFails, IInv, TypeOK, Reading, Checking, Downloading
<1>1. TypeOK'
  BY SizesAssumption
<1>2. Counted' /\ NoSource' /\ UnpackedGenuine'
  BY SizesAssumption DEF Counted, NoSource, UnpackedGenuine
<1>3. Prefix' /\ Vouched'
  BY DEF Prefix, Vouched
<1> QED
  BY <1>1, <1>2, <1>3

LEMMA FailedInv ==
  ASSUME IInv, NEW r \in Run, Failed(r), pc[r] \in Downloading \union {"again"},
         UNCHANGED <<file, off, ok, cut>>
  PROVE  IInv'
<1>1. /\ tries' \in [Run -> 0..Tries]
      /\ pc' \in [Run -> {"idle"} \union Reading \union Downloading]
      /\ src' \in [Run -> {"none", "pristine", "corrupt"}]
      /\ \A s \in Run : s # r => /\ pc'[s] = pc[s]
                                 /\ tries'[s] = tries[s]
                                 /\ src'[s] = src[s]
      /\ pc'[r] = "idle" \/ (pc'[r] = "curl" /\ tries'[r] \in 1..Tries)
      /\ src'[r] = src[r] \/ src'[r] = "none"
  BY FailedType DEF IInv
<1>2. pc'[r] \notin Reading /\ pc'[r] # "again" /\ pc[r] # "idle"
  BY <1>1 DEF Reading, Checking, Downloading
<1>3. TypeOK'
  BY <1>1 DEF IInv, TypeOK
<1>4. Counted'
  BY <1>1, <1>2 DEF IInv, Counted, Downloading
<1>5. NoSource' /\ UnpackedGenuine'
  BY <1>1, <1>2 DEF IInv, NoSource, UnpackedGenuine
<1>6. Prefix'
  BY <1>1, <1>2 DEF IInv, Prefix
<1>7. Vouched'
  BY <1>1, <1>2 DEF IInv, Vouched, Reading
<1> QED
  BY <1>3, <1>4, <1>5, <1>6, <1>7 DEF IInv

(* curl writes: whoever reads is marked, so nothing is claimed of him. *)
LEMMA CurlWritingInv ==
  ASSUME IInv, NEW r \in Run, pc[r] \in Downloading, cut' = Others(r),
         file' \in Seq({"good", "bad", "hole"}), off' \in [Run -> Nat],
         pc' = [pc EXCEPT ![r] = "write"], UNCHANGED <<tries, ok, src>>
  PROVE  IInv'
<1>1. /\ cut' \in [Run -> BOOLEAN]
      /\ \A s \in Run : cut[s] => cut'[s]
      /\ \A s \in Run : s # r /\ pc[s] \in Reading => cut'[s]
  BY OthersType DEF IInv
<1>2. pc'[r] = "write" /\ \A s \in Run : s # r => pc'[s] = pc[s]
  BY DEF IInv, TypeOK
<1>3. TypeOK'
  BY <1>1 DEF IInv, TypeOK, Downloading
<1>4. Counted' /\ NoSource'
  BY <1>2 DEF IInv, Counted, NoSource, Downloading
<1>5. UnpackedGenuine'
  BY <1>1 DEF IInv, UnpackedGenuine
<1>6. \A s \in Run : pc'[s] \in Reading => cut'[s]
  BY <1>1, <1>2 DEF Reading, Checking
<1>7. Prefix' /\ Vouched'
  BY <1>6 DEF Prefix, Vouched, Reading
<1> QED
  BY <1>3, <1>4, <1>5, <1>7 DEF IInv

LEMMA CurlOpensInv == ASSUME IInv, NEW r \in Run, CurlOpens(r) PROVE IInv'
<1>1. off' \in [Run -> Nat] /\ file' \in Seq({"good", "bad", "hole"})
  BY DEF CurlOpens, IInv, TypeOK
<1> QED
  BY <1>1, CurlWritingInv DEF CurlOpens, Downloading

LEMMA CurlWritesInv == ASSUME IInv, NEW r \in Run, CurlWrites(r) PROVE IInv'
<1>1. off' \in [Run -> Nat]
  BY DEF CurlWrites, IInv, TypeOK
<1>2. file' \in Seq({"good", "bad", "hole"})
  <2>1. PICK b \in {"good", "bad"} : file' = Written(file, off[r], b)
    BY DEF CurlWrites
  <2> QED
    BY <2>1, WrittenIsFile DEF IInv, TypeOK
<1>3. pc' = [pc EXCEPT ![r] = "write"]
  BY DEF CurlWrites, IInv, TypeOK
<1> QED
  BY <1>1, <1>2, <1>3, CurlWritingInv DEF CurlWrites, Downloading

LEMMA CurlEndsInv == ASSUME IInv, NEW r \in Run, CurlEnds(r) PROVE IInv'
<1> USE DEF CurlEnds, Open, IInv, Reading, Checking, Downloading
<1>1. TypeOK'
  BY DEF TypeOK
<1>2. Counted' /\ NoSource'
  BY DEF TypeOK, Counted, NoSource
<1>3. UnpackedGenuine'
  BY DEF TypeOK, NoSource, UnpackedGenuine
<1>4. Prefix' /\ Vouched'
  BY DEF TypeOK, Prefix, Vouched
<1> QED
  BY <1>1, <1>2, <1>3, <1>4

LEMMA UnpackInv ==
  ASSUME IInv, NEW r \in Run, Unpacks(r) \/ UnpackFails(r) PROVE IInv'
<1> USE DEF Unpacks, UnpackFails, FetchFails, IInv, Reading, Checking, Downloading
<1>1. TypeOK'
  BY DEF TypeOK
<1>2. /\ pc'[r] = "idle" /\ UNCHANGED <<file, tries, off, ok, cut>>
      /\ \A s \in Run : s # r => pc'[s] = pc[s] /\ src'[s] = src[s]
  BY DEF TypeOK
<1>5. Counted' /\ NoSource'
  BY <1>2 DEF Counted, NoSource
<1>6. Prefix' /\ Vouched'
  BY <1>2 DEF Prefix, Vouched
<1>3. ~cut[r] => ReadGenuine(r)
  <2> SUFFICES ASSUME ~cut[r] PROVE ReadGenuine(r)
    OBVIOUS
  <2>1. file = Genuine /\ ok[r] /\ off[r] <= Len(file) /\ off[r] >= Len(file)
    BY DEF Vouched, Prefix, AtEnd
  <2>2. off[r] \in Nat /\ Len(file) = Blocks /\ Blocks \in Nat
    BY <2>1, GenuineIsFile, SizesAssumption DEF TypeOK
  <2> QED
    BY <2>1, <2>2 DEF ReadGenuine
<1>4. UnpackedGenuine'
  BY <1>3 DEF TypeOK, UnpackedGenuine
<1> QED
  BY <1>1, <1>5, <1>6, <1>4

LEMMA KilledInv == ASSUME IInv, NEW r \in Run, Killed(r) PROVE IInv'
<1> USE DEF Killed, IInv, TypeOK, Reading, Checking, Downloading
<1>1. TypeOK'
  OBVIOUS
<1>2. Counted' /\ NoSource' /\ UnpackedGenuine'
  BY DEF Counted, NoSource, UnpackedGenuine
<1>3. Prefix' /\ Vouched'
  BY DEF Prefix, Vouched
<1> QED
  BY <1>1, <1>2, <1>3

LEMMA InvInit == Init => IInv
<1> SUFFICES ASSUME Init PROVE IInv
  OBVIOUS
<1>1. TypeOK
  BY TypeInit
<1>2. Counted /\ NoSource /\ Prefix /\ Vouched /\ UnpackedGenuine
  BY DEF Init, Counted, NoSource, Prefix, Vouched, UnpackedGenuine,
         Reading, Checking, Downloading
<1> QED
  BY <1>1, <1>2 DEF IInv

LEMMA InvNext == ASSUME IInv, [Next]_vars PROVE IInv'
<1>1. CASE UNCHANGED vars
  BY <1>1 DEF vars, IInv, TypeOK, Counted, NoSource, Prefix, Vouched, UnpackedGenuine
<1>2. ASSUME NEW r \in Run, Begin(r) PROVE IInv'
  BY <1>2, BeginInv
<1>3. ASSUME NEW r \in Run, Killed(r) PROVE IInv'
  BY <1>3, KilledInv
<1>4. ASSUME NEW r \in Run, Step(r) PROVE IInv'
  <2>1. CASE HashFails(r)
    BY <2>1, FailedInv DEF HashFails
  <2>2. CASE CurlFails(r)
    BY <2>2, FailedInv DEF CurlFails
  <2> QED
    BY <1>4, <2>1, <2>2, ReadInv, HashOkInv, FirstHashFailsInv, CurlOpensInv,
       CurlWritesInv, CurlEndsInv, UnpackInv DEF Step
<1> QED
  BY <1>1, <1>2, <1>3, <1>4 DEF Next

--------------------------------------------------------------------------------
LEMMA SettledStep == ASSUME TypeOK, Settled, [Next]_vars PROVE Settled'
<1> USE DEF Settled, TypeOK, Reading, Checking, Downloading
<1>1. CASE UNCHANGED vars
  BY <1>1 DEF vars
<1>2. Len(file) = Blocks /\ Blocks \in Nat /\ \A i \in 1..Blocks : file[i] = "good"
  BY GenuineIsFile, SizesAssumption
<1>3. ASSUME NEW r \in Run, pc[r] \in Reading, AtEnd(r) PROVE ReadGenuine(r)
  BY <1>2, <1>3 DEF AtEnd, ReadGenuine
<1>4. ASSUME NEW r \in Run, Begin(r) PROVE Settled'
  BY <1>2, <1>4 DEF Begin, Open
<1>5. ASSUME NEW r \in Run, Killed(r) PROVE Settled'
  BY <1>5 DEF Killed
<1>6. ASSUME NEW r \in Run, Read(r) PROVE Settled'
  <2>1. off[r] + 1 \in 1..Blocks
    BY <1>2, <1>6 DEF Read
  <2>2. file[off[r] + 1] = "good" /\ off'[r] = off[r] + 1
    BY <1>2, <1>6, <2>1 DEF Read
  <2>3. ok'[r]
    BY Zenon, <1>6, <2>2 DEF Read
  <2>4. \A s \in Run : s # r => ok'[s] = ok[s] /\ off'[s] = off[s]
    BY Zenon, <1>6 DEF Read
  <2> QED
    BY <1>2, <1>6, <2>1, <2>2, <2>3, <2>4 DEF Read
<1>7. ASSUME NEW r \in Run, HashOk(r) PROVE Settled'
  BY <1>2, <1>7 DEF HashOk, Open
<1>8. ASSUME NEW r \in Run, Unpacks(r) PROVE Settled'
  BY <1>8 DEF Unpacks
<1>9. ASSUME NEW r \in Run,
             FirstHashFails(r) \/ HashFails(r) \/ UnpackFails(r)
      PROVE  FALSE
  BY <1>3, <1>9 DEF FirstHashFails, HashFails, UnpackFails, Matches
<1>10. ASSUME NEW r \in Run,
              CurlOpens(r) \/ CurlWrites(r) \/ CurlEnds(r) \/ CurlFails(r)
       PROVE  FALSE
  BY <1>10 DEF CurlOpens, CurlWrites, CurlEnds, CurlFails
<1> QED
  BY <1>1, <1>4, <1>5, <1>6, <1>7, <1>8, <1>9, <1>10 DEF Next, Step

(* Every state of dlcache and its runs has the types declared: the counter of *)
(* tries in particular never goes below zero (dllib.sh:22-27).                *)
THEOREM TypeCorrect == Spec => []TypeOK
<1>1. IInv => TypeOK
  BY DEF IInv
<1> QED
  BY <1>1, InvInit, InvNext, PTL DEF Spec

(* A run unpacks something else than the genuine source only when another one *)
(* wrote to the cached file after it had begun to hash it (dllib.sh:15-36).   *)
THEOREM UnpackedCorrect == Spec => []UnpackedGenuine
<1>1. IInv => UnpackedGenuine
  BY DEF IInv
<1> QED
  BY <1>1, InvInit, InvNext, PTL DEF Spec

(* A cache that holds the genuine file, and that nobody has read otherwise or *)
(* is writing to, stays so: no later run downloads again (dllib.sh:15).       *)
THEOREM SettledCorrect == Spec => SettledStays
<1>1. TypeOK /\ [Next]_vars => [Settled => Settled']_vars
  BY SettledStep
<1> QED
  BY <1>1, TypeCorrect, PTL DEF Spec, SettledStays
================================================================================
