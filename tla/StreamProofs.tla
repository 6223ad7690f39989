------------------------------ MODULE StreamProofs ------------------------------
(***************************************************************************)
(* Proofs about the functions of compat/ within a thread: about GetDelim,  *)
(* for all threads, files, buffer sizes and limits; about Descriptors, for *)
(* all threads, descriptors, targets and the systems these can meet; and   *)
(* about CompatCalls, for all targets there can be and for all times,      *)
(* strings, buffers and services that are asked about.                     *)
(***************************************************************************)
EXTENDS GetDelim, CompatCalls, FiniteSetTheorems, SequenceTheorems, WellFoundedInduction, TLAPS

--------------------------------------------------------------------------------
(* getline and getdelim. *)

LEMMA TypeInit == Init => TypeOK
<1>1. Len(File) \in Nat
  BY GetDelimAssumption, LenProperties
<1>2. 0 \in 0 .. Len(File)
  BY <1>1
<1>3. Sizes \subseteq 0 .. SSIZE_MAX /\ delim \in Char
  BY GetDelimAssumption
<1>4. <<>> \in Seq(Char)
  BY EmptySeq
<1>5. ASSUME Init PROVE bufsiz \in [Thread -> 0 .. SSIZE_MAX]
  BY <1>3, <1>5 DEF Init
<1> QED
  BY <1>2, <1>3, <1>4, <1>5 DEF Init, TypeOK

LEMMA CharRead ==
  ASSUME NEW i \in 0 .. Len(File), i # Len(File)
  PROVE  File[i + 1] \in Char /\ i + 1 \in 0 .. Len(File)
<1>1. Len(File) \in Nat
  BY GetDelimAssumption, LenProperties
<1>2. i + 1 \in 1 .. Len(File)
  BY <1>1
<1> QED
  BY <1>1, <1>2, GetDelimAssumption, ElementOfSeq

LEMMA FailType ==
  ASSUME TypeOK, NEW t \in Thread, Fail(t)
  PROVE  TypeOK'
BY GetDelimAssumption DEF Fail, TypeOK, AfterFailure, Set, Goto, buffer

LEMMA TypeNext == ASSUME TypeOK, [Next]_vars PROVE TypeOK'
<1>1. CASE UNCHANGED vars
  BY <1>1 DEF TypeOK, vars, buffer
<1>2. ASSUME NEW t \in Thread, Call(t) PROVE TypeOK'
  BY <1>2 DEF Call, TypeOK, Set, Goto, buffer
<1>3. ASSUME NEW t \in Thread, First(t) PROVE TypeOK'
  <2>1. BUFSIZ \in 0 .. SSIZE_MAX
    BY GetDelimAssumption
  <2>2. pc' \in [Thread -> {"idle", "first", "lock", "getc", "room", "store", "unlock"}]
    BY <1>3 DEF First, TypeOK, Goto
  <2>3. bufsiz' \in [Thread -> 0 .. SSIZE_MAX]
    BY <1>3, <2>1 DEF First, TypeOK, Set
  <2>4. ret' \in [Thread -> Nat]
    BY <1>3 DEF First, TypeOK, Set
  <2> QED
    BY <1>3, <2>2, <2>3, <2>4 DEF First, TypeOK
<1>4. ASSUME NEW t \in Thread, Lock(t) PROVE TypeOK'
  BY <1>4, EmptySeq DEF Lock, TypeOK, Set, Goto
<1>5. ASSUME NEW t \in Thread, Getc(t) PROVE TypeOK'
  <2>1. pos \in 0 .. Len(File) /\ pos # Len(File)
    BY <1>5 DEF Getc, Eof, TypeOK
  <2>2. File[pos + 1] \in Char /\ pos + 1 \in 0 .. Len(File)
    BY <2>1, CharRead
  <2> QED
    BY <1>5, <2>2 DEF Getc, TypeOK, Set, Goto, buffer
<1>6. ASSUME NEW t \in Thread, EndOfFile(t) PROVE TypeOK'
  <2>1. n[t] \in Nat /\ n[t] + 1 \in Nat
    BY DEF TypeOK
  <2> QED
    BY <1>6, <2>1 DEF EndOfFile, Terminator, TypeOK, Set, Goto
<1>7. ASSUME NEW t \in Thread, ReadError(t) \/ Overflow(t) \/ NoMemory(t) PROVE TypeOK'
  BY <1>7, FailType DEF ReadError, Overflow, NoMemory
<1>8. ASSUME NEW t \in Thread, Grow(t) PROVE TypeOK'
  <2>1. bufsiz[t] \in 0 .. SSIZE_MAX
    BY DEF TypeOK
  <2>2. 2 * bufsiz[t] \in 0 .. SSIZE_MAX
    BY <1>8, <2>1, GetDelimAssumption DEF Grow, TooLarge
  <2> QED
    BY <1>8, <2>2 DEF Grow, TypeOK, Set, Goto
<1>9. ASSUME NEW t \in Thread, Store(t) PROVE TypeOK'
  <2>1. Append(text[t], c[t]) \in Seq(Char)
    BY AppendProperties DEF TypeOK
  <2>2. n[t] + 1 \in Nat /\ n[t] + 2 \in Nat
    BY SMTT(30) DEF TypeOK
  <2> QED
    <3>1. /\ text' \in [Thread -> Seq(Char)] /\ n' \in [Thread -> Nat]
          /\ top' \in [Thread -> Nat] /\ ret' \in [Thread -> Nat]
      BY <1>9, <2>1, <2>2 DEF Store, TypeOK, Set
    <3>2. pc' \in [Thread -> {"idle", "first", "lock", "getc", "room", "store", "unlock"}]
      BY <1>9 DEF Store, TypeOK, Goto
    <3> QED
      BY <1>9, <3>1, <3>2 DEF Store, TypeOK
<1>10. ASSUME NEW t \in Thread, Unlock(t) PROVE TypeOK'
  BY <1>10 DEF Unlock, TypeOK, Set, Goto, buffer
<1> QED
  BY <1>1, <1>2, <1>3, <1>4, <1>5, <1>6, <1>7, <1>8, <1>9, <1>10 DEF Next, Step

(* Every variable keeps its type; *bufsiz stays below SSIZE_MAX.           *)
THEOREM TypeCorrect == Spec => []TypeOK
<1>1. TypeOK /\ [Next]_vars => TypeOK'
  BY TypeNext
<1> QED
  BY <1>1, TypeInit, PTL DEF Spec

--------------------------------------------------------------------------------
(* Bounds.  Between two characters there is room for one more: the         *)
(* terminator at the end of the file needs it.  A character is stored only *)
(* when there is room for two.                                             *)
RoomOf(t) ==
  /\ top[t] <= bufsiz[t]
  /\ pc[t] \in {"lock", "getc", "room", "store"} => bufsiz[t] # 0
  /\ pc[t] \in {"getc", "room"} => n[t] + 1 <= bufsiz[t]
  /\ pc[t] = "store" => n[t] + 2 <= bufsiz[t]

Room == \A t \in Thread : RoomOf(t)

LEMMA Sized ==
  ASSUME TypeOK, NEW t \in Thread
  PROVE  bufsiz[t] \in Nat /\ n[t] \in Nat /\ top[t] \in Nat
BY GetDelimAssumption DEF TypeOK

LEMMA RoomInit == Init => Room
<1> SUFFICES ASSUME Init PROVE Room
  OBVIOUS
<1>1. ASSUME NEW t \in Thread PROVE RoomOf(t)
  <2>1. bufsiz[t] \in Nat
    BY TypeInit, Sized
  <2>2. top[t] = 0 /\ pc[t] = "idle"
    BY DEF Init
  <2> QED
    BY <2>1, <2>2 DEF RoomOf
<1> QED
  BY <1>1 DEF Room

(* A step of t leaves Room as it was for every other thread.               *)
LEMMA RoomOthers ==
  ASSUME TypeOK, Room, NEW t \in Thread, Call(t) \/ Step(t),
         NEW u \in Thread, u # t
  PROVE  /\ top'[u] = top[u] /\ bufsiz'[u] = bufsiz[u]
         /\ pc'[u] = pc[u] /\ n'[u] = n[u]
<1>1. pc'[u] = pc[u]
  BY DEF Call, Step, First, Lock, Getc, EndOfFile, ReadError, Grow, Overflow,
         NoMemory, Store, Unlock, Fail, Goto, TypeOK
<1>2. bufsiz'[u] = bufsiz[u]
  BY DEF Call, Step, First, Lock, Getc, EndOfFile, ReadError, Grow, Overflow,
         NoMemory, Store, Unlock, Fail, Set, TypeOK, buffer
<1>3. n'[u] = n[u]
  BY DEF Call, Step, First, Lock, Getc, EndOfFile, ReadError, Grow, Overflow,
         NoMemory, Store, Unlock, Fail, Set, TypeOK, buffer
<1>4. top'[u] = top[u]
  BY DEF Call, Step, First, Lock, Getc, EndOfFile, ReadError, Grow, Overflow,
         NoMemory, Store, Unlock, Fail, Set, TypeOK, buffer, Terminator
<1> QED
  BY <1>1, <1>2, <1>3, <1>4

LEMMA RoomOwn ==
  ASSUME TypeOK, NEW t \in Thread, RoomOf(t), Call(t) \/ Step(t)
  PROVE  RoomOf(t)'
<1>0. bufsiz[t] \in Nat /\ n[t] \in Nat /\ top[t] \in Nat
  BY Sized
<1>a. pc \in [Thread -> {"idle", "first", "lock", "getc", "room", "store", "unlock"}]
  BY DEF TypeOK
<1>1. CASE Call(t)
  BY <1>1, <1>a DEF Call, RoomOf, Set, Goto, buffer
<1>2. CASE First(t)
  <2>1. BUFSIZ \in Nat \ {0}
    BY GetDelimAssumption
  <2>2. top' = top /\ n' = n
    BY <1>2 DEF First
  <2>3. CASE bufsiz[t] # 0 /\ bufsiz' = bufsiz /\ Goto(t, "lock")
    BY <1>a, <2>2, <2>3 DEF RoomOf, Goto
  <2>5. CASE bufsiz' = bufsiz /\ Goto(t, "idle")
    BY <1>a, <2>2, <2>5 DEF RoomOf, Goto
  <2>4. CASE bufsiz[t] = 0 /\ bufsiz' = Set(bufsiz, t, BUFSIZ) /\ Goto(t, "lock")
    <3>1. bufsiz'[t] = BUFSIZ
      BY <2>4 DEF Set, TypeOK
    <3>2. pc'[t] = "lock"
      BY <2>4, <1>a DEF Goto
    <3> QED
      BY <1>0, <2>1, <2>2, <2>4, <3>1, <3>2 DEF RoomOf
  <2> QED
    BY <1>2, <2>3, <2>4, <2>5 DEF First
<1>3. CASE Lock(t)
  <2>1. pc[t] = "lock" /\ pc'[t] = "getc" /\ bufsiz' = bufsiz
    BY <1>3, <1>a DEF Lock, At, Goto
  <2>2. n'[t] = 0 /\ top'[t] = 0
    BY <1>3 DEF Lock, Set, TypeOK
  <2> QED
    BY <1>0, <2>1, <2>2 DEF RoomOf
<1>4. CASE Getc(t)
  <2>1. pc[t] = "getc" /\ pc'[t] = "room"
    BY <1>4, <1>a DEF Getc, At, Goto
  <2> QED
    BY <1>4, <2>1 DEF Getc, RoomOf, buffer
<1>5. CASE EndOfFile(t)
  <2>1. pc[t] = "getc" /\ pc'[t] = "unlock"
    BY <1>5, <1>a DEF EndOfFile, At, Goto
  <2>2. top'[t] \in {top[t], n[t] + 1} /\ bufsiz' = bufsiz
    BY <1>5 DEF EndOfFile, Terminator, Set, TypeOK
  <2> QED
    BY <2>1, <2>2 DEF RoomOf
<1>6. CASE ReadError(t) \/ Overflow(t) \/ NoMemory(t)
  <2>1. pc'[t] = "unlock" /\ bufsiz' = bufsiz /\ top' = top
    BY <1>6, <1>a DEF ReadError, Overflow, NoMemory, Fail, AfterFailure, Goto, buffer
  <2> QED
    BY <2>1 DEF RoomOf
<1>7. CASE Grow(t)
  <2>1. pc[t] = "room" /\ pc'[t] = "store" /\ n' = n /\ top' = top
    BY <1>7, <1>a DEF Grow, At, Goto
  <2>2. bufsiz'[t] = 2 * bufsiz[t]
    BY <1>7 DEF Grow, Set, TypeOK
  <2> QED
    BY <1>0, <2>1, <2>2 DEF RoomOf
<1>8. CASE Store(t)
  <2>1. n[t] + 2 <= bufsiz[t]
    BY <1>0, <1>8 DEF Store, At, Full, RoomOf
  <2>2. n'[t] = n[t] + 1 /\ bufsiz' = bufsiz
    BY <1>8 DEF Store, Set, TypeOK
  <2>3. top'[t] \in {n[t] + 1, n[t] + 2}
    BY <1>8 DEF Store, Set, TypeOK
  <2>4. pc'[t] \in {"unlock", "getc"}
    BY <1>8, <1>a DEF Store, Goto
  <2> QED
    BY <1>0, <2>1, <2>2, <2>3, <2>4 DEF RoomOf
<1>9. CASE Unlock(t)
  BY <1>9, <1>a DEF Unlock, RoomOf, Goto, buffer
<1> QED
  BY <1>1, <1>2, <1>3, <1>4, <1>5, <1>6, <1>7, <1>8, <1>9 DEF Step

LEMMA RoomNext == ASSUME TypeOK, Room, [Next]_vars PROVE Room'
<1>1. CASE UNCHANGED vars
  BY <1>1 DEF Room, RoomOf, vars, buffer
<1>2. ASSUME NEW t \in Thread, Call(t) \/ Step(t), NEW u \in Thread
      PROVE  RoomOf(u)'
  <2>1. CASE u = t
    BY <1>2, <2>1, RoomOwn DEF Room, RoomOf
  <2>2. CASE u # t
    BY <1>2, <2>2, RoomOthers DEF Room, RoomOf
  <2> QED
    BY <2>1, <2>2
<1> QED
  BY <1>1, <1>2 DEF Next, Room, RoomOf

(* InBounds: the highest index written, terminator included, lies inside   *)
(* the block, for every size a caller brings.                              *)
THEOREM BoundsCorrect == Spec => []InBounds
<1>1. Room => InBounds
  BY DEF Room, RoomOf, InBounds
<1>2. TypeOK /\ Room /\ [Next]_vars => TypeOK' /\ Room'
  BY TypeNext, RoomNext
<1> QED
  BY <1>1, <1>2, TypeInit, RoomInit, PTL DEF Spec

--------------------------------------------------------------------------------
(* Whole lines.  The FILE's lock keeps all others from reading as long as  *)
(* a call reads, so that what it stored stays the part of the file between *)
(* where it began and where the file is now.                               *)
Reads == {"getc", "room", "store", "unlock"}

HolderReads == \A t \in Thread : pc[t] \in Reads <=> holder = t

(* text[t] holds the k characters of the file after start[t], and no       *)
(* delimiter among the first m.                                            *)
CopyOf(t, k, m) ==
  /\ Len(text[t]) = k
  /\ \A i \in 1 .. k : text[t][i] = File[start[t] + i]
  /\ \A i \in 1 .. m : text[t][i] # delim

LineOf(t) ==
  /\ pc[t] = "getc" =>
       start[t] + n[t] = pos /\ CopyOf(t, n[t], n[t])
  /\ pc[t] \in {"room", "store"} =>
       start[t] + n[t] + 1 = pos /\ c[t] = File[pos] /\ CopyOf(t, n[t], n[t])
  /\ pc[t] = "unlock" /\ ret[t] # 0 =>
       /\ start[t] + ret[t] = pos /\ CopyOf(t, ret[t], ret[t] - 1)
       /\ text[t][ret[t]] = delim \/ Eof

Lines == HolderReads /\ \A t \in Thread : LineOf(t)

LEMMA LinesInit == Init => Lines
BY GetDelimAssumption DEF Init, Lines, HolderReads, LineOf, Reads

(* What a step of t leaves alone.                                          *)
LEMMA LineOthers ==
  ASSUME TypeOK, NEW t \in Thread, Call(t) \/ Step(t), NEW u \in Thread, u # t
  PROVE  /\ pc'[u] = pc[u] /\ n'[u] = n[u] /\ text'[u] = text[u]
         /\ c'[u] = c[u] /\ ret'[u] = ret[u] /\ start'[u] = start[u]
<1> USE DEF Call, Step, First, Lock, Getc, EndOfFile, ReadError, Grow, Overflow,
            NoMemory, Store, Unlock, Fail, TypeOK, buffer
<1>1. pc'[u] = pc[u]
  BY DEF Goto
<1>2. n'[u] = n[u]
  BY DEF Set
<1>3. text'[u] = text[u]
  BY DEF Set
<1>4. c'[u] = c[u]
  BY DEF Set
<1>5. ret'[u] = ret[u]
  BY DEF Set
<1>6. start'[u] = start[u]
  BY DEF Set
<1> QED
  BY <1>1, <1>2, <1>3, <1>4, <1>5, <1>6

(* Only the holder of the FILE reads from it.                              *)
LEMMA PosOthers ==
  ASSUME TypeOK, HolderReads, NEW t \in Thread, Call(t) \/ Step(t),
         NEW u \in Thread, u # t, pc[u] \in Reads
  PROVE  pos' = pos
<1>1. ~At(t, "getc")
  BY DEF HolderReads, At, Reads
<1> QED
  BY <1>1 DEF Call, Step, First, Lock, Getc, EndOfFile, ReadError, Grow, Overflow,
              NoMemory, Store, Unlock, Fail

LEMMA HolderNext ==
  ASSUME TypeOK, HolderReads, NEW t \in Thread, Call(t) \/ Step(t)
  PROVE  HolderReads'
<1>0. /\ pc \in [Thread -> {"idle", "first", "lock", "getc", "room", "store", "unlock"}]
      /\ Nobody \notin Thread
  BY GetDelimAssumption DEF TypeOK
<1>1. CASE Call(t)
  BY <1>0, <1>1 DEF Call, HolderReads, Reads, At, Goto
<1>2. CASE First(t)
  BY <1>0, <1>2 DEF First, HolderReads, Reads, At, Goto
<1>3. CASE Lock(t)
  <2>1. holder = Nobody /\ holder' = t /\ pc' = [pc EXCEPT ![t] = "getc"]
    BY <1>3 DEF Lock, Free, Goto
  <2> QED
    BY <1>0, <2>1 DEF HolderReads, Reads
<1>4. CASE Getc(t) \/ EndOfFile(t) \/ ReadError(t) \/ Grow(t) \/ Overflow(t) \/ NoMemory(t)
  <2>1. pc[t] \in Reads /\ holder' = holder
    BY <1>4 DEF Getc, EndOfFile, ReadError, Grow, Overflow, NoMemory, Fail, At, Reads
  <2>2. \E l \in Reads : pc' = [pc EXCEPT ![t] = l]
    BY <1>4 DEF Getc, EndOfFile, ReadError, Grow, Overflow, NoMemory, Fail, AfterFailure,
                Goto, Reads
  <2> QED
    BY <1>0, <2>1, <2>2 DEF HolderReads
<1>5. CASE Store(t)
  <2>1. pc[t] \in Reads /\ holder' = holder
    BY <1>5 DEF Store, At, Reads
  <2>2. \E l \in Reads : pc' = [pc EXCEPT ![t] = l]
    BY <1>5 DEF Store, Goto, Reads
  <2> QED
    BY <1>0, <2>1, <2>2 DEF HolderReads
<1>6. CASE Unlock(t)
  <2>1. pc[t] = "unlock" /\ holder' = Nobody /\ pc' = [pc EXCEPT ![t] = "idle"]
    BY <1>6 DEF Unlock, At, Goto
  <2>2. holder = t
    BY <2>1 DEF HolderReads, Reads
  <2> QED
    BY <1>0, <2>1, <2>2 DEF HolderReads, Reads
<1> QED
  BY <1>1, <1>2, <1>3, <1>4, <1>5, <1>6 DEF Step

(* A character is read: it is the one after what is stored.                *)
LEMMA LineGetc ==
  ASSUME TypeOK, NEW t \in Thread, LineOf(t), Getc(t)
  PROVE  LineOf(t)'
<1>1. /\ pc[t] = "getc" /\ pc'[t] = "room" /\ pos' = pos + 1 /\ c'[t] = File[pos + 1]
      /\ n' = n /\ text' = text /\ start' = start
  BY DEF Getc, At, Goto, Set, buffer, TypeOK
<1>2. n[t] \in Nat /\ pos \in Nat /\ start[t] \in Nat
  <2>1. Len(File) \in Nat
    BY GetDelimAssumption, LenProperties
  <2> QED
    BY <2>1 DEF TypeOK
<1>3. start[t] + n[t] = pos /\ CopyOf(t, n[t], n[t])
  BY <1>1 DEF LineOf
<1>4. start'[t] + n'[t] + 1 = pos'
  BY <1>1, <1>2, <1>3
<1>5. CopyOf(t, n[t], n[t])'
  BY <1>1, <1>3 DEF CopyOf
<1> QED
  BY <1>1, <1>4, <1>5 DEF LineOf

LEMMA LineStore ==
  ASSUME TypeOK, NEW t \in Thread, LineOf(t), Store(t)
  PROVE  LineOf(t)'
<1>1. /\ pc[t] \in {"room", "store"} /\ pos' = pos /\ c' = c /\ start' = start
      /\ n'[t] = n[t] + 1 /\ text'[t] = Append(text[t], c[t])
      /\ c[t] = delim => pc'[t] = "unlock" /\ ret'[t] = n[t] + 1
      /\ c[t] # delim => pc'[t] = "getc"
  BY DEF Store, At, Goto, Set, TypeOK
<1>2. n[t] \in Nat /\ pos \in Nat /\ start[t] \in Nat /\ c[t] \in Char /\ text[t] \in Seq(Char)
  <2>1. Len(File) \in Nat
    BY GetDelimAssumption, LenProperties
  <2> QED
    BY <2>1 DEF TypeOK
<1>3. start[t] + n[t] + 1 = pos /\ c[t] = File[pos] /\ CopyOf(t, n[t], n[t])
  BY <1>1 DEF LineOf
<1> DEFINE s == Append(text[t], c[t])
<1>4. /\ Len(s) = n[t] + 1 /\ s[n[t] + 1] = c[t]
      /\ \A i \in 1 .. n[t] : s[i] = text[t][i]
  BY <1>2, <1>3, AppendProperties DEF CopyOf
<1> HIDE DEF s
<1>5. \A i \in 1 .. n[t] + 1 : s[i] = File[start[t] + i]
  <2> TAKE i \in 1 .. n[t] + 1
  <2>1. CASE i = n[t] + 1
    BY <1>2, <1>3, <1>4, <2>1
  <2>2. CASE i # n[t] + 1
    <3>1. i \in 1 .. n[t]
      BY <1>2, <2>2
    <3> QED
      BY <1>3, <1>4, <3>1 DEF CopyOf
  <2> QED
    BY <2>1, <2>2
<1>6. \A i \in 1 .. n[t] : s[i] # delim
  BY <1>3, <1>4 DEF CopyOf
<1>7. text'[t] = s
  BY <1>1 DEF s
<1>8. CASE c[t] = delim
  <2>1. pc'[t] = "unlock" /\ ret'[t] = n[t] + 1 /\ ret'[t] - 1 = n[t]
    BY <1>1, <1>2, <1>8
  <2>2. CopyOf(t, ret[t], ret[t] - 1)'
    BY <1>1, <1>4, <1>5, <1>6, <1>7, <2>1 DEF CopyOf
  <2>3. start'[t] + ret'[t] = pos'
    BY <1>1, <1>2, <1>3, <2>1
  <2>4. text'[t][ret'[t]] = delim
    BY <1>4, <1>7, <1>8, <2>1
  <2> QED
    BY <2>1, <2>2, <2>3, <2>4 DEF LineOf
<1>9. CASE c[t] # delim
  <2>1. pc'[t] = "getc" /\ n'[t] = n[t] + 1
    BY <1>1, <1>9
  <2>2. \A i \in 1 .. n[t] + 1 : s[i] # delim
    BY <1>2, <1>4, <1>6, <1>9
  <2>3. CopyOf(t, n[t], n[t])'
    BY <1>1, <1>4, <1>5, <1>7, <2>1, <2>2 DEF CopyOf
  <2>4. start'[t] + n'[t] = pos'
    BY <1>1, <1>2, <1>3, <2>1
  <2> QED
    BY <2>1, <2>3, <2>4 DEF LineOf
<1> QED
  BY <1>8, <1>9

LEMMA LineOwn ==
  ASSUME TypeOK, NEW t \in Thread, LineOf(t), Call(t) \/ Step(t)
  PROVE  LineOf(t)'
<1>0. /\ pc \in [Thread -> {"idle", "first", "lock", "getc", "room", "store", "unlock"}]
      /\ Len(File) \in Nat /\ n[t] \in Nat /\ pos \in Nat /\ start[t] \in Nat
  BY GetDelimAssumption, LenProperties DEF TypeOK
<1>1. CASE Call(t) \/ First(t) \/ Unlock(t)
  <2>1. pc'[t] \in {"first", "lock", "idle"}
    BY <1>0, <1>1 DEF Call, First, Unlock, Goto
  <2> QED
    BY <2>1 DEF LineOf
<1>2. CASE Lock(t)
  <2>1. /\ pc'[t] = "getc" /\ n'[t] = 0 /\ text'[t] = <<>> /\ start'[t] = pos /\ pos' = pos
    BY <1>0, <1>2 DEF Lock, Goto, Set, TypeOK
  <2>2. CopyOf(t, n[t], n[t])'
    BY <2>1 DEF CopyOf
  <2> QED
    BY <1>0, <2>1, <2>2 DEF LineOf
<1>3. CASE Getc(t)
  BY <1>3, LineGetc
<1>4. CASE EndOfFile(t)
  <2>1. /\ pc[t] = "getc" /\ pc'[t] = "unlock" /\ pos' = pos /\ start' = start
        /\ text' = text /\ n' = n /\ Eof
        /\ ret'[t] = n[t]
    BY <1>0, <1>4 DEF EndOfFile, At, Goto, Set, TypeOK
  <2>2. start[t] + n[t] = pos /\ CopyOf(t, n[t], n[t])
    BY <2>1 DEF LineOf
  <2>3. CopyOf(t, ret[t], ret[t] - 1)'
    BY <1>0, <2>1, <2>2 DEF CopyOf
  <2> QED
    BY <2>1, <2>2, <2>3 DEF LineOf, Eof
<1>5. CASE ReadError(t) \/ Overflow(t) \/ NoMemory(t)
  <2>1. pc'[t] = "unlock" /\ ret'[t] = 0
    BY <1>0, <1>5 DEF ReadError, Overflow, NoMemory, Fail, AfterFailure, Goto, Set, TypeOK
  <2> QED
    BY <2>1 DEF LineOf
<1>6. CASE Grow(t)
  <2>1. /\ pc[t] = "room" /\ pc'[t] = "store" /\ pos' = pos /\ start' = start
        /\ text' = text /\ n' = n /\ c' = c
    BY <1>0, <1>6 DEF Grow, At, Goto
  <2> QED
    BY <2>1 DEF LineOf, CopyOf
<1>7. CASE Store(t)
  BY <1>7, LineStore
<1> QED
  BY <1>1, <1>2, <1>3, <1>4, <1>5, <1>6, <1>7 DEF Step

LEMMA LinesNext == ASSUME TypeOK, Lines, [Next]_vars PROVE Lines'
<1>1. CASE UNCHANGED vars
  BY <1>1 DEF Lines, HolderReads, LineOf, CopyOf, Eof, vars, buffer
<1>2. ASSUME NEW t \in Thread, Call(t) \/ Step(t) PROVE Lines'
  <2>1. HolderReads'
    BY <1>2, HolderNext DEF Lines
  <2>2. ASSUME NEW u \in Thread PROVE LineOf(u)'
    <3>1. CASE u = t
      BY <1>2, <3>1, LineOwn DEF Lines
    <3>2. CASE u # t
      <4>1. /\ pc'[u] = pc[u] /\ n'[u] = n[u] /\ text'[u] = text[u]
            /\ c'[u] = c[u] /\ ret'[u] = ret[u] /\ start'[u] = start[u]
        BY <1>2, <3>2, LineOthers
      <4>2. pc[u] \in Reads => pos' = pos
        BY <1>2, <3>2, PosOthers DEF Lines
      <4>3. LineOf(u)
        BY DEF Lines
      <4> QED
        BY <4>1, <4>2, <4>3 DEF LineOf, CopyOf, Reads, Eof
    <3> QED
      BY <3>1, <3>2
  <2> QED
    BY <2>1, <2>2 DEF Lines
<1> QED
  BY <1>1, <1>2 DEF Next

LEMMA LinesInv == ASSUME TypeOK, Lines PROVE LinesWhole
<1> SUFFICES ASSUME NEW t \in Thread, pc[t] = "unlock", ret[t] # 0
             PROVE  /\ text[t] = SubSeq(File, start[t] + 1, pos)
                    /\ Len(text[t]) = ret[t]
                    /\ \A i \in 1 .. ret[t] - 1 : text[t][i] # delim
                    /\ text[t][ret[t]] = delim \/ Eof
  BY DEF LinesWhole, At
<1>1. /\ start[t] + ret[t] = pos /\ CopyOf(t, ret[t], ret[t] - 1)
      /\ text[t][ret[t]] = delim \/ Eof
  BY DEF Lines, LineOf
<1>2. /\ Len(File) \in Nat /\ File \in Seq(Char) /\ text[t] \in Seq(Char)
      /\ start[t] \in 0 .. Len(File) /\ pos \in 0 .. Len(File) /\ ret[t] \in Nat
  BY GetDelimAssumption, LenProperties DEF TypeOK
<1> DEFINE s == SubSeq(File, start[t] + 1, pos)
<1>3. \A i \in start[t] + 1 .. pos : File[i] \in Char
  <2> TAKE i \in start[t] + 1 .. pos
  <2>1. i \in 1 .. Len(File)
    BY <1>2
  <2> QED
    BY <1>2, <2>1, ElementOfSeq
<1>4. /\ s \in Seq(Char)
      /\ Len(s) = IF start[t] + 1 <= pos THEN pos - (start[t] + 1) + 1 ELSE 0
      /\ \A i \in 1 .. pos - (start[t] + 1) + 1 : s[i] = File[start[t] + 1 + i - 1]
  BY <1>2, <1>3, SubSeqProperties, SMTT(30)
<1> HIDE DEF s
<1>5. Len(s) = ret[t] /\ \A i \in 1 .. ret[t] : s[i] = File[start[t] + i]
  <2>1. start[t] \in Nat /\ ret[t] \in Nat /\ pos = start[t] + ret[t]
    BY <1>1, <1>2
  <2>2. Len(s) = ret[t] /\ pos - (start[t] + 1) + 1 = ret[t]
    BY <1>2, <1>4, <2>1
  <2>3. \A i \in 1 .. ret[t] : start[t] + 1 + i - 1 = start[t] + i
    BY <2>1
  <2> QED
    BY <1>4, <2>2, <2>3
<1>6. text[t] = s
  BY <1>1, <1>2, <1>4, <1>5, SeqEqual, SMTT(30) DEF CopyOf
<1> QED
  BY <1>1, <1>6 DEF CopyOf, s

(* A line is returned whole, whoever else reads the file (getline.c:41-93). *)
THEOREM LinesCorrect == Spec => []LinesWhole
<1>1. TypeOK /\ Lines /\ [Next]_vars => TypeOK' /\ Lines'
  BY TypeNext, LinesNext
<1>2. TypeOK /\ Lines => LinesWhole
  BY LinesInv
<1> QED
  BY <1>1, <1>2, TypeInit, LinesInit, PTL DEF Spec

--------------------------------------------------------------------------------
(* open, fdopendir and dirfd: what the state is made of. *)

Fds == Table \cup {NoFd}
Streams == {NULLDIR} \cup {[fd |-> x] : x \in Fds}
Entries == [by : Opener, fn : {"open", "fdopendir", "opendir"},
            asked : BOOLEAN, cloexec : BOOLEAN, done : BOOLEAN]

DescTypes == /\ IsTarget(target) /\ system \in MINVER(target) .. MAXVER(target)
             /\ hand \in [Opener -> Fds] /\ dir \in [Opener -> Streams]
             /\ at \in [Opener -> {"idle", "version", "flags", "open", "fcntl", "failed",
                                   "opendir", "close", "store", "setfd"}]
             /\ flags \in [Opener -> SUBSET {"O_CLOEXEC", "O_SYMLINK"}]
             /\ cloexec \in [Opener -> BOOLEAN]
             /\ ver \in {"unset", "MINVER"}
             /\ table \in [Table -> Entries \cup {Unused}]
             /\ inherited \in SUBSET Entries

(* What a thread has at a label. *)
Holds(t) == /\ at[t] \in {"version", "flags", "open", "failed"} => hand[t] = NoFd /\ dir[t] = NULLDIR
            /\ at[t] = "fcntl" => hand[t] # NoFd /\ dir[t] = NULLDIR
            /\ at[t] = "opendir" => dir[t] = NULLDIR
            /\ at[t] = "close" => dirfd(dir[t]) # NoFd /\ dirfd(dir[t]) # hand[t]
            /\ at[t] = "setfd" => hand[t] = NoFd
            /\ at[t] = "idle" => hand[t] = NoFd \/ dir[t] = NULLDIR

(* OwnDescriptors, with the owner of a descriptor by a name of its own.    *)
Own == /\ \A u \in Opener : \A fd \in Had(u) : fd \in Table /\ table[fd] # Unused /\ table[fd].by = u
       /\ \A fd \in Table, u \in Opener : table[fd] # Unused /\ table[fd].by = u => fd \in Had(u)

DescInv == DescTypes /\ Own /\ \A t \in Opener : Holds(t)

--------------------------------------------------------------------------------
(* The table of descriptors. *)

(* Cited as a fact about all numbers: a free descriptor is only found to   *)
(* be the lowest because there is a least one.                             *)
LEMMA FirstOf ==
  ASSUME NEW S \in SUBSET Nat, S # {}
  PROVE  \E x \in S : \A y \in S : x =< y
<1> DEFINE R == OpToRel(<, Nat)
<1>1. IsWellFoundedOn(R, Nat)
  BY NatLessThanWellFounded
<1>2. \A x, y \in Nat : x < y => <<x, y>> \in R
  BY DEF OpToRel
<1> HIDE DEF R
<1>4. \E x \in S : \A y \in S : ~(<<y, x>> \in R)
  BY <1>1, WFMin
<1>5. PICK x \in S : \A y \in S : ~(<<y, x>> \in R)
  BY <1>4
<1>6. ASSUME NEW y \in S PROVE x =< y
  <2>1. x \in Nat /\ y \in Nat
    OBVIOUS
  <2>2. ~(y < x)
    BY <1>2, <1>5, <1>6, <2>1, Zenon
  <2> QED
    BY <2>1, <2>2
<1> QED
  BY <1>6

LEMMA LeastOf == ASSUME NEW S \in SUBSET Nat, S # {} PROVE Min(S) \in S
<1>1. \E x \in S : \A y \in S : x =< y
  BY FirstOf
<1> QED
  BY <1>1, Zenon DEF Min

LEMMA LowestFacts ==
  \/ Lowest = NoFd
  \/ Lowest \in Table /\ table[Lowest] = Unused
<1>1. CASE \E fd \in Table : table[fd] = Unused
  <2>1. {fd \in Table : table[fd] = Unused} \in SUBSET Nat
    BY DescriptorsAssumption
  <2> QED
    BY <1>1, <2>1, LeastOf DEF Lowest
<1>2. CASE ~(\E fd \in Table : table[fd] = Unused)
  BY <1>2 DEF Lowest
<1> QED
  BY <1>1, <1>2

LEMMA EntryFacts ==
  ASSUME NEW t \in Opener, NEW fn \in {"open", "fdopendir", "opendir"},
         NEW a \in BOOLEAN, NEW s \in BOOLEAN, NEW d \in BOOLEAN
  PROVE  /\ Entry(t, fn, a, s, d) \in Entries
         /\ Entry(t, fn, a, s, d).by = t /\ Entry(t, fn, a, s, d).asked = a
         /\ Entry(t, fn, a, s, d).cloexec = s /\ Entry(t, fn, a, s, d).done = d
BY DEF Entry, Entries

LEMMA UnusedFacts == \A e \in Entries : e # Unused /\ e.by \in Opener
<1> SUFFICES ASSUME NEW e \in Entries PROVE e # Unused /\ e.by \in Opener
  OBVIOUS
<1>1. e.by \in Opener
  BY DEF Entries
<1>2. Unused.by = "nobody"
  BY DEF Unused
<1> QED
  BY <1>1, <1>2, DescriptorsAssumption

LEMMA FdFacts ==
  /\ NoFd \notin Table /\ -2 \notin Table /\ NoFd \notin Nat
  /\ \A d \in Streams : dirfd(d) \in Fds /\ (d = NULLDIR => dirfd(d) = NoFd)
  /\ \A x \in Fds : [fd |-> x] \in Streams /\ dirfd([fd |-> x]) = x /\ [fd |-> x] # NULLDIR
  /\ \A d \in Streams : d # NULLDIR => d.fd = dirfd(d)
<1>1. NoFd \notin Table /\ -2 \notin Table /\ NoFd \notin Nat /\ NoFd = -1
  BY DescriptorsAssumption DEF NoFd
<1>2. ASSUME NEW x \in Fds PROVE /\ [fd |-> x] \in Streams /\ [fd |-> x] # NULLDIR
                                /\ [fd |-> x].fd = x
  <2>1. x # -2
    BY <1>1, <1>2, DescriptorsAssumption DEF Fds
  <2>2. NULLDIR.fd = -2 /\ [fd |-> x].fd = x
    BY DEF NULLDIR
  <2> QED
    BY <2>1, <2>2 DEF Streams
<1>3. ASSUME NEW x \in Fds PROVE dirfd([fd |-> x]) = x
  <2>1. x \in Nat \/ x = -1
    BY <1>1, DescriptorsAssumption DEF Fds
  <2>2. x < 0 <=> x = -1
    BY <2>1
  <2> QED
    BY <1>1, <1>2, <2>2 DEF dirfd
<1>4. dirfd(NULLDIR) = NoFd
  BY DEF dirfd
<1>5. NoFd \in Fds
  BY DEF Fds
<1>6. \A d \in Streams : d = NULLDIR \/ \E x \in Fds : d = [fd |-> x]
  BY DEF Streams
<1> QED
  BY <1>1, <1>2, <1>3, <1>4, <1>5, <1>6

(* A step in which t alone changes what it has, by the descriptor f.       *)
LEMMA OwnStep ==
  ASSUME DescInv, NEW t \in Opener, NEW f \in Fds,
         \A g \in Table \ {f} : table'[g] = table[g],
         \A u \in Opener \ {t} : Had(u)' = Had(u),
         f \in Table => table[f] = Unused \/ table[f].by = t,
         f \in Table => table'[f] = Unused \/ table'[f].by = t,
         Had(t)' = (Had(t) \ {f}) \cup {g \in {f} \cap Table : table'[g] # Unused}
  PROVE  Own'
<1>1. DescTypes /\ Own
  BY DEF DescInv
<1>2. ASSUME NEW u \in Opener, NEW g \in Had(u)'
      PROVE  g \in Table /\ table'[g] # Unused /\ table'[g].by = u
  <2>1. CASE u # t
    <3>1. g \in Had(u)
      BY <1>2, <2>1
    <3>2. g \in Table /\ table[g] # Unused /\ table[g].by = u
      BY <1>1, <3>1 DEF Own
    <3>3. g # f
      BY <2>1, <3>2
    <3> QED
      BY <3>2, <3>3
  <2>2. CASE u = t /\ g \in Had(t) \ {f}
    <3>1. g \in Table /\ table[g] # Unused /\ table[g].by = t
      BY <1>1, <2>2 DEF Own
    <3> QED
      BY <2>2, <3>1
  <2>3. CASE u = t /\ g = f /\ f \in Table /\ table'[f] # Unused
    BY <2>3
  <2> QED
    BY <1>2, <2>1, <2>2, <2>3
<1>3. ASSUME NEW g \in Table, NEW u \in Opener, table'[g] # Unused, table'[g].by = u
      PROVE  g \in Had(u)'
  <2>1. CASE g = f
    BY <1>3, <2>1
  <2>2. CASE g # f
    <3>1. table[g] # Unused /\ table[g].by = u
      BY <1>3, <2>2
    <3>2. g \in Had(u)
      BY <1>1, <3>1 DEF Own
    <3> QED
      BY <2>2, <3>2
  <2> QED
    BY <2>1, <2>2
<1> QED
  BY <1>2, <1>3 DEF Own

LEMMA StepOfOne ==
  ASSUME DescInv, NEW t \in Opener, NEW f \in Fds, DescTypes',
         \A u \in Opener \ {t} : at'[u] = at[u] /\ hand'[u] = hand[u] /\ dir'[u] = dir[u],
         \A g \in Table \ {f} : table'[g] = table[g],
         f \in Table => table[f] = Unused \/ table[f].by = t,
         f \in Table => table'[f] = Unused \/ table'[f].by = t,
         Had(t)' = (Had(t) \ {f}) \cup {g \in {f} \cap Table : table'[g] # Unused},
         Holds(t)'
  PROVE  DescInv'
<1>1. ASSUME NEW u \in Opener \ {t} PROVE Had(u)' = Had(u) /\ Holds(u)'
  <2>1. Holds(u)
    BY DEF DescInv
  <2>2. at'[u] = at[u] /\ hand'[u] = hand[u] /\ dir'[u] = dir[u]
    OBVIOUS
  <2>3. Had(u)' = Had(u)
    BY <2>2 DEF Had, dirfd
  <2>4. Holds(u)'
    BY <2>1, <2>2 DEF Holds, dirfd
  <2> QED
    BY <2>3, <2>4
<1>2. Own'
  BY <1>1, OwnStep
<1>3. \A u \in Opener : Holds(u)'
  BY <1>1
<1> QED
  BY <1>2, <1>3 DEF DescInv

(* A step in which no descriptor changes hands. *)
LEMMA StepOfNone ==
  ASSUME DescInv, NEW t \in Opener, DescTypes', table' = table,
         \A u \in Opener \ {t} : at'[u] = at[u] /\ hand'[u] = hand[u] /\ dir'[u] = dir[u],
         Had(t)' = Had(t), Holds(t)'
  PROVE  DescInv'
<1>1. NoFd \in Fds /\ NoFd \notin Table
  BY FdFacts DEF Fds
<1>2. NoFd \notin Had(t)
  BY DEF Had
<1>3. Had(t)' = (Had(t) \ {NoFd}) \cup {g \in {NoFd} \cap Table : table'[g] # Unused}
  BY <1>1, <1>2
<1> QED
  BY <1>1, <1>3, StepOfOne

--------------------------------------------------------------------------------
(* open. *)

LEMMA OpenCallKeeps ==
  ASSUME DescInv, NEW t \in Opener, OpenCall(t)
  PROVE  DescInv'
<1>1. DescTypes /\ Holds(t) /\ at[t] = "idle" /\ hand[t] = NoFd /\ dir[t] = NULLDIR
  BY DEF DescInv, OpenCall
<1>2. DescTypes'
  BY <1>1 DEF OpenCall, To, DescTypes, outcome
<1>3. at' = [at EXCEPT ![t] = "version"] /\ table' = table /\ hand' = hand /\ dir' = dir
  BY DEF OpenCall, To
<1>4. at'[t] = "version" /\ \A u \in Opener \ {t} : at'[u] = at[u]
  BY <1>1, <1>3 DEF DescTypes
<1>5. Had(t)' = Had(t) /\ Holds(t)'
  BY <1>1, <1>3, <1>4 DEF Had, Holds
<1> QED
  BY <1>2, <1>3, <1>4, <1>5, StepOfNone

LEMMA VersionKeeps ==
  ASSUME DescInv, NEW t \in Opener, Version(t)
  PROVE  DescInv'
<1>1. DescTypes /\ Holds(t) /\ at[t] = "version"
  BY DEF DescInv, Version
<1>2. DescTypes'
  BY <1>1 DEF Version, To, DescTypes, outcome
<1>3. at' = [at EXCEPT ![t] = "flags"] /\ table' = table /\ hand' = hand /\ dir' = dir
  BY DEF Version, To
<1>4. at'[t] = "flags" /\ \A u \in Opener \ {t} : at'[u] = at[u]
  BY <1>1, <1>3 DEF DescTypes
<1>5. Had(t)' = Had(t) /\ Holds(t)'
  BY <1>1, <1>3, <1>4 DEF Had, Holds
<1> QED
  BY <1>2, <1>3, <1>4, <1>5, StepOfNone

LEMMA ChangeFlagsKeeps ==
  ASSUME DescInv, NEW t \in Opener, ChangeFlags(t)
  PROVE  DescInv'
<1>1. DescTypes /\ Holds(t) /\ at[t] = "flags"
  BY DEF DescInv, ChangeFlags
<1>2. NeedsFcntl(flags[t]) \in BOOLEAN
  BY DEF NeedsFcntl
<1>3. DescTypes'
  BY <1>1, <1>2 DEF ChangeFlags, To, DescTypes, outcome
<1>4. at' = [at EXCEPT ![t] = "open"] /\ table' = table /\ hand' = hand /\ dir' = dir
  BY DEF ChangeFlags, To
<1>5. at'[t] = "open" /\ \A u \in Opener \ {t} : at'[u] = at[u]
  BY <1>1, <1>4 DEF DescTypes
<1>6. Had(t)' = Had(t) /\ Holds(t)'
  BY <1>1, <1>4, <1>5 DEF Had, Holds
<1> QED
  BY <1>3, <1>4, <1>5, <1>6, StepOfNone

LEMMA KernelOpensKeeps ==
  ASSUME DescInv, NEW t \in Opener, KernelOpens(t)
  PROVE  DescInv'
<1>1. DescTypes /\ Own /\ Holds(t) /\ at[t] = "open"
  BY DEF DescInv, KernelOpens
<1>2. hand[t] = NoFd /\ dir[t] = NULLDIR
  BY <1>1 DEF Holds
<1>3. dirfd(NULLDIR) = NoFd
  BY DEF dirfd
<1>4. dir' = dir /\ target' = target /\ system' = system /\ flags' = flags /\ cloexec' = cloexec
      /\ ver' = ver /\ inherited' = inherited
  BY DEF KernelOpens
<1>5. ASSUME Lowest # NoFd, NEW s \in BOOLEAN,
             table' = [table EXCEPT ![Lowest] =
                         Entry(t, "open", "O_CLOEXEC" \in flags[t], s, ~cloexec[t])],
             hand' = [hand EXCEPT ![t] = Lowest],
             at' = [at EXCEPT ![t] = IF cloexec[t] THEN "fcntl" ELSE "idle"]
      PROVE  DescInv'
  <2> DEFINE e == Entry(t, "open", "O_CLOEXEC" \in flags[t], s, ~cloexec[t])
  <2>1. Lowest \in Table /\ table[Lowest] = Unused /\ Lowest \in Fds
    BY <1>5, LowestFacts DEF Fds
  <2>2. e \in Entries /\ e.by = t
    <3> DEFINE a == "O_CLOEXEC" \in flags[t]
               d == ~cloexec[t]
    <3>1. a \in BOOLEAN /\ d \in BOOLEAN
      OBVIOUS
    <3>2. e = Entry(t, "open", a, s, d)
      OBVIOUS
    <3> HIDE DEF a, d, e
    <3> QED
      BY <3>1, <3>2, EntryFacts
  <2>3. e # Unused
    BY <2>2, UnusedFacts
  <2> HIDE DEF e
  <2>4. table' = [table EXCEPT ![Lowest] = e]
    BY <1>5 DEF e
  <2>5. /\ table' \in [Table -> Entries \cup {Unused}] /\ table'[Lowest] = e
        /\ \A g \in Table \ {Lowest} : table'[g] = table[g]
    BY <1>1, <2>1, <2>2, <2>4 DEF DescTypes
  <2>6. /\ at'[t] \in {"fcntl", "idle"} /\ hand'[t] = Lowest
        /\ \A u \in Opener \ {t} : at'[u] = at[u] /\ hand'[u] = hand[u]
    BY <1>1, <1>5 DEF DescTypes
  <2>7. DescTypes'
    <3>1. /\ hand' \in [Opener -> Fds]
          /\ at' \in [Opener -> {"idle", "version", "flags", "open", "fcntl", "failed",
                                 "opendir", "close", "store", "setfd"}]
      BY <1>1, <1>5, <2>1 DEF DescTypes
    <3> QED
      BY <1>1, <1>4, <2>5, <3>1 DEF DescTypes
  <2>8. Had(t) = {} /\ Had(t)' = {Lowest}
    BY <1>1, <1>2, <1>3, <1>4, <1>5, <2>6 DEF Had
  <2>9. Holds(t)'
    BY <1>2, <1>4, <1>5, <2>6 DEF Holds
  <2> QED
    BY <1>4, <2>1, <2>2, <2>3, <2>5, <2>6, <2>7, <2>8, <2>9, StepOfOne
<1>6. CASE at' = [at EXCEPT ![t] = "failed"] /\ UNCHANGED <<table, hand, followed>>
  <2>1. DescTypes'
    BY <1>1, <1>4, <1>6 DEF DescTypes
  <2>2. at'[t] = "failed" /\ \A u \in Opener \ {t} : at'[u] = at[u]
    BY <1>1, <1>6 DEF DescTypes
  <2>3. Had(t)' = Had(t) /\ Holds(t)'
    BY <1>1, <1>2, <1>4, <1>6, <2>2 DEF Had, Holds
  <2> QED
    BY <1>4, <1>6, <2>1, <2>2, <2>3, StepOfNone
<1>7. ("O_CLOEXEC" \in Flags(flags[t]) \cap Understood) \in BOOLEAN
  OBVIOUS
<1> QED
  BY <1>5, <1>6, <1>7 DEF KernelOpens, To

LEMMA SetCloexecKeeps ==
  ASSUME DescInv, NEW t \in Opener, SetCloexec(t)
  PROVE  /\ DescInv' /\ hand[t] \in Table
         /\ table'[hand[t]].cloexec = TRUE
         /\ \A g \in Table \ {hand[t]} : table'[g] = table[g]
<1> DEFINE f == hand[t]
<1>1. DescTypes /\ Own /\ Holds(t) /\ at[t] = "fcntl"
  BY DEF DescInv, SetCloexec
<1>2. f # NoFd /\ dir[t] = NULLDIR /\ f \in Fds
  BY <1>1 DEF Holds, DescTypes
<1>3. f \in Had(t)
  BY <1>2 DEF Had
<1>4. f \in Table /\ table[f] # Unused /\ table[f].by = t
  BY <1>1, <1>3 DEF Own
<1>5. table[f] \in Entries
  BY <1>1, <1>4 DEF DescTypes
<1> DEFINE e == [table[f] EXCEPT !.cloexec = TRUE, !.done = TRUE]
<1>6. e \in Entries /\ e.by = t /\ e.cloexec = TRUE
  BY <1>4, <1>5 DEF Entries
<1>7. e # Unused
  BY <1>6, UnusedFacts
<1>8. table' = [table EXCEPT ![f] = e]
  BY <1>1, <1>4 DEF SetCloexec, DescTypes
<1>9. /\ at' = [at EXCEPT ![t] = "idle"] /\ hand' = hand /\ dir' = dir /\ target' = target
      /\ system' = system /\ flags' = flags /\ cloexec' = cloexec /\ ver' = ver
      /\ inherited' = inherited
  BY DEF SetCloexec, To, outcome
<1> HIDE DEF f, e
<1>10. /\ table' \in [Table -> Entries \cup {Unused}] /\ table'[f] = e
       /\ \A g \in Table \ {f} : table'[g] = table[g]
  BY <1>1, <1>4, <1>6, <1>8 DEF DescTypes
<1>11. at'[t] = "idle" /\ \A u \in Opener \ {t} : at'[u] = at[u]
  BY <1>1, <1>9 DEF DescTypes
<1>12. DescTypes'
  BY <1>1, <1>9, <1>10 DEF DescTypes
<1>13. dirfd(NULLDIR) = NoFd
  BY DEF dirfd
<1>14. Had(t) = {f} /\ Had(t)' = {f}
  BY <1>1, <1>2, <1>9, <1>11, <1>13 DEF Had, f
<1>15. Holds(t)'
  BY <1>2, <1>9, <1>11 DEF Holds
<1>16. DescInv'
  BY <1>2, <1>4, <1>6, <1>7, <1>9, <1>10, <1>11, <1>12, <1>14, <1>15, StepOfOne
<1> QED
  BY <1>4, <1>6, <1>10, <1>16 DEF f

--------------------------------------------------------------------------------
(* fdopendir. *)

LEMMA FdopendirKeeps ==
  ASSUME DescInv, NEW t \in Opener, Fdopendir(t)
  PROVE  DescInv'
<1>1. DescTypes /\ Own /\ Holds(t) /\ at[t] \in {"idle", "failed"} /\ dir[t] = NULLDIR
  BY DEF DescInv, Fdopendir
<1>2. dirfd(NULLDIR) = NoFd
  BY DEF dirfd
<1>3. /\ target' = target /\ system' = system /\ flags' = flags /\ cloexec' = cloexec
      /\ ver' = ver /\ inherited' = inherited
  BY DEF Fdopendir, outcome
<1>4. ASSUME NEW l \in {"opendir", "idle"}, at' = [at EXCEPT ![t] = l],
             l = "idle" => hand[t] = NoFd, UNCHANGED <<table, hand, dir>>
      PROVE  DescInv'
  <2>1. at'[t] = l /\ \A u \in Opener \ {t} : at'[u] = at[u]
    BY <1>1, <1>4 DEF DescTypes
  <2>2. DescTypes'
    BY <1>1, <1>3, <1>4 DEF DescTypes
  <2>3. Had(t)' = Had(t) /\ Holds(t)'
    BY <1>1, <1>4, <2>1 DEF Had, Holds
  <2> QED
    BY <1>4, <2>1, <2>2, <2>3, StepOfNone
<1>5. ASSUME hand[t] # NoFd, at' = [at EXCEPT ![t] = "idle"],
             table' = [table EXCEPT ![hand[t]] = Entry(t, "fdopendir", TRUE, TRUE, TRUE)],
             dir' = [dir EXCEPT ![t] = [fd |-> hand[t]]], hand' = [hand EXCEPT ![t] = NoFd]
      PROVE  DescInv'
  <2> DEFINE f == hand[t]
             e == Entry(t, "fdopendir", TRUE, TRUE, TRUE)
  <2>1. f \in Had(t) /\ f \in Fds /\ f # NoFd
    BY <1>1, <1>5 DEF Had, DescTypes
  <2>2. f \in Table /\ table[f] # Unused /\ table[f].by = t
    BY <1>1, <2>1 DEF Own
  <2>3. e \in Entries /\ e.by = t
    BY EntryFacts
  <2>4. e # Unused
    BY <2>3, UnusedFacts
  <2>5. [fd |-> f] \in Streams /\ dirfd([fd |-> f]) = f
    BY <2>1, FdFacts
  <2>6. NoFd \in Fds
    BY DEF Fds
  <2>7. table' = [table EXCEPT ![f] = e] /\ dir' = [dir EXCEPT ![t] = [fd |-> f]]
    BY <1>5
  <2> HIDE DEF e
  <2>8. /\ table' \in [Table -> Entries \cup {Unused}] /\ table'[f] = e
        /\ \A g \in Table \ {f} : table'[g] = table[g]
    BY <1>1, <2>2, <2>3, <2>7 DEF DescTypes
  <2>9. /\ at'[t] = "idle" /\ hand'[t] = NoFd /\ dir'[t] = [fd |-> f]
        /\ \A u \in Opener \ {t} : at'[u] = at[u] /\ hand'[u] = hand[u] /\ dir'[u] = dir[u]
    BY <1>1, <1>5, <2>7 DEF DescTypes
  <2>10. DescTypes'
    <3>1. /\ hand' \in [Opener -> Fds] /\ dir' \in [Opener -> Streams]
          /\ at' \in [Opener -> {"idle", "version", "flags", "open", "fcntl", "failed",
                                 "opendir", "close", "store", "setfd"}]
      BY <1>1, <1>5, <2>5, <2>6, <2>7 DEF DescTypes
    <3> QED
      BY <1>1, <1>3, <2>8, <3>1 DEF DescTypes
  <2>11. Had(t) = {f}
    BY <1>1, <1>2, <2>1 DEF Had
  <2> HIDE DEF f
  <2>12. Had(t)' = {f}
    <3>1. dirfd(dir[t])' = f
      BY <2>5, <2>9 DEF dirfd
    <3> QED
      BY <2>1, <2>9, <3>1 DEF Had
  <2>13. Holds(t)'
    BY <2>9 DEF Holds
  <2> QED
    BY <2>1, <2>2, <2>3, <2>4, <2>8, <2>9, <2>10, <2>11, <2>12, <2>13, StepOfOne
<1> QED
  BY <1>4, <1>5 DEF Fdopendir, To

LEMMA OpendirKeeps ==
  ASSUME DescInv, NEW t \in Opener, Opendir(t)
  PROVE  DescInv'
<1>1. DescTypes /\ Own /\ Holds(t) /\ at[t] = "opendir"
  BY DEF DescInv, Opendir
<1>2. dir[t] = NULLDIR /\ dirfd(NULLDIR) = NoFd
  BY <1>1 DEF Holds, dirfd
<1>3. /\ target' = target /\ system' = system /\ flags' = flags /\ cloexec' = cloexec
      /\ ver' = ver /\ inherited' = inherited /\ hand' = hand
  BY DEF Opendir, outcome
<1>4. ASSUME Lowest # NoFd, at' = [at EXCEPT ![t] = "close"],
             table' = [table EXCEPT ![Lowest] = Entry(t, "opendir", TRUE, TRUE, TRUE)],
             dir' = [dir EXCEPT ![t] = [fd |-> Lowest]]
      PROVE  DescInv'
  <2> DEFINE f == Lowest
             e == Entry(t, "opendir", TRUE, TRUE, TRUE)
  <2>1. f \in Table /\ table[f] = Unused /\ f \in Fds /\ f # NoFd
    BY <1>4, LowestFacts DEF Fds
  <2>2. hand[t] # f
    BY <1>1, <2>1 DEF Own, Had
  <2>3. e \in Entries /\ e.by = t
    BY EntryFacts
  <2>4. e # Unused
    BY <2>3, UnusedFacts
  <2>5. [fd |-> f] \in Streams /\ dirfd([fd |-> f]) = f
    BY <2>1, FdFacts
  <2>7. table' = [table EXCEPT ![f] = e] /\ dir' = [dir EXCEPT ![t] = [fd |-> f]]
    BY <1>4
  <2> HIDE DEF e, f
  <2>8. /\ table' \in [Table -> Entries \cup {Unused}] /\ table'[f] = e
        /\ \A g \in Table \ {f} : table'[g] = table[g]
    BY <1>1, <2>1, <2>3, <2>7 DEF DescTypes
  <2>9. /\ at'[t] = "close" /\ dir'[t] = [fd |-> f]
        /\ \A u \in Opener \ {t} : at'[u] = at[u] /\ dir'[u] = dir[u]
    BY <1>1, <1>4, <2>7 DEF DescTypes
  <2>10. DescTypes'
    <3>1. /\ dir' \in [Opener -> Streams]
          /\ at' \in [Opener -> {"idle", "version", "flags", "open", "fcntl", "failed",
                                 "opendir", "close", "store", "setfd"}]
      BY <1>1, <1>4, <2>5, <2>7 DEF DescTypes
    <3> QED
      BY <1>1, <1>3, <2>8, <3>1 DEF DescTypes
  <2>11. dirfd(dir[t])' = f
    BY <2>5, <2>9 DEF dirfd
  <2>12. Had(t) = {hand[t]} \ {NoFd}
    BY <1>1, <1>2 DEF Had
  <2>13. Had(t)' = {hand[t], f} \ {NoFd}
    BY <1>3, <2>9, <2>11 DEF Had
  <2>14. Had(t)' = (Had(t) \ {f}) \cup {g \in {f} \cap Table : table'[g] # Unused}
    BY <2>1, <2>2, <2>4, <2>8, <2>12, <2>13
  <2>15. Holds(t)'
    <3>1. dirfd(dir[t])' # NoFd /\ dirfd(dir[t])' # hand[t]'
      BY <1>3, <2>1, <2>2, <2>11
    <3> QED
      BY <2>9, <3>1 DEF Holds
  <2> QED
    BY <1>3, <2>1, <2>3, <2>8, <2>9, <2>10, <2>14, <2>15, StepOfOne
<1>5. CASE /\ at' = [at EXCEPT ![t] = IF hand[t] = NoFd THEN "failed" ELSE "idle"]
           /\ UNCHANGED <<table, dir>>
  <2>1. /\ at'[t] = IF hand[t] = NoFd THEN "failed" ELSE "idle"
        /\ \A u \in Opener \ {t} : at'[u] = at[u]
    BY <1>1, <1>5 DEF DescTypes
  <2>2. DescTypes'
    BY <1>1, <1>3, <1>5 DEF DescTypes
  <2>3. Had(t)' = Had(t) /\ Holds(t)'
    BY <1>1, <1>2, <1>3, <1>5, <2>1 DEF Had, Holds
  <2> QED
    BY <1>3, <1>5, <2>1, <2>2, <2>3, StepOfNone
<1> QED
  BY <1>4, <1>5 DEF Opendir, To

(* What close leaves of the table, when t closes what it has.              *)
LEMMA WithoutFacts ==
  ASSUME DescInv, NEW t \in Opener, NEW f \in Fds, f # NoFd => f \in Had(t),
         table' = Without(f)
  PROVE  /\ table' \in [Table -> Entries \cup {Unused}]
         /\ \A g \in Table \ {f} : table'[g] = table[g]
         /\ f \in Table => table'[f] = Unused /\ table[f].by = t
<1>1. DescTypes /\ Own /\ NoFd \notin Table
  BY FdFacts DEF DescInv
<1>2. CASE f = NoFd
  BY <1>1, <1>2 DEF Without, IsOpen, DescTypes
<1>3. CASE f # NoFd
  <2>1. f \in Table /\ table[f] # Unused /\ table[f].by = t
    BY <1>1, <1>3 DEF Own
  <2>2. table' = [table EXCEPT ![f] = Unused]
    BY <2>1 DEF Without, IsOpen
  <2> QED
    BY <1>1, <2>1, <2>2 DEF DescTypes
<1> QED
  BY <1>2, <1>3

LEMMA CloseOwnKeeps ==
  ASSUME DescInv, NEW t \in Opener, CloseOwn(t)
  PROVE  DescInv'
<1> DEFINE f == dirfd(dir[t])
<1>1. DescTypes /\ Holds(t) /\ at[t] = "close"
  BY DEF DescInv, CloseOwn
<1>2. f # NoFd /\ f # hand[t] /\ f \in Fds
  BY <1>1, FdFacts DEF Holds, DescTypes
<1>3. dir[t] # NULLDIR
  BY <1>2 DEF dirfd
<1>4. dir[t].fd = f
  BY <1>1, <1>3, FdFacts DEF DescTypes
<1>5. Had(t) = {hand[t], f} \ {NoFd}
  BY <1>1 DEF Had
<1> HIDE DEF f
<1>6. table' = Without(f) /\ at' = [at EXCEPT ![t] = "store"]
  BY <1>4 DEF CloseOwn, To
<1>7. f \in Had(t)
  BY <1>2, <1>5
<1>8. /\ table' \in [Table -> Entries \cup {Unused}]
      /\ \A g \in Table \ {f} : table'[g] = table[g]
      /\ f \in Table => table'[f] = Unused /\ table[f].by = t
  BY <1>2, <1>6, <1>7, WithoutFacts
<1>9. /\ target' = target /\ system' = system /\ flags' = flags /\ cloexec' = cloexec
      /\ ver' = ver /\ inherited' = inherited /\ hand' = hand /\ dir' = dir
  BY DEF CloseOwn, outcome
<1>10. at'[t] = "store" /\ \A u \in Opener \ {t} : at'[u] = at[u]
  BY <1>1, <1>6 DEF DescTypes
<1>11. DescTypes'
  BY <1>1, <1>6, <1>8, <1>9 DEF DescTypes
<1>12. Had(t)' = {hand[t]} \ {NoFd}
  BY <1>9, <1>10 DEF Had
<1>13. Had(t)' = (Had(t) \ {f}) \cup {g \in {f} \cap Table : table'[g] # Unused}
  BY <1>2, <1>5, <1>8, <1>12
<1>14. Holds(t)'
  BY <1>10 DEF Holds
<1> QED
  BY <1>2, <1>8, <1>9, <1>10, <1>11, <1>13, <1>14, StepOfOne

LEMMA StoreFdKeeps ==
  ASSUME DescInv, NEW t \in Opener, StoreFd(t)
  PROVE  DescInv'
<1>1. DescTypes /\ Holds(t) /\ at[t] = "store"
  BY DEF DescInv, StoreFd
<1>2. hand[t] \in Fds /\ NoFd \in Fds
  BY <1>1 DEF DescTypes, Fds
<1>3. [fd |-> hand[t]] \in Streams /\ dirfd([fd |-> hand[t]]) = hand[t]
  BY <1>2, FdFacts
<1>4. /\ target' = target /\ system' = system /\ flags' = flags /\ cloexec' = cloexec
      /\ ver' = ver /\ inherited' = inherited /\ table' = table
      /\ at' = [at EXCEPT ![t] = "setfd"] /\ hand' = [hand EXCEPT ![t] = NoFd]
      /\ dir' = [dir EXCEPT ![t] = [fd |-> hand[t]]]
  BY DEF StoreFd, To, outcome
<1>5. /\ at'[t] = "setfd" /\ hand'[t] = NoFd /\ dir'[t] = [fd |-> hand[t]]
      /\ \A u \in Opener \ {t} : at'[u] = at[u] /\ hand'[u] = hand[u] /\ dir'[u] = dir[u]
  BY <1>1, <1>4 DEF DescTypes
<1>6. DescTypes'
  BY <1>1, <1>2, <1>3, <1>4 DEF DescTypes
<1>7. dirfd(dir[t])' = hand[t]
  BY <1>3, <1>5 DEF dirfd
<1>8. Had(t) = {hand[t]} \ {NoFd} /\ Had(t)' = {hand[t]} \ {NoFd}
  BY <1>1, <1>5, <1>7 DEF Had
<1>9. Holds(t)'
  BY <1>5 DEF Holds
<1> QED
  BY <1>4, <1>5, <1>6, <1>8, <1>9, StepOfNone

LEMMA SetFdKeeps ==
  ASSUME DescInv, NEW t \in Opener, SetFd(t)
  PROVE  DescInv'
<1> DEFINE f == dirfd(dir[t])
           e == Entry(t, "fdopendir", TRUE, TRUE, TRUE)
<1>1. DescTypes /\ Own /\ Holds(t) /\ at[t] = "setfd"
  BY DEF DescInv, SetFd
<1>2. hand[t] = NoFd /\ f \in Fds
  BY <1>1, FdFacts DEF Holds, DescTypes
<1>3. /\ target' = target /\ system' = system /\ flags' = flags /\ cloexec' = cloexec
      /\ ver' = ver /\ inherited' = inherited /\ hand' = hand /\ dir' = dir
      /\ at' = [at EXCEPT ![t] = "idle"]
  BY DEF SetFd, To, outcome
<1>4. at'[t] = "idle" /\ \A u \in Opener \ {t} : at'[u] = at[u]
  BY <1>1, <1>3 DEF DescTypes
<1>5. Had(t) = {f} \ {NoFd} /\ Had(t)' = {f} \ {NoFd}
  BY <1>1, <1>2, <1>3, <1>4 DEF Had, dirfd
<1>6. Holds(t)'
  BY <1>2, <1>3, <1>4 DEF Holds
<1>7. e \in Entries /\ e.by = t
  BY EntryFacts
<1>8. e # Unused
  BY <1>7, UnusedFacts
<1>9. CASE ~IsOpen(dir[t].fd)
  <2>1. table' = table
    BY <1>9 DEF SetFd
  <2>2. DescTypes'
    BY <1>1, <1>3, <2>1 DEF DescTypes
  <2> QED
    BY <1>3, <1>4, <1>5, <1>6, <2>1, <2>2, StepOfNone
<1>10. CASE IsOpen(dir[t].fd)
  <2>1. dir[t] # NULLDIR
    BY <1>10, FdFacts DEF NULLDIR, IsOpen
  <2>2. dir[t].fd = f
    BY <1>1, <2>1, FdFacts DEF DescTypes
  <2>3. f \in Table /\ f # NoFd
    BY <1>10, <2>2, FdFacts DEF IsOpen
  <2>4. f \in Had(t)
    BY <1>5, <2>3
  <2>5. table[f].by = t
    BY <1>1, <2>4 DEF Own
  <2>6. table' = [table EXCEPT ![f] = e]
    BY <1>10, <2>2 DEF SetFd
  <2> HIDE DEF e, f
  <2>7. /\ table' \in [Table -> Entries \cup {Unused}] /\ table'[f] = e
        /\ \A g \in Table \ {f} : table'[g] = table[g]
    BY <1>1, <1>7, <2>3, <2>6 DEF DescTypes
  <2>8. DescTypes'
    BY <1>1, <1>3, <2>7 DEF DescTypes
  <2>9. Had(t)' = (Had(t) \ {f}) \cup {g \in {f} \cap Table : table'[g] # Unused}
    BY <1>5, <1>8, <2>3, <2>7
  <2> QED
    BY <1>2, <1>3, <1>4, <1>6, <1>7, <2>5, <2>7, <2>8, <2>9, StepOfOne
<1> QED
  BY <1>9, <1>10

--------------------------------------------------------------------------------
(* close, closedir, exec, and the whole. *)

LEMMA CloseKeeps ==
  ASSUME DescInv, NEW t \in Opener, Close(t)
  PROVE  DescInv'
<1> DEFINE f == hand[t]
<1>1. DescTypes /\ Holds(t) /\ at[t] = "idle" /\ f # NoFd /\ f \in Fds
  BY DEF DescInv, Close, DescTypes
<1>2. dir[t] = NULLDIR /\ dirfd(NULLDIR) = NoFd
  BY <1>1 DEF Holds, dirfd
<1>3. Had(t) = {f}
  BY <1>1, <1>2 DEF Had
<1>4. /\ target' = target /\ system' = system /\ flags' = flags /\ cloexec' = cloexec /\ at' = at
      /\ ver' = ver /\ inherited' = inherited /\ table' = Without(f) /\ dir' = dir
      /\ hand' = [hand EXCEPT ![t] = NoFd]
  BY DEF Close, outcome, locals
<1> HIDE DEF f
<1>5. /\ table' \in [Table -> Entries \cup {Unused}]
      /\ \A g \in Table \ {f} : table'[g] = table[g]
      /\ f \in Table => table'[f] = Unused /\ table[f].by = t
  BY <1>1, <1>3, <1>4, WithoutFacts
<1>6. hand'[t] = NoFd /\ \A u \in Opener \ {t} : hand'[u] = hand[u]
  BY <1>1, <1>4 DEF DescTypes
<1>7. NoFd \in Fds
  BY DEF Fds
<1>8. DescTypes'
  BY <1>1, <1>4, <1>5, <1>7 DEF DescTypes
<1>9. Had(t)' = {}
  BY <1>2, <1>4, <1>6 DEF Had
<1>10. Had(t)' = (Had(t) \ {f}) \cup {g \in {f} \cap Table : table'[g] # Unused}
  BY <1>3, <1>5, <1>9
<1>11. Holds(t)'
  BY <1>1, <1>4, <1>6 DEF Holds
<1> QED
  BY <1>1, <1>4, <1>5, <1>6, <1>8, <1>10, <1>11, StepOfOne

LEMMA ClosedirKeeps ==
  ASSUME DescInv, NEW t \in Opener, Closedir(t)
  PROVE  DescInv'
<1> DEFINE f == dirfd(dir[t])
<1>1. DescTypes /\ Holds(t) /\ at[t] = "idle" /\ dir[t] # NULLDIR
  BY DEF DescInv, Closedir
<1>2. hand[t] = NoFd
  BY <1>1 DEF Holds
<1>3. f \in Fds /\ dir[t].fd = f
  BY <1>1, FdFacts DEF DescTypes
<1>4. Had(t) = {f} \ {NoFd}
  BY <1>1, <1>2 DEF Had
<1> HIDE DEF f
<1>5. /\ target' = target /\ system' = system /\ flags' = flags /\ cloexec' = cloexec /\ at' = at
      /\ ver' = ver /\ inherited' = inherited /\ table' = Without(f) /\ hand' = hand
      /\ dir' = [dir EXCEPT ![t] = NULLDIR]
  BY <1>3 DEF Closedir, outcome, locals
<1>6. f # NoFd => f \in Had(t)
  BY <1>4
<1>7. /\ table' \in [Table -> Entries \cup {Unused}]
      /\ \A g \in Table \ {f} : table'[g] = table[g]
      /\ f \in Table => table'[f] = Unused /\ table[f].by = t
  BY <1>3, <1>5, <1>6, WithoutFacts
<1>8. dir'[t] = NULLDIR /\ \A u \in Opener \ {t} : dir'[u] = dir[u]
  BY <1>1, <1>5 DEF DescTypes
<1>9. DescTypes'
  BY <1>1, <1>5, <1>7 DEF DescTypes, Streams
<1>10. dirfd(dir[t])' = NoFd
  BY <1>8 DEF dirfd
<1>11. Had(t)' = {}
  BY <1>2, <1>5, <1>10 DEF Had
<1>12. Had(t)' = (Had(t) \ {f}) \cup {g \in {f} \cap Table : table'[g] # Unused}
  BY <1>4, <1>7, <1>11
<1>13. Holds(t)'
  BY <1>1, <1>2, <1>5, <1>8 DEF Holds
<1> QED
  BY <1>3, <1>5, <1>7, <1>8, <1>9, <1>12, <1>13, StepOfOne

LEMMA GiveUpKeeps ==
  ASSUME DescInv, NEW t \in Opener, GiveUp(t)
  PROVE  DescInv'
<1>1. DescTypes /\ Holds(t) /\ at[t] = "failed"
  BY DEF DescInv, GiveUp
<1>2. DescTypes'
  BY <1>1 DEF GiveUp, To, DescTypes, outcome
<1>3. at' = [at EXCEPT ![t] = "idle"] /\ table' = table /\ hand' = hand /\ dir' = dir
  BY DEF GiveUp, To
<1>4. at'[t] = "idle" /\ \A u \in Opener \ {t} : at'[u] = at[u]
  BY <1>1, <1>3 DEF DescTypes
<1>5. Had(t)' = Had(t) /\ Holds(t)'
  BY <1>1, <1>3, <1>4 DEF Had, Holds
<1> QED
  BY <1>2, <1>3, <1>4, <1>5, StepOfNone

(* Steps that change nothing of this but what programs have got.           *)
LEMMA SameKeeps ==
  ASSUME DescInv, inherited' \in SUBSET Entries,
         UNCHANGED <<target, system, ver, table, locals, hand, dir>>
  PROVE  DescInv'
<1>1. at' = at /\ flags' = flags /\ cloexec' = cloexec
  BY DEF locals
<1>2. DescTypes'
  BY <1>1 DEF DescInv, DescTypes
<1>3. \A u \in Opener : Had(u)' = Had(u) /\ (Holds(u) => Holds(u)')
  BY <1>1 DEF Had, dirfd, Holds
<1>4. Own'
  BY <1>3 DEF DescInv, Own
<1> QED
  BY <1>2, <1>3, <1>4 DEF DescInv

LEMMA ExecKeeps ==
  ASSUME DescInv, Exec
  PROVE  DescInv'
<1>1. \A e \in Table : IsOpen(e) => table[e] \in Entries
  BY DEF DescInv, DescTypes, IsOpen
<1>2. inherited' \in SUBSET Entries
  BY <1>1 DEF Exec, DescInv, DescTypes
<1> QED
  BY <1>2, SameKeeps DEF Exec

LEMMA DescInit ==
  ASSUME DescriptorsInit
  PROVE  DescInv
<1>1. NoFd \in Fds /\ NULLDIR \in Streams
  BY DEF Fds, Streams
<1>2. DescTypes
  <2>1. IsTarget(target)
    BY DescriptorsAssumption DEF DescriptorsInit, Existing
  <2> QED
    BY <1>1, <2>1 DEF DescriptorsInit, DescTypes
<1>3. \A u \in Opener : Had(u) = {} /\ Holds(u)
  BY DEF DescriptorsInit, Had, dirfd, Holds
<1>4. Own
  BY <1>3 DEF Own, DescriptorsInit
<1> QED
  BY <1>2, <1>3, <1>4 DEF DescInv

LEMMA DescStep == DescInv /\ [DescriptorsNext]_descriptors => DescInv'
<1> SUFFICES ASSUME DescInv, [DescriptorsNext]_descriptors PROVE DescInv'
  OBVIOUS
<1>1. CASE Exec
  BY <1>1, ExecKeeps
<1>2. ASSUME NEW t \in Opener, open(t) PROVE DescInv'
  BY <1>2, OpenCallKeeps, VersionKeeps, ChangeFlagsKeeps, KernelOpensKeeps, SetCloexecKeeps, Zenon
     DEF open
<1>3. ASSUME NEW t \in Opener, fdopendir(t) PROVE DescInv'
  BY <1>3, FdopendirKeeps, OpendirKeeps, CloseOwnKeeps, StoreFdKeeps, SetFdKeeps, Zenon
     DEF fdopendir
<1>4. ASSUME NEW t \in Opener, Close(t) \/ Closedir(t) \/ GiveUp(t) PROVE DescInv'
  BY <1>4, CloseKeeps, ClosedirKeeps, GiveUpKeeps, Zenon
<1>5. CASE UNCHANGED descriptors
  <2>1. UNCHANGED <<target, system, ver, table, locals, hand, dir, inherited>>
    BY <1>5 DEF descriptors, outcome
  <2> QED
    BY <2>1, SameKeeps DEF DescInv, DescTypes
<1> QED
  BY <1>1, <1>2, <1>3, <1>4, <1>5, Zenon DEF DescriptorsNext

LEMMA DescInvCorrect == DescriptorsSpec => []DescInv
BY DescInit, DescStep, PTL DEF DescriptorsSpec

(* OwnDescriptors: what a thread has of open or in a stream is open, its   *)
(* own and its only one, through each step of fdopendir and whatever the   *)
(* other threads open and close between them, for any number of threads    *)
(* and descriptors and on every system.                                    *)
THEOREM OwnDescriptorsCorrect == DescriptorsSpec => []OwnDescriptors
<1>1. DescInv => OwnDescriptors
  <2> SUFFICES ASSUME DescInv PROVE OwnDescriptors
    OBVIOUS
  <2>1. \A u \in Opener : \A fd \in Had(u) : IsOpen(fd) /\ table[fd].by = u
    BY DEF DescInv, Own, IsOpen
  <2>2. ASSUME NEW fd \in Table, IsOpen(fd) PROVE fd \in Had(table[fd].by)
    <3>1. table[fd] # Unused /\ table[fd] \in Entries
      BY <2>2 DEF IsOpen, DescInv, DescTypes
    <3>2. table[fd].by \in Opener
      BY <3>1, UnusedFacts
    <3> QED
      BY <3>1, <3>2 DEF DescInv, Own
  <2> QED
    BY <2>1, <2>2 DEF OwnDescriptors
<1> QED
  BY <1>1, DescInvCorrect, PTL

--------------------------------------------------------------------------------
(* The flags of open. *)

Leaky(e) == e.asked /\ e.done /\ ~e.cloexec
Blind == ver = "MINVER" /\ Kernel # "lion"

Kept ==
  /\ \A fd \in Table : table[fd] # Unused /\ Leaky(table[fd]) => Blind
  /\ \A u \in Opener : at[u] = "open" /\ "O_CLOEXEC" \in flags[u] /\ ~cloexec[u]
                       => Determined = "runtime" /\ ver = "MINVER"
  /\ \A e \in inherited : e.asked /\ e.done => Blind
  /\ followed => Determined = "runtime" /\ Kernel = "tiger"

(* Where the build finds the version it is that of the system, and what    *)
(* the systems since Leopard know the ones since Lion know too.            *)
LEMMA KernelFacts ==
  ASSUME IsTarget(target), system \in MINVER(target) .. MAXVER(target)
  PROVE  /\ Kernel \in {"tiger", "leopard", "lion"}
         /\ Determined \in {"tiger", "leopard", "runtime"}
         /\ Determined \in {"tiger", "leopard"} => Kernel = Determined
<1> DEFINE lo == From(target, leopard_since)
           hi == From(target, open_since)
           min == MINVER(target)
           max == MAXVER(target)
<1>1. lo \in Int /\ hi \in Int /\ lo =< hi
  BY DEF IsTarget, From, leopard_since, open_since
<1>2. min \in Int
  <2>1. PICK x, y, z \in Nat : target.version = <<x, y, z>>
    BY DEF IsTarget
  <2>2. /\ target.version[1] \in Nat /\ target.version[2] \in Nat /\ target.version[3] \in Nat
    BY <2>1
  <2>3. Least(target.version[3], 9) \in Nat
    BY <2>2 DEF Least
  <2> QED
    BY <2>2, <2>3 DEF MINVER, OSVER, Required
<1>3. max \in Int
  BY DEF MAXVER
<1>4. system \in Int /\ min =< system /\ system =< max
  BY <1>2, <1>3
<1> HIDE DEF lo, hi, min, max
<1>5. Kernel = IF system >= hi THEN "lion" ELSE IF system >= lo THEN "leopard" ELSE "tiger"
  BY DEF Kernel, Knows, lo, hi
<1>6. Determined = IF ~(max >= lo) THEN "tiger"
                   ELSE IF ~(max >= hi) /\ ~(min < lo) THEN "leopard" ELSE "runtime"
  BY DEF Determined, MAXVER_GE, MINVER_LT, lo, hi, min, max
<1> QED
  BY <1>1, <1>2, <1>3, <1>4, <1>5, <1>6

LEMMA KeptBy ==
  ASSUME Kept, NEW t \in Opener, target' = target, system' = system,
         ver = "MINVER" => ver' = "MINVER",
         \A g \in Table : table'[g] \in {table[g], Unused} \/ (Leaky(table'[g]) => Blind),
         \A u \in Opener \ {t} : at'[u] = at[u] /\ flags'[u] = flags[u] /\ cloexec'[u] = cloexec[u],
         at'[t] = "open" /\ "O_CLOEXEC" \in flags'[t] /\ ~cloexec'[t]
           => Determined = "runtime" /\ ver = "MINVER",
         \A e \in inherited' : e \in inherited,
         followed' => followed \/ (Determined = "runtime" /\ Kernel = "tiger")
  PROVE  Kept'
<1>1. Kernel' = Kernel /\ Determined' = Determined
  BY DEF Kernel, Knows, Determined
<1>2. Blind => Blind'
  BY <1>1 DEF Blind
<1>3. ASSUME NEW g \in Table, table'[g] # Unused, Leaky(table'[g]) PROVE Blind'
  BY <1>2, <1>3 DEF Kept
<1>4. \A u \in Opener : at'[u] = "open" /\ "O_CLOEXEC" \in flags'[u] /\ ~cloexec'[u]
                        => Determined = "runtime" /\ ver' = "MINVER"
  BY DEF Kept
<1>5. \A e \in inherited' : e.asked /\ e.done => Blind'
  BY <1>2 DEF Kept
<1>6. followed' => Determined = "runtime" /\ Kernel = "tiger"
  BY DEF Kept
<1>7. \A g \in Table : table'[g] # Unused /\ Leaky(table'[g]) => Blind'
  BY <1>3
<1> QED
  BY <1>1, <1>4, <1>5, <1>6, <1>7 DEF Kept, Leaky

LEMMA KeptSame ==
  ASSUME Kept, UNCHANGED <<target, system, ver, table, locals, outcome>>
  PROVE  Kept'
BY DEF Kept, Leaky, Blind, Kernel, Knows, Determined, locals, outcome

LEMMA KeptOpenCall ==
  ASSUME DescTypes, Kept, NEW t \in Opener, OpenCall(t)
  PROVE  Kept'
<1>1. /\ target' = target /\ system' = system /\ ver' = ver /\ table' = table
      /\ inherited' = inherited /\ followed' = followed /\ at' = [at EXCEPT ![t] = "version"]
      /\ cloexec' = [cloexec EXCEPT ![t] = FALSE]
  BY DEF OpenCall, To, outcome
<1>2. PICK f : flags' = [flags EXCEPT ![t] = f]
  BY DEF OpenCall
<1>3. /\ at'[t] = "version"
      /\ \A u \in Opener \ {t} : at'[u] = at[u] /\ flags'[u] = flags[u] /\ cloexec'[u] = cloexec[u]
  BY <1>1, <1>2 DEF DescTypes
<1> QED
  BY <1>1, <1>3, KeptBy

(* Steps to any other label than that of the kernel's open.                *)
LEMMA KeptTo ==
  ASSUME DescTypes, Kept, NEW t \in Opener, NEW l, l # "open", at' = [at EXCEPT ![t] = l],
         UNCHANGED <<target, system, flags, cloexec, outcome>>,
         ver = "MINVER" => ver' = "MINVER",
         \A g \in Table : table'[g] \in {table[g], Unused} \/ (Leaky(table'[g]) => Blind)
  PROVE  Kept'
<1>1. inherited' = inherited /\ followed' = followed
  BY DEF outcome
<1>2. at'[t] # "open" /\ \A u \in Opener \ {t} : at'[u] = at[u]
  BY DEF DescTypes
<1> QED
  BY <1>1, <1>2, KeptBy

LEMMA KeptVersion ==
  ASSUME DescTypes, Kept, NEW t \in Opener, Version(t)
  PROVE  Kept'
<1>1. ver = "MINVER" => ver' = "MINVER"
  BY DEF Version
<1> QED
  BY <1>1, KeptTo DEF Version, To

LEMMA KeptChangeFlags ==
  ASSUME DescTypes, Kept, NEW t \in Opener, ChangeFlags(t)
  PROVE  Kept'
<1>1. /\ target' = target /\ system' = system /\ ver' = ver /\ table' = table /\ flags' = flags
      /\ inherited' = inherited /\ followed' = followed /\ at' = [at EXCEPT ![t] = "open"]
      /\ cloexec' = [cloexec EXCEPT ![t] = NeedsFcntl(flags[t])]
  BY DEF ChangeFlags, To, outcome
<1>2. /\ cloexec'[t] = NeedsFcntl(flags[t])
      /\ \A u \in Opener \ {t} : at'[u] = at[u] /\ cloexec'[u] = cloexec[u]
  BY <1>1 DEF DescTypes
<1>3. IsTarget(target) /\ system \in MINVER(target) .. MAXVER(target)
  BY DEF DescTypes
<1>4. "O_CLOEXEC" \in flags[t] /\ ~NeedsFcntl(flags[t]) => Determined = "runtime" /\ ver = "MINVER"
  BY <1>3, KernelFacts DEF NeedsFcntl, Ver, DescTypes
<1> QED
  BY <1>1, <1>2, <1>4, KeptBy

(* A kernel that got the flags open changed: it keeps what was asked for,  *)
(* or open will, unless the version is not what open takes it for.         *)
LEMMA KernelUnderstands ==
  ASSUME DescTypes, Kept, NEW t \in Opener, at[t] = "open"
  PROVE  /\ "O_CLOEXEC" \in flags[t] /\ ~cloexec[t] /\ "O_CLOEXEC" \notin Flags(flags[t]) \cap Understood
              => Blind
         /\ "O_SYMLINK" \in flags[t]
            /\ (Flags(flags[t]) \cap Understood) \cap {"O_SYMLINK", "O_NOFOLLOW"} = {}
              => Determined = "runtime" /\ Kernel = "tiger"
<1>1. /\ Kernel \in {"tiger", "leopard", "lion"}
      /\ Determined \in {"tiger", "leopard", "runtime"}
      /\ Determined \in {"tiger", "leopard"} => Kernel = Determined
  BY KernelFacts DEF DescTypes
<1>2. ASSUME "O_CLOEXEC" \in flags[t], ~cloexec[t],
             "O_CLOEXEC" \notin Flags(flags[t]) \cap Understood
      PROVE  Blind
  <2>1. Determined = "runtime" /\ ver = "MINVER"
    BY <1>2 DEF Kept
  <2>2. "O_CLOEXEC" \in Flags(flags[t])
    BY <1>2, <2>1 DEF Flags, NeedsFcntl, Ver
  <2>3. Kernel # "lion"
    BY <1>2, <2>2 DEF Understood
  <2> QED
    BY <2>1, <2>3 DEF Blind
<1>3. ASSUME "O_SYMLINK" \in flags[t],
             (Flags(flags[t]) \cap Understood) \cap {"O_SYMLINK", "O_NOFOLLOW"} = {}
      PROVE  Determined = "runtime" /\ Kernel = "tiger"
  <2>1. Understood = IF Kernel = "tiger" THEN {"O_NOFOLLOW"}
                     ELSE IF Kernel = "leopard" THEN {"O_NOFOLLOW", "O_SYMLINK"}
                     ELSE {"O_NOFOLLOW", "O_SYMLINK", "O_CLOEXEC"}
    BY <1>1 DEF Understood
  <2>2. Ver = "tiger" => "O_NOFOLLOW" \in Flags(flags[t])
    BY <1>3 DEF Flags
  <2>3. Ver # "tiger" => "O_SYMLINK" \in Flags(flags[t])
    BY <1>3 DEF Flags
  <2>4. "O_NOFOLLOW" \in Understood /\ (Kernel # "tiger" => "O_SYMLINK" \in Understood)
    BY <1>1, <2>1
  <2>5. Ver # "tiger" /\ Kernel = "tiger"
    BY <1>3, <2>2, <2>3, <2>4
  <2> QED
    BY <1>1, <2>5 DEF Ver
<1> QED
  BY <1>2, <1>3

LEMMA KeptKernelOpens ==
  ASSUME DescTypes, Kept, NEW t \in Opener, KernelOpens(t)
  PROVE  Kept'
<1> DEFINE known == Flags(flags[t]) \cap Understood
           a == "O_CLOEXEC" \in flags[t]
           s == "O_CLOEXEC" \in known
           d == ~cloexec[t]
<1>1. at[t] = "open"
  BY DEF KernelOpens
<1>2. /\ a /\ d /\ ~s => Blind
      /\ "O_SYMLINK" \in flags[t] /\ known \cap {"O_SYMLINK", "O_NOFOLLOW"} = {}
           => Determined = "runtime" /\ Kernel = "tiger"
  BY <1>1, KernelUnderstands
<1>3. /\ target' = target /\ system' = system /\ ver' = ver /\ flags' = flags
      /\ inherited' = inherited /\ cloexec' = cloexec
  BY DEF KernelOpens
<1>4. CASE /\ Lowest # NoFd
           /\ table' = [table EXCEPT ![Lowest] = Entry(t, "open", a, s, d)]
           /\ followed' = (followed \/ ("O_SYMLINK" \in flags[t]
                                        /\ known \cap {"O_SYMLINK", "O_NOFOLLOW"} = {}))
           /\ at' = [at EXCEPT ![t] = IF cloexec[t] THEN "fcntl" ELSE "idle"]
  <2> DEFINE e == Entry(t, "open", a, s, d)
  <2>1. Leaky(e) => Blind
    <3>1. a \in BOOLEAN /\ s \in BOOLEAN /\ d \in BOOLEAN
      OBVIOUS
    <3> HIDE DEF a, s, d, known
    <3>2. e.asked = a /\ e.cloexec = s /\ e.done = d
      BY <3>1, EntryFacts
    <3> QED
      BY <1>2, <3>2 DEF Leaky
  <2> HIDE DEF known, a, s, d
  <2>2. table' = [table EXCEPT ![Lowest] = e]
    BY <1>4
  <2> HIDE DEF e
  <2>3. \A g \in Table : table'[g] = table[g] \/ table'[g] = e
    BY <2>2 DEF DescTypes
  <2>4. at'[t] # "open" /\ \A u \in Opener \ {t} : at'[u] = at[u]
    BY <1>4 DEF DescTypes
  <2>5. \A g \in Table : table'[g] \in {table[g], Unused} \/ (Leaky(table'[g]) => Blind)
    BY <2>1, <2>3
  <2>6. followed' => followed \/ (Determined = "runtime" /\ Kernel = "tiger")
    BY <1>2, <1>4
  <2> QED
    BY <1>3, <2>4, <2>5, <2>6, KeptBy
<1>5. CASE at' = [at EXCEPT ![t] = "failed"] /\ UNCHANGED <<table, hand, followed>>
  BY <1>3, <1>5, KeptTo DEF outcome
<1> QED
  BY <1>4, <1>5 DEF KernelOpens, To

LEMMA KeptFdopendir ==
  ASSUME DescTypes, Kept, NEW t \in Opener, fdopendir(t)
  PROVE  Kept'
<1>1. ASSUME NEW fn \in {"fdopendir", "opendir"} PROVE ~Leaky(Entry(t, fn, TRUE, TRUE, TRUE))
  BY EntryFacts DEF Leaky
<1>2. ASSUME NEW f, NEW fn \in {"fdopendir", "opendir"},
             table' = [table EXCEPT ![f] = Entry(t, fn, TRUE, TRUE, TRUE)]
      PROVE  \A g \in Table : table'[g] \in {table[g], Unused} \/ (Leaky(table'[g]) => Blind)
  <2> DEFINE e == Entry(t, fn, TRUE, TRUE, TRUE)
  <2>1. ~Leaky(e) /\ table' = [table EXCEPT ![f] = e]
    BY <1>1, <1>2
  <2> HIDE DEF e
  <2>2. \A g \in Table : table'[g] = table[g] \/ table'[g] = e
    BY <2>1 DEF DescTypes
  <2> QED
    BY <2>1, <2>2
<1>3. ASSUME NEW f, table' = Without(f)
      PROVE  \A g \in Table : table'[g] \in {table[g], Unused} \/ (Leaky(table'[g]) => Blind)
  <2>1. \A g \in Table : table'[g] = table[g] \/ table'[g] = Unused
    BY <1>3 DEF Without, DescTypes
  <2> QED
    BY <2>1
<1>4. CASE Fdopendir(t)
  <2>1. UNCHANGED <<target, system, ver, flags, cloexec, outcome>>
    BY <1>4 DEF Fdopendir
  <2>2. CASE at' = [at EXCEPT ![t] = "opendir"] /\ UNCHANGED table
    BY <2>1, <2>2, KeptTo
  <2>3. CASE at' = [at EXCEPT ![t] = "idle"] /\ UNCHANGED table
    BY <2>1, <2>3, KeptTo
  <2>4. CASE /\ at' = [at EXCEPT ![t] = "idle"]
             /\ table' = [table EXCEPT ![hand[t]] = Entry(t, "fdopendir", TRUE, TRUE, TRUE)]
    BY <1>2, <2>1, <2>4, KeptTo
  <2> QED
    BY <1>4, <2>2, <2>3, <2>4 DEF Fdopendir, To
<1>5. CASE Opendir(t)
  <2>1. UNCHANGED <<target, system, ver, flags, cloexec, outcome>>
    BY <1>5 DEF Opendir
  <2>2. CASE /\ at' = [at EXCEPT ![t] = IF hand[t] = NoFd THEN "failed" ELSE "idle"]
             /\ UNCHANGED table
    <3>1. CASE at' = [at EXCEPT ![t] = "failed"]
      BY <2>1, <2>2, <3>1, KeptTo
    <3>2. CASE at' = [at EXCEPT ![t] = "idle"]
      BY <2>1, <2>2, <3>2, KeptTo
    <3> QED
      BY <2>2, <3>1, <3>2
  <2>3. CASE /\ at' = [at EXCEPT ![t] = "close"]
             /\ table' = [table EXCEPT ![Lowest] = Entry(t, "opendir", TRUE, TRUE, TRUE)]
    BY <1>2, <2>1, <2>3, KeptTo
  <2> QED
    BY <1>5, <2>2, <2>3 DEF Opendir, To
<1>6. CASE CloseOwn(t)
  BY <1>3, <1>6, KeptTo DEF CloseOwn, To
<1>7. CASE StoreFd(t)
  BY <1>7, KeptTo DEF StoreFd, To
<1>8. CASE SetFd(t)
  <2>1. UNCHANGED <<target, system, ver, flags, cloexec, outcome>> /\ at' = [at EXCEPT ![t] = "idle"]
    BY <1>8 DEF SetFd, To
  <2>2. CASE table' = table
    BY <2>1, <2>2, KeptTo
  <2>3. CASE table' = [table EXCEPT ![dir[t].fd] = Entry(t, "fdopendir", TRUE, TRUE, TRUE)]
    BY <1>2, <2>1, <2>3, KeptTo
  <2> QED
    BY <1>8, <2>2, <2>3 DEF SetFd
<1> QED
  BY <1>4, <1>5, <1>6, <1>7, <1>8 DEF fdopendir

LEMMA KeptSetCloexec ==
  ASSUME DescInv, Kept, NEW t \in Opener, SetCloexec(t)
  PROVE  Kept'
<1> DEFINE f == hand[t]
<1>1. /\ table'[f].cloexec = TRUE
      /\ \A g \in Table \ {f} : table'[g] = table[g]
  BY SetCloexecKeeps
<1> HIDE DEF f
<1>2. \A g \in Table : table'[g] \in {table[g], Unused} \/ (Leaky(table'[g]) => Blind)
  BY <1>1 DEF Leaky
<1> QED
  BY <1>2, KeptTo DEF SetCloexec, To, DescInv

LEMMA KeptOther ==
  ASSUME DescTypes, Kept, NEW t \in Opener, Close(t) \/ Closedir(t) \/ GiveUp(t)
  PROVE  Kept'
<1>1. CASE GiveUp(t)
  BY <1>1, KeptTo DEF GiveUp, To
<1>2. CASE Close(t) \/ Closedir(t)
  <2>1. UNCHANGED <<target, system, ver, locals, outcome>> /\ at' = at /\ flags' = flags /\ cloexec' = cloexec
        /\ inherited' = inherited /\ followed' = followed
    BY <1>2 DEF Close, Closedir, locals, outcome
  <2>2. \A g \in Table : table'[g] \in {table[g], Unused}
    BY <1>2 DEF Close, Closedir, Without, DescTypes
  <2>3. at'[t] = "open" /\ "O_CLOEXEC" \in flags'[t] /\ ~cloexec'[t]
          => Determined = "runtime" /\ ver = "MINVER"
    BY <2>1 DEF Kept
  <2> QED
    BY <2>1, <2>2, <2>3, KeptBy
<1> QED
  BY <1>1, <1>2

LEMMA KeptExec ==
  ASSUME DescTypes, Kept, Exec
  PROVE  Kept'
<1>1. UNCHANGED <<target, system, ver, table, locals, followed>> /\ at' = at /\ flags' = flags /\ cloexec' = cloexec
  BY DEF Exec, locals
<1>2. Kernel' = Kernel /\ Determined' = Determined /\ (Blind' <=> Blind)
  BY <1>1 DEF Kernel, Knows, Determined, Blind
<1>3. ASSUME NEW e \in inherited', e.asked, e.done PROVE Blind
  <2>1. CASE e \in inherited
    BY <1>3, <2>1 DEF Kept
  <2>2. CASE e \notin inherited
    <3>1. PICK fd \in Table : IsOpen(fd) /\ ~table[fd].cloexec /\ e = table[fd]
      BY <1>3, <2>2 DEF Exec
    <3> QED
      BY <1>3, <3>1 DEF Kept, Leaky, IsOpen
  <2> QED
    BY <2>1, <2>2
<1> QED
  BY <1>1, <1>2, <1>3 DEF Kept

LEMMA KeptInit == DescriptorsInit => Kept
BY DEF DescriptorsInit, Kept

LEMMA KeptStep == DescInv /\ Kept /\ [DescriptorsNext]_descriptors => Kept'
<1> SUFFICES ASSUME DescInv, Kept, [DescriptorsNext]_descriptors PROVE Kept'
  OBVIOUS
<1>1. DescTypes
  BY DEF DescInv
<1>2. CASE Exec
  BY <1>1, <1>2, KeptExec
<1>3. ASSUME NEW t \in Opener, open(t) PROVE Kept'
  BY <1>1, <1>3, KeptOpenCall, KeptVersion, KeptChangeFlags, KeptKernelOpens, KeptSetCloexec, Zenon
     DEF open
<1>4. ASSUME NEW t \in Opener, fdopendir(t) PROVE Kept'
  BY <1>1, <1>4, KeptFdopendir
<1>5. ASSUME NEW t \in Opener, Close(t) \/ Closedir(t) \/ GiveUp(t) PROVE Kept'
  BY <1>1, <1>5, KeptOther
<1>6. CASE UNCHANGED descriptors
  <2>1. UNCHANGED <<target, system, ver, table, locals, outcome>>
    BY <1>6 DEF descriptors
  <2> QED
    BY <2>1, KeptSame
<1> QED
  BY <1>2, <1>3, <1>4, <1>5, <1>6, Zenon DEF DescriptorsNext

(* FlagsKept: on every system a target can meet, a program that is started *)
(* gets no descriptor opened with O_CLOEXEC and O_SYMLINK does not follow  *)
(* a link, but where open takes the system for a newer one.                *)
THEOREM FlagsKeptCorrect == DescriptorsSpec => []FlagsKept
<1>1. Kept => FlagsKept
  BY DEF Kept, FlagsKept, Blind
<1>2. DescriptorsSpec => []Kept
  BY DescInvCorrect, KeptInit, KeptStep, PTL DEF DescriptorsSpec
<1> QED
  BY <1>1, <1>2, PTL
--------------------------------------------------------------------------------
(* Targets.  A target's version is a.b.d; the number that clang makes of   *)
(* it has five or six digits, four for a macOS before 10.10.               *)

Old(t) == t.os = "macos" /\ Older(t.version, <<10, 10, 0>>)
Five(a, b, d) == a * 10000 + b * 100 + d
Four(b, d) == 1000 + b * 10 + d

Numbers(t, a, b, d) ==
  /\ t.version = <<a, b, d>>
  /\ 1 <= a /\ a < 100 /\ b < 100 /\ d < 100
  /\ Old(t) => /\ a = 10 /\ b < 10 /\ t.os = "macos" 
               /\ OSVER(t) = Four(b, Least(d, 9))
               /\ SUBSYSTEMVER(OSVER(t)) = <<10, b, Least(d, 9)>>
  /\ ~Old(t) => /\ t.os = "macos" => a > 10 \/ (a = 10 /\ b >= 10)
                /\ OSVER(t) = Five(a, b, d)
                /\ SUBSYSTEMVER(OSVER(t)) = <<a, b, d>>

(* What depcheck takes apart is what clang put together. *)
LEMMA Digits ==
  ASSUME NEW a \in Nat, NEW b \in Nat, NEW d \in Nat, a >= 1, b < 100, d < 100
  PROVE  SUBSYSTEMVER(Five(a, b, d)) = <<a, b, d>>
<1> DEFINE num == Five(a, b, d)
<1>1. num \div 10000 = a /\ num % 10000 = b * 100 + d
  BY SMT DEF Five
<1>2. (b * 100 + d) \div 100 = b
  BY SMT
<1>3. num % 100 = d
  BY SMT DEF Five
<1>4. num \in Nat /\ ~(num < 10000)
  BY SMT DEF Five
<1> HIDE DEF num
<1>5. SUBSYSTEMVER(num) = <<a, b, d>>
  BY <1>1, <1>2, <1>3, <1>4, SMT DEF SUBSYSTEMVER
<1> QED
  BY <1>5, SMT DEF num

LEMMA OldDigits ==
  ASSUME NEW b \in Nat, NEW d \in Nat, b < 10, d < 10
  PROVE  SUBSYSTEMVER(Four(b, d)) = <<10, b, d>>
<1> DEFINE num == Four(b, d)
<1>1. num \in Nat /\ num < 10000 /\ num - 1000 = b * 10 + d
  BY SMT DEF Four
<1>2. (b * 10 + d) \div 10 = b /\ (b * 10 + d) % 10 = d
  BY SMT
<1> HIDE DEF num
<1>3. SUBSYSTEMVER(num) = <<10, b, d>>
  BY <1>1, <1>2, SMT DEF SUBSYSTEMVER
<1> QED
  BY <1>3, SMT DEF num

LEMMA TargetNumbers ==
  ASSUME NEW t, Existing(t)
  PROVE  \E a, b, d \in Nat : Numbers(t, a, b, d)
<1>1. PICK a \in Nat, b \in Nat, d \in Nat : t.version = <<a, b, d>>
  BY SMT DEF Existing, IsTarget
<1>2. t.version[1] = a /\ t.version[2] = b /\ t.version[3] = d
  BY <1>1, SMT
<1>3. 1 <= a /\ a < 100 /\ b < 100 /\ d < 100 /\ (t.os = "macos" => a >= 10)
  BY <1>2, SMT DEF Existing
<1>4. Older(t.version, <<10, 10, 0>>) <=> a < 10 \/ (a = 10 /\ b < 10)
  BY <1>2, SMT DEF Older
<1>5. CASE Old(t)
  <2>1. a = 10 /\ b < 10 /\ t.os = "macos"
    BY <1>3, <1>4, <1>5, SMT DEF Old
  <2>2. OSVER(t) = Four(b, Least(d, 9))
    BY <1>2, <1>5, SMT DEF Old, OSVER, Required, Four
  <2>3. Least(d, 9) \in Nat /\ Least(d, 9) < 10
    BY SMT DEF Least
  <2>4. SUBSYSTEMVER(OSVER(t)) = <<10, b, Least(d, 9)>>
    BY <2>1, <2>2, <2>3, OldDigits, SMT
  <2>5. Numbers(t, a, b, d)
    BY <1>1, <1>3, <1>5, <2>1, <2>2, <2>4, Zenon DEF Numbers
  <2> QED
    BY <2>5, Zenon
<1>6. CASE ~Old(t)
  <2>1. t.os = "macos" => a > 10 \/ (a = 10 /\ b >= 10)
    BY <1>3, <1>4, <1>6, SMT DEF Old
  <2>2. OSVER(t) = Five(a, b, d)
    BY <1>2, <1>6, SMT DEF Old, OSVER, Required, Five
  <2>3. SUBSYSTEMVER(OSVER(t)) = <<a, b, d>>
    <3>1. a >= 1 /\ b < 100 /\ d < 100
      BY <1>3, SMT
    <3>2. SUBSYSTEMVER(Five(a, b, d)) = <<a, b, d>>
      BY <3>1, Digits, Zenon
    <3> QED
      BY <2>2, <3>2, Zenon
  <2>5. Numbers(t, a, b, d)
    BY <1>1, <1>3, <1>6, <2>1, <2>2, <2>3, Zenon DEF Numbers
  <2> QED
    BY <2>5, Zenon
<1> QED
  BY <1>5, <1>6, Zenon

LEMMA VersionIsRight == ASSUME NEW t, Existing(t) PROVE VersionRight(t)
<1>1. PICK a, b, d \in Nat : Numbers(t, a, b, d)
  BY TargetNumbers, SMT
<1>2. t.version[1] = a /\ t.version[2] = b /\ t.version[3] = d
  BY <1>1, SMT DEF Numbers
<1> QED
  BY <1>1, <1>2, SMT DEF Numbers, VersionRight, Old

LEMMA NumberBounds ==
  ASSUME NEW t, NEW a \in Nat, NEW b \in Nat, NEW d \in Nat, Numbers(t, a, b, d)
  PROVE  /\ OSVER(t) \in Nat /\ OSVER(t) <= 999999
         /\ t.os # "macos" => ~Old(t)
         /\ Old(t) => OSVER(t) <= 1099 /\ 1000 + b * 10 <= OSVER(t) /\ OSVER(t) <= 1009 + b * 10
         /\ ~Old(t) => OSVER(t) >= 10000 /\ a * 10000 <= OSVER(t) /\ OSVER(t) < a * 10000 + 10000
<1>1. Least(d, 9) \in Nat /\ Least(d, 9) < 10
  BY SMT DEF Least
<1>2. t.os # "macos" => ~Old(t)
  BY SMT DEF Old
<1>3. Old(t) => OSVER(t) \in Nat /\ OSVER(t) <= 999999 /\ OSVER(t) <= 1099 /\ 1000 + b * 10 <= OSVER(t) /\ OSVER(t) <= 1009 + b * 10
  BY <1>1, SMT DEF Numbers, Four
<1>4. ~Old(t) => /\ OSVER(t) \in Nat /\ OSVER(t) <= 999999
                 /\ OSVER(t) >= 10000 /\ a * 10000 <= OSVER(t) /\ OSVER(t) < a * 10000 + 10000
  BY SMT DEF Numbers, Five
<1> QED
  <2>1. CASE Old(t)
    BY <1>2, <1>3, <2>1, SMT
  <2>2. CASE ~Old(t)
    BY <1>2, <1>4, <2>2, SMT
  <2> QED
    BY <2>1, <2>2, SMT

LEMMA RangeIsRight == ASSUME NEW t, Existing(t) PROVE RangeRight(t)
<1>1. PICK a \in Nat, b \in Nat, d \in Nat : Numbers(t, a, b, d)
  BY TargetNumbers, SMT
<1>2. /\ OSVER(t) \in Nat /\ OSVER(t) <= 999999
      /\ t.os # "macos" => ~Old(t)
      /\ Old(t) => OSVER(t) <= 1099 /\ 1000 + b * 10 <= OSVER(t) /\ OSVER(t) <= 1009 + b * 10
      /\ ~Old(t) => OSVER(t) >= 10000 /\ a * 10000 <= OSVER(t) /\ OSVER(t) < a * 10000 + 10000
  BY <1>1, NumberBounds, SMT
<1>3. t.version[1] = a /\ t.version[2] = b
  BY <1>1, SMT DEF Numbers
<1>4. Old(t) => a = 10 /\ b < 10
  BY <1>1, SMT DEF Numbers
<1>5. MAXVER(t) >= MINVER(t)
  <2>1. CASE t.os = "macos" /\ t.cpu \in {"ppc", "ppc64"}
    <3>1. a = 10 /\ b < 6
      BY <1>3, <2>1, SMT DEF Existing
    <3>2. OSVER(t) <= 1059
      <4>1. Old(t)
        BY <1>1, <2>1, <3>1, SMT DEF Numbers
      <4> QED
        BY <1>2, <3>1, <4>1, SMT
    <3>3. MAXVER(t) = 1059 \/ MAXVER(t) = 1069
      BY <2>1, SMT DEF MAXVER, Intel64, Arm32
    <3> QED
      BY <1>2, <3>2, <3>3, SMT DEF MINVER
  <2>2. CASE t.os = "macos" /\ t.cpu = "i386"
    <3>1. a = 10 /\ b < 15
      BY <1>3, <2>2, SMT DEF Existing
    <3>2. OSVER(t) <= 101499
      <4>1. CASE Old(t)
        BY <1>2, <4>1, SMT
      <4>2. CASE ~Old(t)
        BY <1>1, <3>1, <4>2, SMT DEF Numbers, Five
      <4> QED
        BY <4>1, <4>2, SMT
    <3>3. MAXVER(t) = 101499
      BY <2>2, SMT DEF MAXVER, Intel64, Arm32
    <3> QED
      BY <1>2, <3>2, <3>3, SMT DEF MINVER
  <2>3. CASE t.os = "macos" /\ t.cpu \in Intel64
    <3>1. a < 28
      BY <1>3, <2>3, SMT DEF Existing
    <3>2. OSVER(t) <= 279999
      BY <1>2, <3>1, SMT
    <3>3. MAXVER(t) = 279999
      BY <2>3, SMT DEF MAXVER, Intel64, Arm32
    <3> QED
      BY <1>2, <3>2, <3>3, SMT DEF MINVER
  <2>4. CASE t.os = "ios"
    <3>1. CASE OSVER(t) < 20000
      <4>1. MAXVER(t) = 19999
        BY <1>2, <2>4, <3>1, SMT DEF MAXVER, MINVER, Intel64, Arm32
      <4> QED
        BY <1>2, <3>1, <4>1, SMT DEF MINVER
    <3>2. CASE ~(OSVER(t) < 20000) /\ t.cpu \in Arm32
      <4>1. a < 11
        BY <1>3, <2>4, <3>2, SMT DEF Existing
      <4>2. MAXVER(t) = 109999
        BY <1>2, <2>4, <3>2, SMT DEF MAXVER, MINVER, Intel64, Arm32
      <4> QED
        BY <1>2, <2>4, <4>1, <4>2, SMT DEF MINVER
    <3>3. CASE ~(OSVER(t) < 20000) /\ t.cpu \notin Arm32
      <4>1. MAXVER(t) = 999999
        BY <1>2, <2>4, <3>3, SMT DEF MAXVER, MINVER, Intel64, Arm32
      <4> QED
        BY <1>2, <4>1, SMT DEF MINVER
    <3> QED
      BY <3>1, <3>2, <3>3, SMT
  <2>5. CASE t.os \notin {"macos", "ios"} \/ (t.os = "macos" /\ t.cpu \notin {"ppc", "ppc64", "i386"} \cup Intel64)
    <3>1. MAXVER(t) = 999999
      BY <2>5, SMT DEF MAXVER, Intel64, Arm32
    <3> QED
      BY <1>2, <3>1, SMT DEF MINVER
  <2> QED
    BY <2>1, <2>2, <2>3, <2>4, <2>5, Zenon
<1>6. recursivedeps(t) = ~supportsrust(t)
  <2>1. (recursivedeps(t) \in BOOLEAN) /\ (supportsrust(t) \in BOOLEAN)
    BY SMT DEF recursivedeps, supportsrust
  <2>2. recursivedeps(t) <=> ~supportsrust(t)
    BY SMT DEF recursivedeps, supportsrust
  <2> QED
    BY <2>1, <2>2, Zenon
<1>7. recursivedeps(t) /\ t.os = "ios" => ~MAXVER_GE(t, lutimes_since)
  <2> SUFFICES ASSUME t.os = "ios", OSVER(t) < 20000 PROVE ~MAXVER_GE(t, lutimes_since)
    BY SMT DEF recursivedeps
  <2>1. MAXVER(t) = 19999
    BY <1>2, SMT DEF MAXVER, MINVER, Intel64, Arm32
  <2>2. From(t, lutimes_since) = 20000
    BY SMT DEF From, lutimes_since
  <2> QED
    BY <2>1, <2>2, SMT DEF MAXVER_GE
<1> QED
  BY <1>5, <1>6, <1>7, Zenon DEF RangeRight

LEMMA ArchIsRight == ASSUME NEW t, Existing(t), NEW u, Existing(u) PROVE ArchRight(t, u)
<1> SUFFICES ASSUME t.os = "ios", u.os = "ios", t.cpu \in Arm32, u.cpu \in Arm32
             PROVE  DPKGARCH(t) = DPKGARCH(u) <=> MINVER(t) <= MAXVER(u) /\ MINVER(u) <= MAXVER(t)
  BY Zenon DEF ArchRight
<1>1. ASSUME NEW x, Existing(x), x.os = "ios", x.cpu \in Arm32
      PROVE  /\ MINVER(x) \in Nat
             /\ MINVER(x) < 20000 => MAXVER(x) = 19999 /\ DPKGARCH(x) = "darwin-arm"
             /\ ~(MINVER(x) < 20000) => /\ MINVER(x) < 110000 /\ MAXVER(x) = 109999
                                         /\ DPKGARCH(x) = "iphoneos-arm"
  <2>1. PICK a \in Nat, b \in Nat, d \in Nat : Numbers(x, a, b, d)
    BY <1>1, TargetNumbers, SMT
  <2>2. OSVER(x) \in Nat /\ OSVER(x) < a * 10000 + 10000
    BY <1>1, <2>1, NumberBounds, SMT
  <2>3. a < 11
    BY <1>1, <2>1, SMT DEF Existing, Numbers
  <2>4. x.cpu \notin Arm64
    BY <1>1, SMT DEF Arm32, Arm64
  <2>5. CASE OSVER(x) < 20000
    <3>1. MAXVER(x) = 19999
      BY <1>1, <2>2, <2>5, SMT DEF MAXVER, MINVER, Intel64, Arm32
    <3>2. DPKGARCH(x) = "darwin-arm"
      BY <1>1, <2>4, <2>5, SMT DEF DPKGARCH, Arm64, Arm32, Intel64
    <3> QED
      BY <2>2, <2>5, <3>1, <3>2, SMT DEF MINVER
  <2>6. CASE ~(OSVER(x) < 20000)
    <3>1. MAXVER(x) = 109999
      BY <1>1, <2>2, <2>6, SMT DEF MAXVER, MINVER, Intel64, Arm32
    <3>2. DPKGARCH(x) = "iphoneos-arm"
      BY <1>1, <2>4, <2>6, SMT DEF DPKGARCH, Arm64, Arm32, Intel64
    <3>3. OSVER(x) < 110000
      BY <2>2, <2>3, SMT
    <3> QED
      BY <2>2, <2>6, <3>1, <3>2, <3>3, SMT DEF MINVER
  <2> QED
    BY <2>5, <2>6, SMT
<1>2. /\ MINVER(t) \in Nat
      /\ MINVER(t) < 20000 => MAXVER(t) = 19999 /\ DPKGARCH(t) = "darwin-arm"
      /\ ~(MINVER(t) < 20000) => /\ MINVER(t) < 110000 /\ MAXVER(t) = 109999
                                  /\ DPKGARCH(t) = "iphoneos-arm"
  BY <1>1, SMT
<1>3. /\ MINVER(u) \in Nat
      /\ MINVER(u) < 20000 => MAXVER(u) = 19999 /\ DPKGARCH(u) = "darwin-arm"
      /\ ~(MINVER(u) < 20000) => /\ MINVER(u) < 110000 /\ MAXVER(u) = 109999
                                  /\ DPKGARCH(u) = "iphoneos-arm"
  BY <1>1, SMT
<1> QED
  BY <1>2, <1>3, SMT

--------------------------------------------------------------------------------
(* The rows of depcheck's table for a major version a: its macOS is A.B.    *)
PhoneRow(o, a, A, B) ==
  \/ a \in {1, 2} /\ A = 10 /\ B = 5
  \/ a \in {3, 4} /\ o < 40300 /\ A = 10 /\ B = 6
  \/ a \in {4, 5} /\ o >= 40300 /\ A = 10 /\ B = 7
  \/ a \in 6 .. 13 /\ A = 10 /\ B = a + 2
  \/ a \in 14 .. 18 /\ A = a - 3 /\ B = 0

WatchRow(o, a, A, B) ==
  \/ a \in 2 .. 6 /\ A = 10 /\ B = a + 9
  \/ a \in 7 .. 11 /\ A = a + 4 /\ B = 0

LEMMA Major ==
  ASSUME NEW t, NEW a \in Nat, NEW b \in Nat, NEW d \in Nat, Numbers(t, a, b, d), ~Old(t)
  PROVE  OSVER(t) \div 10000 = a
BY SMT DEF Numbers, Five

LEMMA PhoneRows ==
  ASSUME NEW o \in Nat, NEW a \in Nat, o \div 10000 = a, a >= 1
  PROVE  IF a <= 18 THEN \E A, B \in Nat : MacOfPhone(o) = <<A, B, 0>> /\ PhoneRow(o, a, A, B)
                    ELSE MacOfPhone(o) = Unsupported
<1>1. CASE a \in {1, 2}
  <2>1. MacOfPhone(o) = <<10, 5, 0>>
    BY <1>1, SMT DEF MacOfPhone
  <2>2. PhoneRow(o, a, 10, 5)
    BY <1>1, SMT DEF PhoneRow
  <2> QED
    BY <1>1, <2>1, <2>2, SMT
<1>2. CASE a \in {3, 4} /\ o < 40300
  <2>1. MacOfPhone(o) = <<10, 6, 0>>
    BY <1>2, SMT DEF MacOfPhone
  <2>2. PhoneRow(o, a, 10, 6)
    BY <1>2, SMT DEF PhoneRow
  <2> QED
    BY <1>2, <2>1, <2>2, SMT
<1>3. CASE a \in {4, 5} /\ o >= 40300
  <2>1. MacOfPhone(o) = <<10, 7, 0>>
    BY <1>3, SMT DEF MacOfPhone
  <2>2. PhoneRow(o, a, 10, 7)
    BY <1>3, SMT DEF PhoneRow
  <2> QED
    BY <1>3, <2>1, <2>2, SMT
<1>4. CASE a \in 6 .. 13
  <2>1. MacOfPhone(o) = <<10, a + 2, 0>>
    BY <1>4, SMT DEF MacOfPhone
  <2>2. PhoneRow(o, a, 10, a + 2)
    BY <1>4, SMT DEF PhoneRow
  <2> QED
    BY <1>4, <2>1, <2>2, SMT
<1>5. CASE a \in 14 .. 18
  <2>1. MacOfPhone(o) = <<a - 3, 0, 0>>
    BY <1>5, SMT DEF MacOfPhone
  <2>2. PhoneRow(o, a, a - 3, 0)
    BY <1>5, SMT DEF PhoneRow
  <2>3. a - 3 \in Nat
    BY <1>5, SMT
  <2> QED
    BY <1>5, <2>1, <2>2, <2>3, SMT
<1>6. CASE a > 18
  BY <1>6, SMT DEF MacOfPhone
<1>7. a = 3 => o < 40300
  BY SMT
<1>8. a = 5 => o >= 40300
  BY SMT
<1> QED
  BY <1>1, <1>2, <1>3, <1>4, <1>5, <1>6, <1>7, <1>8, SMT

LEMMA WatchRows ==
  ASSUME NEW o \in Nat, NEW a \in Nat, o \div 10000 = a
  PROVE  IF a \in 2 .. 11 THEN \E A, B \in Nat : MacOfWatch(o) = <<A, B, 0>> /\ WatchRow(o, a, A, B)
                          ELSE MacOfWatch(o) = Unsupported
<1>1. CASE a \in 2 .. 6
  <2>1. MacOfWatch(o) = <<10, a + 9, 0>>
    BY <1>1, SMT DEF MacOfWatch
  <2>2. WatchRow(o, a, 10, a + 9)
    BY <1>1, SMT DEF WatchRow
  <2> QED
    BY <1>1, <2>1, <2>2, SMT
<1>2. CASE a \in 7 .. 11
  <2>1. MacOfWatch(o) = <<a + 4, 0, 0>>
    BY <1>2, SMT DEF MacOfWatch
  <2>2. WatchRow(o, a, a + 4, 0)
    BY <1>2, SMT DEF WatchRow
  <2> QED
    BY <1>2, <2>1, <2>2, SMT
<1>3. CASE a \notin 2 .. 11
  BY <1>3, SMT DEF MacOfWatch
<1> QED
  BY <1>1, <1>2, <1>3, SMT

LEMMA MacNumber ==
  ASSUME NEW A \in Nat, NEW B \in Nat
  PROVE  Required("macos", <<A, B, 0>>) =
           IF A < 10 \/ (A = 10 /\ B < 10) THEN 1000 + B * 10 ELSE A * 10000 + B * 100
<1>1. Older(<<A, B, 0>>, <<10, 10, 0>>) <=> A < 10 \/ (A = 10 /\ B < 10)
  BY SMT DEF Older
<1>2. Least(0, 9) = 0
  BY SMT DEF Least
<1> QED
  BY <1>1, <1>2, SMT DEF Required

LEMMA PhoneAgrees ==
  ASSUME NEW o \in Nat, NEW a \in Nat, a * 10000 <= o, o < a * 10000 + 10000,
         NEW A \in Nat, NEW B \in Nat, PhoneRow(o, a, A, B),
         NEW since \in AllSince, o < since[2]
  PROVE  \/ Required("macos", <<A, B, 0>>) < since[1]
         \/ since = realpath_since /\ 30000 <= o /\ o < 30200
         \/ since = lutimes_since /\ o < 20000
<1> DEFINE r == Required("macos", <<A, B, 0>>)
<1>1. r = IF A < 10 \/ (A = 10 /\ B < 10) THEN 1000 + B * 10 ELSE A * 10000 + B * 100
  BY MacNumber, SMT
<1>2. \/ since = realpath_since /\ since[1] = 1060 /\ since[2] = 30200
      \/ since = lutimes_since /\ since[1] = 1050 /\ since[2] = 20000
      \/ since[1] = 1070 /\ since[2] = 40300
      \/ since[1] = 1060 /\ since[2] = 30000
      \/ since[1] = 1050 /\ since[2] = 0
      \/ since[1] = 1080 /\ since[2] = 60000
      \/ since[1] = 1090 /\ since[2] = 70000
      \/ since[1] = 101000 /\ since[2] = 80000
      \/ since[1] = 101200 /\ since[2] = 100000
      \/ since[1] = 101300 /\ since[2] = 110000
      \/ since[1] = 150400 /\ since[2] = 180400
  BY SMT DEF AllSince, open_since, realpath_since, posix_memalign_since, lutimes_since, lchmod_since,
         dirfd_since, proc_pid_rusage_since, fdopendir_since, clock_gettime_since,
         futimens_since, strchrnul_since
<1> HIDE DEF r
<1>3. \/ r < since[1]
      \/ since = realpath_since /\ 30000 <= o /\ o < 30200
      \/ since = lutimes_since /\ o < 20000
  BY <1>1, <1>2, SMT DEF PhoneRow
<1> QED
  BY <1>3, SMT DEF r

LEMMA WatchAgrees ==
  ASSUME NEW o \in Nat, NEW a \in Nat, a * 10000 <= o, o < a * 10000 + 10000,
         NEW A \in Nat, NEW B \in Nat, WatchRow(o, a, A, B),
         NEW since \in AllSince, o < since[3]
  PROVE  Required("macos", <<A, B, 0>>) < since[1]
<1> DEFINE r == Required("macos", <<A, B, 0>>)
<1>1. r = IF A < 10 \/ (A = 10 /\ B < 10) THEN 1000 + B * 10 ELSE A * 10000 + B * 100
  BY MacNumber, SMT
<1>2. \/ since[3] = 0
      \/ since[1] = 101200 /\ since[3] = 30000
      \/ since[1] = 101300 /\ since[3] = 40000
      \/ since[1] = 150400 /\ since[3] = 110400
  BY SMT DEF AllSince, open_since, realpath_since, posix_memalign_since, lutimes_since, lchmod_since,
         dirfd_since, proc_pid_rusage_since, fdopendir_since, clock_gettime_since,
         futimens_since, strchrnul_since
<1> HIDE DEF r
<1>3. r < since[1]
  BY <1>1, <1>2, SMT DEF WatchRow
<1> QED
  BY <1>3, SMT DEF r

(* A macOS is like itself. *)
LEMMA MacIsItself ==
  ASSUME NEW t, NEW a \in Nat, NEW b \in Nat, NEW d \in Nat, Numbers(t, a, b, d), t.os = "macos"
  PROVE  Required("macos", MACVER(t)) = OSVER(t)
<1>1. MACVER(t) = SUBSYSTEMVER(OSVER(t))
  BY SMT DEF MACVER
<1>2. CASE Old(t)
  <2> DEFINE p == Least(d, 9)
  <2>1. p \in Nat /\ Least(p, 9) = p
    BY SMT DEF Least
  <2>2. MACVER(t) = <<10, b, p>> /\ OSVER(t) = Four(b, p) /\ b < 10
    BY <1>1, <1>2, SMT DEF Numbers
  <2> HIDE DEF p
  <2>3. Older(<<10, b, p>>, <<10, 10, 0>>)
    BY <2>1, <2>2, SMT DEF Older
  <2>4. Required("macos", <<10, b, p>>) = Four(b, p)
    BY <2>1, <2>3, SMT DEF Required, Four
  <2> QED
    BY <2>2, <2>4, SMT
<1>3. CASE ~Old(t)
  <2>1. MACVER(t) = t.version
    BY <1>1, <1>3, SMT DEF Numbers
  <2> QED
    BY <2>1, SMT DEF OSVER
<1> QED
  BY <1>2, <1>3, SMT

LEMMA SinceBounds ==
  ASSUME NEW since \in AllSince
  PROVE  since[2] <= 180400 /\ since[3] <= 180400 /\ since[2] \in Nat /\ since[3] \in Nat
BY SMT DEF AllSince, open_since, realpath_since, posix_memalign_since, lutimes_since, lchmod_since,
       dirfd_since, proc_pid_rusage_since, fdopendir_since, clock_gettime_since,
       futimens_since, strchrnul_since

(* What a system that is no macOS is like. *)
LEMMA LikeMac ==
  ASSUME NEW t, Existing(t), NEW a \in Nat, NEW b \in Nat, NEW d \in Nat, Numbers(t, a, b, d),
         t.os # "macos"
  PROVE  /\ a >= 26 => MACVER(t) = t.version
         /\ a < 26 /\ t.os # "watchos" =>
              IF a <= 18 THEN \E A, B \in Nat : MACVER(t) = <<A, B, 0>> /\ PhoneRow(OSVER(t), a, A, B)
                         ELSE MACVER(t) = Unsupported
         /\ a < 26 /\ t.os = "watchos" =>
              IF a \in 2 .. 11 THEN \E A, B \in Nat : MACVER(t) = <<A, B, 0>> /\ WatchRow(OSVER(t), a, A, B)
                               ELSE MACVER(t) = Unsupported
<1>1. ~Old(t)
  BY SMT DEF Old
<1>2. OSVER(t) \in Nat /\ a * 10000 <= OSVER(t) /\ OSVER(t) < a * 10000 + 10000
  BY <1>1, NumberBounds, SMT
<1>3. OSVER(t) \div 10000 = a /\ a >= 1
  BY <1>1, Major, SMT DEF Numbers
<1>4. a >= 26 => MACVER(t) = t.version
  <2> SUFFICES ASSUME a >= 26 PROVE MACVER(t) = t.version
    BY SMT
  <2>1. OSVER(t) >= 260000
    BY <1>2, SMT
  <2>2. MACVER(t) = SUBSYSTEMVER(OSVER(t))
    BY <2>1, SMT DEF MACVER
  <2> QED
    BY <1>1, <2>2, SMT DEF Numbers
<1>5. ASSUME a < 26, t.os # "watchos" PROVE MACVER(t) = MacOfPhone(OSVER(t))
  <2>1. ~(OSVER(t) >= 260000)
    BY <1>2, <1>5, SMT
  <2> QED
    BY <1>5, <2>1, SMT DEF MACVER
<1>6. ASSUME a < 26, t.os = "watchos" PROVE MACVER(t) = MacOfWatch(OSVER(t))
  <2>1. ~(OSVER(t) >= 260000)
    BY <1>2, <1>6, SMT
  <2> QED
    BY <1>6, <2>1, SMT DEF MACVER
<1>7. ASSUME a < 26, t.os # "watchos"
      PROVE  IF a <= 18 THEN \E A, B \in Nat : MACVER(t) = <<A, B, 0>> /\ PhoneRow(OSVER(t), a, A, B)
                        ELSE MACVER(t) = Unsupported
  BY <1>2, <1>3, <1>5, <1>7, PhoneRows, SMT
<1>8. ASSUME a < 26, t.os = "watchos"
      PROVE  IF a \in 2 .. 11 THEN \E A, B \in Nat : MACVER(t) = <<A, B, 0>> /\ WatchRow(OSVER(t), a, A, B)
                              ELSE MACVER(t) = Unsupported
  BY <1>2, <1>3, <1>6, <1>8, WatchRows, SMT
<1> QED
  BY <1>4, <1>7, <1>8, SMT

LEMMA TablesAreRight == ASSUME NEW t, Existing(t) PROVE TablesAgree(t)
<1> SUFFICES ASSUME NEW since \in AllSince, MACVER(t) # Unsupported, MINVER_LT(t, since)
             PROVE  \/ Required("macos", MACVER(t)) < since[1]
                    \/ t.os = "ios" /\ since = realpath_since /\ 30000 <= OSVER(t) /\ OSVER(t) < 30200
                    \/ t.os = "ios" /\ since = lutimes_since /\ OSVER(t) < 20000
  BY SMT DEF TablesAgree
<1>1. PICK a \in Nat, b \in Nat, d \in Nat : Numbers(t, a, b, d)
  BY TargetNumbers, SMT
<1>2. CASE t.os = "macos"
  <2>1. OSVER(t) < since[1]
    BY <1>2, SMT DEF MINVER_LT, MINVER, From
  <2> QED
    BY <1>1, <1>2, <2>1, MacIsItself, SMT
<1>3. CASE t.os # "macos"
  <2>1. OSVER(t) \in Nat /\ a * 10000 <= OSVER(t) /\ OSVER(t) < a * 10000 + 10000
    BY <1>1, <1>3, NumberBounds, SMT
  <2>2. CASE t.os # "watchos"
    <3>1. t.os \in {"ios", "tvos"}
      BY <1>3, <2>2, SMT DEF Existing, IsTarget
    <3>2. OSVER(t) < since[2]
      BY <3>1, SMT DEF MINVER_LT, MINVER, From
    <3>3. a < 26
      BY <2>1, <3>2, SinceBounds, SMT
    <3>4. PICK A \in Nat, B \in Nat : MACVER(t) = <<A, B, 0>> /\ PhoneRow(OSVER(t), a, A, B)
      BY <1>1, <1>3, <2>2, <3>3, LikeMac, SMT
    <3>5. \/ Required("macos", <<A, B, 0>>) < since[1]
          \/ since = realpath_since /\ 30000 <= OSVER(t) /\ OSVER(t) < 30200
          \/ since = lutimes_since /\ OSVER(t) < 20000
      BY <2>1, <3>2, <3>4, PhoneAgrees, SMT
    <3>6. t.os = "tvos" => OSVER(t) >= 70000
      BY <1>1, <2>1, SMT DEF Existing, Numbers
    <3> QED
      BY <2>1, <3>1, <3>4, <3>5, <3>6, SMT
  <2>3. CASE t.os = "watchos"
    <3>2. OSVER(t) < since[3]
      BY <2>3, SMT DEF MINVER_LT, MINVER, From
    <3>3. a < 26
      BY <2>1, <3>2, SinceBounds, SMT
    <3>4. PICK A \in Nat, B \in Nat : MACVER(t) = <<A, B, 0>> /\ WatchRow(OSVER(t), a, A, B)
      BY <1>1, <1>3, <2>3, <3>3, LikeMac, SMT
    <3> QED
      BY <2>1, <3>2, <3>4, WatchAgrees, SMT
  <2> QED
    BY <2>2, <2>3, SMT
<1> QED
  BY <1>2, <1>3, SMT

LEMMA NeverGoesBack == ASSUME NEW t, Existing(t), NEW u, Existing(u) PROVE NeverBack(t, u)
<1> SUFFICES ASSUME t.os = u.os, Older(t.version, u.version), MACVER(t) # Unsupported
             PROVE  \/ ~Older(MACVER(u), MACVER(t)) /\ MACVER(u) # Unsupported
                    \/ MACVER(u) = Unsupported /\ u.version[1] \in 12 .. 25
  BY SMT DEF NeverBack
<1>1. PICK a \in Nat, b \in Nat, d \in Nat : Numbers(t, a, b, d)
  BY TargetNumbers, SMT
<1>2. PICK x \in Nat, y \in Nat, z \in Nat : Numbers(u, x, y, z)
  BY TargetNumbers, SMT
<1>3. a < x \/ (a = x /\ (b < y \/ (b = y /\ d < z)))
  BY <1>1, <1>2, SMT DEF Numbers, Older
<1>4. CASE t.os = "macos"
  <2>1. MACVER(t) = SUBSYSTEMVER(OSVER(t)) /\ MACVER(u) = SUBSYSTEMVER(OSVER(u))
    BY <1>4, SMT DEF MACVER
  <2>2. PICK p \in Nat : MACVER(t) = <<a, b, p>> /\ p = IF Old(t) THEN Least(d, 9) ELSE d
    <3>1. Least(d, 9) \in Nat
      BY SMT DEF Least
    <3> QED
      BY <1>1, <2>1, <3>1, SMT DEF Numbers
  <2>3. PICK q \in Nat : MACVER(u) = <<x, y, q>> /\ q = IF Old(u) THEN Least(z, 9) ELSE z
    <3>1. Least(z, 9) \in Nat
      BY SMT DEF Least
    <3> QED
      BY <1>2, <2>1, <3>1, SMT DEF Numbers
  <2>4. a = x /\ b = y => (Old(t) <=> Old(u))
    BY <1>1, <1>2, <1>4, SMT DEF Numbers
  <2>5. a = x /\ b = y => p <= q
    BY <1>3, <2>2, <2>3, <2>4, SMT DEF Least
  <2>6. ~Older(<<x, y, q>>, <<a, b, p>>)
    BY <1>3, <2>5, SMT DEF Older
  <2>7. <<x, y, q>> # Unsupported
    BY <1>2, SMT DEF Numbers, Unsupported
  <2> QED
    BY <2>2, <2>3, <2>6, <2>7, SMT
<1>5. CASE t.os # "macos"
  <2>1. OSVER(t) \in Nat /\ a * 10000 <= OSVER(t) /\ OSVER(t) < a * 10000 + 10000 /\ OSVER(t) = Five(a, b, d)
    BY <1>1, <1>5, NumberBounds, SMT DEF Numbers
  <2>2. OSVER(u) \in Nat /\ x * 10000 <= OSVER(u) /\ OSVER(u) < x * 10000 + 10000 /\ OSVER(u) = Five(x, y, z)
    BY <1>2, <1>5, NumberBounds, SMT DEF Numbers
  <2>3. OSVER(t) < OSVER(u)
    BY <1>1, <1>2, <1>3, <2>1, <2>2, SMT DEF Numbers, Five
  <2>4. t.version = <<a, b, d>> /\ u.version = <<x, y, z>> /\ u.version[1] = x
    BY <1>1, <1>2, SMT DEF Numbers
  <2>5. a >= 26 => MACVER(t) = <<a, b, d>>
    BY <1>1, <1>5, <2>4, LikeMac, SMT
  <2>6. x >= 26 => MACVER(u) = <<x, y, z>> /\ MACVER(u) # Unsupported
    <3>1. x >= 26 => MACVER(u) = <<x, y, z>>
      BY <1>2, <1>5, <2>4, LikeMac, SMT
    <3> QED
      BY <3>1, SMT DEF Unsupported
  <2>7. CASE a >= 26
    <3>1. ~Older(<<x, y, z>>, <<a, b, d>>)
      BY <1>3, SMT DEF Older
    <3> QED
      BY <1>3, <2>5, <2>6, <2>7, <3>1, SMT
  <2>8. CASE a < 26 /\ t.os # "watchos"
    <3>1. PICK A \in Nat, B \in Nat : MACVER(t) = <<A, B, 0>> /\ PhoneRow(OSVER(t), a, A, B)
      BY <1>1, <1>5, <2>8, LikeMac, SMT
    <3>2. A <= 15
      BY <3>1, SMT DEF PhoneRow
    <3>3. CASE x >= 26
      <4>1. ~Older(<<x, y, z>>, <<A, B, 0>>)
        BY <3>2, <3>3, SMT DEF Older
      <4> QED
        BY <2>6, <3>1, <3>3, <4>1, SMT
    <3>4. CASE x < 26 /\ x > 18
      <4>1. MACVER(u) = Unsupported
        BY <1>2, <1>5, <2>8, <3>4, LikeMac, SMT
      <4> QED
        BY <2>4, <3>4, <4>1, SMT
    <3>5. CASE x <= 18
      <4>1. PICK C \in Nat, D \in Nat : MACVER(u) = <<C, D, 0>> /\ PhoneRow(OSVER(u), x, C, D)
        BY <1>2, <1>5, <2>8, <3>5, LikeMac, SMT
      <4>2. C > A \/ (C = A /\ D >= B)
        <5>1. CASE a = x
          BY <2>1, <2>2, <2>3, <3>1, <4>1, <5>1, SMT DEF PhoneRow
        <5>2. CASE a < x
          BY <3>1, <4>1, <5>2, SMT DEF PhoneRow
        <5> QED
          BY <1>3, <5>1, <5>2, SMT
      <4>3. ~Older(<<C, D, 0>>, <<A, B, 0>>)
        BY <4>2, SMT DEF Older
      <4>4. <<C, D, 0>> # Unsupported
        BY <4>1, SMT DEF PhoneRow, Unsupported
      <4> QED
        BY <3>1, <4>1, <4>3, <4>4, SMT
    <3> QED
      BY <3>3, <3>4, <3>5, SMT
  <2>9. CASE a < 26 /\ t.os = "watchos"
    <3>1. PICK A \in Nat, B \in Nat : MACVER(t) = <<A, B, 0>> /\ WatchRow(OSVER(t), a, A, B)
      BY <1>1, <1>5, <2>9, LikeMac, SMT
    <3>2. A <= 15 /\ a >= 2 /\ u.os = "watchos"
      BY <2>9, <3>1, SMT DEF WatchRow
    <3>3. CASE x >= 26
      <4>1. ~Older(<<x, y, z>>, <<A, B, 0>>)
        BY <3>2, <3>3, SMT DEF Older
      <4> QED
        BY <2>6, <3>1, <3>3, <4>1, SMT
    <3>4. CASE x < 26 /\ x > 11
      <4>1. MACVER(u) = Unsupported
        BY <1>2, <1>5, <3>2, <3>4, LikeMac, SMT
      <4> QED
        BY <2>4, <3>4, <4>1, SMT
    <3>5. CASE x <= 11
      <4>0. x \in 2 .. 11
        BY <1>3, <3>2, <3>5, SMT
      <4>1. PICK C \in Nat, D \in Nat : MACVER(u) = <<C, D, 0>> /\ WatchRow(OSVER(u), x, C, D)
        BY <1>2, <1>5, <3>2, <4>0, LikeMac, SMT
      <4>2. C > A \/ (C = A /\ D >= B)
        BY <1>3, <2>3, <3>1, <4>1, SMT DEF WatchRow
      <4>3. ~Older(<<C, D, 0>>, <<A, B, 0>>)
        BY <4>2, SMT DEF Older
      <4>4. <<C, D, 0>> # Unsupported
        BY <4>1, SMT DEF WatchRow, Unsupported
      <4> QED
        BY <3>1, <4>1, <4>3, <4>4, SMT
    <3> QED
      BY <3>3, <3>4, <3>5, SMT
  <2> QED
    BY <2>7, <2>8, <2>9, SMT
<1> QED
  BY <1>4, <1>5, SMT

LEMMA TargetSame == ASSUME [ProgramNext]_<<descriptors, library>> PROVE target' = target
<1>1. CASE UNCHANGED descriptors
  BY <1>1 DEF descriptors
<1>2. CASE DescriptorsNext
  BY <1>2 DEF DescriptorsNext, Exec, open, fdopendir, OpenCall, Version, ChangeFlags, KernelOpens,
       SetCloexec, Fdopendir, Opendir, CloseOwn, StoreFd, SetFd, Close, Closedir, GiveUp
<1> QED
  BY <1>1, <1>2 DEF ProgramNext

(* Every behaviour of a whole program is one of Descriptors: the calls     *)
(* that are single steps leave the descriptors alone.                      *)
THEOREM ProgramIsDescriptors == ProgramSpec => DescriptorsSpec
<1>1. ProgramInit => DescriptorsInit
  BY DEF ProgramInit
<1>2. [ProgramNext]_<<descriptors, library>> => [DescriptorsNext]_descriptors
  BY DEF ProgramNext
<1> QED
  BY <1>1, <1>2, PTL DEF ProgramSpec, DescriptorsSpec

(* So in a program that also makes the other calls of compat/, between the *)
(* steps of open and fdopendir, descriptors are its threads' own and keep  *)
(* the flags that were asked for.                                          *)
THEOREM ProgramDescriptors == ProgramSpec => [](OwnDescriptors /\ FlagsKept)
BY ProgramIsDescriptors, OwnDescriptorsCorrect, FlagsKeptCorrect, PTL

(* For all targets there can be and each pair of them, what depcheck and   *)
(* platforminfo.h make of them is right, whatever the program does.        *)
THEOREM TargetsRightCorrect == ProgramSpec => []TargetsRight
<1> DEFINE Given == target \in Targets
<1>1. ProgramInit => Given
  BY DEF ProgramInit, DescriptorsInit
<1>2. Given /\ [ProgramNext]_<<descriptors, library>> => Given'
  <2> SUFFICES ASSUME Given, [ProgramNext]_<<descriptors, library>>
               PROVE  target' = target
    OBVIOUS
  <2> QED
    BY TargetSame
<1>3. Given => TargetsRight
  <2> SUFFICES ASSUME target \in Targets
               PROVE  /\ VersionRight(target) /\ TablesAgree(target) /\ RangeRight(target)
                      /\ \A u \in Targets : NeverBack(target, u) /\ ArchRight(target, u)
    BY DEF TargetsRight
  <2>1. Existing(target) /\ \A u \in Targets : Existing(u)
    BY DescriptorsAssumption
  <2>2. ASSUME NEW u \in Targets PROVE NeverBack(target, u) /\ ArchRight(target, u)
    BY <2>1, NeverGoesBack, ArchIsRight
  <2> QED
    BY <2>1, <2>2, VersionIsRight, TablesAreRight, RangeIsRight
<1> HIDE DEF Given
<1> QED
  BY <1>1, <1>2, <1>3, PTL DEF ProgramSpec

--------------------------------------------------------------------------------
(* The clocks. *)

Moment == [real : Nat, user : Nat, system : Nat, ticks : Nat, nanos : Nat]

LEMMA InRange == ASSUME NEW x \in Nat, NEW b \in Nat, x < b PROVE x \in 0 .. b - 1
BY SMT

LEMMA PartsOf ==
  ASSUME NEW x \in Nat
  PROVE  \E y, z \in Nat : /\ Parts(x) = [sec |-> y, usec |-> z] /\ z < 1000000
                           /\ x = y * 1000000 + z
<1>1. x \div 1000000 \in Nat /\ x % 1000000 \in Nat /\ x % 1000000 < 1000000
  BY SMT
<1>2. x = (x \div 1000000) * 1000000 + (x % 1000000)
  BY SMT
<1> QED
  BY <1>1, <1>2, SMT DEF Parts

LEMMA MicrosOf ==
  ASSUME NEW y \in Nat, NEW z \in Nat, z < 1000000
  PROVE  LET ts == Timespec(y, z * 1000)
         IN Micros(ts) = y * 1000000 + z /\ ts.nsec \in Nat /\ ts.nsec < Billion
<1>1. (z * 1000) \div 1000 = z
  BY SMT
<1>2. z * 1000 \in Nat /\ z * 1000 < Billion
  BY SMT DEF Billion
<1> QED
  BY <1>1, <1>2, SMT DEF Micros, Timespec

LEMMA NanosOf ==
  ASSUME NEW x \in Nat
  PROVE  LET ts == Nanos(x)
         IN ts.sec * Billion + ts.nsec = x /\ ts.nsec \in Nat /\ ts.nsec < Billion
<1>1. x = (x \div Billion) * Billion + (x % Billion)
  BY SMT DEF Billion
<1>2. x % Billion \in Nat /\ x % Billion < Billion
  BY SMT DEF Billion
<1> QED
  BY <1>1, <1>2, SMT DEF Nanos, Timespec

LEMMA Quotient ==
  ASSUME NEW m \in Nat, NEW z \in Nat, z > 0
  PROVE  m \div z \in Nat /\ z * (m \div z) <= m /\ m < z * (m \div z + 1)
<1>1. m = z * (m \div z) + (m % z) /\ m % z \in 0 .. z - 1 /\ m \div z \in Int
  BY SMT
<1>2. m \div z >= 0
  BY SMT
<1>3. z * (m \div z + 1) = z * (m \div z) + z
  BY <1>1, SMT
<1> QED
  BY <1>1, <1>2, <1>3, SMT

LEMMA Times ==
  ASSUME NEW x \in Nat, NEW y \in Nat, NEW z \in Nat, x <= y
  PROVE  z * x \in Nat /\ z * y \in Nat /\ z * x <= z * y
<1>1. PICK w \in Nat : y = x + w
  <2>1. y - x \in Nat /\ y = x + (y - x)
    BY SMT
  <2> QED
    BY <2>1
<1>2. z * x \in Nat /\ z * w \in Nat /\ z * y = z * x + z * w
  BY <1>1, SMT
<1> QED
  BY <1>2, SMT

(* A clock of ticks is right, as far as doubles are. *)
TicksOf(shown, ticks, f) ==
  /\ f[2] * shown <= ticks * f[1] + (ticks * f[1]) \div Precision
  /\ ticks * f[1] <= f[2] * (shown + 1) + (ticks * f[1]) \div Precision
  /\ f[1] % f[2] = 0 /\ (ticks * f[1]) \div f[2] < Precision => shown = (ticks * f[1]) \div f[2]

LEMMA ScaledRight ==
  ASSUME NEW x \in Nat, NEW f \in Timebases, NEW shown \in Scaled(x, f)
  PROVE  shown \in Nat /\ TicksOf(shown, x, f)
<1> DEFINE whole == x * f[1]
           part == whole \div Precision
           off == part + IF whole % Precision = 0 THEN 0 ELSE 1
<1>1. f[1] \in Nat /\ f[2] \in Nat /\ f[2] > 0
  BY TimesAssumption, SMT
<1>2. whole \in Nat
  BY <1>1, SMT
<1>3. Precision \in Nat /\ Precision > 0
  BY PrecisionAssumption, SMT
<1>4. shown \in IF f[1] % f[2] = 0 /\ whole \div f[2] < Precision THEN {whole \div f[2]}
                ELSE (whole - off) \div f[2] .. (whole + part) \div f[2]
  BY Zenon DEF Scaled
<1>5. TicksOf(shown, x, f) <=>
        /\ f[2] * shown <= whole + part
        /\ whole <= f[2] * (shown + 1) + part
        /\ f[1] % f[2] = 0 /\ whole \div f[2] < Precision => shown = whole \div f[2]
  BY Zenon DEF TicksOf
<1>6. part \in Nat /\ off \in Nat /\ off <= part + 1 /\ off <= whole
  <2>1. part \in Nat /\ Precision * part <= whole
    BY <1>2, <1>3, Quotient, Zenon
  <2> HIDE DEF part
  <2>2. part <= whole
    <3>1. part * 1 <= part * Precision
      BY <1>3, <2>1, Times, SMT
    <3>2. part * 1 = part /\ part * Precision = Precision * part
      BY <1>3, <2>1, SMT
    <3> QED
      BY <1>2, <1>3, <2>1, <3>1, <3>2, SMT
  <2>3. off \in Nat /\ off <= part + 1
    BY <2>1, SMT
  <2>4. CASE part < whole
    BY <1>2, <2>1, <2>3, <2>4, SMT
  <2>5. CASE part = whole
    <3>1. CASE Precision = 1
      <4>1. whole % Precision = 0
        BY <1>2, <3>1, SMT
      <4> QED
        BY <2>1, <2>5, <4>1, SMT
    <3>2. CASE Precision >= 2
      <4>1. part * 2 <= part * Precision
        BY <1>3, <2>1, <3>2, Times, SMT
      <4>2. part * Precision = Precision * part /\ Precision * part <= part
        BY <1>3, <2>1, <2>5, SMT
      <4>3. part * Precision \in Int /\ part * 2 = part + part
        BY <1>3, <2>1, SMT
      <4>4. part <= 0
        BY <2>1, <4>1, <4>2, <4>3, SMT
      <4>5. whole = 0
        BY <2>1, <2>5, <4>4, SMT
      <4>6. whole % Precision = 0
        BY <1>3, <4>5, SMT
      <4> QED
        BY <2>1, <2>5, <4>6, SMT
    <3> QED
      BY <1>3, <3>1, <3>2, SMT
  <2> QED
    BY <1>2, <2>1, <2>2, <2>3, <2>4, <2>5, SMT
<1> HIDE DEF whole, part, off
<1>7. CASE f[1] % f[2] = 0 /\ whole \div f[2] < Precision
  <2>1. shown = whole \div f[2]
    BY <1>4, <1>7, Zenon
  <2>2. shown \in Nat /\ f[2] * shown <= whole /\ whole < f[2] * (shown + 1)
    BY <1>1, <1>2, <2>1, Quotient, Zenon
  <2>3. f[2] * shown \in Nat /\ f[2] * (shown + 1) \in Nat
    BY <1>1, <2>2, SMT
  <2>4. f[2] * shown <= whole + part /\ whole <= f[2] * (shown + 1) + part
    BY <1>2, <1>6, <2>2, <2>3, SMT
  <2> QED
    BY <1>5, <2>1, <2>2, <2>4, Zenon
<1>8. CASE ~(f[1] % f[2] = 0 /\ whole \div f[2] < Precision)
  <2> DEFINE least == (whole - off) \div f[2]
             most == (whole + part) \div f[2]
  <2>1. shown \in least .. most
    BY <1>4, <1>8, Zenon
  <2>2. whole - off \in Nat /\ whole + part \in Nat
    BY <1>2, <1>6, SMT
  <2>3. least \in Nat /\ whole - off < f[2] * (least + 1)
    BY <1>1, <2>2, Quotient, Zenon
  <2>4. most \in Nat /\ f[2] * most <= whole + part
    BY <1>1, <2>2, Quotient, Zenon
  <2> HIDE DEF least, most
  <2>5. shown \in Nat /\ least <= shown /\ shown <= most
    BY <2>1, <2>3, <2>4, SMT
  <2>6. f[2] * shown \in Nat /\ f[2] * most \in Nat /\ f[2] * shown <= f[2] * most
    BY <1>1, <2>4, <2>5, Times, Zenon
  <2>7. least + 1 \in Nat /\ shown + 1 \in Nat /\ least + 1 <= shown + 1
    BY <2>3, <2>5, SMT
  <2>8. /\ f[2] * (least + 1) \in Nat /\ f[2] * (shown + 1) \in Nat
        /\ f[2] * (least + 1) <= f[2] * (shown + 1)
    BY <1>1, <2>7, Times, Zenon
  <2>9. f[2] * shown <= whole + part
    BY <1>2, <1>6, <2>4, <2>6, SMT
  <2>10. whole <= f[2] * (shown + 1) + part
    BY <1>2, <1>6, <2>3, <2>8, SMT
  <2> QED
    BY <1>5, <1>8, <2>5, <2>9, <2>10, Zenon
<1> QED
  BY <1>7, <1>8, Zenon

(* A thread that has used no time has used a nanosecond. *)
ThreadOf(x, y, ts) ==
  /\ Micros(ts) = x + y /\ ts.nsec \in Nat /\ ts.nsec < Billion
  /\ ts.nsec % 1000 = IF x + y = 0 THEN 1 ELSE 0

LEMMA ThreadTimeOf ==
  ASSUME NEW x \in Nat, NEW y \in Nat, NEW ts, ts = ThreadTime(Parts(x), Parts(y))
  PROVE  ThreadOf(x, y, ts)
<1>1. PICK xs \in Nat, xu \in Nat : Parts(x) = [sec |-> xs, usec |-> xu] /\ xu < 1000000 /\ x = xs * 1000000 + xu
  BY PartsOf, SMT
<1>2. PICK ys \in Nat, yu \in Nat : Parts(y) = [sec |-> ys, usec |-> yu] /\ yu < 1000000 /\ y = ys * 1000000 + yu
  BY PartsOf, SMT
<1> DEFINE carried == Carried(xs + ys, (xu + yu) * 1000)
<1>3. ts = IF carried = Timespec(0, 0) THEN Timespec(0, 1) ELSE carried
  BY <1>1, <1>2, SMT DEF ThreadTime
<1>4. PICK sec \in Nat, us \in Nat : /\ carried = Timespec(sec, us * 1000) /\ us < 1000000
                                     /\ sec * 1000000 + us = x + y
  <2>1. CASE (xu + yu) * 1000 >= Billion
    <3>1. (xu + yu) * 1000 - Billion = (xu + yu - 1000000) * 1000 /\ xu + yu - 1000000 \in Nat
      BY <1>1, <1>2, <2>1, SMT DEF Billion
    <3>2. carried = Timespec(xs + ys + 1, (xu + yu - 1000000) * 1000)
      BY <2>1, <3>1, SMT DEF Carried
    <3>3. (xs + ys + 1) * 1000000 + (xu + yu - 1000000) = x + y /\ xu + yu - 1000000 < 1000000
      BY <1>1, <1>2, <3>1, SMT
    <3> QED
      BY <3>1, <3>2, <3>3, SMT
  <2>2. CASE ~((xu + yu) * 1000 >= Billion)
    <3>1. carried = Timespec(xs + ys, (xu + yu) * 1000)
      BY <2>2, SMT DEF Carried
    <3>2. xu + yu < 1000000 /\ (xs + ys) * 1000000 + (xu + yu) = x + y
      BY <1>1, <1>2, <2>2, SMT DEF Billion
    <3> QED
      BY <3>1, <3>2, SMT
  <2> QED
    BY <2>1, <2>2, SMT
<1> HIDE DEF carried
<1>5. CASE x + y = 0
  <2>1. sec = 0 /\ us = 0
    BY <1>4, <1>5, SMT
  <2>2. ts = [sec |-> 0, nsec |-> 1]
    BY <1>3, <1>4, <2>1, SMT DEF Timespec
  <2>3. 1 \div 1000 = 0 /\ 1 % 1000 = 1 /\ 1 < Billion
    BY SMT DEF Billion
  <2> QED
    BY <1>5, <2>2, <2>3, SMT DEF Micros, ThreadOf
<1>6. CASE x + y # 0
  <2>1. ts = [sec |-> sec, nsec |-> us * 1000]
    BY <1>3, <1>4, <1>6, SMT DEF Timespec
  <2>2. (us * 1000) % 1000 = 0
    BY SMT
  <2>3. /\ Micros(Timespec(sec, us * 1000)) = sec * 1000000 + us
        /\ Timespec(sec, us * 1000).nsec \in Nat /\ Timespec(sec, us * 1000).nsec < Billion
    BY <1>4, MicrosOf, SMT
  <2>4. ts = Timespec(sec, us * 1000) /\ ts.nsec % 1000 = 0
    BY <2>1, <2>2, SMT DEF Timespec
  <2> QED
    BY <1>4, <1>6, <2>3, <2>4, SMT DEF ThreadOf
<1> QED
  BY <1>5, <1>6, SMT

LEMMA WholeTime ==
  ASSUME NEW x \in Nat, NEW ts, ts = Timespec(Parts(x).sec, Parts(x).usec * 1000)
  PROVE  Micros(ts) = x /\ ts.nsec \in Nat /\ ts.nsec < Billion
<1>1. PICK y \in Nat, z \in Nat : Parts(x) = [sec |-> y, usec |-> z] /\ z < 1000000 /\ x = y * 1000000 + z
  BY PartsOf, SMT
<1>2. Parts(x).sec = y /\ Parts(x).usec = z
  BY <1>1, SMT
<1>3. /\ Micros(Timespec(y, z * 1000)) = y * 1000000 + z
      /\ Timespec(y, z * 1000).nsec \in Nat /\ Timespec(y, z * 1000).nsec < Billion
  BY <1>1, MicrosOf, SMT
<1> QED
  BY <1>1, <1>2, <1>3, SMT

LEMMA timeraddOf == ASSUME NEW x \in Nat, NEW y \in Nat PROVE timeradd(Parts(x), Parts(y)) = Parts(x + y)
<1>1. PICK xs \in Nat, xu \in Nat : Parts(x) = [sec |-> xs, usec |-> xu] /\ xu < 1000000 /\ x = xs * 1000000 + xu
  BY PartsOf, SMT
<1>2. PICK ys \in Nat, yu \in Nat : Parts(y) = [sec |-> ys, usec |-> yu] /\ yu < 1000000 /\ y = ys * 1000000 + yu
  BY PartsOf, SMT
<1>3. timeradd(Parts(x), Parts(y)) = Parts(xs * 1000000 + xu + ys * 1000000 + yu)
  BY <1>1, <1>2, SMT DEF timeradd
<1>4. xs * 1000000 + xu + ys * 1000000 + yu = x + y
  BY <1>1, <1>2, SMT
<1> QED
  BY <1>3, <1>4, SMT

ClockOf(ck, hires, f, now, ans) ==
  /\ ans.nsec \in 0 .. Billion - 1
  /\ CASE ck = "REALTIME" -> Micros(ans) = now.real
       [] ck = "PROCESS_CPUTIME_ID" -> Micros(ans) = now.user + now.system
       [] ck = "THREAD_CPUTIME_ID" /\ ~hires ->
            Micros(ans) = now.user + now.system /\ ans.nsec % 1000 = IF now.user + now.system = 0 THEN 1 ELSE 0
       [] OTHER -> TicksOf(ans.sec * Billion + ans.nsec,
                           IF ck = "THREAD_CPUTIME_ID" THEN now.nanos ELSE now.ticks, f)

LEMMA ClockGives ==
  ASSUME NEW ck \in Clock, NEW hires \in BOOLEAN, NEW f \in Timebases, NEW now \in Moment,
         NEW ans \in clock_gettime(ck, hires, f, now), "err" \notin DOMAIN ans
  PROVE  ClockOf(ck, hires, f, now, ans)
<1>1. /\ now.real \in Nat /\ now.user \in Nat /\ now.system \in Nat
      /\ now.ticks \in Nat /\ now.nanos \in Nat
  BY SMT DEF Moment
<1>2. Billion \in Nat
  BY SMT DEF Billion
<1>3. CASE ck = "REALTIME"
  <2>1. ans = Timespec(Parts(now.real).sec, Parts(now.real).usec * 1000)
    BY <1>3, SMT DEF clock_gettime, Ticking
  <2>2. Micros(ans) = now.real /\ ans.nsec \in Nat /\ ans.nsec < Billion
    BY <1>1, <2>1, WholeTime, SMT
  <2>3. ans.nsec \in 0 .. Billion - 1
    BY <1>2, <2>2, InRange, Zenon
  <2> QED
    BY <1>3, <2>2, <2>3, SMT DEF ClockOf
<1>4. CASE ck = "PROCESS_CPUTIME_ID"
  <2> DEFINE x == now.user + now.system
  <2>1. timeradd(Parts(now.user), Parts(now.system)) = Parts(x)
    BY <1>1, timeraddOf, Zenon
  <2>2. x \in Nat
    BY <1>1, SMT
  <2>3. ans = Timespec(Parts(x).sec, Parts(x).usec * 1000)
    BY <1>4, <2>1, SMT DEF clock_gettime, Ticking
  <2> HIDE DEF x
  <2>4. Micros(ans) = x /\ ans.nsec \in Nat /\ ans.nsec < Billion
    BY <2>2, <2>3, WholeTime, SMT
  <2>5. ans.nsec \in 0 .. Billion - 1
    BY <1>2, <2>4, InRange, Zenon
  <2> QED
    BY <1>4, <2>4, <2>5, SMT DEF ClockOf, x
<1>5. CASE ck = "THREAD_CPUTIME_ID" /\ ~hires
  <2>1. ans = ThreadTime(Parts(now.user), Parts(now.system))
    BY <1>5, SMT DEF clock_gettime, Ticking
  <2>2. /\ Micros(ans) = now.user + now.system /\ ans.nsec \in Nat /\ ans.nsec < Billion
        /\ ans.nsec % 1000 = IF now.user + now.system = 0 THEN 1 ELSE 0
    <3>1. ThreadOf(now.user, now.system, ans)
      BY <1>1, <2>1, ThreadTimeOf, Zenon
    <3> QED
      BY <3>1, SMT DEF ThreadOf
  <2>3. ans.nsec \in 0 .. Billion - 1
    BY <1>2, <2>2, InRange, SMT
  <2> QED
    BY <1>5, <2>2, <2>3, SMT DEF ClockOf
<1>6. CASE ck \in Ticking(hires)
  <2> DEFINE x == IF ck = "THREAD_CPUTIME_ID" THEN now.nanos ELSE now.ticks
  <2>1. x \in Nat
    BY <1>1, SMT
  <2>2. ck # "REALTIME" /\ ck # "PROCESS_CPUTIME_ID" /\ ~(ck = "THREAD_CPUTIME_ID" /\ ~hires)
    BY <1>6, SMT DEF Ticking
  <2>3. PICK shown \in Scaled(x, f) : ans = Nanos(shown)
    BY <1>6, <2>2, SMT DEF clock_gettime
  <2> HIDE DEF x
  <2>4. shown \in Nat /\ TicksOf(shown, x, f)
    BY <2>1, ScaledRight, Zenon
  <2>5. ans.sec * Billion + ans.nsec = shown /\ ans.nsec \in Nat /\ ans.nsec < Billion
    BY <2>3, <2>4, NanosOf, Zenon
  <2>6. ans.nsec \in 0 .. Billion - 1
    BY <1>2, <2>5, InRange, SMT
  <2> QED
    BY <2>2, <2>4, <2>5, <2>6, Zenon DEF ClockOf, x
<1>7. CASE ck = "other"
  <2>1. ck \notin Ticking(hires)
    BY <1>7, SMT DEF Ticking
  <2>2. ans = EINVAL
    BY <1>7, <2>1, SMT DEF clock_gettime
  <2>3. "err" \in DOMAIN EINVAL
    BY SMT DEF EINVAL
  <2> QED
    BY <2>2, <2>3, Zenon
<1> QED
  <2>1. Clock = {"REALTIME", "PROCESS_CPUTIME_ID", "THREAD_CPUTIME_ID", "other"} \cup Ticking(FALSE)
    BY SMT DEF Clock
  <2>2. Ticking(FALSE) \subseteq Ticking(hires) /\ (hires => "THREAD_CPUTIME_ID" \in Ticking(hires))
    BY SMT DEF Ticking
  <2>3. ck \in {"REALTIME", "PROCESS_CPUTIME_ID", "THREAD_CPUTIME_ID", "other"} \/ ck \in Ticking(hires)
    BY <2>1, <2>2, Zenon
  <2> QED
    BY <1>3, <1>4, <1>5, <1>6, <1>7, <2>2, <2>3, Zenon

LEMMA ResolutionGives ==
  ASSUME NEW ck \in Clock, NEW hires \in BOOLEAN, NEW f \in Timebases \cup {NoFactor},
         "err" \notin DOMAIN clock_getres(ck, hires, f)
  PROVE  clock_getres(ck, hires, f).sec = 0 /\ (clock_getres(ck, hires, f).nsec > 0 \/ f = NoFactor)
<1> DEFINE ans == clock_getres(ck, hires, f)
<1>1. ans \in {Timespec(0, 1000), Timespec(0, f[1] \div f[2]), EINVAL}
  BY SMT DEF clock_getres
<1>2. CASE ans = Timespec(0, 1000)
  BY <1>2, SMT DEF Timespec
<1>3. CASE ans = Timespec(0, f[1] \div f[2])
  <2>1. ans.sec = 0 /\ ans.nsec = f[1] \div f[2]
    BY <1>3, SMT DEF Timespec
  <2>2. ASSUME f # NoFactor PROVE f[1] \div f[2] > 0
    <3>1. f[1] \in Nat /\ f[2] \in Nat /\ f[2] > 0 /\ f[1] >= f[2]
      BY <2>2, TimesAssumption, SMT
    <3> QED
      BY <3>1, SMT
  <2> QED
    BY <2>1, <2>2, SMT
<1>4. CASE ans = EINVAL
  BY <1>4, SMT DEF EINVAL
<1> QED
  BY <1>1, <1>2, <1>3, <1>4, SMT

--------------------------------------------------------------------------------
(* Times of files. *)

OmittedOf(times) == {i \in {1, 2} : times # NULL /\ Is(times, i, UTIME_OMIT)}

WantedOf(times, st, now, i) ==
  CASE Is(times, i, UTIME_OMIT) -> Nano(Micro(st[i]))
    [] Is(times, i, UTIME_NOW) -> Nano(now)
    [] OTHER -> Nano(Micro(times[i]))

BadTime(times, i) == times[i].nsec \notin 0 .. Billion - 1 /\ ~Is(times, i, UTIME_NOW)

FutimensOf(times, st, now, ans) ==
  CASE times = NULL -> ans = <<Nano(now), Nano(now)>>
    [] times # NULL /\ OmittedOf(times) = {1, 2} -> ans = st
    [] times # NULL /\ OmittedOf(times) # {1, 2} ->
         IF OmittedOf(times) = {} /\ \E i \in {1, 2} : BadTime(times, i)
         THEN ans = EINVAL
         ELSE \A i \in {1, 2} : OmittedOf(times) \in {{}, {i}} => ans[i] = WantedOf(times, st, now, i)

LEMMA FutimensGives ==
  ASSUME NEW times \in TimePairs, NEW st, NEW now, NEW garbage,
         NEW ans \in futimens(times, st, now, garbage)
  PROVE  FutimensOf(times, st, now, ans)
<1> DEFINE now1 == Is(times, 1, UTIME_NOW)    now2 == Is(times, 2, UTIME_NOW)
           omit1 == Is(times, 1, UTIME_OMIT)  omit2 == Is(times, 2, UTIME_OMIT)
<1>1. CASE times = NULL
  <2>1. ans = <<Nano(now), Nano(now)>>
    BY <1>1, SMT DEF futimens, futimes
  <2> QED
    BY <1>1, <2>1, SMT DEF FutimensOf
<1>2. CASE times # NULL
  <2>1. times[1].nsec \in Int /\ times[2].nsec \in Int
    BY <1>2, TimesAssumption, SMT
  <2>2. ~(omit1 /\ now1) /\ ~(omit2 /\ now2)
    BY SMT DEF Is, UTIME_NOW, UTIME_OMIT
  <2>3. OmittedOf(times) = {i \in {1, 2} : Is(times, i, UTIME_OMIT)}
    BY <1>2, SMT DEF OmittedOf
  <2>4. CASE now1 /\ now2
    <3>1. ans = <<Nano(now), Nano(now)>>
      <4>1. ans \in futimes({<<now, now>>})
        BY <1>2, <2>2, <2>4, SMT DEF futimens, Invalid, Is, UTIME_NOW, UTIME_OMIT
      <4> QED
        BY <4>1, SMT DEF futimes
    <3>2. OmittedOf(times) = {}
      BY <2>2, <2>3, <2>4, SMT
    <3>3. \A i \in {1, 2} : ~BadTime(times, i) /\ WantedOf(times, st, now, i) = Nano(now)
      BY <2>2, <2>4, SMT DEF BadTime, WantedOf
    <3>4. ans[1] = Nano(now) /\ ans[2] = Nano(now)
      BY <3>1, SMT
    <3> QED
      BY <1>2, <3>2, <3>3, <3>4, SMT DEF FutimensOf
  <2>5. CASE omit1 /\ omit2
    <3>1. ans = st
      BY <1>2, <2>2, <2>5, SMT DEF futimens, Is, UTIME_NOW, UTIME_OMIT
    <3>2. OmittedOf(times) = {1, 2}
      BY <2>3, <2>5, SMT
    <3> QED
      BY <1>2, <3>1, <3>2, SMT DEF FutimensOf
  <2>6. ASSUME NEW i \in {1, 2}, Is(times, i, UTIME_OMIT), ~Is(times, 3 - i, UTIME_OMIT)
        PROVE  FutimensOf(times, st, now, ans)
    <3>1. OmittedOf(times) = {i}
      BY <2>3, <2>6, SMT
    <3>2. ans \in futimes(OneKept(times, st, garbage))
      <4>1. omit1 # omit2 /\ ~(now1 /\ now2) /\ ~(omit1 /\ omit2)
        BY <2>2, <2>6, SMT
      <4> QED
        BY <1>2, <4>1, SMT DEF futimens, Is, UTIME_NOW, UTIME_OMIT
    <3>3. PICK tv \in OneKept(times, st, garbage) : ans = <<Nano(tv[1]), Nano(tv[2])>>
      BY <3>2, SMT DEF futimes
    <3>4. tv[i] = Micro(st[i])
      BY <2>6, <3>3, SMT DEF OneKept
    <3>5. ans[i] = Nano(tv[i])
      BY <2>6, <3>3, SMT
    <3>6. WantedOf(times, st, now, i) = Nano(Micro(st[i]))
      BY <2>2, <2>6, SMT DEF WantedOf
    <3>7. \A j \in {1, 2} : OmittedOf(times) \in {{}, {j}} => j = i
      BY <3>1, SMT
    <3>8. OmittedOf(times) # {} /\ OmittedOf(times) # {1, 2}
      BY <3>1, SMT
    <3> QED
      BY <1>2, <3>4, <3>5, <3>6, <3>7, <3>8, SMT DEF FutimensOf
  <2>7. CASE ~omit1 /\ ~omit2 /\ ~(now1 /\ now2)
    <3>1. OmittedOf(times) = {} /\ {} # {1, 2}
      BY <2>3, <2>7, SMT
    <3>2. ASSUME NEW i \in {1, 2} PROVE BadTime(times, i) <=> Invalid(times, i)
      <4>1. times[i].nsec \in Int
        BY <2>1, SMT
      <4>2. times[i].nsec \in 0 .. Billion - 1 <=> times[i].nsec >= 0 /\ times[i].nsec <= Billion - 1
        BY <4>1, SMT
      <4>3. Billion - 1 = 999999999
        BY SMT DEF Billion
      <4> QED
        BY <4>1, <4>2, <4>3, SMT DEF BadTime, Invalid
    <3>3. CASE \E i \in {1, 2} : Invalid(times, i)
      <4>1. \A i \in {1, 2} : ~Is(times, i, UTIME_OMIT)
        BY <2>7, SMT
      <4>2. ans = EINVAL
        BY <1>2, <2>7, <3>3, <4>1, SMT DEF futimens
      <4>3. \E i \in {1, 2} : BadTime(times, i)
        BY <3>2, <3>3, Zenon
      <4> QED
        BY <1>2, <3>1, <4>2, <4>3, SMT DEF FutimensOf
    <3>4. CASE ~\E i \in {1, 2} : Invalid(times, i)
      <4>1. ans = <<Nano(Converted(times, 1, now)), Nano(Converted(times, 2, now))>>
        <5>1. ans \in futimes({<<Converted(times, 1, now), Converted(times, 2, now)>>})
          BY <1>2, <2>7, <3>4, SMT DEF futimens, Is, UTIME_NOW, UTIME_OMIT
        <5> QED
          BY <5>1, SMT DEF futimes
      <4>2. \A i \in {1, 2} : ans[i] = Nano(Converted(times, i, now))
        BY <4>1, SMT
      <4>3. \A i \in {1, 2} : WantedOf(times, st, now, i) = Nano(Converted(times, i, now))
        BY <2>7, SMT DEF WantedOf, Converted
      <4>4. ~\E i \in {1, 2} : BadTime(times, i)
        BY <3>2, <3>4, Zenon
      <4> QED
        BY <1>2, <3>1, <4>2, <4>3, <4>4, SMT DEF FutimensOf
    <3> QED
      BY <3>3, <3>4, Zenon
  <2>8. CASE omit1 /\ ~omit2
    <3>1. 3 - 1 = 2
      BY SMT
    <3> QED
      BY <2>6, <2>8, <3>1, SMT
  <2>9. CASE ~omit1 /\ omit2
    <3>1. 3 - 2 = 1
      BY SMT
    <3> QED
      BY <2>6, <2>9, <3>1, SMT
  <2> QED
    BY <2>4, <2>5, <2>7, <2>8, <2>9, Zenon
<1> QED
  BY <1>1, <1>2, Zenon

LEMMA LutimesGives ==
  ASSUME NEW x, NEW y, NEW islink \in BOOLEAN, NEW times, times \in {<<x, y>>, NULL}, NEW now
  PROVE  lutimes(islink, times, now) = IF times = NULL THEN <<Nano(now), Nano(now)>>
                                       ELSE <<Nano(times[1]), Nano(times[2])>>
<1>1. <<x, y>> # NULL
  BY SMT DEF NULL
<1>2. \A k, l : setattrlist(<<Nano(l), Nano(k)>>) = <<Nano(k), Nano(l)>>
  BY SMT DEF setattrlist
<1>3. CASE times = <<x, y>>
  BY <1>1, <1>2, <1>3, SMT DEF lutimes
<1>4. CASE times = NULL
  BY <1>2, <1>4, SMT DEF lutimes
<1> QED
  BY <1>3, <1>4, SMT

--------------------------------------------------------------------------------
(* Services, memory and random bytes. *)

LEMMA PtrIs == Ptr \in {4, 8}
BY SMT DEF Ptr, Pointer

LEMMA SkipOf ==
  ASSUME NEW x \in Nat, NEW ptr \in {4, 8}
  PROVE  Skip(x, ptr) \in Nat /\ Skip(x, ptr) < ptr /\ (x + Skip(x, ptr)) % ptr = 0
<1>1. CASE ptr = 4
  BY <1>1, SMT DEF Skip
<1>2. CASE ptr = 8
  BY <1>2, SMT DEF Skip
<1> QED
  BY <1>1, <1>2, SMT

ServiceOf(x, len, ptr, ans) ==
  CASE "aliases" \in DOMAIN ans ->
         /\ ans.aliases >= 0 /\ (x + ans.aliases) % ptr = 0
         /\ ans.name = ans.aliases + 2 * ptr
         /\ ans.room >= 0 /\ ans.name + ans.room = len
         /\ ans.strtol = "name" \/ len < 3 * ptr
    [] "err" \in DOMAIN ans -> ans.err = "ERANGE" => len < 3 * ptr - 1

LEMMA ServicePlaced ==
  ASSUME NEW x \in Nat, NEW len \in Nat, NEW ptr \in {4, 8}, NEW prots, NEW ans,
         ans = getservbyport_r(x, len, ptr, prots)
  PROVE  ServiceOf(x, len, ptr, ans)
<1> DEFINE skip == Skip(x, ptr)
<1>1. skip \in Nat /\ skip < ptr /\ (x + skip) % ptr = 0
  BY SkipOf, Zenon
<1>2. Fits(x, len, ptr) <=> len >= 2 * ptr + skip
  BY SMT DEF Fits
<1> HIDE DEF skip
<1>3. CASE ~Fits(x, len, ptr)
  <2>1. ans = [err |-> "ERANGE"]
    BY <1>3, SMT DEF getservbyport_r
  <2>2. len < 3 * ptr - 1
    BY <1>1, <1>2, <1>3, SMT
  <2> QED
    BY <2>1, <2>2, SMT DEF ServiceOf
<1>4. CASE Fits(x, len, ptr) /\ prots \notin {"tcp", "udp"}
  <2>1. ans = [err |-> "EINVAL"]
    BY <1>4, SMT DEF getservbyport_r
  <2> QED
    BY <2>1, SMT DEF ServiceOf
<1>5. CASE Fits(x, len, ptr) /\ prots \in {"tcp", "udp"}
  <2>1. ans = [aliases |-> skip, name |-> skip + 2 * ptr, room |-> len - skip - 2 * ptr,
               strtol |-> IF len - skip - 2 * ptr = 0 THEN "behind" ELSE "name"]
    BY <1>5, SMT DEF getservbyport_r, skip
  <2>2. len - skip - 2 * ptr >= 0 /\ (skip + 2 * ptr) + (len - skip - 2 * ptr) = len
    BY <1>1, <1>2, <1>5, SMT
  <2>3. /\ "aliases" \in DOMAIN ans /\ "err" \notin DOMAIN ans
        /\ ans.aliases = skip /\ ans.name = skip + 2 * ptr /\ ans.room = len - skip - 2 * ptr
        /\ len - skip - 2 * ptr # 0 => ans.strtol = "name"
    BY <2>1, SMT
  <2>4. len - skip - 2 * ptr = 0 => len < 3 * ptr
    BY <1>1, SMT
  <2> QED
    BY <1>1, <2>2, <2>3, <2>4, SMT DEF ServiceOf
<1> QED
  BY <1>3, <1>4, <1>5, Zenon

LEMMA ServiceServed ==
  ASSUME NEW found \in [{"tcp", "udp"} -> {"name", "number", "EAI_MEMORY"}],
         NEW prots \in {"tcp", "udp", "none"}
  PROVE  getservbyport(found, prots).err = "0" <=>
           \E p \in {"tcp", "udp"} : prots \in {p, "none"} /\ found[p] = "name"
<1>1. ASSUME NEW p \in {"tcp", "udp"} PROVE Served(found[p], "ENOENT") = "0" <=> found[p] = "name"
  BY SMT DEF Served
<1>2. CASE prots \in {"tcp", "udp"}
  <2>1. getservbyport(found, prots) = [err |-> Served(found[prots], "ENOENT"), proto |-> prots]
    BY <1>2, SMT DEF getservbyport
  <2> QED
    BY <1>1, <1>2, <2>1, SMT
<1>3. CASE prots = "none"
  <2>1. getservbyport(found, prots) =
          IF Served(found["tcp"], "ENOENT") = "0" THEN [err |-> "0", proto |-> "tcp"]
          ELSE [err |-> Served(found["udp"], "ENOENT"), proto |-> "udp"]
    BY <1>3, SMT DEF getservbyport
  <2> QED
    BY <1>1, <1>3, <2>1, SMT
<1> QED
  BY <1>2, <1>3, SMT

LEMMA Whole ==
  ASSUME NEW k \in Nat, NEW whole, whole = {w * 4 : w \in 0 .. k - 1}
  PROVE  Cardinality(whole) = k
<1> DEFINE f == [i \in 1 .. k |-> (i - 1) * 4]
<1>1. f \in Injection(1 .. k, whole)
  <2>1. ASSUME NEW i \in 1 .. k PROVE (i - 1) * 4 \in whole
    <3>1. i - 1 \in 0 .. k - 1
      BY SMT
    <3> QED
      BY <3>1, Zenon
  <2>2. f \in [1 .. k -> whole]
    BY <2>1, SMT
  <2>3. ASSUME NEW i \in 1 .. k, NEW j \in 1 .. k, f[i] = f[j] PROVE i = j
    BY <2>3, SMT
  <2> HIDE DEF f
  <2> QED
    BY <2>2, <2>3, Zenon DEF Injection, IsInjective
<1>2. ASSUME NEW x \in whole PROVE \E i \in 1 .. k : f[i] = x
  <2>1. PICK w \in 0 .. k - 1 : x = w * 4
    BY Zenon
  <2>2. w + 1 \in 1 .. k /\ (w + 1) - 1 = w
    BY SMT
  <2>3. f[w + 1] = x
    BY <2>1, <2>2, SMT
  <2> QED
    BY <2>2, <2>3, Zenon
<1> HIDE DEF f
<1>3. f \in Surjection(1 .. k, whole)
  <2>1. f \in [1 .. k -> whole]
    BY <1>1, Zenon DEF Injection
  <2> QED
    BY <1>2, <2>1, Zenon DEF Surjection
<1>4. ExistsBijection(1 .. k, whole)
  BY <1>1, <1>3, Zenon DEF ExistsBijection, Bijection
<1> QED
  BY <1>4, FS_CountingElements, Zenon

LEMMA RandomFills == ASSUME NEW size \in Nat PROVE arc4random_buf(size, 4) = 0 .. size - 1
<1> DEFINE k == size \div 4
           whole == {w * 4 : w \in 0 .. k - 1}
<1>1. k \in Nat /\ 4 * k <= size /\ size < 4 * k + 4
  BY SMT
<1> HIDE DEF k
<1>2. Cardinality(whole) = k
  BY <1>1, Whole, Zenon
<1>3. Cardinality(whole) * 4 = 4 * k
  BY <1>1, <1>2, SMT
<1>4. ASSUME NEW x
      PROVE  x \in arc4random_buf(size, 4) <=>
               x \in UNION {w .. w + 4 - 1 : w \in whole} \/ x \in 4 * k .. size - 1
  <2>1. arc4random_buf(size, 4) = (UNION {w .. w + 4 - 1 : w \in whole}) \cup (Cardinality(whole) * 4 .. size - 1)
    BY Zenon DEF arc4random_buf, k
  <2>2. x \in arc4random_buf(size, 4) <=>
          x \in UNION {w .. w + 4 - 1 : w \in whole} \/ x \in Cardinality(whole) * 4 .. size - 1
    BY <2>1, Zenon
  <2> HIDE DEF whole
  <2>3. Cardinality(whole) * 4 .. size - 1 = 4 * k .. size - 1
    BY <1>3, SMT
  <2> QED
    BY <2>2, <2>3, Zenon
<1>5. ASSUME NEW x \in UNION {w .. w + 4 - 1 : w \in whole} PROVE x \in 0 .. size - 1
  <2>1. PICK v \in 0 .. k - 1 : x \in v * 4 .. v * 4 + 4 - 1
    BY Zenon
  <2> QED
    BY <1>1, <2>1, SMT
<1>6. ASSUME NEW x \in 0 .. 4 * k - 1 PROVE x \in UNION {w .. w + 4 - 1 : w \in whole}
  <2> DEFINE v == x \div 4
  <2>1. v \in 0 .. k - 1 /\ x \in v * 4 .. v * 4 + 4 - 1
    BY <1>1, SMT
  <2> HIDE DEF v
  <2>2. v * 4 \in whole
    BY <2>1, Zenon
  <2> QED
    BY <2>1, <2>2, Zenon
<1>7. ASSUME NEW x PROVE x \in arc4random_buf(size, 4) <=> x \in 0 .. size - 1
  <2>1. x \in 4 * k .. size - 1 => x \in 0 .. size - 1
    BY <1>1, SMT
  <2>2. x \in 0 .. size - 1 => x \in 0 .. 4 * k - 1 \/ x \in 4 * k .. size - 1
    BY <1>1, SMT
  <2> QED
    BY <1>4, <1>5, <1>6, <2>1, <2>2, Zenon
<1> QED
  BY <1>7, Zenon

LEMMA PowersDivide == ASSUME NEW x \in Powers, NEW y \in Powers, x <= y PROVE y % x = 0
BY SMT DEF Powers

LEMMA PowersOf ==
  ASSUME NEW ptr \in {4, 8}, NEW x \in Nat, x <= 1048576
  PROVE  x >= ptr /\ PowerOfTwo(x) <=> \E p \in Powers : x = ptr * p
<1>1. ASSUME NEW p \in Powers, x = ptr * p PROVE x >= ptr /\ x \in Powers
  <2>1. CASE ptr = 4
    BY <1>1, <2>1, SMT DEF Powers
  <2>2. CASE ptr = 8
    BY <1>1, <2>2, SMT DEF Powers
  <2> QED
    BY <2>1, <2>2, SMT
<1>2. ASSUME x >= ptr, x \in Powers PROVE \E p \in Powers : x = ptr * p
  <2>1. CASE ptr = 4
    BY <1>2, <2>1, SMT DEF Powers
  <2>2. CASE ptr = 8
    BY <1>2, <2>2, SMT DEF Powers
  <2> QED
    BY <2>1, <2>2, SMT
<1> QED
  BY <1>1, <1>2, SMT DEF PowerOfTwo

MemalignOf(align, ptr, ans) ==
  CASE ans.err = "0" -> ans.multiple % align = 0
    [] ans.err = "EINVAL" -> \A p \in Powers : align # ptr * p
    [] OTHER -> \E p \in Powers : align = ptr * p

LEMMA MemalignGives ==
  ASSUME NEW align \in Nat, align <= 1048576, NEW ptr \in {4, 8}, NEW page \in {0, Page}, NEW ans,
         \/ ans = posix_memalign(align, ptr, page)
         \/ ans = Failed("ENOMEM") /\ align >= ptr /\ PowerOfTwo(align)
  PROVE  MemalignOf(align, ptr, ans)
<1>1. align >= ptr /\ PowerOfTwo(align) <=> \E p \in Powers : align = ptr * p
  BY PowersOf, SMT
<1>2. CASE ~(align >= ptr /\ PowerOfTwo(align))
  <2>1. ans = [err |-> "EINVAL"]
    BY <1>2, SMT DEF posix_memalign
  <2>2. ans.err = "EINVAL"
    BY <2>1, SMT
  <2> QED
    BY <1>1, <1>2, <2>2, SMT DEF MemalignOf
<1>3. CASE align >= ptr /\ PowerOfTwo(align)
  <2>1. align \in Powers
    BY <1>3, SMT DEF PowerOfTwo
  <2>2. CASE ans.err = "ENOMEM"
    BY <1>1, <1>3, <2>2, SMT DEF MemalignOf
  <2>3. CASE ans = [err |-> "0", multiple |-> 16] /\ align <= 16
    <3>1. 16 % align = 0
      BY <1>3, <2>1, <2>3, SMT DEF Powers
    <3>2. ans.err = "0" /\ ans.multiple = 16
      BY <2>3, SMT
    <3> QED
      BY <3>1, <3>2, SMT DEF MemalignOf
  <2>4. CASE ans = [err |-> "0", multiple |-> page] /\ page >= 1 /\ align <= page
    <3>1. page \in Powers
      BY <2>4, CallsAssumption, SMT
    <3>2. page % align = 0
      BY <2>1, <2>4, <3>1, PowersDivide, SMT
    <3>3. ans.err = "0" /\ ans.multiple = page
      BY <2>4, SMT
    <3> QED
      BY <3>2, <3>3, SMT DEF MemalignOf
  <2>5. page \in Nat
    <3>1. Page \in Nat
      BY CallsAssumption, SMT DEF Powers
    <3> QED
      BY <3>1, SMT
  <2> QED
    BY <1>3, <2>2, <2>3, <2>4, <2>5, SMT DEF posix_memalign, Failed
<1> QED
  BY <1>2, <1>3, SMT

--------------------------------------------------------------------------------
(* Strings. *)

(* What the property calls the first of some places is what the functions find. *)
LEMMA EarliestMin == ASSUME NEW S PROVE Earliest(S) = IF S = {} THEN NoPtr ELSE Min(S)
BY Zenon DEF Earliest, Min

LEMMA EarliestIs ==
  ASSUME NEW S \in SUBSET Int, NEW x \in S, \A y \in S : x <= y
  PROVE  Earliest(S) = x
<1>1. \A y \in S : (\A k \in S : y <= k) => y = x
  BY SMT
<1>2. S # {}
  OBVIOUS
<1> DEFINE e == CHOOSE i \in S : \A k \in S : i <= k
<1>3. e \in S /\ \A k \in S : e <= k
  BY Zenon
<1>4. Earliest(S) = e
  BY <1>2, Zenon DEF Earliest
<1> HIDE DEF e
<1> QED
  BY <1>1, <1>3, <1>4, Zenon

LEMMA MinIs ==
  ASSUME NEW S \in SUBSET Int, NEW x \in S, \A y \in S : x <= y
  PROVE  Min(S) = x
<1>1. S # {}
  OBVIOUS
<1> QED
  BY <1>1, EarliestIs, EarliestMin, Zenon

LEMMA MaxIs ==
  ASSUME NEW S \in SUBSET Int, NEW x \in S, \A y \in S : x >= y
  PROVE  Max(S) = x
<1>1. \A y \in S : (\A k \in S : y >= k) => y = x
  BY SMT
<1> DEFINE e == CHOOSE i \in S : \A k \in S : i >= k
<1>3. e \in S /\ \A k \in S : e >= k
  BY Zenon
<1>4. Max(S) = e
  BY Zenon DEF Max
<1> HIDE DEF e
<1> QED
  BY <1>1, <1>3, <1>4, Zenon

(* A string with its end. *)
LEMMA Ended ==
  ASSUME NEW s \in Seq(Letters)
  PROVE  /\ Len(s) \in Nat /\ Len(Append(s, NUL)) = Len(s) + 1
         /\ \A k \in 0 .. Len(s) - 1 : Byte(Append(s, NUL), k) = s[k + 1] /\ s[k + 1] # NUL /\ s[k + 1] \in Letters
         /\ Byte(Append(s, NUL), Len(s)) = NUL
<1>1. NUL \notin Letters
  BY CallsAssumption
<1>2. Len(s) \in Nat /\ Len(Append(s, NUL)) = Len(s) + 1
  BY SMT
<1>3. \A k \in 1 .. Len(s) : Append(s, NUL)[k] = s[k] /\ s[k] \in Letters
  BY SMT
<1>4. Append(s, NUL)[Len(s) + 1] = NUL
  BY SMT
<1>5. \A k \in 0 .. Len(s) - 1 : k + 1 \in 1 .. Len(s)
  BY <1>2, SMT
<1> QED
  BY <1>1, <1>2, <1>3, <1>4, <1>5, Zenon DEF Byte

LEMMA MemmemFinds ==
  ASSUME NEW s \in Seq(Letters), NEW m \in Seq(Letters),
         NEW there, there = {i \in 0 .. Len(s) : IsPrefix(m, SubSeq(s, i + 1, Len(s)))}
  PROVE  memmem(s, m) = IF there = {} THEN NoPtr ELSE Min(there)
<1>1. Len(s) \in Nat /\ Len(m) \in Nat
  BY SMT
<1>2. ASSUME NEW i \in 0 .. Len(s)
      PROVE  IsPrefix(m, SubSeq(s, i + 1, Len(s))) <=> i <= Len(s) - Len(m) /\ Same(s, i, m)
  <2> DEFINE rest == SubSeq(s, i + 1, Len(s))
  <2>1. \A j \in i + 1 .. Len(s) : s[j] \in Letters
    BY SMT
  <2>2. i + 1 \in Int /\ Len(s) \in Int
    BY <1>1, SMT
  <2>3. /\ rest \in Seq(Letters)
        /\ Len(rest) = IF i + 1 <= Len(s) THEN Len(s) - (i + 1) + 1 ELSE 0
        /\ \A j \in 1 .. Len(s) - (i + 1) + 1 : rest[j] = s[(i + 1) + j - 1]
    BY <2>1, <2>2, SubSeqProperties, SMT
  <2> HIDE DEF rest
  <2>4. Len(rest) = Len(s) - i
    BY <1>1, <2>3, SMT
  <2>5. ASSUME Len(m) <= Len(s) - i
        PROVE  SubSeq(m, 1, Len(m)) = SubSeq(rest, 1, Len(m)) <=> Same(s, i, m)
    <3>1. SubSeq(m, 1, Len(m)) = m
      BY SubSeqFull, Zenon
    <3>2. \A j \in 1 .. Len(m) : rest[j] \in Letters
      BY <1>1, <2>3, <2>4, <2>5, SMT
    <3>3. /\ SubSeq(rest, 1, Len(m)) \in Seq(Letters)
          /\ Len(SubSeq(rest, 1, Len(m))) = IF 1 <= Len(m) THEN Len(m) - 1 + 1 ELSE 0
          /\ \A j \in 1 .. Len(m) - 1 + 1 : SubSeq(rest, 1, Len(m))[j] = rest[1 + j - 1]
      BY <1>1, <3>2, SubSeqProperties, SMT
    <3> DEFINE q == SubSeq(rest, 1, Len(m))
    <3>4. q \in Seq(Letters) /\ Len(q) = Len(m)
      BY <1>1, <3>3, SMT
    <3>5. \A j \in 1 .. Len(m) : q[j] = s[i + j]
      <4>1. ASSUME NEW j \in 1 .. Len(m) PROVE q[j] = s[i + j]
        <5>1. j \in 1 .. Len(m) - 1 + 1 /\ 1 + j - 1 = j
          BY <1>1, SMT
        <5>2. j \in 1 .. Len(s) - (i + 1) + 1 /\ (i + 1) + j - 1 = i + j
          BY <1>1, <2>5, SMT
        <5> QED
          BY <2>3, <3>3, <5>1, <5>2, Zenon
      <4> QED
        BY <4>1, Zenon
    <3> HIDE DEF q
    <3>6. m = q <=> \A j \in 1 .. Len(m) : m[j] = q[j]
      BY <3>4, SeqEqual, Zenon
    <3>7. Same(s, i, m) <=> \A j \in 1 .. Len(m) : m[j] = s[i + j]
      <4>1. ASSUME Same(s, i, m), NEW j \in 1 .. Len(m) PROVE m[j] = s[i + j]
        <5>1. j - 1 \in 0 .. Len(m) - 1 /\ (j - 1) + 1 = j /\ (i + (j - 1)) + 1 = i + j
          BY <1>1, SMT
        <5> QED
          BY <4>1, <5>1, SMT DEF Same, Byte
      <4>2. ASSUME \A j \in 1 .. Len(m) : m[j] = s[i + j], NEW k \in 0 .. Len(m) - 1
            PROVE  Byte(s, i + k) = Byte(m, k)
        <5>1. k + 1 \in 1 .. Len(m) /\ i + (k + 1) = (i + k) + 1
          BY <1>1, SMT
        <5> QED
          BY <4>2, <5>1, SMT DEF Byte
      <4> QED
        BY <4>1, <4>2, Zenon DEF Same
    <3> QED
      BY <3>1, <3>5, <3>6, <3>7, Zenon DEF q
  <2>6. IsPrefix(m, rest) <=> Len(m) <= Len(rest) /\ SubSeq(m, 1, Len(m)) = SubSeq(rest, 1, Len(m))
    BY Zenon DEF IsPrefix
  <2>7. i <= Len(s) - Len(m) <=> Len(m) <= Len(s) - i
    BY <1>1, SMT
  <2>8. IsPrefix(m, rest) <=> i <= Len(s) - Len(m) /\ Same(s, i, m)
    BY <2>4, <2>5, <2>6, <2>7, Zenon
  <2> QED
    BY <2>8, Zenon DEF rest
<1>3. CASE Len(m) > Len(s)
  <2>1. \A i \in 0 .. Len(s) : ~(i <= Len(s) - Len(m))
    BY <1>1, <1>3, SMT
  <2>2. there = {}
    BY <1>2, <2>1, Zenon
  <2>3. memmem(s, m) = NoPtr
    BY <1>3, Zenon DEF memmem
  <2> QED
    BY <2>2, <2>3, Zenon
<1>4. CASE ~(Len(m) > Len(s))
  <2> DEFINE found == {i \in Starts(s, m) : Same(s, i, m)}
  <2>1. \A i : i \in Starts(s, m) <=> i \in 0 .. Len(s) /\ i <= Len(s) - Len(m)
    BY <1>1, <1>4, SMT DEF Starts
  <2>2. there = found
    BY <1>2, <2>1, Zenon
  <2>3. memmem(s, m) = Earliest(found)
    BY <1>4, Zenon DEF memmem
  <2> HIDE DEF found
  <2> QED
    BY <2>2, <2>3, EarliestMin, Zenon
<1> QED
  BY <1>3, <1>4, Zenon

LEMMA StrchrnulFinds ==
  ASSUME NEW s \in Seq(Letters), NEW ch \in Letters,
         NEW here, here = {i \in 0 .. Len(s) - 1 : s[i + 1] = ch}
  PROVE  strchrnul(Append(s, NUL), ch) = IF here = {} THEN Len(s) ELSE Min(here)
<1> DEFINE str == Append(s, NUL)
           found == {i \in 0 .. Len(str) - 1 : Byte(str, i) \in {NUL, ch}}
<1>1. /\ Len(s) \in Nat /\ Len(str) - 1 = Len(s)
      /\ \A k \in 0 .. Len(s) - 1 : Byte(str, k) = s[k + 1] /\ s[k + 1] # NUL
      /\ Byte(str, Len(s)) = NUL
  BY Ended, SMT
<1>2. ch # NUL
  BY CallsAssumption
<1>3. strchrnul(str, ch) = Earliest(found)
  BY <1>2, Zenon DEF strchrnul
<1> HIDE DEF str
<1>4. \A i : i \in found <=> i = Len(s) \/ i \in here
  <2>1. \A i : i \in 0 .. Len(str) - 1 <=> i = Len(s) \/ i \in 0 .. Len(s) - 1
    BY <1>1, SMT
  <2> QED
    BY <1>1, <2>1, Zenon
<1>5. found \in SUBSET Int /\ here \in SUBSET Nat
  BY <1>1, SMT
<1> HIDE DEF found
<1>6. CASE here = {}
  <2>1. Len(s) \in found /\ \A y \in found : Len(s) <= y
    BY <1>1, <1>4, <1>6, SMT
  <2> QED
    BY <1>3, <1>5, <1>6, <2>1, EarliestIs, Zenon DEF str
<1>7. CASE here # {}
  <2>1. PICK x \in here : \A y \in here : x <= y
    BY <1>5, <1>7, FirstOf, Zenon
  <2>2. x <= Len(s)
    BY <1>1, <2>1, SMT
  <2>3. x \in found /\ \A y \in found : x <= y
    BY <1>4, <2>1, <2>2, Zenon
  <2>4. here \in SUBSET Int
    BY <1>5, SMT
  <2>5. Min(here) = x
    BY <2>1, <2>4, MinIs, Zenon
  <2>6. Earliest(found) = x
    BY <1>5, <2>3, EarliestIs, Zenon
  <2> QED
    BY <1>3, <1>7, <2>5, <2>6, Zenon DEF str
<1> QED
  BY <1>6, <1>7, Zenon

LEMMA LengthIs ==
  ASSUME NEW s \in Seq(Letters), NEW room \in Nat
  PROVE  Length(Append(s, NUL), room) = Least(room, Len(s))
<1> DEFINE str == Append(s, NUL)
           ends == {i \in 0 .. room - 1 : i < Len(str) /\ Byte(str, i) = NUL}
<1>1. /\ Len(s) \in Nat /\ Len(str) = Len(s) + 1
      /\ \A k \in 0 .. Len(s) - 1 : Byte(str, k) # NUL
      /\ Byte(str, Len(s)) = NUL
  BY Ended, SMT
<1>2. Length(str, room) = IF Earliest(ends) # NoPtr THEN Earliest(ends) ELSE room
  BY Zenon DEF Length, memchr
<1> HIDE DEF str
<1>3. \A i : i \in ends <=> i = Len(s) /\ Len(s) < room
  <2>1. \A i \in 0 .. room - 1 : i < Len(str) => i = Len(s) \/ i \in 0 .. Len(s) - 1
    BY <1>1, SMT
  <2>2. Len(s) < room => Len(s) \in 0 .. room - 1 /\ Len(s) < Len(str)
    BY <1>1, SMT
  <2>3. Len(s) \in 0 .. room - 1 => Len(s) < room
    BY <1>1, SMT
  <2> QED
    BY <1>1, <2>1, <2>2, <2>3, Zenon
<1> HIDE DEF ends
<1>4. CASE Len(s) < room
  <2>1. ends \in SUBSET Int /\ Len(s) \in ends /\ \A y \in ends : Len(s) <= y
    BY <1>1, <1>3, <1>4, SMT
  <2>2. Earliest(ends) = Len(s)
    BY <2>1, EarliestIs, Zenon
  <2>3. Len(s) # NoPtr
    BY <1>1, SMT DEF NoPtr
  <2>4. Least(room, Len(s)) = Len(s)
    BY <1>1, <1>4, SMT DEF Least
  <2> QED
    BY <1>2, <2>2, <2>3, <2>4, Zenon DEF str
<1>5. CASE ~(Len(s) < room)
  <2>1. ends = {}
    BY <1>3, <1>5, Zenon
  <2>2. Earliest(ends) = NoPtr
    BY <2>1, Zenon DEF Earliest
  <2>3. Least(room, Len(s)) = room
    BY <1>1, <1>5, SMT DEF Least
  <2> QED
    BY <1>2, <2>2, <2>3, Zenon DEF str
<1> QED
  BY <1>4, <1>5, Zenon

LEMMA StrndupCopies ==
  ASSUME NEW s \in Seq(Letters), NEW room \in Nat
  PROVE  strndup(Append(s, NUL), room) = SubSeq(s, 1, Least(room, Len(s))) \o <<NUL>>
<1> DEFINE len == Least(room, Len(s))
           str == Append(s, NUL)
<1>1. Len(s) \in Nat /\ len \in Nat /\ len <= Len(s)
  BY SMT DEF Least
<1>2. Length(str, room) = len
  BY LengthIs, Zenon
<1>3. strndup(str, room) = SubSeq(str, 1, len) \o <<NUL>>
  BY <1>2, Zenon DEF strndup
<1> HIDE DEF len
<1>4. \A j \in 1 .. len : str[j] = s[j]
  BY <1>1, SMT
<1>5. SubSeq(str, 1, len) = SubSeq(s, 1, len)
  BY <1>1, <1>4, SMT
<1> HIDE DEF str
<1>6. strndup(str, room) = SubSeq(s, 1, len) \o <<NUL>>
  BY <1>3, <1>5, Zenon
<1> QED
  BY <1>6, Zenon DEF len, str

(* memrchr, downwards from any place. *)
LastAt(s, ch, i, x) ==
  \/ x = NoPtr /\ \A k \in 0 .. i - 1 : s[k + 1] # ch
  \/ x \in 0 .. i - 1 /\ s[x + 1] = ch /\ \A k \in 0 .. i - 1 : s[k + 1] = ch => k <= x

LEMMA LastStep ==
  ASSUME NEW s, NEW ch, NEW i \in Nat \ {0}, NEW x, LastAt(s, ch, i - 1, x)
  PROVE  LastAt(s, ch, i, IF Byte(s, i - 1) = ch THEN i - 1 ELSE x)
<1>1. \A k : k \in 0 .. i - 1 <=> k \in 0 .. (i - 1) - 1 \/ k = i - 1
  BY SMT
<1>2. (i - 1) + 1 = i
  BY SMT
<1>3. CASE s[(i - 1) + 1] = ch
  <2>1. i - 1 \in 0 .. i - 1 /\ \A k \in 0 .. i - 1 : k <= i - 1
    BY SMT
  <2>2. LastAt(s, ch, i, i - 1)
    BY <1>3, <2>1, Zenon DEF LastAt
  <2> QED
    BY <1>3, <2>2, Zenon DEF Byte
<1>4. CASE s[(i - 1) + 1] # ch
  <2>1. \A k \in 0 .. i - 1 : s[k + 1] = ch => k \in 0 .. (i - 1) - 1
    BY <1>1, <1>4, SMT
  <2>2. LastAt(s, ch, i, x)
    BY <1>1, <2>1, Zenon DEF LastAt
  <2> QED
    BY <1>4, <2>2, Zenon DEF Byte
<1> QED
  BY <1>3, <1>4, Zenon

LEMMA LastOne ==
  ASSUME NEW s, NEW ch, NEW i \in Nat, NEW x, NEW y, LastAt(s, ch, i, x), LastAt(s, ch, i, y)
  PROVE  x = y
BY SMT DEF LastAt, NoPtr

LEMMA LastExists ==
  ASSUME NEW s, NEW ch
  PROVE  \A i \in Nat : \E x : LastAt(s, ch, i, x)
<1> DEFINE S == {i \in Nat : ~\E x : LastAt(s, ch, i, x)}
<1> SUFFICES ASSUME S # {} PROVE FALSE
  BY Zenon
<1>1. S \in SUBSET Nat
  BY Zenon
<1>2. PICK i \in S : \A k \in S : i <= k
  BY <1>1, FirstOf, Zenon
<1>3. i # 0
  <2>1. \A k : ~(k \in 0 .. 0 - 1)
    BY SMT
  <2>2. LastAt(s, ch, 0, NoPtr)
    BY <2>1, Zenon DEF LastAt
  <2> QED
    BY <2>2, Zenon
<1>4. i \in Nat \ {0} /\ i - 1 \in Nat /\ ~(i <= i - 1)
  BY <1>1, <1>3, SMT
<1>5. i - 1 \notin S
  BY <1>2, <1>4, Zenon
<1>6. PICK x : LastAt(s, ch, i - 1, x)
  BY <1>4, <1>5, Zenon
<1>7. LastAt(s, ch, i, IF Byte(s, i - 1) = ch THEN i - 1 ELSE x)
  BY <1>4, <1>6, LastStep, Zenon
<1> QED
  BY <1>7, Zenon

LEMMA MemrchrLast ==
  ASSUME NEW s, NEW ch, NEW len \in Nat
  PROVE  LastAt(s, ch, len, memrchr(s, ch, len))
<1> DEFINE R(g, i) == IF i = 0 THEN NoPtr ELSE IF Byte(s, i - 1) = ch THEN i - 1 ELSE g[i - 1]
           f == CHOOSE g : g = [i \in 0 .. len |-> R(g, i)]
           h == [i \in 0 .. len |-> CHOOSE x : LastAt(s, ch, i, x)]
<1>1. memrchr(s, ch, len) = f[len]
  BY Zenon DEF memrchr
<1>2. LastAt(s, ch, 0, NoPtr)
  <2>1. \A k : ~(k \in 0 .. 0 - 1)
    BY SMT
  <2> QED
    BY <2>1, Zenon DEF LastAt
<1>3. \A i \in 0 .. len : LastAt(s, ch, i, h[i])
  <2>1. \A i \in 0 .. len : i \in Nat
    BY SMT
  <2> QED
    BY <2>1, LastExists, Zenon
<1>4. ASSUME NEW i \in 0 .. len PROVE h[i] = R(h, i)
  <2>1. CASE i = 0
    <3>1. h[i] = NoPtr
      BY <1>2, <1>3, <2>1, LastOne, SMT
    <3> HIDE DEF h
    <3> QED
      BY <2>1, <3>1, Zenon
  <2>2. CASE i # 0
    <3>1. i \in Nat \ {0} /\ i - 1 \in 0 .. len
      BY <2>2, SMT
    <3> HIDE DEF h
    <3>2. LastAt(s, ch, i, IF Byte(s, i - 1) = ch THEN i - 1 ELSE h[i - 1])
      BY <1>3, <3>1, LastStep, Zenon
    <3>3. h[i] = IF Byte(s, i - 1) = ch THEN i - 1 ELSE h[i - 1]
      BY <1>3, <3>1, <3>2, LastOne, Zenon
    <3> QED
      BY <2>2, <3>3, Zenon
  <2> QED
    BY <2>1, <2>2, Zenon
<1>5. h = [i \in 0 .. len |-> R(h, i)]
  <2>1. h = [i \in 0 .. len |-> h[i]]
    BY SMT
  <2> HIDE DEF h
  <2> QED
    BY <1>4, <2>1, SMT
<1> HIDE DEF h
<1>6. f = [i \in 0 .. len |-> R(f, i)]
  BY <1>5, Zenon
<1> HIDE DEF f
<1>7. ASSUME NEW i \in 0 .. len PROVE f[i] = R(f, i)
  BY <1>6, SMT
<1> DEFINE S == {i \in 0 .. len : ~LastAt(s, ch, i, f[i])}
<1>8. S = {}
  <2> SUFFICES ASSUME S # {} PROVE FALSE
    BY Zenon
  <2>1. S \in SUBSET Nat
    BY SMT
  <2>2. PICK i \in S : \A k \in S : i <= k
    BY <2>1, FirstOf, Zenon
  <2>3. i # 0
    BY <1>2, <1>7, <2>2, Zenon
  <2>4. i \in 0 .. len /\ i \in Nat \ {0} /\ i - 1 \in 0 .. len /\ ~(i <= i - 1)
    BY <2>2, <2>3, SMT
  <2>5. LastAt(s, ch, i - 1, f[i - 1])
    BY <2>2, <2>4, Zenon
  <2>6. LastAt(s, ch, i, IF Byte(s, i - 1) = ch THEN i - 1 ELSE f[i - 1])
    BY <2>4, <2>5, LastStep, Zenon
  <2>7. f[i] = IF Byte(s, i - 1) = ch THEN i - 1 ELSE f[i - 1]
    BY <1>7, <2>3, <2>4, Zenon
  <2> QED
    BY <2>2, <2>6, <2>7, Zenon
<1>9. len \in 0 .. len
  BY SMT
<1> QED
  BY <1>1, <1>8, <1>9, Zenon

LEMMA MemrchrFinds ==
  ASSUME NEW s \in Seq(Letters), NEW ch,
         NEW here, here = {i \in 0 .. Len(s) - 1 : s[i + 1] = ch}
  PROVE  memrchr(s, ch, Len(s)) = IF here = {} THEN NoPtr ELSE Max(here)
<1> DEFINE x == memrchr(s, ch, Len(s))
<1>1. Len(s) \in Nat
  BY SMT
<1>2. LastAt(s, ch, Len(s), x)
  BY <1>1, MemrchrLast, Zenon
<1> HIDE DEF x
<1>3. CASE x = NoPtr /\ \A k \in 0 .. Len(s) - 1 : s[k + 1] # ch
  <2>1. here = {}
    BY <1>3, Zenon
  <2> QED
    BY <1>3, <2>1, Zenon DEF x
<1>4. CASE x \in 0 .. Len(s) - 1 /\ s[x + 1] = ch /\ \A k \in 0 .. Len(s) - 1 : s[k + 1] = ch => k <= x
  <2>1. x \in here /\ \A k \in here : k <= x
    BY <1>4, Zenon
  <2>2. here \in SUBSET Int
    BY <1>1, SMT
  <2>3. \A k \in here : x >= k
    BY <2>1, <2>2, SMT
  <2>4. Max(here) = x
    BY <2>1, <2>2, <2>3, MaxIs, Zenon
  <2>5. here # {}
    BY <2>1, Zenon
  <2> QED
    BY <2>4, <2>5, Zenon DEF x
<1> QED
  BY <1>2, <1>3, <1>4, Zenon DEF LastAt

(* stpncpy, after any number of its rounds. *)
Copied(s, k) == [i \in 1 .. k |-> IF i <= Len(s) THEN s[i] ELSE NUL]

CopiedTo(s, k, y) == y = [out |-> Copied(s, k), moved |-> Least(k, Len(s))]

LEMMA CopyRound ==
  ASSUME NEW s \in Seq(Letters), NEW k \in Nat \ {0}, NEW y, CopiedTo(s, k - 1, y),
         NEW ch, ch = Byte(Append(s, NUL), y.moved)
  PROVE  CopiedTo(s, k, [out |-> Append(y.out, ch), moved |-> y.moved + (IF ch # NUL THEN 1 ELSE 0)])
<1> DEFINE str == Append(s, NUL)
<1>1. /\ Len(s) \in Nat
      /\ \A j \in 0 .. Len(s) - 1 : Byte(str, j) = s[j + 1] /\ s[j + 1] # NUL
      /\ Byte(str, Len(s)) = NUL
  BY Ended, SMT
<1>2. y.out = Copied(s, k - 1) /\ y.moved = Least(k - 1, Len(s))
  BY SMT DEF CopiedTo
<1>3. ch = Byte(str, Least(k - 1, Len(s)))
  BY <1>2, Zenon
<1> HIDE DEF str
<1>4. ch = IF k <= Len(s) THEN s[k] ELSE NUL
  <2>1. CASE k <= Len(s)
    <3>1. Least(k - 1, Len(s)) = k - 1 /\ k - 1 \in 0 .. Len(s) - 1 /\ (k - 1) + 1 = k
      BY <1>1, <2>1, SMT DEF Least
    <3> QED
      BY <1>1, <1>3, <2>1, <3>1, SMT
  <2>2. CASE ~(k <= Len(s))
    <3>1. Least(k - 1, Len(s)) = Len(s)
      BY <1>1, <2>2, SMT DEF Least
    <3> QED
      BY <1>1, <1>3, <2>2, <3>1, Zenon
  <2> QED
    BY <2>1, <2>2, Zenon
<1>5. Append(y.out, ch) = Copied(s, k)
  <2>1. y.out = [i \in 1 .. k - 1 |-> IF i <= Len(s) THEN s[i] ELSE NUL]
    BY <1>2, Zenon DEF Copied
  <2>2. Copied(s, k) = [i \in 1 .. k |-> IF i <= Len(s) THEN s[i] ELSE NUL]
    BY Zenon DEF Copied
  <2> DEFINE e(i) == IF i <= Len(s) THEN s[i] ELSE NUL
             S == {e(i) : i \in 1 .. k}
             out == [i \in 1 .. k - 1 |-> e(i)]
             whole == [i \in 1 .. k |-> e(i)]
  <2>3. \A i \in 1 .. k : e(i) \in S
    BY Zenon
  <2>4. 1 .. k - 1 \subseteq 1 .. k /\ k \in 1 .. k
    BY SMT
  <2>5. e(k) = ch
    BY <1>4, Zenon
  <2> HIDE DEF e, S
  <2>6. out \in Seq(S) /\ Len(out) = k - 1
    <3>1. out \in [1 .. k - 1 -> S]
      BY <2>3, <2>4, SMT
    <3> QED
      BY <3>1, SMT
  <2>7. whole \in Seq(S) /\ Len(whole) = k
    <3>1. whole \in [1 .. k -> S]
      BY <2>3, SMT
    <3> QED
      BY <3>1, SMT
  <2>8. Append(out, ch) = whole
    <3>1. ch \in S
      BY <2>3, <2>4, <2>5, Zenon
    <3>2. Append(out, ch) \in Seq(S) /\ Len(Append(out, ch)) = k
      BY <2>6, <3>1, SMT
    <3>3. \A i \in 1 .. k : Append(out, ch)[i] = e(i)
      <4>1. ASSUME NEW i \in 1 .. k - 1 PROVE Append(out, ch)[i] = e(i)
        <5>1. out[i] = e(i)
          BY SMT
        <5> HIDE DEF out
        <5> QED
          BY <2>6, <3>1, <5>1, SMT
      <4>2. Append(out, ch)[k] = ch
        <5> HIDE DEF out
        <5> QED
          BY <2>6, <3>1, SMT
      <4>3. \A i \in 1 .. k : i \in 1 .. k - 1 \/ i = k
        BY SMT
      <4> QED
        BY <2>5, <4>1, <4>2, <4>3, SMT
    <3>4. \A i \in 1 .. k : whole[i] = e(i)
      BY SMT
    <3> HIDE DEF out, whole
    <3> QED
      BY <2>7, <3>2, <3>3, <3>4, SeqEqual, SMT
  <2> QED
    BY <2>1, <2>2, <2>8, Zenon DEF e, out, whole
<1>6. y.moved + (IF ch # NUL THEN 1 ELSE 0) = Least(k, Len(s))
  <2>1. CASE k <= Len(s)
    <3>1. k - 1 \in 0 .. Len(s) - 1 /\ (k - 1) + 1 = k
      BY <1>1, <2>1, SMT
    <3>2. ch # NUL
      BY <1>1, <1>4, <2>1, <3>1, SMT
    <3> QED
      BY <1>1, <1>2, <2>1, <3>2, SMT DEF Least
  <2>2. CASE ~(k <= Len(s))
    <3>1. ch = NUL
      BY <1>4, <2>2, Zenon
    <3>2. (IF ch # NUL THEN 1 ELSE 0) = 0
      BY <3>1, Zenon
    <3>3. Least(k - 1, Len(s)) = Len(s) /\ Least(k, Len(s)) = Len(s)
      BY <1>1, <2>2, SMT DEF Least
    <3> QED
      BY <1>1, <1>2, <3>2, <3>3, SMT
  <2> QED
    BY <2>1, <2>2, Zenon
<1> QED
  BY <1>5, <1>6, Zenon DEF CopiedTo

LEMMA StpncpyCopies ==
  ASSUME NEW s \in Seq(Letters), NEW room \in Nat
  PROVE  CopiedTo(s, room, stpncpy(Append(s, NUL), room))
<1> DEFINE str == Append(s, NUL)
           Round(y) == LET ch == Byte(str, y.moved) IN
                         [out |-> Append(y.out, ch), moved |-> y.moved + (IF ch # NUL THEN 1 ELSE 0)]
           Nought == [out |-> <<>>, moved |-> 0]
           R(g, k) == IF k = 0 THEN Nought ELSE Round(g[k - 1])
           f == CHOOSE g : g = [k \in 0 .. room |-> R(g, k)]
           Value(k) == [out |-> Copied(s, k), moved |-> Least(k, Len(s))]
           h == [k \in 0 .. room |-> Value(k)]
<1>1. stpncpy(str, room) = f[room]
  BY Zenon DEF stpncpy
<1>2. CopiedTo(s, 0, Nought)
  <2>1. Least(0, Len(s)) = 0
    BY SMT DEF Least
  <2>2. Copied(s, 0) = <<>>
    BY SMT DEF Copied
  <2> QED
    BY <2>1, <2>2, Zenon DEF CopiedTo
<1>3. ASSUME NEW k \in Nat \ {0}, NEW y, CopiedTo(s, k - 1, y) PROVE CopiedTo(s, k, Round(y))
  BY <1>3, CopyRound, Zenon
<1>4. \A k, y : CopiedTo(s, k, y) <=> y = Value(k)
  BY Zenon DEF CopiedTo
<1> HIDE DEF Round, Nought, Value, str
<1>5. ASSUME NEW k \in 0 .. room PROVE h[k] = R(h, k)
  <2>1. h[k] = Value(k)
    BY SMT
  <2>2. CASE k = 0
    BY <1>2, <1>4, <2>1, <2>2, Zenon
  <2>3. CASE k # 0
    <3>1. k \in Nat \ {0} /\ k - 1 \in 0 .. room
      BY <2>3, SMT
    <3>2. h[k - 1] = Value(k - 1)
      BY <3>1, SMT
    <3> HIDE DEF h
    <3>3. Round(h[k - 1]) = Value(k)
      BY <1>3, <1>4, <3>1, <3>2, Zenon
    <3> QED
      BY <2>1, <2>3, <3>3, Zenon
  <2> QED
    BY <2>2, <2>3, Zenon
<1>6. h = [k \in 0 .. room |-> R(h, k)]
  <2>1. h = [k \in 0 .. room |-> h[k]]
    BY SMT
  <2> HIDE DEF h
  <2> QED
    BY <1>5, <2>1, SMT
<1> HIDE DEF h
<1>7. f = [k \in 0 .. room |-> R(f, k)]
  BY <1>6, Zenon
<1> HIDE DEF f
<1>8. ASSUME NEW k \in 0 .. room PROVE f[k] = R(f, k)
  BY <1>7, SMT
<1> DEFINE S == {k \in 0 .. room : ~CopiedTo(s, k, f[k])}
<1>9. S = {}
  <2> SUFFICES ASSUME S # {} PROVE FALSE
    BY Zenon
  <2>1. S \in SUBSET Nat
    BY SMT
  <2>2. PICK k \in S : \A j \in S : k <= j
    BY <2>1, FirstOf, Zenon
  <2>3. k # 0
    BY <1>2, <1>8, <2>2, Zenon
  <2>4. k \in 0 .. room /\ k \in Nat \ {0} /\ k - 1 \in 0 .. room /\ ~(k <= k - 1)
    BY <2>2, <2>3, SMT
  <2>5. CopiedTo(s, k - 1, f[k - 1])
    BY <2>2, <2>4, Zenon
  <2>6. CopiedTo(s, k, Round(f[k - 1]))
    BY <1>3, <2>4, <2>5, Zenon
  <2>7. f[k] = Round(f[k - 1])
    BY <1>8, <2>3, <2>4, Zenon
  <2> QED
    BY <2>2, <2>6, <2>7, Zenon
<1>10. room \in 0 .. room
  BY SMT
<1> QED
  BY <1>1, <1>9, <1>10, Zenon DEF str

--------------------------------------------------------------------------------
(* What the calls answer. *)

(* What the program knows of its clocks and of its pages. *)
LibraryInv ==
  /\ mach_time_factor \in Timebases \cup {NoFactor}
  /\ ticked => mach_time_factor # NoFactor
  /\ pagesize \in {0, Page}

LEMMA OthersRight ==
  ASSUME NEW fn, asked'.fn = fn
  PROVE  /\ fn # "clock_gettime" => ClockRight'
         /\ fn # "clock_getres" => ResolutionRight'
         /\ fn # "futimens" => FutimensRight'
         /\ fn # "lutimes" => LutimesRight'
         /\ fn # "posix_memalign" => MemalignRight'
         /\ fn # "search" => SearchRight'
         /\ fn # "stpncpy" => CopyRight'
         /\ fn # "arc4random_buf" => FillRight'
         /\ fn # "getservbyport_r" => ServiceFits'
         /\ fn # "service" => ServiceFound'
BY Zenon DEF ClockRight, ResolutionRight, FutimensRight, LutimesRight, MemalignRight,
             SearchRight, CopyRight, FillRight, ServiceFits, ServiceFound

LEMMA SomeRight ==
  ASSUME NEW fn, asked'.fn = fn,
         \/ fn = "clock_gettime" /\ ClockRight'
         \/ fn = "clock_getres" /\ ResolutionRight'
         \/ fn = "futimens" /\ FutimensRight'
         \/ fn = "lutimes" /\ LutimesRight'
         \/ fn = "posix_memalign" /\ MemalignRight'
         \/ fn = "search" /\ SearchRight'
         \/ fn = "stpncpy" /\ CopyRight'
         \/ fn = "arc4random_buf" /\ FillRight'
         \/ fn = "getservbyport_r" /\ ServiceFits'
         \/ fn = "service" /\ ServiceFound'
  PROVE  AnswersRight'
BY OthersRight, Zenon DEF AnswersRight

LEMMA ClockIs ==
  /\ ClockRight <=> (asked.fn = "clock_gettime" /\ "err" \notin DOMAIN answer =>
                       ClockOf(asked.clock, Hires, mach_time_factor, asked.now, answer))
  /\ ClockRight' <=> (asked'.fn = "clock_gettime" /\ "err" \notin DOMAIN answer' =>
                        ClockOf(asked'.clock, Hires', mach_time_factor', asked'.now, answer'))
<1>1. ClockRight <=> (asked.fn = "clock_gettime" /\ "err" \notin DOMAIN answer =>
                       ClockOf(asked.clock, Hires, mach_time_factor, asked.now, answer))
  BY ZenonT(60) DEF ClockRight, ClockOf, TicksRight, TicksOf
<1>2. ClockRight' <=> (asked'.fn = "clock_gettime" /\ "err" \notin DOMAIN answer' =>
                        ClockOf(asked'.clock, Hires', mach_time_factor', asked'.now, answer'))
  BY ZenonT(60) DEF ClockRight, ClockOf, TicksRight, TicksOf
<1> QED
  BY <1>1, <1>2

LEMMA ClockGettimeRight ==
  ASSUME LibraryInv, target' = target, ClockGettime
  PROVE  LibraryInv' /\ AnswersRight'
<1>1. PICK ck \in Clock, now \in Showing :
        /\ asked' = [fn |-> "clock_gettime", clock |-> ck, now |-> now]
        /\ \/ mach_time_factor # NoFactor /\ UNCHANGED mach_time_factor
           \/ mach_time_factor = NoFactor /\ mach_time_factor' \in Timebases \cup {NoFactor}
        /\ IF mach_time_factor' = NoFactor THEN answer' = Failed("mach_timebase_info")
           ELSE answer' \in clock_gettime(ck, Hires, mach_time_factor', now)
        /\ ticked' = (ticked \/ mach_time_factor' # NoFactor)
        /\ UNCHANGED pagesize
  BY Zenon DEF ClockGettime
<1>2. LibraryInv'
  <2>1. mach_time_factor' \in Timebases \cup {NoFactor}
    BY <1>1, Zenon DEF LibraryInv
  <2>2. ticked' => mach_time_factor' # NoFactor
    BY <1>1, Zenon DEF LibraryInv
  <2>3. pagesize' \in {0, Page}
    BY <1>1, Zenon DEF LibraryInv
  <2> QED
    BY <2>1, <2>2, <2>3, Zenon DEF LibraryInv
<1>3. asked'.fn = "clock_gettime" /\ asked'.clock = ck /\ asked'.now = now
  BY <1>1, SMT
<1>4. ASSUME "err" \notin DOMAIN answer'
      PROVE  ClockOf(ck, Hires, mach_time_factor', now, answer')
  <2>1. mach_time_factor' # NoFactor
    <3>1. "err" \in DOMAIN Failed("mach_timebase_info")
      BY SMT DEF Failed
    <3> QED
      BY <1>1, <1>4, <3>1, Zenon
  <2>2. mach_time_factor' \in Timebases /\ answer' \in clock_gettime(ck, Hires, mach_time_factor', now)
    BY <1>1, <1>2, <2>1, Zenon DEF LibraryInv
  <2>3. now \in Moment
    BY TimesAssumption, Zenon DEF Moment
  <2>4. Hires \in BOOLEAN
    BY SMT DEF Hires, HIRES_THREAD_TIME
  <2> QED
    BY <1>4, <2>2, <2>3, <2>4, ClockGives, Zenon
<1>5. Hires' <=> Hires
  BY Zenon DEF Hires
<1>6. ClockRight'
  BY <1>3, <1>4, <1>5, ClockIs, Zenon
<1> QED
  BY <1>2, <1>3, <1>6, SomeRight, Zenon

LEMMA ClockGetresRight ==
  ASSUME LibraryInv, target' = target, ClockGetres
  PROVE  LibraryInv' /\ AnswersRight'
<1>1. PICK ck \in Clock :
        /\ asked' = [fn |-> "clock_getres", clock |-> ck]
        /\ answer' = clock_getres(ck, Hires, mach_time_factor)
        /\ UNCHANGED statics
  BY Zenon DEF ClockGetres
<1>2. mach_time_factor' = mach_time_factor /\ pagesize' = pagesize /\ ticked' = ticked
  BY <1>1, SMT DEF statics
<1>3. LibraryInv'
  BY <1>2, Zenon DEF LibraryInv
<1>4. Hires \in BOOLEAN
  BY SMT DEF Hires, HIRES_THREAD_TIME
<1>5. ASSUME "err" \notin DOMAIN answer' PROVE answer'.sec = 0 /\ (answer'.nsec > 0 \/ ~ticked')
  BY <1>1, <1>2, <1>4, <1>5, ResolutionGives, Zenon DEF LibraryInv
<1>6. asked'.fn = "clock_getres"
  BY <1>1, SMT
<1>7. ResolutionRight'
  BY <1>5, Zenon DEF ResolutionRight
<1> QED
  BY <1>3, <1>6, <1>7, SomeRight, Zenon

LEMMA SameStatics == ASSUME LibraryInv, UNCHANGED statics PROVE LibraryInv'
<1>1. mach_time_factor' = mach_time_factor /\ pagesize' = pagesize /\ ticked' = ticked
  BY SMT DEF statics
<1> QED
  BY <1>1, Zenon DEF LibraryInv

LEMMA FutimensIsRight ==
  ASSUME LibraryInv, Futimens
  PROVE  LibraryInv' /\ AnswersRight'
<1>1. PICK times \in TimePairs, st \in Files, now \in {Micro(x) : x \in UNION {{f[1], f[2]} : f \in Files}} :
        /\ asked' = [fn |-> "futimens", times |-> times, st |-> st, now |-> now]
        /\ answer' \in futimens(times, st, now, Garbage)
        /\ UNCHANGED statics
  BY Zenon DEF Futimens
<1>2. FutimensOf(times, st, now, answer')
  BY <1>1, FutimensGives, Zenon
<1>3. /\ asked'.fn = "futimens" /\ asked'.times = times
      /\ asked'.st = st /\ asked'.now = now
  BY <1>1, SMT
<1>4. Omitted' = OmittedOf(times)
  BY <1>3, Zenon DEF Omitted, OmittedOf
<1>5. \A i : Wanted(i)' = WantedOf(times, st, now, i)
  BY <1>3, Zenon DEF Wanted, WantedOf
<1>6. FutimensRight'
  BY <1>2, <1>3, <1>4, <1>5, Zenon DEF FutimensRight, FutimensOf, BadTime
<1> QED
  BY <1>1, <1>3, <1>6, SomeRight, SameStatics, Zenon

LEMMA LutimesIsRight ==
  ASSUME LibraryInv, Lutimes
  PROVE  LibraryInv' /\ AnswersRight'
<1>1. PICK f \in Files, islink \in BOOLEAN, given \in BOOLEAN :
        LET times == <<Micro(f[1]), Micro(f[2])>>
            now == Timeval(7, 7)
        IN /\ asked' = [fn |-> "lutimes", times |-> IF given THEN times ELSE NULL, now |-> now]
           /\ answer' = lutimes(islink, IF given THEN times ELSE NULL, now)
           /\ UNCHANGED statics
  BY Zenon DEF Lutimes
<1> DEFINE times == IF given THEN <<Micro(f[1]), Micro(f[2])>> ELSE NULL
           now == Timeval(7, 7)
<1>2. asked' = [fn |-> "lutimes", times |-> times, now |-> now]
  BY <1>1, Zenon
<1>3. answer' = lutimes(islink, times, now)
  BY <1>1, Zenon
<1>4. lutimes(islink, times, now) = IF times = NULL THEN <<Nano(now), Nano(now)>>
                                    ELSE <<Nano(times[1]), Nano(times[2])>>
  <2>1. times \in {<<Micro(f[1]), Micro(f[2])>>, NULL}
    BY Zenon
  <2> HIDE DEF times, now
  <2> QED
    BY <2>1, LutimesGives, SMT
<1> HIDE DEF times, now
<1>5. asked'.fn = "lutimes" /\ asked'.times = times /\ asked'.now = now
  BY <1>2, SMT
<1>6. LutimesRight'
  BY <1>3, <1>4, <1>5, Zenon DEF LutimesRight
<1>7. UNCHANGED statics
  BY <1>1, Zenon
<1> QED
  BY <1>5, <1>6, <1>7, SomeRight, SameStatics, Zenon

LEMMA PosixMemalignRight ==
  ASSUME LibraryInv, target' = target, PosixMemalign
  PROVE  LibraryInv' /\ AnswersRight'
<1>1. PICK align \in Aligns, found \in {0, Page} :
        /\ asked' = [fn |-> "posix_memalign", align |-> align]
        /\ pagesize' = IF align > 16 /\ align >= Ptr /\ PowerOfTwo(align) /\ pagesize = 0
                       THEN found ELSE pagesize
        /\ \/ answer' = posix_memalign(align, Ptr, pagesize')
           \/ answer' = Failed("ENOMEM") /\ align >= Ptr /\ PowerOfTwo(align)
        /\ UNCHANGED <<mach_time_factor, ticked>>
  BY Zenon DEF PosixMemalign
<1>2. pagesize' \in {0, Page}
  BY <1>1, Zenon DEF LibraryInv
<1>3. LibraryInv'
  BY <1>1, <1>2, SMT DEF LibraryInv
<1>4. align \in Nat /\ align <= 1048576
  BY CallsAssumption, SMT
<1>5. MemalignOf(align, Ptr, answer')
  BY <1>1, <1>2, <1>4, MemalignGives, PtrIs, SMT
<1>6. asked'.fn = "posix_memalign" /\ asked'.align = align
  BY <1>1, SMT
<1>7. Ptr' = Ptr
  BY Zenon DEF Ptr
<1>8. MemalignRight'
  BY <1>5, <1>6, <1>7, SMT DEF MemalignRight, MemalignOf
<1> QED
  BY <1>3, <1>6, <1>8, SomeRight, Zenon

LEMMA SearchIsRight ==
  ASSUME LibraryInv, Search
  PROVE  LibraryInv' /\ AnswersRight'
<1>1. PICK s \in Strings, m \in Needles, ch \in Letters, k \in Lengths :
        /\ asked' = [fn |-> "search", s |-> s, n |-> m, c |-> ch, len |-> Len(s), max |-> k]
        /\ answer' = [memmem |-> memmem(s, m), memrchr |-> memrchr(s, ch, Len(s)),
                      strchrnul |-> strchrnul(Append(s, NUL), ch),
                      strnlen |-> strnlen(Append(s, NUL), k), strndup |-> strndup(Append(s, NUL), k)]
        /\ UNCHANGED statics
  BY Zenon DEF Search
<1>2. s \in Seq(Letters) /\ m \in Seq(Letters) /\ k \in Nat
  BY CallsAssumption, SMT
<1> DEFINE there == {i \in 0 .. Len(s) : IsPrefix(m, SubSeq(s, i + 1, Len(s)))}
           here == {i \in 0 .. Len(s) - 1 : s[i + 1] = ch}
           part == Least(k, Len(s))
<1>3. memmem(s, m) = IF there = {} THEN NoPtr ELSE Min(there)
  <2>1. \A z : z = there => memmem(s, m) = IF z = {} THEN NoPtr ELSE Min(z)
    BY <1>2, MemmemFinds, Zenon
  <2> HIDE DEF there
  <2> QED
    BY <2>1, Zenon
<1>4. memrchr(s, ch, Len(s)) = IF here = {} THEN NoPtr ELSE Max(here)
  BY <1>2, MemrchrFinds, Zenon
<1>5. strchrnul(Append(s, NUL), ch) = IF here = {} THEN Len(s) ELSE Min(here)
  <2>1. \A z : z = here => strchrnul(Append(s, NUL), ch) = IF z = {} THEN Len(s) ELSE Min(z)
    BY <1>2, StrchrnulFinds, Zenon
  <2> HIDE DEF here
  <2> QED
    BY <2>1, Zenon
<1>6. strnlen(Append(s, NUL), k) = part
  BY <1>2, LengthIs, Zenon DEF strnlen
<1>7. strndup(Append(s, NUL), k) = SubSeq(s, 1, part) \o <<NUL>>
  BY <1>2, StrndupCopies, Zenon
<1>8. asked'.fn = "search" /\ asked'.s = s /\ asked'.n = m /\ asked'.c = ch /\ asked'.max = k
  BY <1>1, SMT
<1>9. /\ answer'.memmem = memmem(s, m) /\ answer'.memrchr = memrchr(s, ch, Len(s))
      /\ answer'.strchrnul = strchrnul(Append(s, NUL), ch)
      /\ answer'.strnlen = strnlen(Append(s, NUL), k) /\ answer'.strndup = strndup(Append(s, NUL), k)
  BY <1>1, SMT
<1>10. SearchRight'
  <2>1. SearchRight' <=>
          /\ answer'.memmem = IF there = {} THEN NoPtr ELSE Min(there)
          /\ answer'.memrchr = IF here = {} THEN NoPtr ELSE Max(here)
          /\ answer'.strchrnul = IF here = {} THEN Len(s) ELSE Min(here)
          /\ answer'.strnlen = part
          /\ answer'.strndup = SubSeq(s, 1, part) \o <<NUL>>
    BY <1>8, Zenon DEF SearchRight
  <2> HIDE DEF there, here, part
  <2> QED
    BY <1>3, <1>4, <1>5, <1>6, <1>7, <1>9, <2>1, Zenon
<1> QED
  BY <1>1, <1>8, <1>10, SomeRight, SameStatics, Zenon

LEMMA CopyIsRight ==
  ASSUME LibraryInv, Copy
  PROVE  LibraryInv' /\ AnswersRight'
<1>1. PICK s \in Strings, k \in Lengths :
        /\ asked' = [fn |-> "stpncpy", s |-> s, n |-> k]
        /\ answer' = stpncpy(Append(s, NUL), k)
        /\ UNCHANGED statics
  BY Zenon DEF Copy
<1>2. s \in Seq(Letters) /\ k \in Nat
  BY CallsAssumption, SMT
<1>3. answer' = [out |-> Copied(s, k), moved |-> Least(k, Len(s))]
  BY <1>1, <1>2, StpncpyCopies, Zenon DEF CopiedTo
<1>4. asked'.fn = "stpncpy" /\ asked'.s = s /\ asked'.n = k
  BY <1>1, SMT
<1>5. answer'.moved = Least(k, Len(s)) /\ answer'.out = Copied(s, k)
  BY <1>3, SMT
<1>6. CopyRight'
  BY <1>4, <1>5, Zenon DEF CopyRight, Copied
<1> QED
  BY <1>1, <1>4, <1>6, SomeRight, SameStatics, Zenon

LEMMA FillRandomRight ==
  ASSUME LibraryInv, FillRandom
  PROVE  LibraryInv' /\ AnswersRight'
<1>1. PICK k \in Rooms :
        /\ asked' = [fn |-> "arc4random_buf", size |-> k]
        /\ answer' = [written |-> arc4random_buf(k, 4)]
        /\ UNCHANGED statics
  BY Zenon DEF FillRandom
<1>2. k \in Nat
  BY CallsAssumption, SMT
<1>3. asked'.fn = "arc4random_buf" /\ asked'.size = k /\ answer'.written = arc4random_buf(k, 4)
  BY <1>1, SMT
<1>4. FillRight'
  BY <1>2, <1>3, RandomFills, Zenon DEF FillRight
<1> QED
  BY <1>1, <1>3, <1>4, SomeRight, SameStatics, Zenon

LEMMA LookUpServiceRight ==
  ASSUME LibraryInv, target' = target, LookUpService
  PROVE  LibraryInv' /\ AnswersRight'
<1>1. PICK x \in Places, k \in Rooms, prots \in {"tcp", "udp", "other"} :
        /\ asked' = [fn |-> "getservbyport_r", address |-> x, buflen |-> k, prots |-> prots]
        /\ answer' = getservbyport_r(x, k, Ptr, prots)
        /\ UNCHANGED statics
  BY Zenon DEF LookUpService
<1>2. x \in Nat /\ k \in Nat
  BY CallsAssumption, SMT
<1>3. ServiceOf(x, k, Ptr, answer')
  BY <1>1, <1>2, PtrIs, ServicePlaced, Zenon
<1>4. asked'.fn = "getservbyport_r" /\ asked'.address = x /\ asked'.buflen = k
  BY <1>1, SMT
<1>5. Ptr' = Ptr
  BY Zenon DEF Ptr
<1>6. ServiceFits'
  BY <1>3, <1>4, <1>5, Zenon DEF ServiceFits, ServiceOf
<1> QED
  BY <1>1, <1>4, <1>6, SomeRight, SameStatics, Zenon

LEMMA FindServiceRight ==
  ASSUME LibraryInv, FindService
  PROVE  LibraryInv' /\ AnswersRight'
<1>1. PICK found \in [{"tcp", "udp"} -> {"name", "number", "EAI_MEMORY"}], prots \in {"tcp", "udp", "none"} :
        /\ asked' = [fn |-> "service", found |-> found, prots |-> prots]
        /\ answer' = getservbyport(found, prots)
        /\ UNCHANGED statics
  BY Zenon DEF FindService
<1>2. answer'.err = "0" <=> \E p \in {"tcp", "udp"} : prots \in {p, "none"} /\ found[p] = "name"
  BY <1>1, ServiceServed, Zenon
<1>3. asked'.fn = "service" /\ asked'.found = found /\ asked'.prots = prots
  BY <1>1, SMT
<1>4. ServiceFound'
  BY <1>2, <1>3, Zenon DEF ServiceFound
<1> QED
  BY <1>1, <1>3, <1>4, SomeRight, SameStatics, Zenon

LEMMA AnswersNext ==
  ASSUME LibraryInv, AnswersRight, [ProgramNext]_<<descriptors, library>>
  PROVE  LibraryInv' /\ AnswersRight'
<1>1. target' = target
  BY TargetSame
<1>2. CASE UNCHANGED library
  <2>1. /\ mach_time_factor' = mach_time_factor /\ pagesize' = pagesize /\ ticked' = ticked
        /\ asked' = asked /\ answer' = answer
    BY <1>2, SMT DEF library, statics
  <2>2. LibraryInv'
    BY <2>1, Zenon DEF LibraryInv
  <2>3. Hires' = Hires /\ Ptr' = Ptr
    BY <1>1, Zenon DEF Hires, Ptr
  <2>4. ClockRight' /\ ResolutionRight'
    <3>1. ClockRight'
      BY <2>1, <2>3, ClockIs, Zenon DEF AnswersRight
    <3>2. ResolutionRight'
      BY <2>1, Zenon DEF AnswersRight, ResolutionRight
    <3> QED
      BY <3>1, <3>2
  <2>5. FutimensRight'
    <3>1. Omitted' = Omitted /\ \A i : Wanted(i)' = Wanted(i)
      BY <2>1, Zenon DEF Omitted, Wanted
    <3> QED
      BY <2>1, <3>1, Zenon DEF AnswersRight, FutimensRight
  <2>6. LutimesRight' /\ MemalignRight' /\ FillRight' /\ ServiceFits' /\ ServiceFound'
    BY <2>1, <2>3, Zenon DEF AnswersRight, LutimesRight, MemalignRight, FillRight, ServiceFits, ServiceFound
  <2>7. SearchRight' /\ CopyRight'
    BY <2>1, Zenon DEF AnswersRight, SearchRight, CopyRight
  <2> QED
    BY <2>2, <2>4, <2>5, <2>6, <2>7, Zenon DEF AnswersRight
<1>3. CASE CallsNext
  BY <1>1, <1>3, ClockGettimeRight, ClockGetresRight, FutimensIsRight, LutimesIsRight, PosixMemalignRight,
     SearchIsRight, CopyIsRight, FillRandomRight, LookUpServiceRight, FindServiceRight, Zenon DEF CallsNext
<1>4. UNCHANGED library \/ CallsNext
  <2>1. UNCHANGED <<descriptors, library>> => UNCHANGED library
    OBVIOUS
  <2> QED
    BY <2>1, Zenon DEF ProgramNext
<1> QED
  BY <1>2, <1>3, <1>4, Zenon

(* Whatever a program on any target calls with whatever arguments, in any  *)
(* order: its answer is the one the property says, from the shift of a     *)
(* clock's microseconds to the last match of memrchr's loop.  A clock of   *)
(* ticks is right as far as doubles are, and the name of a service is read *)
(* in the buffer if that has three pointers' size.                         *)
THEOREM AnswersRightCorrect == ProgramSpec => []AnswersRight
<1> DEFINE Given == LibraryInv /\ AnswersRight
<1>1. ProgramInit => Given
  <2> SUFFICES ASSUME ProgramInit PROVE Given
    OBVIOUS
  <2>1. LibraryInv
    BY SMT DEF ProgramInit, LibraryInv
  <2>2. asked = Nothing /\ Nothing.fn = "none"
    BY SMT DEF ProgramInit, Nothing
  <2>3. asked.fn = "none"
    BY <2>2, Zenon
  <2>4. AnswersRight
    BY <2>3, Zenon DEF AnswersRight, ClockRight, ResolutionRight, FutimensRight, LutimesRight, MemalignRight,
                       SearchRight, CopyRight, FillRight, ServiceFits, ServiceFound
  <2> QED
    BY <2>1, <2>4
<1>2. Given /\ [ProgramNext]_<<descriptors, library>> => Given'
  BY AnswersNext
<1>3. Given => AnswersRight
  OBVIOUS
<1> HIDE DEF Given
<1> QED
  BY <1>1, <1>2, <1>3, PTL DEF ProgramSpec
================================================================================
