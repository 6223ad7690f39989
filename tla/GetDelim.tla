-------------------------------- MODULE GetDelim --------------------------------
(***************************************************************************)
(* getdelim of compat/getline/getline.c: threads read one FILE, each into  *)
(* a buffer of its own that it hands from call to call.                    *)
(***************************************************************************)
EXTENDS Naturals, Sequences

CONSTANTS
  Thread, Char,
  delim,        \* the delimiter
  File,         \* what is in the file
  Sizes,        \* sizes of the buffers callers bring, 0 for NULL
  BUFSIZ, SSIZE_MAX,
  MaxCalls,     \* bound: calls of a thread
  Nobody

ASSUME GetDelimAssumption ==
  /\ delim \in Char
  /\ File \in Seq(Char)
  /\ BUFSIZ \in Nat \ {0} /\ SSIZE_MAX \in Nat /\ BUFSIZ <= SSIZE_MAX
  /\ Sizes \subseteq 0 .. SSIZE_MAX
  /\ Nobody \notin Thread

VARIABLES
  pos,       \* characters of the file already read
  holder,    \* of the FILE's lock
  pc,
  bufsiz,    \* bufsiz[t]: *bufsiz, the size of the block at *buf; 0 for NULL
  n,         \* n[t]: ptr - *buf
  top,       \* top[t]: one more than the highest index written in this call
  text,      \* text[t]: the characters stored
  c,         \* c[t]: what getc_unlocked returned last
  ret,       \* ret[t]: the result, 0 for -1
  calls,
  start      \* start[t]: pos when t's call began to read

buffer == <<bufsiz, n, top, text>>
vars == <<pos, holder, pc, buffer, c, ret, calls, start>>

At(t, l) == pc[t] = l
Goto(t, l) == pc' = [pc EXCEPT ![t] = l]
Set(f, t, v) == [f EXCEPT ![t] = v]

--------------------------------------------------------------------------------
Call(t) == /\ At(t, "idle") /\ calls[t] < MaxCalls
           /\ calls' = Set(calls, t, calls[t] + 1)
           /\ Goto(t, "first")
           /\ UNCHANGED <<pos, holder, buffer, c, ret, start>>

(* The caller has no buffer yet. *)
First(t) == /\ At(t, "first")
            /\ \/ bufsiz[t] # 0 /\ Goto(t, "lock") /\ UNCHANGED <<bufsiz, ret>>
               \/ bufsiz[t] = 0 /\ bufsiz' = Set(bufsiz, t, BUFSIZ)
                                /\ Goto(t, "lock") /\ UNCHANGED ret
               \/ bufsiz[t] = 0 /\ Goto(t, "idle") /\ ret' = Set(ret, t, 0)
                                /\ UNCHANGED bufsiz
            /\ UNCHANGED <<pos, holder, n, top, text, c, calls, start>>

Free_Always == TRUE
Free == holder = Nobody

(* flockfile, and ptr = *buf *)
Lock(t) == /\ At(t, "lock") /\ Free
           /\ holder' = t
           /\ n' = Set(n, t, 0) /\ top' = Set(top, t, 0) /\ text' = Set(text, t, <<>>)
           /\ start' = Set(start, t, pos)
           /\ Goto(t, "getc")
           /\ UNCHANGED <<pos, bufsiz, c, ret, calls>>

Eof == pos = Len(File)

Getc(t) == /\ At(t, "getc") /\ ~Eof
           /\ c' = Set(c, t, File[pos + 1])
           /\ pos' = pos + 1
           /\ Goto(t, "room")
           /\ UNCHANGED <<holder, buffer, ret, calls, start>>

(* *ptr = '\0' *)
Terminator(t) == top' = Set(top, t, n[t] + 1)

EndOfFile(t) == /\ At(t, "getc") /\ Eof
                /\ IF n[t] # 0 THEN Terminator(t) /\ ret' = Set(ret, t, n[t])
                               ELSE UNCHANGED top /\ ret' = Set(ret, t, 0)
                /\ Goto(t, "unlock")
                /\ UNCHANGED <<pos, holder, bufsiz, n, text, c, calls, start>>

AfterFailure_Return == "idle"
AfterFailure == "unlock"

Fail(t) == /\ ret' = Set(ret, t, 0)
           /\ Goto(t, AfterFailure)
           /\ UNCHANGED <<pos, holder, buffer, c, calls, start>>

(* getc_unlocked returns -1 and feof is false. *)
ReadError(t) == At(t, "getc") /\ Fail(t)

(* There must be room for this character and for the terminator. *)
Full_ForOne(t) == n[t] + 1 > bufsiz[t]
Full(t) == n[t] + 2 > bufsiz[t]

(* *bufsiz > SSIZE_MAX / 2 *)
TooLarge(t) == 2 * bufsiz[t] > SSIZE_MAX

Grow(t) == /\ At(t, "room") /\ Full(t) /\ ~TooLarge(t)
           /\ bufsiz' = Set(bufsiz, t, 2 * bufsiz[t])
           /\ Goto(t, "store")
           /\ UNCHANGED <<pos, holder, n, top, text, c, ret, calls, start>>

Overflow(t) == At(t, "room") /\ Full(t) /\ TooLarge(t) /\ Fail(t)

NoMemory(t) == At(t, "room") /\ Full(t) /\ ~TooLarge(t) /\ Fail(t)

(* *ptr++ = c, and the terminator after the delimiter *)
Store(t) == /\ \/ At(t, "store")
               \/ At(t, "room") /\ ~Full(t)
            /\ text' = Set(text, t, Append(text[t], c[t]))
            /\ n' = Set(n, t, n[t] + 1)
            /\ IF c[t] = delim
               THEN /\ top' = Set(top, t, n[t] + 2)
                    /\ ret' = Set(ret, t, n[t] + 1)
                    /\ Goto(t, "unlock")
               ELSE /\ top' = Set(top, t, n[t] + 1)
                    /\ UNCHANGED ret
                    /\ Goto(t, "getc")
            /\ UNCHANGED <<pos, holder, bufsiz, c, calls, start>>

Unlock(t) == /\ At(t, "unlock")
             /\ holder' = Nobody
             /\ Goto(t, "idle")
             /\ UNCHANGED <<pos, buffer, c, ret, calls, start>>

Step(t) == \/ First(t) \/ Lock(t) \/ Getc(t) \/ EndOfFile(t) \/ ReadError(t)
           \/ Grow(t) \/ Overflow(t) \/ NoMemory(t) \/ Store(t) \/ Unlock(t)

--------------------------------------------------------------------------------
Init == /\ pos = 0 /\ holder = Nobody
        /\ pc = [t \in Thread |-> "idle"]
        /\ bufsiz \in [Thread -> Sizes]
        /\ n = [t \in Thread |-> 0] /\ top = [t \in Thread |-> 0]
        /\ text = [t \in Thread |-> <<>>]
        /\ c = [t \in Thread |-> delim] /\ ret = [t \in Thread |-> 0]
        /\ calls = [t \in Thread |-> 0]
        /\ start = [t \in Thread |-> 0]

Next == \E t \in Thread : Call(t) \/ Step(t)

Spec == Init /\ [][Next]_vars

(* A thread in a call is scheduled, and gets the lock when it is free. *)
FairSpec == Spec /\ \A t \in Thread : WF_vars(Step(t))

--------------------------------------------------------------------------------
(* Properties. *)

TypeOK ==
  /\ pos \in 0 .. Len(File) /\ start \in [Thread -> 0 .. Len(File)]
  /\ holder \in Thread \cup {Nobody}
  /\ pc \in [Thread -> {"idle", "first", "lock", "getc", "room", "store", "unlock"}]
  /\ bufsiz \in [Thread -> 0 .. SSIZE_MAX]
  /\ n \in [Thread -> Nat] /\ top \in [Thread -> Nat]
  /\ text \in [Thread -> Seq(Char)]
  /\ c \in [Thread -> Char]
  /\ ret \in [Thread -> Nat]

(* Nothing is written outside the block at *buf, the terminator included,  *)
(* whatever size the caller brought.                                       *)
InBounds == \A t \in Thread : top[t] <= bufsiz[t]

(* A successful call returns the line that comes next in the file: what it *)
(* read, all of it, in one piece that ends at the first delimiter or at    *)
(* the end of the file, with other threads reading the same file.          *)
LinesWhole == \A t \in Thread : At(t, "unlock") /\ ret[t] # 0 =>
  /\ text[t] = SubSeq(File, start[t] + 1, pos)
  /\ Len(text[t]) = ret[t]
  /\ \A i \in 1 .. ret[t] - 1 : text[t][i] # delim
  /\ text[t][ret[t]] = delim \/ Eof

(* Every call returns, whatever calls of other threads have met. *)
CallsReturn == \A t \in Thread : At(t, "lock") ~> At(t, "idle")
================================================================================
