------------------------------ MODULE CompatStrings ------------------------------
(***************************************************************************)
(* Functions of compat/ that work on the memory they are given: memmem,    *)
(* memrchr, stpncpy, strchrnul, strndup, strnlen, arc4random_buf,          *)
(* getservbyport_r and posix_memalign, as operators.  A string is a        *)
(* sequence of bytes, offsets start at 0 and NoPtr is NULL.                *)
(***************************************************************************)
EXTENDS Integers, FiniteSets, SequencesExt

NUL == "\\0"
NoPtr == -1

Byte(s, i) == s[i + 1]

(* memcmp and memchr: external; memchr stops at the first match. *)
Same(s, i, n) == \A k \in 0 .. Len(n) - 1 : Byte(s, i + k) = Byte(n, k)
Earliest(S) == IF S = {} THEN NoPtr ELSE CHOOSE i \in S : \A k \in S : i <= k
memchr(s, c, n) == Earliest({i \in 0 .. n - 1 : i < Len(s) /\ Byte(s, i) = c})

Starts(h, n) == 0 .. Len(h) - Len(n)

memmem(h, n) == IF Len(n) > Len(h) THEN NoPtr
                ELSE Earliest({i \in Starts(h, n) : Same(h, i, n)})

(* Downwards: the pointer is moved before it is looked at. *)
memrchr(s, c, n) ==
  LET f[i \in 0 .. n] == IF i = 0 THEN NoPtr
                         ELSE IF Byte(s, i - 1) = c THEN i - 1 ELSE f[i - 1]
  IN f[n]

(* What is in s1 after n rounds, and how far s2 has moved on. *)
stpncpy(s2, n) ==
  LET f[k \in 0 .. n] ==
        IF k = 0 THEN [out |-> <<>>, moved |-> 0]
        ELSE LET c == Byte(s2, f[k - 1].moved) IN
               [out |-> Append(f[k - 1].out, c),
                moved |-> f[k - 1].moved + (IF c # NUL THEN 1 ELSE 0)]
  IN f[n]

strlen(s) == Earliest({i \in 0 .. Len(s) - 1 : Byte(s, i) = NUL})

strchrnul(s, c) == IF c = NUL THEN strlen(s)
                   ELSE Earliest({i \in 0 .. Len(s) - 1 : Byte(s, i) \in {NUL, c}})

Length(str, maxlen) == LET end == memchr(str, NUL, maxlen) IN
                         IF end # NoPtr THEN end ELSE maxlen
strnlen(str, maxlen) == Length(str, maxlen)
strndup(str, maxlen) == SubSeq(str, 1, Length(str, maxlen)) \o <<NUL>>

(* The offsets written, whole words first. *)
arc4random_buf(size, word) ==
  LET whole == {w * word : w \in 0 .. (size \div word) - 1}
      done == Cardinality(whole) * word
  IN (UNION {w .. w + word - 1 : w \in whole}) \cup (done .. size - 1)

--------------------------------------------------------------------------------
(* getservbyport_r: where in buf its pointers and its name lie.  The       *)
(* address of buf is `at', that of a pointer a multiple of its size.       *)

Skip(at, ptr) == ptr - (IF at % ptr = 0 THEN ptr ELSE at % ptr)

Fits_TwoPointers(at, buflen, ptr) == buflen >= 2 * ptr
Fits(at, buflen, ptr) == buflen >= 2 * ptr + Skip(at, ptr)

(* With no room for the name getnameinfo writes none, and strtol, if it is *)
(* reached, reads what is behind the buffer.                               *)
getservbyport_r(at, buflen, ptr, prots) ==
  IF ~Fits(at, buflen, ptr) THEN [err |-> "ERANGE"]
  ELSE IF prots \notin {"tcp", "udp"} THEN [err |-> "EINVAL"]
  ELSE LET aliases == Skip(at, ptr)
           room == buflen - aliases - 2 * ptr
       IN [aliases |-> aliases, name |-> aliases + 2 * ptr, room |-> room,
           strtol |-> IF room = 0 THEN "behind" ELSE "name"]

(* Without a protocol: what tcp says, or if that is an error what udp says.*)
(* A name is an error in the end too when getnameinfo finds none, or only  *)
(* the number.                                                             *)
Served(found, err) == IF found = "name" THEN "0"
                      ELSE IF found \in {"EAI_MEMORY", "EAI_SYSTEM"} THEN "ENOMEM" ELSE err

getservbyport(found, prots) ==
  LET one(p) == Served(found[p], "ENOENT") IN
    CASE prots \in {"tcp", "udp"} -> [err |-> one(prots), proto |-> prots]
      [] prots = "none" -> IF one("tcp") = "0" THEN [err |-> "0", proto |-> "tcp"]
                                               ELSE [err |-> one("udp"), proto |-> "udp"]

--------------------------------------------------------------------------------
(* posix_memalign: what its block is a multiple of.  malloc and valloc,    *)
(* external, give none or one of 16 bytes or a page.                       *)

(* (align & (align - 1)) == 0, for alignments up to 2^20. *)
Powers == {1, 2, 4, 8, 16, 32, 64, 128, 256, 512, 1024, 2048, 4096, 8192, 16384,
           32768, 65536, 131072, 262144, 524288, 1048576}
PowerOfTwo(n) == n \in Powers

posix_memalign(align, ptr, page) ==
  IF align < ptr \/ ~PowerOfTwo(align) THEN [err |-> "EINVAL"]
  ELSE IF align <= 16 THEN [err |-> "0", multiple |-> 16]
  ELSE IF page < 1 \/ align > page THEN [err |-> "ENOMEM"]
  ELSE [err |-> "0", multiple |-> page]
================================================================================
