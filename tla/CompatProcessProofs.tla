-------------------------- MODULE CompatProcessProofs --------------------------
(***************************************************************************)
(* Proofs about CompatProcess: where renameat and linkat act, and whose    *)
(* IDs decide, for any number of threads and calls.                        *)
(***************************************************************************)
EXTENDS CompatProcess, TLAPS

--------------------------------------------------------------------------------
(* The IDs while a call for AT_EACCESS is under way.                       *)

UidSwapped == {"swap gid", "path", "access", "back uid"}
GidSwapped == {"path", "access", "back uid", "back gid"}

UidAt(t) == IF pc[t] \in UidSwapped THEN ids.ruid = own.euid /\ ids.euid = own.ruid
                                    ELSE ids.ruid = own.ruid /\ ids.euid = own.euid
GidAt(t) == IF pc[t] \in GidSwapped THEN ids.rgid = own.egid /\ ids.egid = own.rgid
                                    ELSE ids.rgid = own.rgid /\ ids.egid = own.egid

(* The function has read the IDs the program has.                          *)
ReadOwn(t) ==
  /\ pc[t] \notin {"flags", "ruid"} => local[t].ruid = own.ruid
  /\ pc[t] \notin {"flags", "ruid", "euid"} => local[t].euid = own.euid
  /\ pc[t] \notin {"flags", "ruid", "euid", "rgid"} => local[t].rgid = own.rgid
  /\ pc[t] \notin {"flags", "ruid", "euid", "rgid", "egid"} => local[t].egid = own.egid

(* As long as calls do not overlap, the one under way knows what the IDs   *)
(* are, and without one they are the program's own.                        *)
IdsInv == ~marred =>
  /\ \A t, u \in Thread : Swapping(t) /\ Swapping(u) => t = u
  /\ (\A t \in Thread : ~Swapping(t)) => ids = own
  /\ \A t \in Thread : Swapping(t) => UidAt(t) /\ GidAt(t) /\ ReadOwn(t)

(* Whoever is alone stays so till the answer.                              *)
RightAnswer(t) ==
  judged[t] = IF req[t].flags = "AT_EACCESS" THEN [uid |-> own.euid, gid |-> own.egid]
                                             ELSE [uid |-> own.ruid, gid |-> own.rgid]

Answered(t) == \/ pc[t] \in {"back uid", "back gid"}
               \/ At(t, "idle") /\ errno[t] = OK /\ req[t].fn = "faccessat"

AloneOK(t) == /\ pc[t] \in Swaps => \A u \in Thread \ {t} : ~Swapping(u)
              /\ Answered(t) => RightAnswer(t)
AloneInv == ~marred => \A t \in Thread : alone[t] => AloneOK(t)

--------------------------------------------------------------------------------
(* The paths.                                                              *)

PathLabels == {"old", "getold", "lstat", "new", "getnew", "act"}

PathOK(t) ==
  /\ pc[t] \in {"old", "getold"} => oldpath[t] = Text(req[t].old)
  /\ pc[t] \in {"old", "getold", "lstat", "new", "getnew"} => newpath[t] = Text(req[t].new)
  /\ At(t, "getold") => req[t].old \in Dir
  /\ At(t, "getnew") => req[t].new \in Dir
  /\ pc[t] \in {"lstat", "new", "getnew", "act"} /\ ~moved[t] =>
       Resolve(oldpath[t]) = Meant(req[t].old)
  /\ At(t, "act") /\ ~moved[t] => Resolve(newpath[t]) = Meant(req[t].new)

PathsInv == Distinct(where) /\ \A t \in Thread : PathOK(t)

(* Who is where in which function.                                         *)
InPlace(t) == /\ pc[t] \in Swaps => req[t].fn = "faccessat"
              /\ pc[t] \in PathLabels => req[t].fn # "faccessat"
PlacesInv == \A t \in Thread : InPlace(t)

ProcessInv == /\ TypeOK /\ PlacesInv /\ IdsInv /\ AloneInv
              /\ PathsInv /\ ActsOnNamed /\ OwnUserDecides

--------------------------------------------------------------------------------
(* Type correctness.                                                       *)

LEMMA OwnMixed == ASSUME own \in Ids PROVE own \in Mixed
<1>1. own = [k \in ReadsIds |-> own[k]]
  BY ProcessAssumption
<1>2. \A k \in ReadsIds : own[k] \in {own[i] : i \in ReadsIds}
  OBVIOUS
<1>3. own \in [ReadsIds -> {own[i] : i \in ReadsIds}]
  BY <1>1, <1>2
<1> QED
  BY <1>3 DEF Mixed

LEMMA MixedFacts ==
  ASSUME NEW f \in Mixed
  PROVE  /\ f \in [ReadsIds -> {own[i] : i \in ReadsIds}]
         /\ f.ruid \in {own.ruid, own.euid} /\ f.euid \in {own.ruid, own.euid}
         /\ f.rgid \in {own.rgid, own.egid} /\ f.egid \in {own.rgid, own.egid}
BY DEF Mixed, Swapped, ReadsIds

LEMMA SwapsMixed ==
  ASSUME ids \in Mixed, NEW l \in Mixed
  PROVE  /\ setreuid(l.ruid, l.euid) \in Mixed /\ setreuid(l.euid, l.ruid) \in Mixed
         /\ setregid(l.rgid, l.egid) \in Mixed /\ setregid(l.egid, l.rgid) \in Mixed
<1>1. /\ l.ruid \in {own.ruid, own.euid} /\ l.euid \in {own.ruid, own.euid}
      /\ l.rgid \in {own.rgid, own.egid} /\ l.egid \in {own.rgid, own.egid}
      /\ ids \in [ReadsIds -> {own[i] : i \in ReadsIds}]
  BY MixedFacts
<1>2. /\ own.ruid \in {own[i] : i \in ReadsIds} /\ own.euid \in {own[i] : i \in ReadsIds}
      /\ own.rgid \in {own[i] : i \in ReadsIds} /\ own.egid \in {own[i] : i \in ReadsIds}
  BY DEF ReadsIds
<1>3. \A i \in ReadsIds : ids[i] \in {own[i], Swapped[i]}
  BY DEF Mixed
<1>4. ASSUME NEW r \in {own.ruid, own.euid}, NEW e \in {own.ruid, own.euid}
      PROVE  setreuid(r, e) \in Mixed
  <2>1. setreuid(r, e) \in [ReadsIds -> {own[i] : i \in ReadsIds}]
    BY <1>1, <1>2 DEF setreuid
  <2>2. ASSUME NEW i \in ReadsIds PROVE setreuid(r, e)[i] \in {own[i], Swapped[i]}
    <3>1. /\ setreuid(r, e).ruid = r /\ setreuid(r, e).euid = e
          /\ setreuid(r, e).rgid = ids.rgid /\ setreuid(r, e).egid = ids.egid
      BY <1>1 DEF setreuid, ReadsIds
    <3>2. Swapped.ruid = own.euid /\ Swapped.euid = own.ruid
      BY DEF Swapped
    <3> QED
      BY <1>3, <3>1, <3>2 DEF ReadsIds
  <2> QED
    BY <2>1, <2>2 DEF Mixed
<1>5. ASSUME NEW r \in {own.rgid, own.egid}, NEW e \in {own.rgid, own.egid}
      PROVE  setregid(r, e) \in Mixed
  <2>1. setregid(r, e) \in [ReadsIds -> {own[i] : i \in ReadsIds}]
    BY <1>1, <1>2 DEF setregid
  <2>2. ASSUME NEW i \in ReadsIds PROVE setregid(r, e)[i] \in {own[i], Swapped[i]}
    <3>1. /\ setregid(r, e).rgid = r /\ setregid(r, e).egid = e
          /\ setregid(r, e).ruid = ids.ruid /\ setregid(r, e).euid = ids.euid
      BY <1>1 DEF setregid, ReadsIds
    <3>2. Swapped.rgid = own.egid /\ Swapped.egid = own.rgid
      BY DEF Swapped
    <3> QED
      BY <1>3, <3>1, <3>2 DEF ReadsIds
  <2> QED
    BY <2>1, <2>2 DEF Mixed
<1> QED
  BY <1>1, <1>4, <1>5

LEMMA TypeInit == ASSUME Init PROVE TypeOK
<1>1. own \in Ids /\ ids \in Mixed /\ local \in [Thread -> Mixed]
  BY OwnMixed DEF Init
<1>2. where \in [Dir -> Place]
  BY PlacesAssumption DEF Init
<1>3. req \in [Thread -> Request]
  <2>1. [fn |-> "faccessat", fd |-> "AT_FDCWD", flags |-> "none"] \in FaccessatRequest
    BY DEF FaccessatRequest, Given
  <2>2. (CHOOSE r \in FaccessatRequest : TRUE) \in FaccessatRequest
    BY <2>1
  <2> QED
    BY <2>2 DEF Init, Request
<1>4. entry \in [Dir -> File \cup {NoFile}]
  BY ProcessAssumption DEF Init
<1>5. judged \in [Thread -> Answer]
  BY DEF Init, Answer
<1>6. pc \in [Thread -> Label] /\ errno \in [Thread -> Error]
  BY DEF Init, Label, Error
<1>7. TwoPathsTypeOK
  BY DEF Init, TwoPathsTypeOK, Nothing
<1>8. FaccessatTypeOK
  BY <1>5 DEF Init, FaccessatTypeOK
<1>9. calls \in [Thread -> Nat] /\ moves \in Nat /\ undisturbed \in [Thread -> BOOLEAN]
  BY DEF Init
<1> QED
  BY <1>1, <1>2, <1>3, <1>4, <1>6, <1>7, <1>8, <1>9 DEF TypeOK

(* The types of what a step of a thread sets.                              *)
LEMMA ReturnType ==
  ASSUME TypeOK, NEW t \in Thread, NEW e \in Error, Return(t, e)
  PROVE  pc' \in [Thread -> Label] /\ errno' \in [Thread -> Error]
BY DEF Return, Goto, Set, TypeOK, Label

LEMMA TypesStay == ASSUME UNCHANGED own PROVE Mixed' = Mixed /\ Answer' = Answer
BY DEF Mixed, Swapped, Answer

LEMMA GotoType ==
  ASSUME TypeOK, NEW t \in Thread, NEW l \in Label, Goto(t, l)
  PROVE  pc' \in [Thread -> Label]
BY DEF Goto, TypeOK

LEMMA CallType == ASSUME TypeOK, NEW t \in Thread, Call(t) PROVE TypeOK'
<1>1. PICK r \in Asks[t] : /\ req' = Set(req, t, r)
                           /\ \/ r.fn = "faccessat" /\ CallFaccessat(t, r) /\ UNCHANGED paths
                              \/ r.fn # "faccessat" /\ CallTwoPaths(t, r) /\ UNCHANGED access
  BY DEF Call
<1>2. r \in Request /\ req' \in [Thread -> Request]
  BY <1>1, ProcessAssumption DEF Set, TypeOK
<1>3. /\ errno' \in [Thread -> Error] /\ calls' \in [Thread -> Nat]
      /\ UNCHANGED <<ids, entry, where, moves, undisturbed>>
  BY DEF Call, Set, TypeOK, Error
<1>4. CASE r.fn = "faccessat" /\ CallFaccessat(t, r) /\ UNCHANGED paths
  <2>1. pc' \in [Thread -> Label]
    BY <1>4, GotoType DEF CallFaccessat, Label, Swaps
  <2>2. alone' \in [Thread -> BOOLEAN] /\ marred' \in BOOLEAN /\ UNCHANGED <<local, judged, own>>
    <3>1. alone \in [Thread -> BOOLEAN] /\ marred \in BOOLEAN
      BY DEF TypeOK, FaccessatTypeOK
    <3>2. UNCHANGED <<local, judged, own>>
      BY <1>4 DEF CallFaccessat
    <3>3. marred' \in BOOLEAN
      BY <1>4, <3>1, Zenon DEF CallFaccessat
    <3>4. alone' \in [Thread -> BOOLEAN]
      BY <1>4, <3>1 DEF CallFaccessat
    <3> QED
      BY <3>2, <3>3, <3>4
  <2> QED
    BY <1>2, <1>3, <1>4, <2>1, <2>2, TypesStay
       DEF TypeOK, TwoPathsTypeOK, FaccessatTypeOK, paths
<1>5. CASE r.fn # "faccessat" /\ CallTwoPaths(t, r) /\ UNCHANGED access
  <2>1. pc' \in [Thread -> Label]
    BY <1>5, GotoType DEF CallTwoPaths, Label
  <2>2. Text(r.old) \in Place \cup {"relative"} /\ Text(r.new) \in Place \cup {"relative"}
    BY DEF Text
  <2>3. TwoPathsTypeOK'
    BY <1>5, <2>2 DEF CallTwoPaths, TwoPathsTypeOK, TypeOK, Set, Nothing
  <2> QED
    BY <1>2, <1>3, <1>5, <2>1, <2>3, TypesStay DEF TypeOK, FaccessatTypeOK, access
<1> QED
  BY <1>1, <1>4, <1>5

LEMMA MoveType == ASSUME TypeOK, Move PROVE TypeOK'
<1>1. where' \in [Dir -> Place] /\ moved' \in [Thread -> BOOLEAN] /\ moves' \in Nat
  BY DEF Move, MoveDir, TypeOK, Set
<1> QED
  BY <1>1, TypesStay DEF Move, MoveDir, TypeOK, TwoPathsTypeOK, FaccessatTypeOK, threads, access

(* A step of renameat or linkat is one of these.                           *)
PathStep(t) == \/ FstatOld(t, "new") \/ FstatOld(t, "lstat")
               \/ GetOld(t, "new") \/ GetOld(t, "lstat")
               \/ Lstat(t) \/ FstatNew(t) \/ GetNew(t) \/ Act(t)

LEMMA PathSteps ==
  ASSUME NEW t \in Thread, renameat(t) \/ linkat(t)
  PROVE  PathStep(t)
BY DEF renameat, linkat, PathStep

LEMMA RefusalType == ASSUME NEW x PROVE Refusal(x) \in Error \ {OK}
BY DEF Refusal, Error, OK

LEMMA FstatType ==
  ASSUME TypeOK, UNCHANGED <<access, moves>>, undisturbed' \in [Thread -> BOOLEAN],
         NEW t \in Thread, NEW x, NEW here, NEW getpath \in Label, NEW next \in Label,
         Fstat(t, x, here, getpath, next)
  PROVE  TypeOK'
<1>1. pc' \in [Thread -> Label] /\ errno' \in [Thread -> Error]
  <2>1. CASE Return(t, Refusal(x))
    BY <2>1, ReturnType, RefusalType
  <2>2. CASE Goto(t, getpath) /\ UNCHANGED errno
    BY <2>2, GotoType DEF TypeOK
  <2>3. CASE Goto(t, next) /\ UNCHANGED errno
    BY <2>3, GotoType DEF TypeOK
  <2> QED
    BY <2>1, <2>2, <2>3 DEF Fstat
<1>2. UNCHANGED <<req, calls, ids, entry, where, paths>>
  BY DEF Fstat
<1> QED
  BY <1>1, <1>2, TypesStay DEF TypeOK, TwoPathsTypeOK, FaccessatTypeOK, access, paths

LEMMA ActType ==
  ASSUME TypeOK, UNCHANGED <<access, moves>>, undisturbed' \in [Thread -> BOOLEAN],
         NEW t \in Thread, Act(t)
  PROVE  TypeOK'
<1>1. PICK x \in OldNow(t), y \in NewNow(t) :
        LET os == Holds(Resolve(x)) ns == Resolve(y) IN
        \/ (os = {} \/ ns = {}) /\ Return(t, "ENOENT") /\ UNCHANGED <<entry, did>>
        \/ /\ \/ \E od \in os, nd \in ns : rename(t, od, nd) \/ link(t, od, nd)
              \/ elsewhere(t, os \cup ns)
           /\ did' = Set(did, t, [old |-> os, new |-> ns, stale |-> Stale(t, x, y)])
  BY Zenon DEF Act
<1> DEFINE os == Holds(Resolve(x))
           ns == Resolve(y)
<1>2. os \subseteq Dir /\ ns \subseteq Dir /\ Stale(t, x, y) \subseteq {"old", "new"}
  BY ThreadsAssumption DEF Holds, Resolve, Stale
<1>3. UNCHANGED <<req, calls, ids, where, oldpath, newpath, moved>>
  BY DEF Act
<1>4. /\ pc' \in [Thread -> Label] /\ errno' \in [Thread -> Error]
      /\ entry' \in [Dir -> File \cup {NoFile}]
  <2>1. CASE Return(t, "ENOENT") /\ UNCHANGED entry
    BY <2>1, ReturnType DEF TypeOK, Error
  <2>2. ASSUME NEW od \in os, NEW nd \in ns, rename(t, od, nd) \/ link(t, od, nd)
        PROVE  /\ pc' \in [Thread -> Label] /\ errno' \in [Thread -> Error]
               /\ entry' \in [Dir -> File \cup {NoFile}]
    <3>1. PICK e \in Error : Return(t, e)
      BY <2>2 DEF rename, link, Error
    <3>2. pc' \in [Thread -> Label] /\ errno' \in [Thread -> Error]
      BY <3>1, ReturnType
    <3>3. od \in Dir /\ nd \in Dir /\ entry \in [Dir -> File \cup {NoFile}]
      BY <1>2 DEF TypeOK
    <3>4. entry' \in [Dir -> File \cup {NoFile}]
      BY <2>2, <3>3 DEF rename, link
    <3> QED
      BY <3>2, <3>4
  <2>3. CASE elsewhere(t, os \cup ns)
    <3>1. PICK e \in Error : Return(t, e)
      BY <2>3 DEF elsewhere, Error
    <3>2. pc' \in [Thread -> Label] /\ errno' \in [Thread -> Error]
      BY <3>1, ReturnType
    <3>3. entry \in [Dir -> File \cup {NoFile}]
      BY DEF TypeOK
    <3>4. entry' \in [Dir -> File \cup {NoFile}]
      BY <2>3, <3>3 DEF elsewhere
    <3> QED
      BY <3>2, <3>4
  <2> QED
    BY <1>1, <2>1, <2>2, <2>3
<1>5. did' \in [Thread -> [old : SUBSET Dir, new : SUBSET Dir, stale : SUBSET {"old", "new"}]]
  <2>1. did \in [Thread -> [old : SUBSET Dir, new : SUBSET Dir, stale : SUBSET {"old", "new"}]]
    BY DEF TypeOK, TwoPathsTypeOK
  <2>2. [old |-> os, new |-> ns, stale |-> Stale(t, x, y)]
          \in [old : SUBSET Dir, new : SUBSET Dir, stale : SUBSET {"old", "new"}]
    BY <1>2
  <2>3. did' = did \/ did' = Set(did, t, [old |-> os, new |-> ns, stale |-> Stale(t, x, y)])
    BY <1>1
  <2> HIDE DEF os, ns
  <2> QED
    BY <2>1, <2>2, <2>3 DEF Set
<1> QED
  BY <1>3, <1>4, <1>5, TypesStay DEF TypeOK, TwoPathsTypeOK, FaccessatTypeOK, access

LEMMA PathStepType ==
  ASSUME TypeOK, PathsInv, UNCHANGED <<access, moves>>, undisturbed' \in [Thread -> BOOLEAN],
         NEW t \in Thread, PathStep(t)
  PROVE  TypeOK'
<1>1. /\ "new" \in Label /\ "lstat" \in Label /\ "getold" \in Label
      /\ "getnew" \in Label /\ "act" \in Label /\ "idle" \in Label
  BY DEF Label
<1>2. CASE FstatOld(t, "new")
  BY <1>1, <1>2, FstatType DEF FstatOld
<1>3. CASE FstatOld(t, "lstat")
  BY <1>1, <1>3, FstatType DEF FstatOld
<1>4. ASSUME NEW next \in Label, GetOld(t, next) PROVE TypeOK'
  <2>1. pc' \in [Thread -> Label] /\ UNCHANGED errno
    BY <1>4, GotoType DEF GetOld
  <2>2. oldpath' \in [Thread -> Place \cup {"relative"}]
    BY <1>4 DEF GetOld, PathsInv, PathOK, At, TypeOK, TwoPathsTypeOK, Set
  <2> QED
    BY <1>4, <2>1, <2>2, TypesStay DEF GetOld, TypeOK, TwoPathsTypeOK, FaccessatTypeOK, access
<1>5. CASE Lstat(t)
  <2>1. pc' \in [Thread -> Label] /\ errno' \in [Thread -> Error]
    <3>1. CASE Goto(t, "new") /\ UNCHANGED errno
      BY <1>1, <3>1, GotoType DEF TypeOK
    <3>2. CASE Return(t, "ENOENT") \/ Return(t, "EINVAL")
      BY <3>2, ReturnType DEF Error
    <3> QED
      BY <1>5, <3>1, <3>2, Zenon DEF Lstat
  <2> QED
    BY <1>5, <2>1, TypesStay DEF Lstat, TypeOK, TwoPathsTypeOK, FaccessatTypeOK, access, paths
<1>6. CASE FstatNew(t)
  BY <1>1, <1>6, FstatType DEF FstatNew
<1>7. CASE GetNew(t)
  <2>1. pc' \in [Thread -> Label] /\ UNCHANGED errno
    BY <1>1, <1>7, GotoType DEF GetNew
  <2>2. newpath' \in [Thread -> Place \cup {"relative"}]
    BY <1>7 DEF GetNew, PathsInv, PathOK, At, TypeOK, TwoPathsTypeOK, Set
  <2> QED
    BY <1>7, <2>1, <2>2, TypesStay DEF GetNew, TypeOK, TwoPathsTypeOK, FaccessatTypeOK, access
<1>8. CASE Act(t)
  BY <1>8, ActType
<1> QED
  BY <1>1, <1>2, <1>3, <1>4, <1>5, <1>6, <1>7, <1>8 DEF PathStep

LEMMA ReadOrder == /\ AfterRead["ruid"] = "euid" /\ AfterRead["euid"] = "rgid"
                   /\ AfterRead["rgid"] = "egid" /\ AfterRead["egid"] = "swap uid"
BY DEF AfterRead

LEMMA AccessStepType ==
  ASSUME TypeOK, UNCHANGED <<paths, moves, undisturbed>>, NEW t \in Thread, faccessat(t)
  PROVE  TypeOK'
<1>1. UNCHANGED <<entry, where, own, req, calls, alone>>
  BY DEF faccessat, Flags, ReadId, SwapUid, SwapGid, Path, Access, BackUid, BackGid, access
<1>2. ids' \in Mixed /\ local' \in [Thread -> Mixed] /\ marred' \in BOOLEAN
      /\ judged' \in [Thread -> Answer]
  <2> USE DEF TypeOK, FaccessatTypeOK
  <2>1. CASE Flags(t)
    BY <2>1 DEF Flags, access
  <2>2. CASE ReadId(t)
    <3>1. /\ pc[t] \in ReadsIds /\ local' = [local EXCEPT ![t][pc[t]] = ids[pc[t]]]
          /\ UNCHANGED <<ids, judged, marred>>
      BY <2>2 DEF ReadId
    <3>2. local[t] \in Mixed /\ ids \in Mixed
      OBVIOUS
    <3>3. [local[t] EXCEPT ![pc[t]] = ids[pc[t]]] \in Mixed
      BY <3>1, <3>2 DEF Mixed
    <3>4. local' = [local EXCEPT ![t] = [local[t] EXCEPT ![pc[t]] = ids[pc[t]]]]
      BY <3>1
    <3> QED
      BY <3>1, <3>3, <3>4
  <2>3. CASE SwapUid(t)
    BY <2>3, SwapsMixed DEF SwapUid, access
  <2>4. CASE SwapGid(t)
    BY <2>4, SwapsMixed DEF SwapGid, access
  <2>5. CASE Path(t)
    <3>1. UNCHANGED <<ids, local, judged>> /\ marred' \in BOOLEAN
      BY <2>5 DEF Path, check_euid, check_egid
    <3> QED
      BY <3>1
  <2>6. CASE Access(t)
    <3>1. [uid |-> ids.ruid, gid |-> ids.rgid] \in Answer
      BY MixedFacts DEF Answer
    <3>2. judged' = Set(judged, t, [uid |-> ids.ruid, gid |-> ids.rgid])
          /\ UNCHANGED <<ids, local, marred>>
      BY <2>6 DEF Access
    <3>3. judged' \in [Thread -> Answer]
      BY <3>1, <3>2 DEF Set
    <3> QED
      BY <3>2, <3>3
  <2>7. CASE BackUid(t)
    BY <2>7, SwapsMixed DEF BackUid, access
  <2>8. CASE BackGid(t)
    BY <2>8, SwapsMixed DEF BackGid, access
  <2> QED
    BY <2>1, <2>2, <2>3, <2>4, <2>5, <2>6, <2>7, <2>8 DEF faccessat
<1>3. pc' \in [Thread -> Label] /\ errno' \in [Thread -> Error]
  <2>1. ASSUME NEW l \in Label, Goto(t, l), UNCHANGED errno
        PROVE  pc' \in [Thread -> Label] /\ errno' \in [Thread -> Error]
    BY <2>1, GotoType DEF TypeOK
  <2> USE DEF Label, Swaps, ReadsIds
  <2>2. CASE Flags(t)
    <3>1. "EINVAL" \in Error
      BY DEF Error
    <3> QED
      BY <2>1, <2>2, <3>1, ReturnType DEF Flags
  <2>3. CASE ReadId(t)
    <3>1. AfterRead[pc[t]] \in Label
      BY <2>3, ReadOrder DEF ReadId
    <3> QED
      BY <2>1, <2>3, <3>1 DEF ReadId
  <2>4. CASE SwapUid(t)
    BY <2>1, <2>4 DEF SwapUid
  <2>5. CASE SwapGid(t)
    BY <2>1, <2>5 DEF SwapGid
  <2>6. CASE Path(t)
    BY <2>1, <2>6, ReturnType, RefusalType DEF Path
  <2>7. CASE Access(t)
    <3>1. errno' \in [Thread -> Error]
      BY <2>7 DEF Access, Set, Error, TypeOK
    <3>2. pc' \in [Thread -> Label]
      BY <2>7, GotoType DEF Access
    <3> QED
      BY <3>1, <3>2
  <2>8. CASE BackUid(t)
    BY <2>1, <2>8 DEF BackUid
  <2>9. CASE BackGid(t)
    <3>1. errno[t] \in Error /\ Return(t, errno[t])
      BY <2>9 DEF BackGid, TypeOK
    <3> QED
      BY <3>1, ReturnType
  <2> QED
    BY <2>2, <2>3, <2>4, <2>5, <2>6, <2>7, <2>8, <2>9 DEF faccessat
<1> QED
  BY <1>1, <1>2, <1>3, TypesStay DEF TypeOK, TwoPathsTypeOK, FaccessatTypeOK, paths

LEMMA TypeNext == ASSUME TypeOK, PathsInv, [Next]_vars PROVE TypeOK'
<1>1. CASE Move
  BY <1>1, MoveType
<1>2. ASSUME NEW t \in Thread, Call(t) PROVE TypeOK'
  BY <1>2, CallType
<1>3. ASSUME NEW t \in Thread, Step(t) PROVE TypeOK'
  <2>1. CASE faccessat(t) /\ UNCHANGED <<paths, moves, undisturbed>>
    BY <2>1, AccessStepType
  <2>2. CASE /\ renameat(t) \/ linkat(t)
             /\ undisturbed' = Set(undisturbed, t, \A u \in Thread : ~Swapping(u))
             /\ UNCHANGED <<access, moves>>
    <3>1. undisturbed' \in [Thread -> BOOLEAN]
      BY <2>2 DEF Set, TypeOK
    <3> QED
      BY <2>2, <3>1, PathSteps, PathStepType
  <2> QED
    BY <1>3, <2>1, <2>2 DEF Step
<1>4. CASE UNCHANGED vars
  BY <1>4, TypesStay
     DEF vars, threads, paths, access, TypeOK, TwoPathsTypeOK, FaccessatTypeOK
<1> QED
  BY <1>1, <1>2, <1>3, <1>4 DEF Next

--------------------------------------------------------------------------------
(* What a step leaves alone.                                               *)

OthersStay(t) == \A u \in Thread \ {t} :
  /\ pc'[u] = pc[u] /\ req'[u] = req[u] /\ errno'[u] = errno[u]
  /\ oldpath'[u] = oldpath[u] /\ newpath'[u] = newpath[u] /\ did'[u] = did[u]
  /\ moved'[u] = moved[u] /\ undisturbed'[u] = undisturbed[u]
  /\ local'[u] = local[u] /\ judged'[u] = judged[u]

LEMMA SetOther ==
  ASSUME NEW f, NEW t, NEW v, NEW u \in DOMAIN f, u # t
  PROVE  Set(f, t, v)[u] = f[u]
BY DEF Set

LEMMA SetHere ==
  ASSUME NEW f, NEW t \in DOMAIN f, NEW v
  PROVE  Set(f, t, v)[t] = v
BY DEF Set

LEMMA Domains ==
  ASSUME TypeOK
  PROVE  /\ DOMAIN pc = Thread /\ DOMAIN req = Thread /\ DOMAIN errno = Thread
         /\ DOMAIN oldpath = Thread /\ DOMAIN newpath = Thread /\ DOMAIN did = Thread
         /\ DOMAIN moved = Thread /\ DOMAIN undisturbed = Thread
         /\ DOMAIN local = Thread /\ DOMAIN judged = Thread
BY DEF TypeOK, TwoPathsTypeOK, FaccessatTypeOK

LEMMA FstatFrame ==
  ASSUME TypeOK, NEW t \in Thread, NEW x, NEW here, NEW getpath, NEW next,
         Fstat(t, x, here, getpath, next)
  PROVE  /\ UNCHANGED <<req, calls, ids, entry, where, paths>> /\ pc[t] = here
         /\ pc'[t] \in {getpath, next, "idle"}
         /\ \A u \in Thread \ {t} : pc'[u] = pc[u] /\ errno'[u] = errno[u]
BY Domains DEF Fstat, Return, Goto, Set, At

LEMMA PathFrame ==
  ASSUME TypeOK, NEW t \in Thread, PathStep(t), UNCHANGED <<access, moves>>,
         undisturbed' = Set(undisturbed, t, \A u \in Thread : ~Swapping(u))
  PROVE  /\ UNCHANGED <<req, calls, ids, where, moved>>
         /\ pc[t] \in PathLabels /\ pc'[t] \in PathLabels \cup {"idle"}
         /\ OthersStay(t)
<1>1. /\ UNCHANGED <<req, calls, ids, where, moved>>
      /\ pc[t] \in PathLabels /\ pc'[t] \in PathLabels \cup {"idle"}
      /\ \A u \in Thread \ {t} :
           /\ pc'[u] = pc[u] /\ errno'[u] = errno[u]
           /\ oldpath'[u] = oldpath[u] /\ newpath'[u] = newpath[u] /\ did'[u] = did[u]
  <2> USE Domains DEF PathLabels, At, Goto
  <2>1. CASE FstatOld(t, "new") \/ FstatOld(t, "lstat") \/ FstatNew(t)
    BY <2>1, FstatFrame DEF FstatOld, FstatNew, paths
  <2>2. CASE GetOld(t, "new") \/ GetOld(t, "lstat") \/ GetNew(t)
    BY <2>2 DEF GetOld, GetNew, Set
  <2>3. CASE Lstat(t)
    BY <2>3 DEF Lstat, Return, Set, paths
  <2>4. CASE Act(t)
    <3>1. /\ At(t, "act") /\ UNCHANGED <<req, calls, ids, where, oldpath, newpath, moved>>
      BY <2>4 DEF Act
    <3>2. \E e : Return(t, e)
      <4>1. ASSUME NEW od, NEW nd, rename(t, od, nd) PROVE \E e : Return(t, e)
        BY <4>1 DEF rename
      <4>2. ASSUME NEW od, NEW nd, link(t, od, nd) PROVE \E e : Return(t, e)
        BY <4>2 DEF link
      <4>3. ASSUME NEW ds, elsewhere(t, ds) PROVE \E e : Return(t, e)
        BY <4>3 DEF elsewhere
      <4> QED
        BY <2>4, <4>1, <4>2, <4>3, Zenon DEF Act
    <3>3. \E v : did' = Set(did, t, v) \/ did' = did
      BY <2>4, Zenon DEF Act
    <3> QED
      BY <3>1, <3>2, <3>3 DEF Return, Set
  <2> QED
    BY <2>1, <2>2, <2>3, <2>4 DEF PathStep
<1>2. ASSUME NEW u \in Thread \ {t} PROVE undisturbed'[u] = undisturbed[u]
  BY Domains DEF Set
<1> QED
  BY <1>1, <1>2 DEF OthersStay, access

LEMMA AccessFrame ==
  ASSUME TypeOK, NEW t \in Thread, faccessat(t), UNCHANGED <<paths, moves, undisturbed>>
  PROVE  /\ UNCHANGED <<req, calls, own, alone, entry, where>>
         /\ req[t].fn = "faccessat"
         /\ pc[t] \in Swaps /\ pc'[t] \in Swaps \cup {"idle"}
         /\ OthersStay(t)
<1>1. UNCHANGED <<entry, where, own, req, calls, alone>> /\ req[t].fn = "faccessat"
  BY DEF faccessat, Flags, ReadId, SwapUid, SwapGid, Path, Access, BackUid, BackGid, access
<1>2. /\ pc[t] \in Swaps /\ pc'[t] \in Swaps \cup {"idle"}
      /\ \A u \in Thread \ {t} :
           /\ pc'[u] = pc[u] /\ errno'[u] = errno[u]
           /\ local'[u] = local[u] /\ judged'[u] = judged[u]
  <2> USE Domains DEF Swaps, At, Goto, Return, Set
  <2>1. CASE Flags(t)
    BY <2>1 DEF Flags, ReadsIds, access
  <2>2. CASE ReadId(t)
    BY <2>2, ReadOrder DEF ReadId, ReadsIds
  <2>3. CASE SwapUid(t)
    BY <2>3 DEF SwapUid, access
  <2>4. CASE SwapGid(t)
    BY <2>4 DEF SwapGid, access
  <2>5. CASE Path(t)
    BY <2>5 DEF Path
  <2>6. CASE Access(t)
    BY <2>6 DEF Access
  <2>7. CASE BackUid(t)
    BY <2>7 DEF BackUid, access
  <2>8. CASE BackGid(t)
    BY <2>8 DEF BackGid, access
  <2> QED
    BY <2>1, <2>2, <2>3, <2>4, <2>5, <2>6, <2>7, <2>8 DEF faccessat
<1> QED
  BY <1>1, <1>2 DEF OthersStay, paths

LEMMA CallFrame ==
  ASSUME TypeOK, NEW t \in Thread, Call(t)
  PROVE  /\ pc[t] = "idle" /\ errno'[t] = "none"
         /\ UNCHANGED <<ids, own, entry, where, moves, undisturbed>>
         /\ OthersStay(t)
         /\ \/ /\ req'[t].fn = "faccessat" /\ pc'[t] = "flags"
               /\ CallFaccessat(t, req'[t]) /\ UNCHANGED paths
            \/ /\ req'[t].fn # "faccessat" /\ pc'[t] = "old"
               /\ CallTwoPaths(t, req'[t]) /\ UNCHANGED access
<1>1. PICK r \in Asks[t] : /\ req' = Set(req, t, r)
                           /\ \/ r.fn = "faccessat" /\ CallFaccessat(t, r) /\ UNCHANGED paths
                              \/ r.fn # "faccessat" /\ CallTwoPaths(t, r) /\ UNCHANGED access
  BY DEF Call
<1>2. r = req'[t] /\ \A u \in Thread \ {t} : req'[u] = req[u]
  BY <1>1, Domains DEF Set
<1>3. /\ pc[t] = "idle" /\ errno'[t] = "none"
      /\ UNCHANGED <<ids, entry, where, moves, undisturbed>>
      /\ \A u \in Thread \ {t} : errno'[u] = errno[u]
  BY Domains DEF Call, At, Set
<1>4. CASE r.fn = "faccessat" /\ CallFaccessat(t, r) /\ UNCHANGED paths
  <2>1. /\ pc'[t] = "flags" /\ \A u \in Thread \ {t} : pc'[u] = pc[u]
        /\ UNCHANGED <<local, judged, own>>
    BY <1>4, Domains DEF CallFaccessat, Goto
  <2> QED
    BY <1>2, <1>3, <1>4, <2>1 DEF OthersStay, paths
<1>5. CASE r.fn # "faccessat" /\ CallTwoPaths(t, r) /\ UNCHANGED access
  <2>1. /\ pc'[t] = "old"
        /\ \A u \in Thread \ {t} : /\ pc'[u] = pc[u]
             /\ oldpath'[u] = oldpath[u] /\ newpath'[u] = newpath[u] /\ did'[u] = did[u]
             /\ moved'[u] = moved[u]
    BY <1>5, Domains DEF CallTwoPaths, Goto, Set
  <2> QED
    BY <1>2, <1>3, <1>5, <2>1 DEF OthersStay, access
<1> QED
  BY <1>1, <1>4, <1>5

LEMMA PlacesNext == ASSUME TypeOK, PlacesInv, [Next]_vars PROVE PlacesInv'
<1> USE DEF InPlace
<1>1. CASE Move
  BY <1>1 DEF Move, MoveDir, threads, PlacesInv
<1>2. CASE UNCHANGED vars
  BY <1>2 DEF vars, threads, PlacesInv
<1>3. ASSUME NEW t \in Thread, Call(t) PROVE PlacesInv'
  <2>1. InPlace(t)'
    BY <1>3, CallFrame DEF Swaps, ReadsIds, PathLabels
  <2>2. OthersStay(t)
    BY <1>3, CallFrame
  <2>3. ASSUME NEW u \in Thread \ {t} PROVE InPlace(u)'
    <3>1. pc'[u] = pc[u] /\ req'[u] = req[u]
      BY <2>2 DEF OthersStay
    <3> QED
      BY <3>1 DEF PlacesInv
  <2> QED
    BY <2>1, <2>3 DEF PlacesInv
<1>4. ASSUME NEW t \in Thread, Step(t) PROVE PlacesInv'
  <2>1. CASE faccessat(t) /\ UNCHANGED <<paths, moves, undisturbed>>
    <3>1. req'[t].fn = "faccessat" /\ pc'[t] \notin PathLabels
      BY <2>1, AccessFrame DEF Swaps, ReadsIds, PathLabels
    <3> QED
      BY <2>1, <3>1, AccessFrame DEF OthersStay, PlacesInv
  <2>2. CASE /\ renameat(t) \/ linkat(t)
             /\ undisturbed' = Set(undisturbed, t, \A u \in Thread : ~Swapping(u))
             /\ UNCHANGED <<access, moves>>
    <3>1. PathStep(t)
      BY <2>2, PathSteps
    <3>2. /\ UNCHANGED req /\ pc[t] \in PathLabels /\ pc'[t] \in PathLabels \cup {"idle"}
          /\ OthersStay(t)
      BY <2>2, <3>1, PathFrame
    <3>3. req'[t].fn # "faccessat" /\ pc'[t] \notin Swaps
      BY <3>2 DEF PlacesInv, PathLabels, Swaps, ReadsIds
    <3> QED
      BY <3>2, <3>3 DEF OthersStay, PlacesInv
  <2> QED
    BY <1>4, <2>1, <2>2 DEF Step
<1> QED
  BY <1>1, <1>2, <1>3, <1>4 DEF Next

--------------------------------------------------------------------------------
(* The IDs.                                                                *)

LEMMA IdsEqual ==
  ASSUME own \in Ids, NEW f \in Mixed,
         f.ruid = own.ruid, f.euid = own.euid, f.rgid = own.rgid, f.egid = own.egid
  PROVE  f = own
<1>1. f = [k \in ReadsIds |-> f[k]]
  BY MixedFacts
<1>2. own = [k \in ReadsIds |-> own[k]]
  BY ProcessAssumption
<1>3. \A k \in ReadsIds : f[k] = own[k]
  BY DEF ReadsIds
<1> QED
  BY <1>1, <1>2, <1>3

LEMMA SetFields ==
  ASSUME ids \in Mixed, NEW r, NEW e
  PROVE  /\ setreuid(r, e).ruid = r /\ setreuid(r, e).euid = e
         /\ setreuid(r, e).rgid = ids.rgid /\ setreuid(r, e).egid = ids.egid
         /\ setregid(r, e).rgid = r /\ setregid(r, e).egid = e
         /\ setregid(r, e).ruid = ids.ruid /\ setregid(r, e).euid = ids.euid
<1>1. DOMAIN ids = ReadsIds
  BY MixedFacts
<1> QED
  BY <1>1 DEF setreuid, setregid, ReadsIds

(* Each step of the call that may change the IDs knows what they are.      *)
LEMMA SwapStep ==
  ASSUME TypeOK, TypeOK', NEW t \in Thread, faccessat(t), Swapping(t), ~marred', ~marred,
         UidAt(t), GidAt(t), ReadOwn(t), UNCHANGED own
  PROVE  /\ pc'[t] \in Swaps => UidAt(t)' /\ GidAt(t)' /\ ReadOwn(t)'
         /\ pc'[t] = "idle" => ids' = own
<1>a. /\ req[t].flags = "AT_EACCESS" /\ DOMAIN pc = Thread
      /\ ids \in Mixed /\ own \in Ids /\ local[t] \in Mixed /\ DOMAIN local = Thread
  BY DEF Swapping, TypeOK
<1> USE DEF At, Goto
<1>1. CASE Flags(t)
  <2>1. pc[t] = "flags" /\ pc'[t] = "ruid" /\ UNCHANGED <<ids, local>>
    BY <1>1, <1>a DEF Flags, access
  <2> QED
    BY <2>1 DEF UidAt, GidAt, ReadOwn, UidSwapped, GidSwapped
<1>2. CASE ReadId(t)
  <2>1. pc[t] \in ReadsIds /\ pc'[t] = AfterRead[pc[t]] /\ UNCHANGED ids
    BY <1>2, <1>a DEF ReadId
  <2>2. DOMAIN local[t] = ReadsIds
    BY <1>a, MixedFacts
  <2>3. local'[t] = [local[t] EXCEPT ![pc[t]] = ids[pc[t]]]
    BY <1>2, <1>a DEF ReadId
  <2>4. /\ local'[t][pc[t]] = ids[pc[t]]
        /\ \A k \in ReadsIds \ {pc[t]} : local'[t][k] = local[t][k]
    BY <2>1, <2>2, <2>3
  <2>5. pc[t] = "ruid" \/ pc[t] = "euid" \/ pc[t] = "rgid" \/ pc[t] = "egid"
    BY <2>1 DEF ReadsIds
  <2>6. ids.ruid = own.ruid /\ ids.euid = own.euid /\ ids.rgid = own.rgid /\ ids.egid = own.egid
    BY <2>5 DEF UidAt, GidAt, UidSwapped, GidSwapped
  <2>7. UidAt(t)' /\ GidAt(t)'
    BY <2>1, <2>5, <2>6, ReadOrder DEF UidAt, GidAt, UidSwapped, GidSwapped
  <2>8. CASE pc[t] = "ruid"
    <3>1. pc'[t] = "euid" /\ local'[t].ruid = own.ruid
      BY <2>1, <2>4, <2>6, <2>8, ReadOrder
    <3> QED
      BY <2>7, <3>1 DEF ReadOwn
  <2>9. CASE pc[t] = "euid"
    <3>1. pc'[t] = "rgid" /\ local'[t].ruid = own.ruid /\ local'[t].euid = own.euid
      BY <2>1, <2>4, <2>6, <2>9, ReadOrder DEF ReadOwn, ReadsIds
    <3> QED
      BY <2>7, <3>1 DEF ReadOwn
  <2>10. CASE pc[t] = "rgid"
    <3>1. /\ pc'[t] = "egid" /\ local'[t].ruid = own.ruid /\ local'[t].euid = own.euid
          /\ local'[t].rgid = own.rgid
      BY <2>1, <2>4, <2>6, <2>10, ReadOrder DEF ReadOwn, ReadsIds
    <3> QED
      BY <2>7, <3>1 DEF ReadOwn
  <2>11. CASE pc[t] = "egid"
    <3>1. /\ pc'[t] = "swap uid" /\ local'[t].ruid = own.ruid /\ local'[t].euid = own.euid
          /\ local'[t].rgid = own.rgid /\ local'[t].egid = own.egid
      BY <2>1, <2>4, <2>6, <2>11, ReadOrder DEF ReadOwn, ReadsIds
    <3> QED
      BY <2>7, <3>1 DEF ReadOwn
  <2> QED
    BY <2>5, <2>8, <2>9, <2>10, <2>11
<1>b. pc[t] \in {"swap uid", "swap gid", "path", "access", "back uid", "back gid"} =>
        /\ local[t].ruid = own.ruid /\ local[t].euid = own.euid
        /\ local[t].rgid = own.rgid /\ local[t].egid = own.egid
        /\ check_euid(t) <=> own.ruid # own.euid
        /\ check_egid(t) <=> own.rgid # own.egid
  BY <1>a DEF ReadOwn, check_euid, check_egid
<1>c. ASSUME UNCHANGED local, pc'[t] \in Swaps,
             pc[t] \in {"swap uid", "swap gid", "path", "access", "back uid", "back gid"}
      PROVE  ReadOwn(t)'
  BY <1>b, <1>c DEF ReadOwn
<1>3. CASE SwapUid(t)
  <2>1. pc[t] = "swap uid" /\ pc'[t] = "swap gid" /\ UNCHANGED local
    BY <1>3, <1>a DEF SwapUid, access
  <2>2. /\ ids'.ruid = own.euid /\ ids'.euid = own.ruid
        /\ ids'.rgid = ids.rgid /\ ids'.egid = ids.egid
    <3>1. ids' = IF own.ruid # own.euid THEN setreuid(own.euid, own.ruid) ELSE ids
      BY <1>3, <1>b, <2>1 DEF SwapUid
    <3>2. ids.ruid = own.ruid /\ ids.euid = own.euid
      BY <2>1 DEF UidAt, UidSwapped
    <3>3. CASE own.ruid # own.euid
      BY <1>a, <3>1, <3>3, SetFields
    <3>4. CASE ~(own.ruid # own.euid)
      BY <3>1, <3>2, <3>4
    <3> QED
      BY <3>3, <3>4
  <2> QED
    BY <1>c, <2>1, <2>2 DEF UidAt, GidAt, UidSwapped, GidSwapped, Swaps
<1>4. CASE SwapGid(t)
  <2>1. pc[t] = "swap gid" /\ pc'[t] = "path" /\ UNCHANGED local
    BY <1>4, <1>a DEF SwapGid, access
  <2>2. /\ ids'.rgid = own.egid /\ ids'.egid = own.rgid
        /\ ids'.ruid = ids.ruid /\ ids'.euid = ids.euid
    <3>1. ids' = IF own.rgid # own.egid THEN setregid(own.egid, own.rgid) ELSE ids
      BY <1>4, <1>b, <2>1 DEF SwapGid
    <3>2. ids.rgid = own.rgid /\ ids.egid = own.egid
      BY <2>1 DEF GidAt, GidSwapped
    <3>3. CASE own.rgid # own.egid
      BY <1>a, <3>1, <3>3, SetFields
    <3>4. CASE ~(own.rgid # own.egid)
      BY <3>1, <3>2, <3>4
    <3> QED
      BY <3>3, <3>4
  <2> QED
    BY <1>c, <2>1, <2>2 DEF UidAt, GidAt, UidSwapped, GidSwapped, Swaps
<1>5. CASE Path(t)
  <2>1. pc[t] = "path" /\ UNCHANGED <<local, ids>> /\ pc'[t] \in {"idle", "access"}
    BY <1>5, <1>a DEF Path, Return
  <2>2. CASE pc'[t] = "access"
    BY <1>c, <2>1, <2>2 DEF UidAt, GidAt, UidSwapped, GidSwapped, Swaps
  <2>3. CASE pc'[t] = "idle"
    <3>1. marred' = (marred \/ check_euid(t) \/ check_egid(t))
      BY <1>5, <1>a, <2>3 DEF Path
    <3>2. own.ruid = own.euid /\ own.rgid = own.egid
      BY <1>b, <2>1, <3>1
    <3>3. ids = own
      BY <1>a, <2>1, <3>2, IdsEqual DEF UidAt, GidAt, UidSwapped, GidSwapped
    <3> QED
      BY <2>1, <2>3, <3>3 DEF Swaps, ReadsIds
  <2> QED
    BY <2>1, <2>2, <2>3
<1>6. CASE Access(t)
  <2>1. pc[t] = "access" /\ pc'[t] = "back uid" /\ UNCHANGED <<local, ids>>
    BY <1>6, <1>a DEF Access
  <2> QED
    BY <1>c, <2>1 DEF UidAt, GidAt, UidSwapped, GidSwapped, Swaps
<1>7. CASE BackUid(t)
  <2>1. pc[t] = "back uid" /\ pc'[t] = "back gid" /\ UNCHANGED local
    BY <1>7, <1>a DEF BackUid, access
  <2>2. /\ ids'.ruid = own.ruid /\ ids'.euid = own.euid
        /\ ids'.rgid = ids.rgid /\ ids'.egid = ids.egid
    <3>1. ids' = IF own.ruid # own.euid THEN setreuid(own.ruid, own.euid) ELSE ids
      BY <1>7, <1>b, <2>1 DEF BackUid
    <3>2. ids.ruid = own.euid /\ ids.euid = own.ruid
      BY <2>1 DEF UidAt, UidSwapped
    <3>3. CASE own.ruid # own.euid
      BY <1>a, <3>1, <3>3, SetFields
    <3>4. CASE ~(own.ruid # own.euid)
      BY <3>1, <3>2, <3>4
    <3> QED
      BY <3>3, <3>4
  <2> QED
    BY <1>c, <2>1, <2>2 DEF UidAt, GidAt, UidSwapped, GidSwapped, Swaps
<1>8. CASE BackGid(t)
  <2>1. pc[t] = "back gid" /\ pc'[t] = "idle" /\ UNCHANGED local
    BY <1>8, <1>a DEF BackGid, Return, access
  <2>2. /\ ids'.rgid = own.rgid /\ ids'.egid = own.egid
        /\ ids'.ruid = ids.ruid /\ ids'.euid = ids.euid
    <3>1. ids' = IF own.rgid # own.egid THEN setregid(own.rgid, own.egid) ELSE ids
      BY <1>8, <1>b, <2>1 DEF BackGid
    <3>2. ids.rgid = own.egid /\ ids.egid = own.rgid
      BY <2>1 DEF GidAt, GidSwapped
    <3>3. CASE own.rgid # own.egid
      BY <1>a, <3>1, <3>3, SetFields
    <3>4. CASE ~(own.rgid # own.egid)
      BY <3>1, <3>2, <3>4
    <3> QED
      BY <3>3, <3>4
  <2>3. ids'.ruid = own.ruid /\ ids'.euid = own.euid
    BY <2>1, <2>2 DEF UidAt, UidSwapped
  <2>4. ids' \in Mixed
    BY TypesStay DEF TypeOK
  <2>5. ids' = own
    BY <1>a, <2>2, <2>3, <2>4, IdsEqual
  <2> QED
    BY <2>1, <2>5 DEF Swaps, ReadsIds
<1> QED
  BY <1>1, <1>2, <1>3, <1>4, <1>5, <1>6, <1>7, <1>8 DEF faccessat

(* A step that changes no IDs, and nothing of a call for AT_EACCESS.       *)
LEMMA IdsQuiet ==
  ASSUME IdsInv, UNCHANGED <<ids, own, marred>>,
         \A u \in Thread : Swapping(u)' <=> Swapping(u),
         \A u \in Thread : Swapping(u) => pc'[u] = pc[u] /\ local'[u] = local[u]
  PROVE  IdsInv'
<1>1. SUFFICES ASSUME ~marred
      PROVE  /\ \A t, u \in Thread : Swapping(t)' /\ Swapping(u)' => t = u
             /\ (\A t \in Thread : ~Swapping(t)') => ids' = own'
             /\ \A t \in Thread : Swapping(t)' => UidAt(t)' /\ GidAt(t)' /\ ReadOwn(t)'
  BY DEF IdsInv
<1>2. ASSUME NEW t \in Thread, Swapping(t)' PROVE UidAt(t)' /\ GidAt(t)' /\ ReadOwn(t)'
  <2>1. Swapping(t) /\ pc'[t] = pc[t] /\ local'[t] = local[t]
    BY <1>2
  <2>2. UidAt(t) /\ GidAt(t) /\ ReadOwn(t)
    BY <1>1, <2>1 DEF IdsInv
  <2> QED
    BY <2>1, <2>2 DEF UidAt, GidAt, ReadOwn
<1> QED
  BY <1>1, <1>2 DEF IdsInv

LEMMA OthersSwap ==
  ASSUME NEW t \in Thread, OthersStay(t), NEW u \in Thread \ {t}
  PROVE  Swapping(u)' <=> Swapping(u)
BY DEF OthersStay, Swapping

LEMMA CallIds == ASSUME TypeOK, IdsInv, NEW t \in Thread, Call(t) PROVE IdsInv'
<1>1. /\ pc[t] = "idle" /\ UNCHANGED <<ids, own>> /\ OthersStay(t) /\ ~Swapping(t)
  BY CallFrame DEF Swapping, Swaps, ReadsIds
<1>2. CASE /\ req'[t].fn # "faccessat" /\ pc'[t] = "old" /\ UNCHANGED access
  <2>1. ~Swapping(t)'
    BY <1>2 DEF Swapping, Swaps, ReadsIds
  <2>2. \A u \in Thread : Swapping(u)' <=> Swapping(u)
    BY <1>1, <2>1, OthersSwap
  <2>3. \A u \in Thread : Swapping(u) => pc'[u] = pc[u] /\ local'[u] = local[u]
    BY <1>1 DEF OthersStay
  <2> QED
    BY <1>1, <1>2, <2>2, <2>3, IdsQuiet DEF access
<1>3. CASE /\ req'[t].fn = "faccessat" /\ pc'[t] = "flags" /\ CallFaccessat(t, req'[t])
  <2>1. CASE req'[t].flags # "AT_EACCESS"
    <3>1. ~Swapping(t)' /\ UNCHANGED marred
      <4>1. marred' = (marred \/ (req'[t].flags = "AT_EACCESS" /\ \E u \in Thread \ {t} : Swapping(u)))
        BY <1>3 DEF CallFaccessat
      <4>2. marred \in BOOLEAN
        BY DEF TypeOK, FaccessatTypeOK
      <4> QED
        BY <2>1, <4>1, <4>2 DEF Swapping
    <3>2. \A u \in Thread : Swapping(u)' <=> Swapping(u)
      BY <1>1, <3>1, OthersSwap
    <3>3. \A u \in Thread : Swapping(u) => pc'[u] = pc[u] /\ local'[u] = local[u]
      BY <1>1 DEF OthersStay
    <3> QED
      BY <1>1, <3>1, <3>2, <3>3, IdsQuiet
  <2>2. CASE req'[t].flags = "AT_EACCESS" /\ ~marred'
    <3>1. ~marred /\ \A u \in Thread \ {t} : ~Swapping(u)
      <4>1. marred' = (marred \/ (req'[t].flags = "AT_EACCESS" /\ \E u \in Thread \ {t} : Swapping(u)))
        BY <1>3 DEF CallFaccessat
      <4> QED
        BY <2>2, <4>1
    <3>2. ids = own
      BY <1>1, <3>1 DEF IdsInv
    <3>3. Swapping(t)' /\ \A u \in Thread \ {t} : ~Swapping(u)'
      <4>1. Swapping(t)'
        BY <1>3, <2>2 DEF Swapping, Swaps
      <4> QED
        BY <1>1, <3>1, <4>1, OthersSwap
    <3>4. UidAt(t)' /\ GidAt(t)' /\ ReadOwn(t)'
      BY <1>1, <1>3, <3>2 DEF UidAt, GidAt, ReadOwn, UidSwapped, GidSwapped
    <3> QED
      BY <3>3, <3>4 DEF IdsInv
  <2>3. CASE marred'
    BY <2>3 DEF IdsInv
  <2> QED
    BY <2>1, <2>2, <2>3
<1> QED
  BY <1>2, <1>3, CallFrame

LEMMA AccessMarred == ASSUME NEW t \in Thread, faccessat(t) PROVE marred => marred'
BY DEF faccessat, Flags, ReadId, SwapUid, SwapGid, Path, Access, BackUid, BackGid, access

LEMMA AccessIds ==
  ASSUME TypeOK, TypeOK', IdsInv, NEW t \in Thread,
         faccessat(t), UNCHANGED <<paths, moves, undisturbed>>
  PROVE  IdsInv'
<1>1. /\ UNCHANGED <<req, own>> /\ OthersStay(t)
      /\ pc[t] \in Swaps /\ pc'[t] \in Swaps \cup {"idle"}
  BY AccessFrame
<1>2. CASE req[t].flags # "AT_EACCESS"
  <2>1. ~Swapping(t) /\ ~Swapping(t)' /\ ~check_euid(t) /\ ~check_egid(t)
    BY <1>1, <1>2 DEF Swapping, check_euid, check_egid
  <2>2. UNCHANGED <<ids, marred>>
    <3>1. marred \in BOOLEAN
      BY DEF TypeOK, FaccessatTypeOK
    <3> QED
      BY <2>1, <3>1
         DEF faccessat, Flags, ReadId, SwapUid, SwapGid, Path, Access, BackUid, BackGid, access
  <2>3. \A u \in Thread : Swapping(u)' <=> Swapping(u)
    BY <1>1, <2>1, OthersSwap
  <2>4. \A u \in Thread : Swapping(u) => pc'[u] = pc[u] /\ local'[u] = local[u]
    BY <1>1, <2>1 DEF OthersStay
  <2> QED
    BY <1>1, <2>2, <2>3, <2>4, IdsQuiet
<1>3. CASE req[t].flags = "AT_EACCESS" /\ ~marred'
  <2>1. ~marred /\ Swapping(t)
    BY <1>1, <1>3, AccessMarred DEF Swapping
  <2>2. UidAt(t) /\ GidAt(t) /\ ReadOwn(t) /\ \A u \in Thread \ {t} : ~Swapping(u)
    BY <2>1 DEF IdsInv
  <2>3. \A u \in Thread \ {t} : ~Swapping(u)'
    BY <1>1, <2>2, OthersSwap
  <2>4. /\ pc'[t] \in Swaps => UidAt(t)' /\ GidAt(t)' /\ ReadOwn(t)'
        /\ pc'[t] = "idle" => ids' = own
    BY <1>1, <1>3, <2>1, <2>2, SwapStep
  <2>5. Swapping(t)' <=> pc'[t] \in Swaps
    BY <1>1, <1>3 DEF Swapping
  <2> QED
    BY <1>1, <2>3, <2>4, <2>5 DEF IdsInv
<1>4. CASE marred'
  BY <1>4 DEF IdsInv
<1> QED
  BY <1>2, <1>3, <1>4

LEMMA IdsNext == ASSUME TypeOK, TypeOK', PlacesInv, IdsInv, [Next]_vars PROVE IdsInv'
<1>1. CASE Move \/ UNCHANGED vars
  <2>1. UNCHANGED <<threads, ids, access>>
    BY <1>1 DEF Move, MoveDir, vars
  <2>2. \A u \in Thread : Swapping(u)' <=> Swapping(u)
    BY <2>1 DEF threads, Swapping
  <2> QED
    BY <2>1, <2>2, IdsQuiet DEF threads, access
<1>2. ASSUME NEW t \in Thread, Call(t) PROVE IdsInv'
  BY <1>2, CallIds
<1>3. ASSUME NEW t \in Thread, Step(t) PROVE IdsInv'
  <2>1. CASE faccessat(t) /\ UNCHANGED <<paths, moves, undisturbed>>
    BY <2>1, AccessIds
  <2>2. CASE /\ renameat(t) \/ linkat(t)
             /\ undisturbed' = Set(undisturbed, t, \A u \in Thread : ~Swapping(u))
             /\ UNCHANGED <<access, moves>>
    <3>1. /\ UNCHANGED ids /\ pc[t] \in PathLabels /\ pc'[t] \in PathLabels \cup {"idle"}
          /\ OthersStay(t)
      BY <2>2, PathSteps, PathFrame
    <3>2. ~Swapping(t) /\ ~Swapping(t)'
      BY <3>1 DEF PathLabels, Swapping, Swaps, ReadsIds
    <3>3. \A u \in Thread : Swapping(u)' <=> Swapping(u)
      BY <3>1, <3>2, OthersSwap
    <3>4. \A u \in Thread : Swapping(u) => pc'[u] = pc[u] /\ local'[u] = local[u]
      BY <3>1, <3>2 DEF OthersStay
    <3> QED
      BY <2>2, <3>1, <3>3, <3>4, IdsQuiet DEF access
  <2> QED
    BY <1>3, <2>1, <2>2 DEF Step
<1> QED
  BY <1>1, <1>2, <1>3 DEF Next

--------------------------------------------------------------------------------
(* Whom an answer rests on.                                                *)

(* A thread that the step does not change.                                 *)
LEMMA AloneQuiet ==
  ASSUME AloneInv, ~marred, UNCHANGED own, NEW u \in Thread, alone[u],
         \A v \in Thread \ {u} : Swapping(v)' => Swapping(v),
         pc'[u] = pc[u], req'[u] = req[u], errno'[u] = errno[u], judged'[u] = judged[u]
  PROVE  AloneOK(u)'
<1>1. AloneOK(u)
  BY DEF AloneInv
<1>2. Answered(u)' <=> Answered(u)
  BY DEF Answered, At
<1>3. RightAnswer(u)' <=> RightAnswer(u)
  BY DEF RightAnswer
<1>4. pc'[u] \in Swaps => \A v \in Thread \ {u} : ~Swapping(v)'
  BY <1>1 DEF AloneOK
<1> QED
  BY <1>1, <1>2, <1>3, <1>4, Zenon DEF AloneOK

LEMMA CallAlone == ASSUME TypeOK, AloneInv, NEW t \in Thread, Call(t) PROVE AloneInv'
<1>1. SUFFICES ASSUME ~marred', NEW u \in Thread, alone'[u] PROVE AloneOK(u)'
  BY DEF AloneInv
<1>2. /\ pc[t] = "idle" /\ errno'[t] = "none" /\ UNCHANGED own /\ OthersStay(t) /\ ~Swapping(t)
  BY CallFrame DEF Swapping, Swaps, ReadsIds
<1>3. CASE /\ req'[t].fn # "faccessat" /\ pc'[t] = "old" /\ UNCHANGED access
  <2>1. ~Swapping(t)' /\ ~marred /\ alone[u]
    BY <1>1, <1>3 DEF Swapping, Swaps, ReadsIds, access
  <2>2. \A v \in Thread : Swapping(v)' => Swapping(v)
    BY <1>2, <2>1, OthersSwap
  <2>3. CASE u = t
    BY <1>3, <2>3 DEF AloneOK, Answered, At, Swaps, ReadsIds
  <2>4. CASE u # t
    BY <1>2, <2>1, <2>2, <2>4, AloneQuiet DEF OthersStay
  <2> QED
    BY <2>3, <2>4
<1>4. CASE /\ req'[t].fn = "faccessat" /\ pc'[t] = "flags" /\ CallFaccessat(t, req'[t])
  <2>1. /\ alone' = [v \in Thread |->
                       IF v = t THEN \A w \in Thread \ {t} : ~Swapping(w)
                       ELSE alone[v] /\ req'[t].flags # "AT_EACCESS"]
        /\ marred' = (marred \/ (req'[t].flags = "AT_EACCESS" /\ \E v \in Thread \ {t} : Swapping(v)))
    BY <1>4 DEF CallFaccessat
  <2>2. ~marred
    BY <1>1, <2>1
  <2>3. CASE u = t
    <3>1. \A w \in Thread \ {t} : ~Swapping(w)
      BY <1>1, <2>1, <2>3, Zenon
    <3>2. \A w \in Thread \ {t} : ~Swapping(w)'
      BY <1>2, <3>1, OthersSwap
    <3>3. ~Answered(t)'
      BY <1>4 DEF Answered, At
    <3> QED
      BY <2>3, <3>2, <3>3 DEF AloneOK
  <2>4. CASE u # t
    <3>1. alone[u] /\ req'[t].flags # "AT_EACCESS"
      BY <1>1, <2>1, <2>4
    <3>2. ~Swapping(t)'
      BY <3>1 DEF Swapping
    <3>3. \A v \in Thread : Swapping(v)' => Swapping(v)
      BY <1>2, <3>2, OthersSwap
    <3> QED
      BY <1>2, <2>2, <2>4, <3>1, <3>3, AloneQuiet DEF OthersStay
  <2> QED
    BY <2>3, <2>4
<1> QED
  BY <1>3, <1>4, CallFrame

(* The answer of the step: access, or the end of the function.             *)
LEMMA AccessAnswers ==
  ASSUME TypeOK, IdsInv, AloneInv, NEW t \in Thread, faccessat(t),
         UNCHANGED <<req, own>>, ~marred, alone[t], Answered(t)'
  PROVE  RightAnswer(t)'
<1>1. /\ req[t].fn = "faccessat" /\ DOMAIN pc = Thread /\ DOMAIN errno = Thread
      /\ DOMAIN judged = Thread /\ AloneOK(t)
  BY Domains DEF faccessat, AloneInv
<1> USE DEF At, Goto
<1>2. CASE Flags(t)
  <2>1. pc'[t] = "ruid" \/ (pc'[t] = "idle" /\ errno'[t] = "EINVAL")
    BY <1>1, <1>2 DEF Flags, Return, Set
  <2> QED
    BY <2>1 DEF Answered, OK
<1>3. CASE ReadId(t)
  BY <1>1, <1>3, ReadOrder DEF ReadId, ReadsIds, Answered
<1>4. CASE SwapUid(t) \/ SwapGid(t)
  BY <1>1, <1>4 DEF SwapUid, SwapGid, Answered
<1>5. CASE Path(t)
  <2>1. pc'[t] = "access" \/ (pc'[t] = "idle" /\ errno'[t] = Refusal(req[t].fd))
    BY <1>1, <1>5 DEF Path, Return, Set
  <2> QED
    BY <2>1 DEF Answered, Refusal, OK
<1>6. CASE Access(t)
  <2>1. judged'[t] = [uid |-> ids.ruid, gid |-> ids.rgid] /\ pc[t] = "access"
    BY <1>1, <1>6 DEF Access, Set
  <2>2. \A u \in Thread \ {t} : ~Swapping(u)
    BY <1>1, <2>1 DEF AloneOK, Swaps
  <2>3. CASE req[t].flags = "AT_EACCESS"
    <3>1. UidAt(t) /\ GidAt(t)
      BY <2>1, <2>3 DEF IdsInv, Swapping, Swaps
    <3> QED
      BY <2>1, <2>3, <3>1 DEF UidAt, GidAt, UidSwapped, GidSwapped, RightAnswer
  <2>4. CASE req[t].flags # "AT_EACCESS"
    <3>1. ids = own
      BY <2>2, <2>4 DEF IdsInv, Swapping
    <3> QED
      BY <2>1, <2>4, <3>1 DEF RightAnswer
  <2> QED
    BY <2>3, <2>4
<1>7. CASE BackUid(t) \/ BackGid(t)
  <2>1. pc[t] \in {"back uid", "back gid"} /\ UNCHANGED judged
    BY <1>7 DEF BackUid, BackGid, access
  <2>2. RightAnswer(t)
    BY <1>1, <2>1 DEF AloneOK, Answered
  <2> QED
    BY <2>1, <2>2 DEF RightAnswer
<1> QED
  BY <1>2, <1>3, <1>4, <1>5, <1>6, <1>7 DEF faccessat

LEMMA AloneNext == ASSUME TypeOK, IdsInv, AloneInv, [Next]_vars PROVE AloneInv'
<1>1. CASE Move \/ UNCHANGED vars
  <2>1. UNCHANGED <<threads, ids, access>>
    BY <1>1 DEF Move, MoveDir, vars
  <2>2. \A u \in Thread : Swapping(u)' => Swapping(u)
    BY <2>1 DEF threads, Swapping
  <2>3. ASSUME ~marred', NEW u \in Thread, alone'[u] PROVE AloneOK(u)'
    BY <2>1, <2>2, <2>3, AloneQuiet DEF threads, access
  <2> QED
    BY <2>3 DEF AloneInv
<1>2. ASSUME NEW t \in Thread, Call(t) PROVE AloneInv'
  BY <1>2, CallAlone
<1>3. ASSUME NEW t \in Thread, Step(t) PROVE AloneInv'
  <2>1. CASE faccessat(t) /\ UNCHANGED <<paths, moves, undisturbed>>
    <3>1. /\ UNCHANGED <<req, own, alone>> /\ OthersStay(t)
          /\ pc[t] \in Swaps /\ pc'[t] \in Swaps \cup {"idle"}
      BY <2>1, AccessFrame
    <3>2. SUFFICES ASSUME ~marred', NEW u \in Thread, alone'[u] PROVE AloneOK(u)'
      BY DEF AloneInv
    <3>3. ~marred /\ alone[u]
      BY <2>1, <3>1, <3>2, AccessMarred
    <3>4. \A v \in Thread : Swapping(v)' => Swapping(v)
      <4>1. Swapping(t)' => Swapping(t)
        BY <3>1 DEF Swapping
      <4> QED
        BY <3>1, <4>1, OthersSwap
    <3>5. CASE u # t
      BY <3>1, <3>3, <3>4, <3>5, AloneQuiet DEF OthersStay
    <3>6. CASE u = t
      <4>1. AloneOK(t)
        BY <3>3, <3>6 DEF AloneInv
      <4>2. \A v \in Thread \ {t} : ~Swapping(v)'
        BY <3>1, <3>4, <4>1 DEF AloneOK
      <4>3. Answered(t)' => RightAnswer(t)'
        BY <2>1, <3>1, <3>3, <3>6, AccessAnswers
      <4> QED
        BY <3>6, <4>2, <4>3 DEF AloneOK
    <3> QED
      BY <3>5, <3>6
  <2>2. CASE /\ renameat(t) \/ linkat(t)
             /\ undisturbed' = Set(undisturbed, t, \A u \in Thread : ~Swapping(u))
             /\ UNCHANGED <<access, moves>>
    <3>1. /\ UNCHANGED req /\ pc[t] \in PathLabels /\ pc'[t] \in PathLabels \cup {"idle"}
          /\ OthersStay(t)
      BY <2>2, PathSteps, PathFrame
    <3>2. req[t].fn # "faccessat"
      BY <2>2 DEF renameat, linkat
    <3>3. ~Swapping(t)' /\ ~Answered(t)' /\ pc'[t] \notin Swaps
      BY <3>1, <3>2 DEF PathLabels, Swapping, Swaps, ReadsIds, Answered, At
    <3>4. \A v \in Thread : Swapping(v)' => Swapping(v)
      BY <3>1, <3>3, OthersSwap
    <3>5. ASSUME ~marred', NEW u \in Thread, alone'[u] PROVE AloneOK(u)'
      <4>1. ~marred /\ alone[u] /\ UNCHANGED own
        BY <2>2, <3>5 DEF access
      <4>2. CASE u = t
        BY <3>3, <4>2 DEF AloneOK
      <4>3. CASE u # t
        BY <3>1, <3>4, <4>1, <4>3, AloneQuiet DEF OthersStay
      <4> QED
        BY <4>2, <4>3
    <3> QED
      BY <3>5 DEF AloneInv
  <2> QED
    BY <1>3, <2>1, <2>2 DEF Step
<1> QED
  BY <1>1, <1>2, <1>3 DEF Next

--------------------------------------------------------------------------------
(* The paths.                                                              *)

LEMMA ResolveOne ==
  ASSUME Distinct(where), NEW x, NEW d \in Resolve(x)
  PROVE  Resolve(x) = {d} /\ d \in Dir
BY ThreadsAssumption DEF Distinct, Resolve

LEMMA ResolvePlace ==
  ASSUME where \in [Dir -> Place], Distinct(where), NEW d \in Dir
  PROVE  Resolve(where[d]) = {d}
BY PlacesAssumption DEF Distinct, Resolve

LEMMA ResolveGarbage == ASSUME where \in [Dir -> Place] PROVE Resolve("garbage") = {}
BY PlacesAssumption DEF Resolve

(* What the call finds, and where; rename and link are called on one name  *)
(* in each of two directories, or on one that is nowhere in Dir.           *)
LEMMA ActFacts ==
  ASSUME TypeOK, Distinct(where), NEW t \in Thread, Act(t)
  PROVE  /\ pc[t] = "act" /\ pc'[t] = "idle"
         /\ UNCHANGED <<req, where, oldpath, newpath, moved>>
         /\ \/ errno'[t] = "ENOENT"
            \/ \E x \in OldNow(t), y \in NewNow(t) :
                 /\ did'[t] = [old |-> Holds(Resolve(x)), new |-> Resolve(y), stale |-> Stale(t, x, y)]
                 /\ x = "garbage" \/ Holds(Resolve(x)) = Resolve(x)
                 /\ \/ "garbage" \in {x, y}
                    \/ \E od \in Dir, nd \in Dir :
                         /\ Holds(Resolve(x)) = {od} /\ Resolve(y) = {nd}
                         /\ \/ req[t].fn = "renameat" /\ rename(t, od, nd)
                            \/ req[t].fn = "linkat" /\ link(t, od, nd)
<1>1. PICK x \in OldNow(t), y \in NewNow(t) :
        LET os == Holds(Resolve(x)) ns == Resolve(y) IN
        \/ Return(t, "ENOENT")
        \/ /\ \/ \E od \in os, nd \in ns :
                   \/ req[t].fn = "renameat" /\ rename(t, od, nd)
                   \/ req[t].fn = "linkat" /\ link(t, od, nd)
              \/ "garbage" \in {x, y} /\ (os # {} \/ x = "garbage") /\ elsewhere(t, os \cup ns)
           /\ did' = Set(did, t, [old |-> os, new |-> ns, stale |-> Stale(t, x, y)])
  BY Zenon DEF Act
<1> DEFINE os == Holds(Resolve(x))
           ns == Resolve(y)
<1>2. pc[t] = "act" /\ UNCHANGED <<req, where, oldpath, newpath, moved>>
  BY DEF Act, At
<1>3. CASE Return(t, "ENOENT")
  BY <1>2, <1>3, Domains DEF Return, Goto, Set
<1>4. os # {} => os = Resolve(x)
  <2>1. ASSUME NEW d \in os PROVE Resolve(x) = {d}
    BY <2>1, ResolveOne DEF Holds
  <2> QED
    BY <2>1 DEF Holds
<1>5. ASSUME did' = Set(did, t, [old |-> os, new |-> ns, stale |-> Stale(t, x, y)])
      PROVE  did'[t] = [old |-> os, new |-> ns, stale |-> Stale(t, x, y)]
  BY <1>5, Domains DEF Set
<1>6. ASSUME NEW od \in os, NEW nd \in ns,
             \/ req[t].fn = "renameat" /\ rename(t, od, nd)
             \/ req[t].fn = "linkat" /\ link(t, od, nd)
      PROVE  /\ pc'[t] = "idle" /\ os = Resolve(x)
             /\ \E o \in Dir, n \in Dir :
                  /\ os = {o} /\ ns = {n}
                  /\ \/ req[t].fn = "renameat" /\ rename(t, o, n)
                     \/ req[t].fn = "linkat" /\ link(t, o, n)
  <2>1. Resolve(x) = {od} /\ od \in Dir /\ os = {od}
    BY <1>6, ResolveOne DEF Holds
  <2>2. ns = {nd} /\ nd \in Dir
    BY <1>6, ResolveOne
  <2>3. pc'[t] = "idle"
    BY <1>6, Domains DEF rename, link, Return, Goto
  <2> QED
    BY <1>6, <2>1, <2>2, <2>3
<1>7. ASSUME elsewhere(t, os \cup ns) PROVE pc'[t] = "idle"
  BY <1>7, Domains DEF elsewhere, Return, Goto
<1> HIDE DEF os, ns
<1>8. \/ Return(t, "ENOENT")
      \/ /\ \/ \E od \in os, nd \in ns :
                 \/ req[t].fn = "renameat" /\ rename(t, od, nd)
                 \/ req[t].fn = "linkat" /\ link(t, od, nd)
            \/ "garbage" \in {x, y} /\ (os # {} \/ x = "garbage") /\ elsewhere(t, os \cup ns)
         /\ did' = Set(did, t, [old |-> os, new |-> ns, stale |-> Stale(t, x, y)])
  BY <1>1, Zenon DEF os, ns
<1>9. CASE errno'[t] # "ENOENT"
  <2>1. ~Return(t, "ENOENT")
    BY <1>9, Domains DEF Return, Set
  <2>2. /\ did'[t] = [old |-> os, new |-> ns, stale |-> Stale(t, x, y)] /\ pc'[t] = "idle"
        /\ x = "garbage" \/ os = Resolve(x)
        /\ \/ "garbage" \in {x, y}
           \/ \E o \in Dir, n \in Dir :
                  /\ os = {o} /\ ns = {n}
                  /\ \/ req[t].fn = "renameat" /\ rename(t, o, n)
                     \/ req[t].fn = "linkat" /\ link(t, o, n)
    BY <1>4, <1>5, <1>6, <1>7, <1>8, <2>1, Zenon
  <2> QED
    BY <1>2, <2>2, Zenon DEF os, ns
<1>10. pc'[t] = "idle"
  BY <1>3, <1>6, <1>7, <1>8, Zenon
<1> QED
  BY <1>2, <1>9, <1>10, Zenon

(* A refusal is no answer of rename or link.                               *)
LEMMA FstatEnds ==
  ASSUME TypeOK, NEW t \in Thread, NEW x, NEW here, NEW getpath, NEW next,
         Fstat(t, x, here, getpath, next)
  PROVE  \/ pc'[t] = "idle" /\ errno'[t] \in {"ENOTDIR", "EBADF"}
         \/ pc'[t] = getpath /\ Relative(x) /\ x \notin {"file", "closed"}
         \/ pc'[t] = next /\ ~Relative(x)
BY Domains DEF Fstat, Return, Refusal, Goto, Set

LEMMA PathEnds ==
  ASSUME TypeOK, NEW t \in Thread, PathStep(t), ~Act(t), pc'[t] = "idle"
  PROVE  errno'[t] \in {"ENOTDIR", "EBADF", "ENOENT", "EINVAL"}
<1> USE Domains DEF Goto
<1>1. CASE FstatOld(t, "new") \/ FstatOld(t, "lstat") \/ FstatNew(t)
  BY <1>1, FstatEnds DEF FstatOld, FstatNew
<1>2. CASE GetOld(t, "new") \/ GetOld(t, "lstat") \/ GetNew(t)
  BY <1>2 DEF GetOld, GetNew
<1>3. CASE Lstat(t)
  BY <1>3 DEF Lstat, Return, Set
<1> QED
  BY <1>1, <1>2, <1>3 DEF PathStep

LEMMA PathKept ==
  ASSUME PathsInv, UNCHANGED where, NEW u \in Thread,
         pc'[u] = pc[u], req'[u] = req[u], moved'[u] = moved[u],
         oldpath'[u] = oldpath[u], newpath'[u] = newpath[u]
  PROVE  PathOK(u)'
<1>1. PathOK(u)
  BY DEF PathsInv
<1>2. \A x : Resolve(x)' = Resolve(x)
  BY DEF Resolve
<1>3. \A x : Meant(x)' = Meant(x)
  BY <1>2 DEF Meant
<1>4. /\ (pc[u] \in {"lstat", "new", "getnew", "act"} /\ ~moved[u])' =>
           Resolve(oldpath[u])' = Meant(req[u].old)'
      /\ (At(u, "act") /\ ~moved[u])' => Resolve(newpath[u])' = Meant(req[u].new)'
  BY <1>1, <1>2, <1>3 DEF PathOK, At
<1> QED
  BY <1>1, <1>4 DEF PathOK, At

(* A step of the function makes the path of what the caller named.         *)
LEMMA PathMade ==
  ASSUME TypeOK, PathsInv, NEW t \in Thread, PathStep(t)
  PROVE  PathOK(t)'
<1>1. PathOK(t) /\ Distinct(where) /\ where \in [Dir -> Place]
  BY DEF PathsInv, TypeOK
<1>2. UNCHANGED <<req, where, moved>>
  BY DEF PathStep, FstatOld, FstatNew, Fstat, GetOld, GetNew, Lstat, Act, paths
<1>3. (\A x : Resolve(x)' = Resolve(x)) /\ (\A x : Meant(x)' = Meant(x))
  <2>1. \A x : Resolve(x)' = Resolve(x)
    BY <1>2 DEF Resolve
  <2> QED
    BY <2>1 DEF Meant
<1>4. ASSUME NEW x PROVE ~Relative(x) => Meant(x) = Resolve(Text(x))
  BY DEF Relative, Descriptor, Meant
<1>5. ASSUME NEW x, Relative(x), x \notin {"file", "closed"} PROVE x \in Dir
  BY <1>5 DEF Relative, Descriptor
<1> USE Domains DEF At, Goto
<1>6. CASE FstatOld(t, "new") \/ FstatOld(t, "lstat")
  <2>1. pc[t] = "old" /\ UNCHANGED <<oldpath, newpath>>
    BY <1>6 DEF FstatOld, Fstat, paths
  <2>2. PICK next \in {"new", "lstat"} : FstatOld(t, next)
    BY <1>6
  <2>3. \/ pc'[t] = "idle"
        \/ pc'[t] = "getold" /\ req[t].old \in Dir
        \/ pc'[t] = next /\ ~Relative(req[t].old)
    BY <2>2, <1>5, FstatEnds DEF FstatOld
  <2>4. oldpath[t] = Text(req[t].old) /\ newpath[t] = Text(req[t].new)
    BY <1>1, <2>1 DEF PathOK
  <2>5. CASE pc'[t] = "getold" /\ req[t].old \in Dir
    BY <1>2, <2>1, <2>4, <2>5 DEF PathOK
  <2>6. CASE pc'[t] = next /\ ~Relative(req[t].old)
    <3>1. Resolve(oldpath[t]) = Meant(req[t].old)
      BY <1>4, <2>4, <2>6
    <3>2. Resolve(oldpath[t])' = Meant(req[t].old)'
      BY <1>2, <1>3, <2>1, <3>1
    <3> QED
      BY <1>2, <2>1, <2>2, <2>4, <2>6, <3>2 DEF PathOK
  <2>7. CASE pc'[t] = "idle"
    BY <2>7 DEF PathOK
  <2> QED
    BY <2>3, <2>5, <2>6, <2>7
<1>7. CASE GetOld(t, "new") \/ GetOld(t, "lstat")
  <2>1. /\ pc[t] = "getold" /\ pc'[t] \in {"new", "lstat"}
        /\ oldpath'[t] = where[req[t].old] /\ UNCHANGED newpath
    BY <1>7 DEF GetOld, Set
  <2>2. newpath[t] = Text(req[t].new) /\ req[t].old \in Dir
    BY <1>1, <2>1 DEF PathOK
  <2>3. Resolve(where[req[t].old]) = Meant(req[t].old)
    BY <1>1, <2>2, ResolvePlace DEF Meant
  <2>4. Resolve(oldpath[t])' = Meant(req[t].old)'
    <3>1. Resolve(oldpath'[t]) = Meant(req[t].old)
      BY <2>1, <2>3
    <3>2. Resolve(oldpath[t])' = Resolve(oldpath'[t])
      BY <1>2 DEF Resolve
    <3> QED
      BY <1>2, <1>3, <3>1, <3>2
  <2> QED
    BY <1>2, <2>1, <2>2, <2>4 DEF PathOK
<1>8. CASE Lstat(t)
  <2>1. pc[t] = "lstat" /\ pc'[t] \in {"idle", "new"} /\ UNCHANGED <<oldpath, newpath>>
    BY <1>8 DEF Lstat, Return, paths
  <2>2. ~moved[t] => Resolve(oldpath[t])' = Meant(req[t].old)'
    BY <1>1, <1>2, <1>3, <2>1 DEF PathOK
  <2> QED
    BY <1>1, <1>2, <2>1, <2>2 DEF PathOK
<1>9. CASE FstatNew(t)
  <2>1. pc[t] = "new" /\ UNCHANGED <<oldpath, newpath>>
    BY <1>9 DEF FstatNew, Fstat, paths
  <2>2. \/ pc'[t] = "idle"
        \/ pc'[t] = "getnew" /\ req[t].new \in Dir
        \/ pc'[t] = "act" /\ ~Relative(req[t].new)
    BY <1>9, <1>5, FstatEnds DEF FstatNew
  <2>3. newpath[t] = Text(req[t].new)
    BY <1>1, <2>1 DEF PathOK
  <2>4. ~moved[t] => Resolve(oldpath[t])' = Meant(req[t].old)'
    BY <1>1, <1>2, <1>3, <2>1 DEF PathOK
  <2>5. CASE pc'[t] = "getnew" /\ req[t].new \in Dir
    BY <1>2, <2>1, <2>3, <2>4, <2>5 DEF PathOK
  <2>6. CASE pc'[t] = "act" /\ ~Relative(req[t].new)
    <3>1. Resolve(newpath[t]) = Meant(req[t].new)
      BY <1>4, <2>3, <2>6
    <3>2. Resolve(newpath[t])' = Meant(req[t].new)'
      BY <1>2, <1>3, <2>1, <3>1
    <3> QED
      BY <1>2, <2>1, <2>4, <2>6, <3>2 DEF PathOK
  <2>7. CASE pc'[t] = "idle"
    BY <2>7 DEF PathOK
  <2> QED
    BY <2>2, <2>5, <2>6, <2>7
<1>10. CASE GetNew(t)
  <2>1. /\ pc[t] = "getnew" /\ pc'[t] = "act"
        /\ newpath'[t] = where[req[t].new] /\ UNCHANGED oldpath
    BY <1>10 DEF GetNew, Set
  <2>2. ~moved[t] => Resolve(oldpath[t])' = Meant(req[t].old)'
    BY <1>1, <1>2, <1>3, <2>1 DEF PathOK
  <2>3. Resolve(where[req[t].new]) = Meant(req[t].new)
    BY <1>1, <2>1, ResolvePlace DEF Meant, PathOK
  <2>4. Resolve(newpath[t])' = Meant(req[t].new)'
    <3>1. Resolve(newpath'[t]) = Meant(req[t].new)
      BY <2>1, <2>3
    <3>2. Resolve(newpath[t])' = Resolve(newpath'[t])
      BY <1>2 DEF Resolve
    <3> QED
      BY <1>2, <1>3, <3>1, <3>2
  <2> QED
    BY <1>2, <2>1, <2>2, <2>4 DEF PathOK
<1>11. CASE Act(t)
  <2>1. pc'[t] = "idle"
    BY <1>1, <1>11, ActFacts
  <2> QED
    BY <2>1 DEF PathOK
<1> QED
  BY <1>6, <1>7, <1>8, <1>9, <1>10, <1>11 DEF PathStep

LEMMA PathsNext == ASSUME TypeOK, PathsInv, [Next]_vars PROVE PathsInv'
<1>1. CASE UNCHANGED vars
  <2>1. ASSUME NEW u \in Thread PROVE PathOK(u)'
    BY <1>1, PathKept DEF vars, threads, paths
  <2> QED
    BY <1>1, <2>1 DEF PathsInv, vars, Distinct
<1>2. CASE Move
  <2>1. /\ UNCHANGED <<threads, oldpath, newpath>> /\ \A u \in Thread : moved'[u]
    BY <1>2 DEF Move, MoveDir
  <2>2. ASSUME NEW u \in Thread PROVE PathOK(u)'
    <3>1. PathOK(u)
      BY DEF PathsInv
    <3> QED
      BY <2>1, <3>1 DEF PathOK, threads, At
  <2>3. Distinct(where)'
    <3>1. PICK d \in Dir, p \in Place \ {where[e] : e \in Dir} : where' = Set(where, d, p)
      BY <1>2 DEF Move, MoveDir
    <3> QED
      BY <3>1 DEF PathsInv, Distinct, Set, TypeOK
  <2> QED
    BY <2>2, <2>3 DEF PathsInv
<1>3. ASSUME NEW t \in Thread, OthersStay(t), UNCHANGED where, PathOK(t)'
      PROVE  PathsInv'
  <2>1. ASSUME NEW u \in Thread \ {t} PROVE PathOK(u)'
    BY <1>3, PathKept DEF OthersStay
  <2>2. Distinct(where)'
    BY <1>3 DEF PathsInv, Distinct
  <2> QED
    BY <1>3, <2>1, <2>2 DEF PathsInv
<1>4. ASSUME NEW t \in Thread, Call(t) PROVE PathsInv'
  <2>1. CASE pc'[t] = "flags"
    BY <1>3, <1>4, <2>1, CallFrame DEF PathOK, At
  <2>2. CASE pc'[t] = "old" /\ CallTwoPaths(t, req'[t])
    <3>1. oldpath'[t] = Text(req'[t].old) /\ newpath'[t] = Text(req'[t].new)
      BY <2>2, Domains DEF CallTwoPaths, Set
    <3>2. PathOK(t)'
      BY <2>2, <3>1 DEF PathOK, At
    <3> QED
      BY <1>3, <1>4, <3>2, CallFrame
  <2> QED
    BY <1>4, <2>1, <2>2, CallFrame
<1>5. ASSUME NEW t \in Thread, Step(t) PROVE PathsInv'
  <2>1. CASE faccessat(t) /\ UNCHANGED <<paths, moves, undisturbed>>
    <3>1. OthersStay(t) /\ UNCHANGED where /\ pc'[t] \in Swaps \cup {"idle"}
      BY <2>1, AccessFrame
    <3>2. PathOK(t)'
      BY <3>1 DEF PathOK, At, Swaps, ReadsIds
    <3> QED
      BY <1>3, <3>1, <3>2
  <2>2. CASE /\ renameat(t) \/ linkat(t)
             /\ undisturbed' = Set(undisturbed, t, \A u \in Thread : ~Swapping(u))
             /\ UNCHANGED <<access, moves>>
    <3>1. PathStep(t)
      BY <2>2, PathSteps
    <3>2. OthersStay(t) /\ UNCHANGED where
      BY <2>2, <3>1, PathFrame
    <3> QED
      BY <1>3, <3>1, <3>2, PathMade
  <2> QED
    BY <1>5, <2>1, <2>2 DEF Step
<1> QED
  BY <1>1, <1>2, <1>4, <1>5 DEF Next

--------------------------------------------------------------------------------
(* Where a call acts.                                                      *)

ActedOnNamed(t) == Acted(t) /\ ~moved[t] =>
  /\ (Relative(req[t].old) => "old" \notin did[t].stale) => did[t].old = Meant(req[t].old)
  /\ (Relative(req[t].new) => "new" \notin did[t].stale) => did[t].new = Meant(req[t].new)

LEMMA ActedKept ==
  ASSUME ActsOnNamed, UNCHANGED where, NEW u \in Thread,
         pc'[u] = pc[u], req'[u] = req[u], errno'[u] = errno[u],
         moved'[u] = moved[u], did'[u] = did[u]
  PROVE  ActedOnNamed(u)'
<1>1. ActedOnNamed(u)
  BY DEF ActsOnNamed, ActedOnNamed
<1>2. \A x : Resolve(x)' = Resolve(x)
  BY DEF Resolve
<1>3. \A x : Meant(x)' = Meant(x)
  BY <1>2 DEF Meant
<1>4. Acted(u)' <=> Acted(u)
  BY DEF Acted, At
<1>5. Meant(req[u].new)' = Meant(req[u].new) /\ Meant(req[u].old)' = Meant(req[u].old)
  BY <1>3
<1> QED
  BY <1>1, <1>4, <1>5 DEF ActedOnNamed

LEMMA ActNamed ==
  ASSUME TypeOK, PathsInv, NEW t \in Thread, Act(t)
  PROVE  ActedOnNamed(t)'
<1>1. Distinct(where) /\ PathOK(t) /\ where \in [Dir -> Place]
  BY DEF PathsInv, TypeOK
<1>2. pc[t] = "act" /\ UNCHANGED <<req, where, oldpath, newpath, moved>>
  BY <1>1, ActFacts
<1>3. CASE errno'[t] = "ENOENT"
  BY <1>3 DEF ActedOnNamed, Acted, OK
<1>4. ASSUME ~moved[t], NEW x \in OldNow(t), NEW y \in NewNow(t),
             did'[t] = [old |-> Holds(Resolve(x)), new |-> Resolve(y), stale |-> Stale(t, x, y)],
             x = "garbage" \/ Holds(Resolve(x)) = Resolve(x)
      PROVE  /\ (Relative(req[t].old) => "old" \notin did'[t].stale) => did'[t].old = Meant(req[t].old)
             /\ (Relative(req[t].new) => "new" \notin did'[t].stale) => did'[t].new = Meant(req[t].new)
  <2>1. Resolve(oldpath[t]) = Meant(req[t].old) /\ Resolve(newpath[t]) = Meant(req[t].new)
    BY <1>1, <1>2, <1>4 DEF PathOK, At
  <2>2. /\ "old" \notin Stale(t, x, y) <=> x = oldpath[t]
        /\ "new" \notin Stale(t, x, y) <=> y = newpath[t]
    BY DEF Stale
  <2>3. /\ ~Relative(req[t].old) => x = oldpath[t]
        /\ ~Relative(req[t].new) => y = newpath[t]
    BY <1>4 DEF OldNow, NewNow
  <2>4. oldpath[t] # "garbage"
    BY PlacesAssumption DEF TypeOK, TwoPathsTypeOK
  <2>5. /\ did'[t].old = Holds(Resolve(x)) /\ did'[t].new = Resolve(y)
        /\ did'[t].stale = Stale(t, x, y)
    BY <1>4
  <2> QED
    BY <1>4, <2>1, <2>2, <2>3, <2>4, <2>5
<1>5. (\A x : Meant(x)' = Meant(x)) /\ UNCHANGED <<req, moved>>
  <2>1. \A x : Resolve(x)' = Resolve(x)
    BY <1>2 DEF Resolve
  <2> QED
    BY <1>2, <2>1 DEF Meant
<1>6. Meant(req[t].new)' = Meant(req[t].new) /\ Meant(req[t].old)' = Meant(req[t].old)
  BY <1>5
<1>7. CASE errno'[t] # "ENOENT" /\ ~moved[t]
  <2>1. PICK x \in OldNow(t), y \in NewNow(t) :
          /\ did'[t] = [old |-> Holds(Resolve(x)), new |-> Resolve(y), stale |-> Stale(t, x, y)]
          /\ x = "garbage" \/ Holds(Resolve(x)) = Resolve(x)
    BY <1>1, <1>7, ActFacts, Zenon
  <2>2. /\ (Relative(req[t].old) => "old" \notin did'[t].stale) => did'[t].old = Meant(req[t].old)
        /\ (Relative(req[t].new) => "new" \notin did'[t].stale) => did'[t].new = Meant(req[t].new)
    BY <1>4, <1>7, <2>1, Zenon
  <2> QED
    BY <1>5, <1>6, <2>2 DEF ActedOnNamed
<1>8. CASE moved[t]
  BY <1>5, <1>8 DEF ActedOnNamed
<1> QED
  BY <1>3, <1>7, <1>8

LEMMA NamedNext ==
  ASSUME TypeOK, PlacesInv, PathsInv, ActsOnNamed, [Next]_vars
  PROVE  ActsOnNamed'
<1>1. ASSUME \A u \in Thread : ActedOnNamed(u)' PROVE ActsOnNamed'
  BY <1>1 DEF ActsOnNamed, ActedOnNamed
<1>2. CASE UNCHANGED vars
  BY <1>1, <1>2, ActedKept DEF vars, threads, paths
<1>3. CASE Move
  <2>1. \A u \in Thread : moved'[u]
    BY <1>3 DEF Move, MoveDir
  <2> QED
    BY <1>1, <2>1 DEF ActedOnNamed
<1>4. ASSUME NEW t \in Thread, OthersStay(t), UNCHANGED where, ActedOnNamed(t)'
      PROVE  ActsOnNamed'
  <2>1. ASSUME NEW u \in Thread \ {t} PROVE ActedOnNamed(u)'
    BY <1>4, ActedKept DEF OthersStay
  <2> QED
    BY <1>1, <1>4, <2>1
<1>5. ASSUME NEW t \in Thread, Call(t) PROVE ActsOnNamed'
  <2>1. errno'[t] = "none" /\ OthersStay(t) /\ UNCHANGED where
    BY <1>5, CallFrame
  <2>2. ActedOnNamed(t)'
    BY <2>1 DEF ActedOnNamed, Acted, OK
  <2> QED
    BY <1>4, <2>1, <2>2
<1>6. ASSUME NEW t \in Thread, Step(t) PROVE ActsOnNamed'
  <2>1. CASE faccessat(t) /\ UNCHANGED <<paths, moves, undisturbed>>
    <3>1. OthersStay(t) /\ UNCHANGED <<req, where>> /\ req[t].fn = "faccessat"
      BY <2>1, AccessFrame
    <3>2. ActedOnNamed(t)'
      BY <3>1 DEF ActedOnNamed, Acted
    <3> QED
      BY <1>4, <3>1, <3>2
  <2>2. CASE /\ renameat(t) \/ linkat(t)
             /\ undisturbed' = Set(undisturbed, t, \A u \in Thread : ~Swapping(u))
             /\ UNCHANGED <<access, moves>>
    <3>1. PathStep(t)
      BY <2>2, PathSteps
    <3>2. OthersStay(t) /\ UNCHANGED where /\ pc'[t] \in PathLabels \cup {"idle"}
      BY <2>2, <3>1, PathFrame
    <3>3. ActedOnNamed(t)'
      <4>1. CASE Act(t)
        BY <4>1, ActNamed
      <4>2. CASE ~Act(t) /\ pc'[t] = "idle"
        BY <3>1, <4>2, PathEnds DEF ActedOnNamed, Acted, OK
      <4>3. CASE pc'[t] \in PathLabels
        BY <4>3 DEF ActedOnNamed, Acted, At, PathLabels
      <4> QED
        BY <3>2, <4>1, <4>2, <4>3
    <3> QED
      BY <1>4, <3>2, <3>3
  <2> QED
    BY <1>6, <2>1, <2>2 DEF Step
<1> QED
  BY <1>2, <1>3, <1>5, <1>6 DEF Next

--------------------------------------------------------------------------------
(* Whose right to write decides.                                           *)

OwnUser(t) ==
  /\ At(t, "idle") /\ req[t].fn = "renameat" /\ errno[t] \in {OK, "EACCES"}
  /\ did[t].old # {} /\ did[t].new # {}
  /\ undisturbed[t] /\ ~marred
  => (errno[t] = OK <=> \A d \in did[t].old \cup did[t].new : Owner[d] = own.euid)

LEMMA OwnUserKept ==
  ASSUME OwnUserDecides, UNCHANGED own, marred => marred', NEW u \in Thread,
         pc'[u] = pc[u], req'[u] = req[u], errno'[u] = errno[u],
         undisturbed'[u] = undisturbed[u], did'[u] = did[u]
  PROVE  OwnUser(u)'
<1>1. OwnUser(u)
  BY DEF OwnUserDecides, OwnUser
<1> QED
  BY <1>1 DEF OwnUser, At

LEMMA ActOwnUser ==
  ASSUME TypeOK, IdsInv, PathsInv, NEW t \in Thread, Act(t),
         UNCHANGED access,
         undisturbed' = Set(undisturbed, t, \A u \in Thread : ~Swapping(u))
  PROVE  OwnUser(t)'
<1>1. SUFFICES ASSUME req'[t].fn = "renameat", errno'[t] \in {OK, "EACCES"},
                      did'[t].old # {}, did'[t].new # {}, undisturbed'[t], ~marred'
      PROVE  errno'[t] = OK <=> \A d \in did'[t].old \cup did'[t].new : Owner[d] = own'.euid
  BY DEF OwnUser
<1>2. UNCHANGED <<own, marred>> /\ ids = own
  <2>1. \A u \in Thread : ~Swapping(u)
    BY <1>1, Domains DEF Set
  <2> QED
    BY <1>1, <2>1 DEF IdsInv, access
<1>3. PICK od \in Dir, nd \in Dir :
        /\ did'[t].old = {od} /\ did'[t].new = {nd}
        /\ rename(t, od, nd)
  <2>1. UNCHANGED req /\ errno'[t] # "ENOENT" /\ Distinct(where) /\ where \in [Dir -> Place]
    BY <1>1, ActFacts DEF PathsInv, OK, TypeOK
  <2>2. PICK x \in OldNow(t), y \in NewNow(t) :
          /\ did'[t] = [old |-> Holds(Resolve(x)), new |-> Resolve(y), stale |-> Stale(t, x, y)]
          /\ \/ "garbage" \in {x, y}
             \/ \E od \in Dir, nd \in Dir :
                  /\ Holds(Resolve(x)) = {od} /\ Resolve(y) = {nd}
                  /\ \/ req[t].fn = "renameat" /\ rename(t, od, nd)
                     \/ req[t].fn = "linkat" /\ link(t, od, nd)
    BY <2>1, ActFacts, Zenon
  <2>3. did'[t].old = Holds(Resolve(x)) /\ did'[t].new = Resolve(y)
    BY <2>2
  <2>4. x # "garbage" /\ y # "garbage"
    BY <1>1, <2>1, <2>3, ResolveGarbage DEF Holds
  <2>5. req[t].fn = "renameat"
    BY <1>1, <2>1
  <2> QED
    BY <2>2, <2>3, <2>4, <2>5
<1>4. MayWrite({od, nd}) <=> \A d \in did'[t].old \cup did'[t].new : Owner[d] = own'.euid
  BY <1>2, <1>3 DEF MayWrite
<1>5. errno'[t] = OK <=> MayWrite({od, nd})
  BY <1>3, Domains DEF rename, Return, Set, OK
<1> QED
  BY <1>4, <1>5

LEMMA OwnUserNext ==
  ASSUME TypeOK, IdsInv, PathsInv, OwnUserDecides, [Next]_vars
  PROVE  OwnUserDecides'
<1>1. ASSUME \A u \in Thread : OwnUser(u)' PROVE OwnUserDecides'
  BY <1>1 DEF OwnUserDecides, OwnUser
<1>2. CASE Move \/ UNCHANGED vars
  BY <1>1, <1>2, OwnUserKept DEF Move, MoveDir, vars, threads, paths, access
<1>3. ASSUME NEW t \in Thread, OthersStay(t), UNCHANGED own, marred => marred', OwnUser(t)'
      PROVE  OwnUserDecides'
  <2>1. ASSUME NEW u \in Thread \ {t} PROVE OwnUser(u)'
    BY <1>3, OwnUserKept DEF OthersStay
  <2> QED
    BY <1>1, <1>3, <2>1
<1>4. ASSUME NEW t \in Thread, Call(t) PROVE OwnUserDecides'
  <2>1. errno'[t] = "none" /\ OthersStay(t) /\ UNCHANGED own
    BY <1>4, CallFrame
  <2>2. marred => marred'
    BY <1>4, CallFrame DEF CallFaccessat, access
  <2>3. OwnUser(t)'
    BY <2>1 DEF OwnUser, OK
  <2> QED
    BY <1>3, <2>1, <2>2, <2>3
<1>5. ASSUME NEW t \in Thread, Step(t) PROVE OwnUserDecides'
  <2>1. CASE faccessat(t) /\ UNCHANGED <<paths, moves, undisturbed>>
    <3>1. OthersStay(t) /\ UNCHANGED <<req, own>> /\ req[t].fn = "faccessat"
      BY <2>1, AccessFrame
    <3>2. OwnUser(t)'
      BY <3>1 DEF OwnUser
    <3> QED
      BY <1>3, <2>1, <3>1, <3>2, AccessMarred
  <2>2. CASE /\ renameat(t) \/ linkat(t)
             /\ undisturbed' = Set(undisturbed, t, \A u \in Thread : ~Swapping(u))
             /\ UNCHANGED <<access, moves>>
    <3>1. PathStep(t)
      BY <2>2, PathSteps
    <3>2. OthersStay(t) /\ pc'[t] \in PathLabels \cup {"idle"}
      BY <2>2, <3>1, PathFrame
    <3>3. OwnUser(t)'
      <4>1. CASE Act(t)
        BY <2>2, <4>1, ActOwnUser
      <4>2. CASE ~Act(t) /\ pc'[t] = "idle"
        BY <3>1, <4>2, PathEnds DEF OwnUser, OK
      <4>3. CASE pc'[t] \in PathLabels
        BY <4>3 DEF OwnUser, At, PathLabels
      <4> QED
        BY <3>2, <4>1, <4>2, <4>3
    <3> QED
      BY <1>3, <2>2, <3>2, <3>3 DEF access
  <2> QED
    BY <1>5, <2>1, <2>2 DEF Step
<1> QED
  BY <1>2, <1>4, <1>5 DEF Next

--------------------------------------------------------------------------------
(* The theorems.                                                           *)

LEMMA ProcessInit == ASSUME Init PROVE ProcessInv
<1>1. \A t \in Thread : pc[t] = "idle" /\ errno[t] = "none" /\ ~alone[t]
  BY DEF Init
<1>2. \A t \in Thread : ~Swapping(t)
  BY <1>1 DEF Swapping, Swaps, ReadsIds
<1>3. PlacesInv
  BY <1>1 DEF PlacesInv, InPlace, Swaps, ReadsIds, PathLabels
<1>4. IdsInv
  BY <1>2 DEF IdsInv, Init
<1>5. AloneInv
  BY <1>1 DEF AloneInv
<1>6. PathsInv
  <2>1. Distinct(where)
    BY PlacesAssumption DEF Init
  <2> QED
    BY <1>1, <2>1 DEF PathsInv, PathOK, At
<1>7. ActsOnNamed /\ OwnUserDecides
  BY <1>1 DEF ActsOnNamed, Acted, OwnUserDecides, OK
<1> QED
  BY <1>3, <1>4, <1>5, <1>6, <1>7, TypeInit DEF ProcessInv

LEMMA ProcessNext == ASSUME ProcessInv, [Next]_vars PROVE ProcessInv'
<1>1. TypeOK'
  BY TypeNext DEF ProcessInv
<1> QED
  BY <1>1, PlacesNext, IdsNext, AloneNext, PathsNext, NamedNext, OwnUserNext DEF ProcessInv

THEOREM ProcessInvariant == Spec => []ProcessInv
<1>1. Init => ProcessInv
  BY ProcessInit
<1>2. ProcessInv /\ [Next]_vars => ProcessInv'
  BY ProcessNext
<1> QED
  BY <1>1, <1>2, PTL DEF Spec

(* Every variable keeps its type; the IDs are always a mixture of the      *)
(* program's own real and effective ones, whatever threads do to them.     *)
THEOREM TypeCorrect == Spec => []TypeOK
<1>1. ProcessInv => TypeOK
  BY DEF ProcessInv
<1> QED
  BY <1>1, ProcessInvariant, PTL

(* faccessat gives the IDs back: when no call is under way the program has *)
(* its own, unless a descriptor was refused between the swaps or two calls *)
(* for AT_EACCESS overlapped.                                              *)
THEOREM IdsComeBack == Spec => []IdsBack
<1>1. ProcessInv => IdsBack
  BY DEF ProcessInv, IdsInv, IdsBack, Swapping
<1> QED
  BY <1>1, ProcessInvariant, PTL

(* faccessat answers by the IDs it was asked for, and renameat is allowed  *)
(* or refused by the program's own effective user, as long as no thread    *)
(* swaps the IDs meanwhile.                                                *)
THEOREM IdsAreRight == Spec => []RightIds
<1>1. ASSUME ProcessInv PROVE RightIds
  <2>1. JudgedRight
    <3>1. AloneInv
      BY <1>1 DEF ProcessInv
    <3> QED
      BY <3>1 DEF AloneInv, AloneOK, Answered, RightAnswer, JudgedRight
  <2> QED
    BY <1>1, <2>1 DEF RightIds, ProcessInv
<1> QED
  BY <1>1, ProcessInvariant, PTL

(* renameat and linkat act in the directory they were given, unless it is  *)
(* renamed under them, by each of the two paths that is still what they    *)
(* made of it; of one they read from an array that has ended nothing is    *)
(* promised.                                                               *)
THEOREM NamedOnly == Spec => []ActsOnNamed
<1>1. ProcessInv => ActsOnNamed
  BY DEF ProcessInv
<1> QED
  BY <1>1, ProcessInvariant, PTL
================================================================================
