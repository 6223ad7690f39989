-------------------------------- MODULE Faccessat --------------------------------
(***************************************************************************)
(* faccessat of compat/ and the IDs of the process.  access judges by the  *)
(* real IDs, so for AT_EACCESS the function swaps real and effective ones  *)
(* around it.  The IDs are those of all threads.  (How it finds the        *)
(* directory is in AtCalls.)                                               *)
(***************************************************************************)
EXTENDS CompatThreads

VARIABLES
  local,   \* local[t]: ruid, euid, rgid, egid of the function
  judged,  \* judged[t]: the IDs that the answer of t rests on
  own,     \* the IDs of the program
  alone,   \* alone[t]: no other thread had a hand on the IDs in t's call
  marred   \* a call that had swapped the IDs was refused its descriptor,
           \* or two calls for AT_EACCESS overlapped

access == <<local, judged, own, alone, marred>>

FaccessatRequest == [fn : {"faccessat"}, fd : Given, flags : {"none", "AT_EACCESS", "other"}]

ReadsIds == {"ruid", "euid", "rgid", "egid"}
Swaps == ReadsIds \cup {"flags", "swap uid", "swap gid", "path", "access", "back uid", "back gid"}
Swapping(t) == pc[t] \in Swaps /\ req[t].flags = "AT_EACCESS"

CallFaccessat(t, r) ==
  /\ Goto(t, "flags")
  /\ alone' = [u \in Thread |->
                 IF u = t THEN \A v \in Thread \ {t} : ~Swapping(v)
                 ELSE alone[u] /\ r.flags # "AT_EACCESS"]
  /\ marred' = (marred \/ (r.flags = "AT_EACCESS" /\ \E u \in Thread \ {t} : Swapping(u)))
  /\ UNCHANGED <<local, judged, own>>

--------------------------------------------------------------------------------
Flags(t) == /\ At(t, "flags")
            /\ \/ req[t].flags = "other" /\ Return(t, "EINVAL")
               \/ req[t].flags # "other" /\ Goto(t, "ruid") /\ UNCHANGED errno
            /\ UNCHANGED <<req, calls, ids, access>>

(* getuid, geteuid, getgid, getegid *)
AfterRead == [ruid |-> "euid", euid |-> "rgid", rgid |-> "egid", egid |-> "swap uid"]

ReadId(t) == /\ pc[t] \in ReadsIds
             /\ local' = [local EXCEPT ![t][pc[t]] = ids[pc[t]]]
             /\ Goto(t, AfterRead[pc[t]])
             /\ UNCHANGED <<req, errno, calls, ids, judged, own, alone, marred>>

check_euid(t) == local[t].ruid # local[t].euid /\ req[t].flags = "AT_EACCESS"
check_egid(t) == local[t].rgid # local[t].egid /\ req[t].flags = "AT_EACCESS"

setreuid(r, e) == [ids EXCEPT !.ruid = r, !.euid = e]
setregid(r, e) == [ids EXCEPT !.rgid = r, !.egid = e]

SwapUid(t) == /\ At(t, "swap uid")
              /\ ids' = IF check_euid(t) THEN setreuid(local[t].euid, local[t].ruid) ELSE ids
              /\ Goto(t, "swap gid")
              /\ UNCHANGED <<req, errno, calls, access>>

SwapGid(t) == /\ At(t, "swap gid")
              /\ ids' = IF check_egid(t) THEN setregid(local[t].egid, local[t].rgid) ELSE ids
              /\ Goto(t, "path")
              /\ UNCHANGED <<req, errno, calls, access>>

(* The descriptor is not a directory: return -1, the IDs as they are now.  *)
Path(t) == /\ At(t, "path")
           /\ \/ /\ req[t].fd \in {"file", "closed"}
                 /\ Return(t, Refusal(req[t].fd))
                 /\ marred' = (marred \/ check_euid(t) \/ check_egid(t))
              \/ /\ req[t].fd \notin {"file", "closed"}
                 /\ Goto(t, "access") /\ UNCHANGED <<errno, marred>>
           /\ UNCHANGED <<req, calls, ids, local, judged, own, alone>>

Access(t) == /\ At(t, "access")
             /\ judged' = Set(judged, t, [uid |-> ids.ruid, gid |-> ids.rgid])
             /\ errno' = Set(errno, t, OK)
             /\ Goto(t, "back uid")
             /\ UNCHANGED <<req, calls, ids, local, own, alone, marred>>

BackUid_Again(t) == /\ At(t, "back uid")
                    /\ ids' = IF check_euid(t) THEN setreuid(local[t].euid, local[t].ruid) ELSE ids
                    /\ Goto(t, "back gid")
                    /\ UNCHANGED <<req, errno, calls, access>>

BackUid(t) == /\ At(t, "back uid")
              /\ ids' = IF check_euid(t) THEN setreuid(local[t].ruid, local[t].euid) ELSE ids
              /\ Goto(t, "back gid")
              /\ UNCHANGED <<req, errno, calls, access>>

BackGid_Forgotten(t) == /\ At(t, "back gid")
                        /\ Return(t, errno[t])
                        /\ UNCHANGED <<req, calls, ids, access>>

BackGid(t) == /\ At(t, "back gid")
              /\ ids' = IF check_egid(t) THEN setregid(local[t].rgid, local[t].egid) ELSE ids
              /\ Return(t, errno[t])
              /\ UNCHANGED <<req, calls, access>>

faccessat(t) == /\ req[t].fn = "faccessat"
                /\ \/ Flags(t) \/ ReadId(t) \/ SwapUid(t) \/ SwapGid(t)
                   \/ Path(t) \/ Access(t) \/ BackUid(t) \/ BackGid(t)
                /\ UNCHANGED <<entry, where>>

--------------------------------------------------------------------------------
(* Properties. *)

Answer == [uid : {own.ruid, own.euid}, gid : {own.rgid, own.egid}]

FaccessatTypeOK ==
  /\ judged \in [Thread -> Answer]
  /\ alone \in [Thread -> BOOLEAN] /\ marred \in BOOLEAN

(* Whenever no call is under way the program has its own IDs, in every way *)
(* through the function but two: a call for AT_EACCESS whose descriptor is *)
(* refused leaves them swapped, and calls that overlap may.                *)
IdsBack == (\A t \in Thread : pc[t] \notin Swaps) /\ ~marred => ids = own

(* The answer rests on the IDs the caller asked for, the real or the       *)
(* effective ones, unless another thread had a call for AT_EACCESS under   *)
(* way meanwhile.                                                          *)
JudgedRight == \A t \in Thread :
  /\ At(t, "idle") /\ errno[t] = OK /\ req[t].fn = "faccessat"
  /\ alone[t] /\ ~marred
  => judged[t] = IF req[t].flags = "AT_EACCESS" THEN [uid |-> own.euid, gid |-> own.egid]
                                                 ELSE [uid |-> own.ruid, gid |-> own.rgid]
================================================================================
