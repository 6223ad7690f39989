------------------------------- MODULE MCPkgLock -------------------------------
(* Small instances of PkgLock: two runs of either script, started in order  *)
(* on any targets; two builds started at any time; three builds started at  *)
(* any time, with the toolchain in order.  The last two are on two targets, *)
(* of which one choice of each kind is enough.                              *)
EXTENDS PkgLock

CONSTANTS SecondRun, ThirdRun, ThirdTriple

MCInit == /\ Init
          /\ \A r \in Run \ {ThirdRun} : kind[r] # "idle"
          /\ triple[ThirdRun] = DefaultTarget
          /\ \/ orderly /\ kind[ThirdRun] = "idle"
             \/ /\ ~orderly
                /\ \A r \in Run : kind[r] # "toolchain" /\ triple[r] # ThirdTriple
                /\ \/ triple[SecondRun] # DefaultTarget
                   \/ \A r \in Run : triple[r] = DefaultTarget
                /\ tools = "complete"
                /\ current \/ kind[ThirdRun] = "idle"

MCSpec == /\ MCInit /\ [][Next]_vars
          /\ \A r \in Run : WF_vars(Step(r))
================================================================================
