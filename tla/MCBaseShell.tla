------------------------------ MODULE MCBaseShell ------------------------------
(* Two shells and a call of chsh, or a shell and two calls of chsh that     *)
(* want different shells; and postinst.                                     *)
EXTENDS BaseShell, TLC

CONSTANTS u2, c1, c2

MCWants == (c1 :> "zsh") @@ (c2 :> "bash")

MCInit == /\ Init
          /\ \A p \in (User \cup Changer) \ {u2, c2} : ~At(p, "idle")
          /\ At(u2, "idle") # At(c2, "idle")

MCSpec == MCInit /\ [][Next]_vars
================================================================================
