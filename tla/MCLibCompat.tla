------------------------------ MODULE MCLibCompat ------------------------------
(* Functions of compat/ with their dependencies, and lists that name a     *)
(* function twice, before what it depends on, without it, or that name no  *)
(* function.                                                               *)
EXTENDS LibCompat

CONSTANTS arc4random_buf, CCRandomGenerateBytes, getentropy, realpath_header, misspelt

MCFunc == {arc4random_buf, CCRandomGenerateBytes, getentropy, realpath_header}
MCSourced == MCFunc \ {realpath_header}
MCDeps == [f \in {CCRandomGenerateBytes, getentropy} |-> <<arc4random_buf>>]
MCRequests == {<<CCRandomGenerateBytes, arc4random_buf, getentropy, realpath_header>>,
               <<arc4random_buf, getentropy, CCRandomGenerateBytes>>,
               <<getentropy, CCRandomGenerateBytes>>,
               <<arc4random_buf, realpath_header, arc4random_buf>>,
               <<arc4random_buf, misspelt>>}
================================================================================
