------------------------------- MODULE MCGetDelim -------------------------------
(* Two threads and a file of four lines, the last one without delimiter.   *)
EXTENDS GetDelim

CONSTANTS a, nl

MCFile == <<a, a, a, nl, nl, a, nl, a>>
================================================================================
