----------------------------- MODULE MCPaperCycles -----------------------------
(* Two processes that may each run cycles and commands, two bundle names, a  *)
(* bundle of two files and its manifest.                                     *)
EXTENDS PaperCycles

CONSTANTS p1, p2, n1, n2

MCProcs == {p1, p2}
MCNames == {n1, n2}
MCPayload == {"model", "config"}
================================================================================
