---------------------------- MODULE MCPPCaching ----------------------------
(* PPCaching for model checking: all translation units of up to three      *)
(* tokens over two token kinds.                                            *)
EXTENDS PPCaching

CONSTANTS x, y

MCTokens == {x, y}
MCSources == UNION {[1..n -> MCTokens] : n \in 0..3}
============================================================================
