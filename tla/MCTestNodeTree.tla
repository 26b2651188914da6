--------------------------- MODULE MCTestNodeTree ---------------------------
(***************************************************************************)
(* Test trees built from paths of up to two parts over two names: enough  *)
(* for a root with two children, a chain of single children above a fork, *)
(* and a node whose parent has no next sibling.                          *)
(***************************************************************************)
EXTENDS TestNodeTree

CONSTANTS a, b

MCNames == {a, b}
=============================================================================
