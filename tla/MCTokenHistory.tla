---------------------------- MODULE MCTokenHistory ----------------------------
(***************************************************************************)
(* The token contract and its history on small instances.                  *)
(***************************************************************************)
EXTENDS TokenHistory, MCToken
===============================================================================
