------------------------------- MODULE MCGroupSend -----------------------------
(***************************************************************************)
(* TLC instances of GroupSend: fan-outs and people as model values.        *)
(***************************************************************************)
EXTENDS GroupSend

CONSTANTS b1, b2, ann, bob
================================================================================
