--------------------------------- MODULE MCParts --------------------------------
\* The small protocols, for TLC: their daily limits.
EXTENDS Parts

OneTwoThree == [all |-> 3, background |-> 2, revisit |-> 1]
================================================================================
