--------------------------------- MODULE MCTriage ------------------------------
(***************************************************************************)
(* TLC instances of TriageEngine.                                          *)
(***************************************************************************)
EXTENDS TriageEngine, TLC

CONSTANTS e1, e2, w1, w2, noJob, noToken

OneThread  == [m \in Messages |-> 1]
SentBeside == [m \in Messages |-> IF m = 1 THEN 1 ELSE 2]   \* a sent copy beside the second
OneEach    == w1 :> e1 @@ w2 :> e2     \* two engines of one worker
OneEngine  == [w \in Workers |-> e1]

\* Engines are interchangeable, together with their workers.
Swapped        == (w1 :> w2) @@ (w2 :> w1) @@ (e1 :> e2) @@ (e2 :> e1)
EngineSymmetry == {Swapped, [x \in DOMAIN Swapped |-> x]}
WorkerSymmetry == Permutations({w1, w2})
================================================================================
