--------------------------- MODULE MCSessionDisk ---------------------------
(* Requests and process ids are interchangeable: nothing orders them.       *)
EXTENDS SessionDisk, TLC

Symmetry == Permutations(Call) \cup Permutations(Proc)
=============================================================================
