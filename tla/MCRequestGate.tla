--------------------------- MODULE MCRequestGate ---------------------------
EXTENDS RequestGate, TLC

Separately == {[rate |-> TRUE, anchor |-> FALSE], [rate |-> FALSE, anchor |-> TRUE]}
(* A window of three blocks: 10 s of block in a minute is the closest the  *)
(* configuration allows; the shared bucket is one request wider.           *)
Limits == [p \in Policies |-> [window |-> 3, max |-> 2, block |-> 1]]
GlobalLimits == [p \in Policies |-> [window |-> 2, max |-> 3]]
Interchangeable == Permutations(Clients)
=============================================================================
