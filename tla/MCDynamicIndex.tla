--------------------------- MODULE MCDynamicIndex ---------------------------
(***************************************************************************)
(* Instances of DynamicIndex: three slots, lists of two neighbours, two    *)
(* threads.                                                                *)
(***************************************************************************)
EXTENDS DynamicIndex

\* Every point is linked with the frozen point and with the one before it.
Chain(n) ==
  [m \in Nodes |->
     IF m = Frozen THEN {s \in Slots : s < n /\ s < 2}
     ELSE IF m < n THEN {Frozen} \cup ({m - 1} \cap Slots) ELSE {}]

BothModes == {TRUE, FALSE}

Symmetric == Permutations(Threads)
=============================================================================
