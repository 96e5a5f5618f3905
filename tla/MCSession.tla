----------------------------- MODULE MCSession -----------------------------
(* A small machine for the session: two drives, a bridge and what hangs on  *)
(* it, a tree drawn briefly and in full, and a long page that overflows in  *)
(* a narrow window only.                                                    *)
EXTENDS Session

TwoDisks     == <<"sda", "nvme0n1">>
Fabric       == [bridge |-> "-", nvme |-> "bridge"]
TwoDensities == << <<"machine", "bridge">>, <<"machine", "-", "bridge", "nvme", "sda">> >>
Heights2     == (0 :> [w \in 1..9 |-> IF w < 4 THEN 3 ELSE 1]) @@ (1 :> [w \in 1..9 |-> 2])
TwoLayers    == <<"host", "user">>
=============================================================================
