------------------------------ MODULE MCPhotoWork ------------------------------
(***************************************************************************)
(* Small instances of PhotoWork: the index stage hands estimate_location   *)
(* on, and one thread serves each stage.                                   *)
(***************************************************************************)
EXTENDS PhotoWork, TLC

CONSTANTS w1, w2, c1, c2, index, estimate

MCStages   == {index, estimate}
MCHandsOff == [s \in MCStages |-> IF s = index THEN {estimate} ELSE {}]
MCWorkers  == {w1, w2}
MCStageOf  == (w1 :> index) @@ (w2 :> estimate)

MCClients == {c1, c2}

================================================================================
