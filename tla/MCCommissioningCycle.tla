------------------------ MODULE MCCommissioningCycle ------------------------
(* CommissioningCycle with small voltages; lift inputs for the drive run   *)
(* and for the lift run, where micros() moves on after the header is made. *)
EXTENDS CommissioningCycle

OneInput  == {[stick |-> 0, delay |-> 1, api_ok |-> TRUE, agree |-> TRUE, at |-> "middle"]}
StickUp   == [stick : {0, 1}, delay : 0..2, api_ok : {TRUE}, agree : {TRUE},
              at : {"middle", "top"}]
=============================================================================
