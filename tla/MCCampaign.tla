------------------------------ MODULE MCCampaign ------------------------------
(* The last task of a schedule, after seven that one arm alone has solved:   *)
(* the outcome of the last decides, since 7:1 is significant and 6:1 is not. *)
EXTENDS Campaign
TwoArms == <<"B", "C">>
EarlierPairs == {[bOnly |-> 1, cOnly |-> 6]}
=============================================================================
