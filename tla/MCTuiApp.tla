------------------------------ MODULE MCTuiApp ------------------------------
(* Two models, a plan saved for one of them, one entry in each list of     *)
(* settings, two modes, two advanced fields (one of them a text where the  *)
(* configuration says so) and a token editor with one digit.               *)
EXTENDS TuiApp

OnePreset == <<"r1">>
EightTokens == <<8>>
OneTest == <<[ram_preset |-> 0, mode |-> "Balanced", tokens_preset |-> 0]>>
TwoModes == <<"Balanced", "Advanced">>
TwoFields == <<"AdvancedThreads", "AdvancedCache">>
TwoModels == {"m1", "m2"}
TwoCaps == [m1 |-> 9, m2 |-> 8]
OnePlan == {[model |-> "m1", ram |-> "r1", mode |-> "Advanced"]}
=============================================================================
