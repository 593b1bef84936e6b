------------------------------ MODULE MCChooser ------------------------------
(* An instance of Chooser for TLC: the built-in list with two of its six    *)
(* dmenu choosers, and every configuration (chooser_cmd is not looked at    *)
(* when chooser_type is default).                                           *)
EXTENDS Chooser

MCDefaultChooser == <<"simple", "dmenu", "dmenu">>

MCConfigs == [type : Types \union {"none"}, given : BOOLEAN]
               \union {[type |-> "default", given |-> FALSE]}

MCMasks == (SUBSET {"MONITOR", "WINDOW"}) \ {{}}
=============================================================================
