-------------------------- MODULE MCBootTransition --------------------------
(***************************************************************************)
(* An instance of BootTransition for TLC.                                  *)
(***************************************************************************)
EXTENDS BootTransition

\* The observation before a commit, the commit, and the cold boot after it.
CommitCampaign ==
    {[phase |-> "pre_observation", operation |-> "program_customer_key_and_eeprom"],
     [phase |-> "execute", operation |-> "program_customer_key_and_eeprom"],
     [phase |-> "execute", operation |-> "cold_power_cycle"]}
=============================================================================
