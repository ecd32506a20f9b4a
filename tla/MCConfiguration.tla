-------------------------- MODULE MCConfiguration ---------------------------
(***************************************************************************)
(* What BOB's constructor derives from the configuration, the widths of    *)
(* the fields of an address (BOB.cpp:60-83) and the ratios of the clocks   *)
(* (BOB.cpp:93-98), at work: in every CPU cycle BOB::Update advances the   *)
(* clocks, and the address of the next request is mapped.                  *)
(***************************************************************************)
EXTENDS MCAddressMapping, ClockDomain

ASSUME PeriodsAssumption == ClockAssumption

ConfigurationInit == Init /\ ClockInit

ConfigurationNext == MapNext /\ ClockNext

ConfigurationSpec ==
    ConfigurationInit /\ [][ConfigurationNext]_<<vars, clockVars>>

=============================================================================
