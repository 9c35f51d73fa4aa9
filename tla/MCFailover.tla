---------------------------- MODULE MCFailover ----------------------------
(* Small clusters for TLC: server 1 is the designated primary, the others     *)
(* stand by.                                                                  *)
EXTENDS Failover

CONSTANTS c1, c2

OneStandby == <<"primary", "standby">>
TwoStandbys == <<"primary", "standby", "standby">>
=============================================================================
