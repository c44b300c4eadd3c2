-------------------------- MODULE MCWifiDispatcher --------------------------
(* One saved network and one other. *)
EXTENDS WifiDispatcher
CONSTANTS home, away
TwoNetworks == {home, away}
=============================================================================
