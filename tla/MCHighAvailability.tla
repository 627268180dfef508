------------------------ MODULE MCHighAvailability ------------------------
(***************************************************************************)
(* HighAvailability with the dedicated port (link), two monitored ports,   *)
(* one with a base address (wan) and one without (dmz), and one port that  *)
(* is not monitored (lan).                                                 *)
(***************************************************************************)
EXTENDS HighAvailability, TLC

CONSTANTS wan, dmz, lan, link

\* One address of each appliance stands for those of its ports.
Addresses == [a \in Appliances |-> [p \in Ports |-> a]]
MonitoredChoices == {[p \in {wan, dmz} |-> p = wan]}

HaSymmetry == Permutations(Requests) \cup Permutations(Appliances)
=============================================================================
