----------------------------- MODULE MCNetwork -----------------------------
(***************************************************************************)
(* Network with three ports, one of them in use by high availability, two  *)
(* bonds, a bridge, a VLAN, and three routes of two kinds.                 *)
(***************************************************************************)
EXTENDS Network, TLC

CONSTANTS p1, p2, p3, lag1, ra, rb, rc, a1, dmz

NoMasters == [p \in Ports |-> None]
PairInBond == [p \in Ports |-> IF p \in {p1, p2} THEN lag1 ELSE None]
OneAddress == [p \in Ports |-> a1]
PortPairs == {{p1, p2}, {p2, p3}}
VlanParents == {lag1}
Kinds == [x \in Routes |-> IF x = rc THEN "ipv6_unicast" ELSE "ipv4_unicast"]
Menu(sections, fields, masters) == [sections |-> sections, fields |-> fields, masters |-> masters]
AllMenus == {Menu({"device"}, {Plain}, NoMasters),
             Menu(RouteKinds, {Plain}, NoMasters),
             Menu({"bond", "bridge"}, {Plain}, NoMasters),
             Menu({"bond", "vlan"}, {Plain}, PairInBond)}

NetSymmetry == Permutations(Requests)
=============================================================================
