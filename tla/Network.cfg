SPECIFICATION NetSpec
CONSTANTS
    None = None
    Plain = Plain
    Requests = {r1, r2, r3}
    MaxInFlight = 2
    p1 = p1
    p2 = p2
    p3 = p3
    lag1 = lag1
    ra = ra
    rb = rb
    rc = rc
    a1 = a1
    dmz = dmz
    Ports = {p1, p2, p3}
    HaPorts = {p3}
    Bonds = {lag1, lag2}
    Bridges = {br1}
    Vlans = {v1}
    Ips = {a1, a2}
    MaxFaults = 1
    Routes = {ra, rb, rc}
    KindOf <- Kinds
    Menus <- AllMenus
    PortSets <- PortPairs
    Parents <- VlanParents
    Address <- OneAddress
    OldFields = dmz
    MaxStops = 1
CHECK_DEADLOCK FALSE
SYMMETRY NetSymmetry
INVARIANTS NetTypeOK ZebraIsCurrent FailedBondIsUndone
PROPERTIES AloneIsRecorded NoOldAddress
