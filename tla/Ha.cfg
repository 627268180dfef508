SPECIFICATION HaSpec
CONSTANTS
    None = None
    wan = wan
    dmz = dmz
    lan = lan
    link = link
    Appliances = {a1, a2}
    Ports = {wan, dmz, lan, link}
    Dedicated = link
    Start <- Addresses
    Requests = {r1, r2}
    Choices <- MonitoredChoices
    MaxAsked = 3
    MaxFaults = 1
    Configured = {TRUE, FALSE}
CHECK_DEADLOCK FALSE
SYMMETRY HaSymmetry
INVARIANTS HaTypeOK  StampIsEarned
 
