\* Two wires, OSPF hello of 1 s and dead of 2 s at two ticks per second.
CONSTANTS
    N = 2
    Rank <- MCRank
    Home = 1
    Hello = 2
    Dead = 4
    MaxFault = 2
SPECIFICATION Spec
INVARIANTS HealthyStays PrimaryIsHeld
PROPERTIES OnlyAFrameRevives FindsItsWire
