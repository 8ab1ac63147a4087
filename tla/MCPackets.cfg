SPECIFICATION FairSpec
CONSTANTS
    NPacket = 2
    NDev = 2
    Unsteady = {2}
    ByHand = {2}
    ModulePrio = {2}
    ModuleVerdicts = {"NF_DROP", "NF_QUEUE"}
    ShotPrio = {3}
    ShotHook = {"FORWARD"}
    MaxShots = 1
    MaxIds = 2
INVARIANTS EveryPacketAccounted 
PROPERTIES OneLife CommandsEnd
CHECK_DEADLOCK FALSE
