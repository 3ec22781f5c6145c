SPECIFICATION Spec
CONSTANTS
    Width = 4
    Guest = {0, 1, 2, 3, 4}
    FramePointer = 3
    Link = 2
    ReturnPC = 5
    Unmapped = {1}
    Data <- MCData
    Named <- MCNamed
    Values <- MCValues
    Crowds <- MCCrowds
    Slots <- MCSlots
    Immediate = {0, 1, 3}
    Groups = {"compute", "memory"}
    MaxOpcodes = 1
INVARIANTS StateAgrees MemoryAgrees CacheSound RegistersSuffice
CHECK_DEADLOCK FALSE
