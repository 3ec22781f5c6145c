SPECIFICATION Spec
CONSTANTS
    Width = 4
    Guest = {0, 1, 2, 3, 4}
    FramePointer = 3
    Link = 2
    ReturnPC = 5
    Unmapped = {1}
    Data <- MCData
    Named <- MCNamed
    Values <- MCFlowValues
    Crowds <- MCFlowCrowds
    Slots <- MCSlots
    Immediate = {0, 3}
    Groups = {"branch"}
    MaxOpcodes = 1
INVARIANTS StateAgrees BranchesAgree
CHECK_DEADLOCK FALSE
