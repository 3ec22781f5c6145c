SPECIFICATION Spec
CONSTANTS
    Top = 9
    MaxLabels = 2
    MaxWindow = 9
    MaxRefs = 2
    Programs <- MCPrograms
INVARIANTS NeverReadsStale CarryKnownClear ConstantsHold SlotNoticed OrderKept
    SectionsKept LinkedEverywhere AnalysisEnds
