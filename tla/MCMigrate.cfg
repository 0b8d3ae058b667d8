SPECIFICATION Spec
CONSTANTS
    Runners = {"new1", "new2", "old"}
    Files <- ThreeFiles
    Build <- OldAndNew
    Repeatable <- LastFile
INVARIANTS AppliedOnce InOrder
PROPERTIES RunsEnd
