SPECIFICATION FocusSpec
CONSTANTS
    Worlds <- worlds
    Materials = {"cloth", "thread"}
    Sam = 3
    Step = 4
    Parts = 2
    Residue <- residue
    Shortfall <- shortfall
    Base <- base
    Passages = {"p1", "p2"}
    Candidates <- candidates
    ToolLimit = 2
    MaxRepairs = 1
    CallLimit = 5
    Attempts = 2
    Longest = 2
    Operations = 3
    Operators <- operators
    Seconds = {3, 5, 8}
    MinSamples = 2
    MaxSamples = 3
    PlannedCycle = 4
INVARIANTS ProposalFitsSnapshot EarliestIsBest FinalPlanIsCovered ResultIsValid
PROPERTY WarningsStand
CHECK_DEADLOCK FALSE
