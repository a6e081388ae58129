SPECIFICATION Spec
CONSTANTS
    Platforms <- MCPlatforms
    Hards <- MCHards
    Start = 1
    Memory = 6
    Budgets = {2, 3}
    Times = {1, 2}
    MaxTasks = 3
INVARIANTS
    TypeOK
    AlarmFitsTask
    NotStarved
    WithinBudget
    OneAnswerEach
