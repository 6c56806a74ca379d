SPECIFICATION Spec
CONSTANTS
    Projects <- MCProjects
    Unwritten = Unwritten
    Linter = "paircheck"
INVARIANTS
    NothingHidden
    VetReportsKept
    CommandAgrees
    FailuresHideNothing
    UnusedRulesIdle
