SPECIFICATION Spec
CONSTANTS
    main = main
    log = log
    sidebar = sidebar
    v0 = v0
    v1 = v1
    Main = main
    Panels = {log, sidebar}
    Synced = {log}
    Views = {v0, v1}
    Default = v0
    Null = Null
    MaxMoves = 2
    MaxDetach = 2
INVARIANT InStepWhenQuiet
CHECK_DEADLOCK FALSE
