SPECIFICATION FairSpec
CONSTANTS
    main = main
    log = log
    sidebar = sidebar
    v0 = v0
    v1 = v1
    Main = main
    Panels = {log}
    Synced = {log}
    Views = {v0, v1}
    Default = v0
    Null = Null
    MaxMoves = 2
    MaxDetach = 2
INVARIANTS
    TypeOK
    HiddenPanelHasWindow
    PanelShowsLastQuery
    InStepWhenCalm
PROPERTIES
    EchoesDie

CHECK_DEADLOCK FALSE
