CONSTANTS
    NameRank <- MCNameRank
    ExtRank <- MCExtRank
    INNER_H = 2
    VWR_BUF = 4
    VWR_MAX_LINES = 3
    VWIN_H = 1
    HEX_ROW = 2
    LAU_MAX = 4
    LAU_VROWS = 2
    Start <- MCMany
    Home <- MCHome
    Keys = {"Enter", "Down", "End", "Home", "PgUp", "PgDn", "F2", "F3", "F9", "F10", "Ctrl+R"}
    Typed <- NothingTyped
    NewNames = {"A", "B"}
    Cut = "E"
    DLG_FIELD_W = 1
    Text <- MCText
    Menus <- MCMenus
    MaxChanges = 1
SPECIFICATION Spec
INVARIANTS
    OneOrder
    ViewerShowsAll
    CursorVisible
