CONSTANTS
    NameRank <- MCNameRank
    ExtRank <- MCExtRank
    INNER_H = 2
    VWR_BUF = 3
    VWR_MAX_LINES = 2
    VWIN_H = 1
    HEX_ROW = 2
    LAU_MAX = 4
    LAU_VROWS = 2
    Start <- MCFiles
    Home <- MCHome
    Keys = {"Up", "Down", "Enter", "Tab", "F5", "F6", "F7", "F8", "F12"}
    Typed <- MCTyped
    NewNames = {"A", "B"}
    Cut = "E"
    DLG_FIELD_W = 1
    Text <- MCText
    Menus <- MCMenus
    MaxChanges = 2
SPECIFICATION Spec
INVARIANTS
    PanelsShowDisk
PROPERTIES
    OnlyNamedChanges
    MoveKeepsContents
