SPECIFICATION Spec
CONSTANTS
    r1 = r1
    r2 = r2
    r3 = r3
    p1 = p1
    p2 = p2
    p3 = p3
    Infos <- MCInfos
    Rows <- MCRows
    PlNames <- MCPlNames
    Offset = 1
    SortKeys <- MCSortKeys
    Options <- MCOptions
    Caps <- MCCaps
    Key <- MCKey
    Duration <- MCDuration
    File <- MCFile
    Texts <- MCTexts
    Accepts <- MCAccepts
    IsExpr <- MCIsExpr
    Harmless <- MCHarmless
    Includes <- MCIncludes
SYMMETRY Symmetric
INVARIANTS SelectionIsShown OrdersAgree LibraryIsSound
PROPERTIES CurSurvivesFilters ListsKeepOrder
