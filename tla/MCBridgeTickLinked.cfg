SPECIFICATION MCSpec
CONSTANTS
    p1 = p1
    p2 = p2
    n1 = n1
    n2 = n2
    n3 = n3
    Person <- MCPerson
    Name <- MCName
    GameName <- MCDistinct
    MumbleName <- MCSwapped
    RowGameName <- MCAtLinking
    RowMumbleName <- MCSwapped
    FirstWord <- MCFirstWord
    Cuts <- MCCuts
    TornName = TornName
    TornId = TornId
    NoId = NoId
    Nobody = Nobody
    NoPos = NoPos
    Place <- MCPlace
    Away = Away
    Off = Off
    Audible = 4
    Fade = 1
    Shard = 3
    PanWidth = 2
    MaxLines = 2
    MaxEvents = 4
INVARIANT NobodyIsBorrowed
