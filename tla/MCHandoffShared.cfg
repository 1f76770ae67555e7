SPECIFICATION FairSpec
CONSTANTS
    Layout = "shared"
    Window = 12
    TypingWindow = 2
    MaxLinkFrame = 6
    Sizes = {2}
    Quota <- BothWays
INVARIANTS TypeOK InOrderOnce BudgetNeverDropsDirect KeptCoversLoss
PROPERTIES StreamSpec PathMovesTwice NothingStranded AttemptSettles
CHECK_DEADLOCK FALSE
