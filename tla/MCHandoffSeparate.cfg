SPECIFICATION Spec
CONSTANTS
    Layout = "separate"
    Window = 3
    TypingWindow = 1
    MaxLinkFrame = 3
    Sizes = {2}
    Quota <- FullWindows
INVARIANT HeldWithinLimit
CHECK_DEADLOCK FALSE
