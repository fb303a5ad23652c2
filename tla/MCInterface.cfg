SPECIFICATION FairInterfaceSpec
CONSTANTS
    Shells = {"page", "window"}
    Cap = 1
    Attempts = 2
    MaxEvents = 2
    MaxQuestions <- MCMaxQuestions
    MaxCalls = 1
    MaxLosses = 1
    MaxPackets = 1
INVARIANT InterfaceInv
PROPERTY AnswersWereMeant
PROPERTY InterfaceGoesOn
CHECK_DEADLOCK FALSE
