SPECIFICATION FairSpec
CONSTANTS
    Editors = {e1}
    Flows = {sig, api}
    Signal = sig
    MaxEvents = 2
    MaxDeaths = 1
INVARIANT TypeOK
INVARIANT PromptingAlive
INVARIANT CacheFollows
INVARIANT Prompted
PROPERTY FlowMoves
CHECK_DEADLOCK FALSE
