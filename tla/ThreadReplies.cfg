SPECIFICATION FairSpec
CONSTANTS
    author = author
    local = local
    remote = remote
    outsider = outsider
    Author = author
    Replies <- MCReplies
    Accounts <- MCAccounts
    Visible <- MCVisible
    Remote <- MCRemote
    Scenarios <- MCScenarios
    Attempts = 2
    MaxFaults = 1
INVARIANTS
    ParentLinked
    RepliersFollow
    UnreadReaches
    MentionsMatchReads
PROPERTIES
    EveryReplySettles
CHECK_DEADLOCK FALSE
