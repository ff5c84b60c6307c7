SPECIFICATION Spec
CONSTANTS
    null = null
    Null = null
    None = None
    Address = address
    Columns = {"id", "name", "status"}
    AllRows <- MCAllRows
    LikeMatches <- MCLike
    Conds <- MCConds
    Fields <- MCFields
    Models <- MCModels
    Limits = {0, 1, 2}
    Offsets = {0, 1}
    Tables <- MCTables
    MaxCalls = 4
INVARIANTS ChainsMeanWhatTheySay AnswersMatchRequests TotalsFitPages OneRowOrNone
CHECK_DEADLOCK FALSE
