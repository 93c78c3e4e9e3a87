SPECIFICATION ConversationSpec
CHECK_DEADLOCK FALSE
CONSTANTS
    Keys = {k1, k2}
    Contents = {text}
    Calls = {c1, c2}
    PerMinute = 2
    NoContent = NoContent
    Failures = FALSE
INVARIANT NothingLeftPending
