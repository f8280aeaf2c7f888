SPECIFICATION Spec
CONSTANTS
    Items = {1, 2}
    Conns = {1, 2}
    SendCap = 1
    ChanCap = 1
    Budgets <- MCBudgets
    PageSize = 1
    Xhrs = {1, 2}
INVARIANTS
    TypeOK
    NoSendOnClosed
    HubFresh
    PagesCollapsed
    SessionFresh
    NoOtherDeadlock
CHECK_DEADLOCK FALSE
