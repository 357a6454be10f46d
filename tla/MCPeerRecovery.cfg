SPECIFICATION FairSpec
CONSTANTS
    Policies <- TwoPolicies
    Timeout = 1
    Horizon = 2
INVARIANT NoUseAfterDestroy
PROPERTIES BudgetEarned DeadlineNotRenewed RecoverySettles ReconnectHonoured CloseCompletes StateReported
CHECK_DEADLOCK FALSE
