\* Queue and history of two.
CONSTANTS
    MAX_SEND_QUEUE = 2
    TRANSFER_HISTORY_LIMIT = 2
    SEND_AUTO_RETRY_LIMIT = 1
    None = None
    Budgets <- MCBudgets

SPECIFICATION FairSpec

INVARIANT SlotIsTheSenders
INVARIANT EntriesAccounted

PROPERTY HistoryNeverGoesBack
PROPERTY QueueDrains

CHECK_DEADLOCK FALSE
