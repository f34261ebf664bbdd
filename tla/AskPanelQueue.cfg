\* The smallest instance in which a follow-up is left in the queue.
SPECIFICATION AskPanelSpec
CONSTANTS
  MaxAsks = 2
  MaxChatResets = 0
  MaxPanelOpens = 1
CHECK_DEADLOCK FALSE
INVARIANT QueuedFollowUpsStart
