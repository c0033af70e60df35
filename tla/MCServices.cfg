\* The node on the pin of interrupt 0; R and protocol 1 come with "node live",
\* G with "node get".
SPECIFICATION MCSpec
CONSTANTS
    Protocols = {0}
    PinNums = {2}
    Data = {0, 1}
    Types = {"S", "P"}
    MaxInbox = 1
    RETRY_MAX = 2
CHECK_DEADLOCK FALSE
INVARIANTS NodeSafe NoAbort CalledOnce NotForgotten CountsAgree MessagesFramed TextsMean CommandsIntact
PROPERTIES EventuallyAnswered
