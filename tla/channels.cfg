SPECIFICATION ChannelsSpec
CONSTANTS
    BotKinds = {"feishu", "dingtalk"}
    Events = {"m1", "m2", "m3"}
    Messages = {"m1", "m2"}
    SplitEvents = {"m2", "m3"}
    DedupSize = 2
    SlotCount = 1
    MaxReconnects = 2
    MaxBotMishaps = 3
    Replies <- MCReplies
    MaxReplies = 2
    MaxNetMishaps = 2
    Polls = {"p1", "p2", "p3"}
    PollChat <- MCPollChat
    Answers = {1, 2, 3}
    AnswerChat <- MCAnswerChat
    MaxStale = 1
INVARIANTS
    ReceiverSafe
    SendSafe
    UiSafe
PROPERTIES
    MessageArrives
    StopReturns
    SendReturns
    PollAnswered
CHECK_DEADLOCK FALSE
