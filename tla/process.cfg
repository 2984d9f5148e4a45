SPECIFICATION MCSpec
CONSTANTS
    Plugins <- MCPlugins
    Kind <- MCKind
    WebUi = "webui_channel"
    NeedsLoop = {"acp_channel"}
    Linked = {"acp_channel"}
    Unjoined = {"feishu_channel"}
    MaxRequests = 2
    MaxFailures = 1
INVARIANTS
    PluginsSafe
PROPERTIES
    ShutdownEnds
CHECK_DEADLOCK FALSE
