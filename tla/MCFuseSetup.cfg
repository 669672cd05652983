INIT SetupInit
NEXT SetupNext
CONSTANT SetupOptions <- OptionSpace
CHECK_DEADLOCK FALSE
INVARIANT ChannelOnlyOnSuccess
