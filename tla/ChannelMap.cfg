SPECIFICATION Spec
CONSTANTS
    Names = {"a", "b"}
    MaxLength = 2
    MaxMessages = 4
INVARIANTS TypeOK ThreadsOwnWhatTheyUse ChannelsAccountedFor SafeUnlessShared
