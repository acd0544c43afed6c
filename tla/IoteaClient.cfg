SPECIFICATION FairSpec
CONSTANTS
    SubscribeGap = 2
    QueryGap = 1
    MaxRequests = 3
    MaxSubs = 2
INVARIANT SubscribedIsTrue
PROPERTY Resubscribes
