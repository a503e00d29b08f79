SPECIFICATION FairSpec
CONSTANTS Requests = {r1, r2}
INVARIANT CompletedIsCached
PROPERTY Answered
