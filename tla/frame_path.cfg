CONSTANTS
    Boards <- ThreeBoards
    Builds <- ThreeBuilds
    Sizes = {1, 2}
    RingFrames = 2
    MaxRevision = 1
    MaxAge = 3
SPECIFICATION Spec
INVARIANTS
    UsesHeld
    RestIsHonest
    QuietQueues
    TypeOK
    DispatchClean
    ReferenceLag
    PreviousFrame
    SpecFollowed
PROPERTIES
    PathContract
