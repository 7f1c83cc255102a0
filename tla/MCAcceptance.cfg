\* Two requests, every batch of up to two items over two client_refs.
CONSTANTS
    r1 = r1
    r2 = r2
    Requests = {r1, r2}
    a = a
    b = b
    Refs = {a, b}
    NoRef = NoRef
    x = x
    y = y
    z = z
    Bodies = {x, y}
    Segments <- SegmentsOf
    PerSegment <- PriceOf
    MaxSegments = 2
    MaxItems = 2
    Credits = 3
    None = None
SPECIFICATION FairSpec
INVARIANTS
    AnswersAreTrue
    AllOrNothing
    RepeatIsReplayed
PROPERTIES
    ImplementsLedger
    EveryRequestAnswered
