SPECIFICATION MCSpec
CONSTANTS
    MaxChain = 3
    None = None
    Envelopes <- SomeEnvelopes
    Foreign <- SomeForeign
    MaxNesting = 2
    Elements = {r, f, g, x}
    Schemas <- SomeSchemas
    MaxEvents = 6
    r = r
    x = x
    bob = bob
    Bob = Bob
    amy = amy
    task = task
    Task = Task
    note = note
    f = f
    g = g
    Names = {bob, Bob, amy}
    Tags = {task, Task, note}
    Lower <- FoldCase
    Fields = {f, g}
    Registrations <- SomeRegistrations
    NoSchema = NoSchema
    MaxRegistered = 4
INVARIANTS HandlerPastAllGates ResponsesPassAllLayers
INVARIANTS RoundTrips AcceptedIsClosed ValidatorsAgree
INVARIANTS FirstRegistrationRoutes LastRegistrationGoverns AgentsReachPeersOnly
PROPERTY DecoderEnds
CHECK_DEADLOCK FALSE
