SPECIFICATION Spec
CONSTANTS
    bob = bob
    Bob = Bob
    amy = amy
    task = task
    Task = Task
    note = note
    f = f
    g = g
    Names = {bob, Bob, amy}
    Tags = {task, Task, note}
    Lower <- FoldCase
    Fields = {f, g}
    Registrations <- SomeRegistrations
    NoSchema = NoSchema
    MaxRegistered = 4
INVARIANT HandlersGetCheckedPayloads
CHECK_DEADLOCK FALSE
