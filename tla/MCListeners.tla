----------------------------- MODULE MCListeners -----------------------------
(* Two spellings of one name and of one tag, another name, and another tag. *)
EXTENDS Listeners

CONSTANTS bob, Bob, amy, task, Task, note, f, g

FoldCase == [s \in Names \cup Tags |-> IF s = Bob THEN bob ELSE IF s = Task THEN task ELSE s]

Strict == [root |-> task, fields |-> {f}, required |-> {f}, strict |-> TRUE]
Lax == [root |-> task, fields |-> {f, g}, required |-> {g}, strict |-> FALSE]

Listener(name, tag, schema) ==
    [name |-> name, tag |-> tag, isAgent |-> FALSE, peers |-> {}, schema |-> schema]
Agent(name, tag, peers) ==
    [name |-> name, tag |-> tag, isAgent |-> TRUE, peers |-> peers, schema |-> NoSchema]

SomeRegistrations ==
    {Listener(bob, task, Strict), Listener(Bob, Task, NoSchema), Listener(Bob, task, Lax),
     Listener(amy, task, NoSchema), Agent(amy, note, {Bob}), Agent(amy, note, {bob}),
     Agent(amy, task, {}), Agent(bob, note, {amy, bob})}
=============================================================================
