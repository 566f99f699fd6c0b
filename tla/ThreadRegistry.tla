--------------------------- MODULE ThreadRegistry ---------------------------
(***************************************************************************)
(* The thread registry (thread.rs) as a state machine, under any sequence  *)
(* of calls of its operations, which module CallChains defines.            *)
(***************************************************************************)
EXTENDS CallChains

CONSTANTS
    External,   \* the ids external messages may carry; no UUID equals one
    MaxDepth    \* bound: chains are extended up to this length

ASSUME RegistryAssumption ==
    /\ External \subseteq Ids
    /\ NoRoot \notin Ids
    /\ MaxDepth \in Nat

VARIABLES
    registry,
    minted,     \* UUIDs generated so far: Uuid::new_v4 never repeats
    calls       \* history: calls made with extend_chain, as caller thread, hop
                \* and callee thread, while both threads stay registered

vars == <<registry, minted, calls>>

TypeOK ==
    /\ IsRegistry(registry)
    /\ minted \subseteq Ids \ External
    /\ calls \subseteq [caller : Ids, hop : Names, thread : Ids]

Init == registry = EmptyRegistry /\ minted = {} /\ calls = {}

\* The calls between threads that registry r still has.
Remaining(r) == {c \in calls : Known(r, c.caller) /\ Known(r, c.thread)}

\* What an operation is given for a UUID: a new one, or NoRoot where it must do
\* without, which TakesPlace admits only if it generates none.
Fresh == (Ids \ (minted \cup External)) \cup {NoRoot}

\* The registry becomes r.
TakesPlace(r) ==
    /\ ~Known(r, NoRoot)
    /\ registry' = r
    /\ minted' = minted \cup (DOMAIN r.chainOf \ External)

Becomes(r) == TakesPlace(r) /\ calls' = Remaining(r)

\* Documented to be called once, at startup.
InitRoot ==
    /\ registry = EmptyRegistry
    /\ \E fresh \in Fresh : Becomes(InitializeRoot(registry, fresh))

\* The route stage meets a thread id.  It may be any id a message carries.
Register ==
    \E id \in External \cup minted, i, t \in Names : Becomes(RegisterThread(registry, id, i, t))

StartChain ==
    \E i, t \in Names, fresh \in Fresh : Becomes(GetOrCreate(registry, <<i, t>>, fresh))

\* A handler on thread `id` calls `hop`.
Extend ==
    \E id \in External \cup minted, hop \in Names, fresh \in Fresh :
        LET chain == ExtendedChain(registry, id, hop)
            r == ExtendChain(registry, id, hop, fresh)
        IN  /\ Len(chain) <= MaxDepth
            /\ TakesPlace(r)
            /\ calls' = IF Known(registry, id)
                        THEN calls \cup {[caller |-> id, hop |-> hop, thread |-> r.uuidOf[chain]]}
                        ELSE calls

\* A handler on thread `id` responds.
Prune ==
    \E id \in External \cup minted, fresh \in Fresh :
        Becomes(PruneForResponse(registry, id, fresh))

CleanUp == \E id \in External \cup minted : Becomes(Cleanup(registry, id))

Clear == Becomes(EmptyRegistry)

Next == InitRoot \/ Register \/ StartChain \/ Extend \/ Prune \/ CleanUp \/ Clear

Spec == Init /\ [][Next]_vars
-----------------------------------------------------------------------------
(* Properties.                                                             *)

\* The two maps are inverse to each other, whatever is registered, extended,
\* pruned and cleaned up (thread.rs:23-37): no chain is left behind by a
\* cleanup and no two threads share one.
MapsAreInverse == Inverses(registry)

\* A response retraces the call: while a caller's thread and the thread it
\* called on are registered, pruning the latter leads to the caller's own
\* name and thread (thread.rs:10-15), whatever happened in between.
ResponsesRetraceCalls ==
    \A c \in calls :
        LET q == PruneForResponse(registry, c.thread, NoRoot)
        IN  /\ HasCaller(registry, c.thread)
            /\ PruneTarget(registry, c.thread) = LastOf(registry.chainOf[c.caller])
            /\ PruneThread(registry, q, c.thread) = c.caller

\* A thread id that stays registered keeps its chain: handlers hold ids across
\* calls, so an id must never come to mean another conversation.
IdsKeepTheirChain ==
    [][\A id \in DOMAIN registry.chainOf \cap DOMAIN registry'.chainOf :
           registry'.chainOf[id] = registry.chainOf[id]]_vars
=============================================================================
