----------------------------- MODULE CallChains -----------------------------
(***************************************************************************)
(* The thread registry's data (thread.rs): opaque thread ids mapped both   *)
(* ways to call chains.  A chain is the sequence of its dot-separated      *)
(* segments.  The operations are operators on a registry value, for the    *)
(* modules that use a registry to share; each is atomic, being called      *)
(* under the mutex the pipeline wraps the registry in.                     *)
(***************************************************************************)
EXTENDS Naturals, Sequences, Functions

CONSTANTS
    Ids,        \* thread ids
    Names,      \* listener names, none of them containing a dot
    System,     \* the segment "system" of the root chain
    Organism,   \* the name the root is initialized with
    NoRoot      \* root_uuid = None

Segments == Names \cup {System, Organism}

Chains == Seq(Segments) \ {<<>>}

\* What a registry's maps hold,
IsRegistry(r) ==
    /\ r = [chainOf |-> r.chainOf, uuidOf |-> r.uuidOf, root |-> r.root]
    /\ r.chainOf \in [DOMAIN r.chainOf -> Chains] /\ DOMAIN r.chainOf \subseteq Ids
    /\ r.uuidOf \in [DOMAIN r.uuidOf -> Ids]      /\ DOMAIN r.uuidOf \subseteq Chains
    /\ r.root \in Ids \cup {NoRoot}

\* and that they are inverse to each other.
Inverses(r) ==
    /\ \A id \in DOMAIN r.chainOf :
         r.chainOf[id] \in DOMAIN r.uuidOf /\ r.uuidOf[r.chainOf[id]] = id
    /\ \A chain \in DOMAIN r.uuidOf :
         r.uuidOf[chain] \in DOMAIN r.chainOf /\ r.chainOf[r.uuidOf[chain]] = chain

\* Front and Last, of the non-empty chains they are used on.
AllButLast(chain) == SubSeq(chain, 1, Len(chain) - 1)
LastOf(chain) == chain[Len(chain)]

\* HashMap::insert.
Insert(f, k, v) == [x \in DOMAIN f \cup {k} |-> IF x = k THEN v ELSE f[x]]

\* ThreadRegistry::new: no mapping and no root.
EmptyRegistry ==
    [chainOf |-> [i \in {} |-> <<>>], uuidOf |-> [c \in {} |-> NoRoot], root |-> NoRoot]

\* The chain of every thread when a root is set.
RootChain == <<System, Organism>>

\* lookup: is the id registered?
Known(r, id) == id \in DOMAIN r.chainOf

\* Mutant of Bind: only one map gets it.
BindOneWay(r, id, chain) ==
    [chainOf |-> r.chainOf,
     uuidOf  |-> Insert(r.uuidOf, chain, id),
     root    |-> r.root]

\* Both maps get the pair.
Bind(r, id, chain) ==
    [chainOf |-> Insert(r.chainOf, id, chain),
     uuidOf  |-> Insert(r.uuidOf, chain, id),
     root    |-> r.root]

\* get_or_create, `fresh` being the UUID it generates if the chain has none.
\* The id returned is the chain's in the new registry: uuidOf[chain].
GetOrCreate(r, chain, fresh) ==
    IF chain \in DOMAIN r.uuidOf THEN r ELSE Bind(r, fresh, chain)

\* initialize_root: idempotent.
InitializeRoot(r, fresh) ==
    IF r.root # NoRoot THEN r ELSE Bind([r EXCEPT !.root = fresh], fresh, RootChain)

\* Mutant of RegisterThread: an id that is already known is registered again.
RegisterThreadAgain(r, id, initiator, target) ==
    LET chain == (IF r.root # NoRoot THEN RootChain ELSE <<>>) \o <<initiator, target>>
    IN  IF chain \in DOMAIN r.uuidOf THEN r ELSE Bind(r, id, chain)

\* register_thread: nothing is bound when the id is known, nor when its chain
\* already belongs to another id.
RegisterThread(r, id, initiator, target) ==
    LET chain == (IF r.root # NoRoot THEN RootChain ELSE <<>>) \o <<initiator, target>>
    IN  IF Known(r, id) \/ chain \in DOMAIN r.uuidOf THEN r ELSE Bind(r, id, chain)

\* Mutant of ExtendedChain: the hop is put in front.
ExtendedChainInFront(r, id, hop) ==
    <<hop>> \o (IF Known(r, id) THEN r.chainOf[id] ELSE <<>>)

\* extend_chain: an unknown id counts as the empty chain.
ExtendedChain(r, id, hop) ==
    Append(IF Known(r, id) THEN r.chainOf[id] ELSE <<>>, hop)

ExtendChain(r, id, hop, fresh) == GetOrCreate(r, ExtendedChain(r, id, hop), fresh)

\* Mutant of Cleanup: the chain keeps its id.
CleanupOneWay(r, id) ==
    IF Known(r, id)
    THEN [chainOf |-> Restrict(r.chainOf, DOMAIN r.chainOf \ {id}),
          uuidOf  |-> r.uuidOf,
          root    |-> r.root]
    ELSE r

\* cleanup: both directions go.
Cleanup(r, id) ==
    IF Known(r, id)
    THEN [chainOf |-> Restrict(r.chainOf, DOMAIN r.chainOf \ {id}),
          uuidOf  |-> Restrict(r.uuidOf, DOMAIN r.uuidOf \ {r.chainOf[id]}),
          root    |-> r.root]
    ELSE r

\* prune_for_response yields Some: there is a caller to respond to.
HasCaller(r, id) == Known(r, id) /\ Len(r.chainOf[id]) > 1

\* The registry after prune_for_response; an exhausted chain is cleaned up.
PruneForResponse(r, id, fresh) ==
    IF HasCaller(r, id)
    THEN GetOrCreate(r, AllButLast(r.chainOf[id]), fresh)
    ELSE Cleanup(r, id)

\* PruneResult, once the pruned chain has an id (registry q, after the call).
PruneTarget(r, id) == LastOf(AllButLast(r.chainOf[id]))
PruneThread(r, q, id) == q.uuidOf[AllButLast(r.chainOf[id])]
=============================================================================
