-------------------------- MODULE CallChains_proofs --------------------------
(***************************************************************************)
(* What the registry's operations preserve: lemmas for the modules that    *)
(* prove something about a machine with a registry.                        *)
(***************************************************************************)
EXTENDS CallChains, SequenceTheorems, TLAPS

\* A registry as the operations leave it.
Good(r) == IsRegistry(r) /\ Inverses(r)

\* What an operation on the registry preserves: an id that is still there has
\* its chain.
Keeps(r, q) ==
    \A id \in DOMAIN r.chainOf \cap DOMAIN q.chainOf : q.chainOf[id] = r.chainOf[id]

\* Names and System and Organism are segments; a name extends a chain.
LEMMA ChainFacts ==
    /\ \A i, t \in Names : <<i, t>> \in Chains /\ RootChain \o <<i, t>> \in Chains
    /\ RootChain \in Chains
    /\ \A c \in Chains : \A n \in Names : Append(c, n) \in Chains
    /\ \A n \in Names : Append(<<>>, n) \in Chains
    /\ \A c \in Chains : Len(c) > 1 => AllButLast(c) \in Chains
    /\ \A c \in Chains : \A n \in Names : AllButLast(Append(c, n)) = c
    /\ \A c \in Chains : \A n \in Names : Len(Append(c, n)) > 1
<1>1. \A i, t \in Names : <<i, t>> \in Chains /\ RootChain \o <<i, t>> \in Chains
  BY DEF Chains, Segments, RootChain
<1>2. RootChain \in Chains
  BY DEF Chains, Segments, RootChain
<1>3. \A c \in Chains : \A n \in Names : Append(c, n) \in Chains
  BY AppendProperties DEF Chains, Segments
<1>4. \A n \in Names : Append(<<>>, n) \in Chains
  BY DEF Chains, Segments
<1>5. \A c \in Chains : Len(c) > 1 => AllButLast(c) \in Chains
  <2> SUFFICES ASSUME NEW c \in Seq(Segments), Len(c) > 1
               PROVE  AllButLast(c) \in Seq(Segments) /\ AllButLast(c) # <<>>
    BY DEF Chains
  <2>1. /\ Len(c) \in Nat
        /\ \A i \in 1..(Len(c) - 1) : c[i] \in Segments
    BY LenProperties, ElementOfSeq
  <2>2. /\ AllButLast(c) \in Seq(Segments)
        /\ Len(AllButLast(c)) = Len(c) - 1
    BY <2>1, SubSeqProperties DEF AllButLast
  <2>3. QED
    BY <2>1, <2>2
<1>6. ASSUME NEW c \in Chains, NEW n \in Names
      PROVE  AllButLast(Append(c, n)) = c /\ Len(Append(c, n)) > 1
  <2>1. c \in Seq(Segments) /\ c # <<>> /\ n \in Segments
    BY DEF Chains, Segments
  <2>2. QED
    BY <2>1 DEF AllButLast
<1>7. QED
  BY <1>1, <1>2, <1>3, <1>4, <1>5, <1>6

\* Binding a new id to a new chain.
LEMMA BindGood ==
    ASSUME NEW r, Good(r), NEW id \in Ids, NEW chain \in Chains,
           ~Known(r, id), chain \notin DOMAIN r.uuidOf
    PROVE  Good(Bind(r, id, chain)) /\ Keeps(r, Bind(r, id, chain))
<1> DEFINE q == Bind(r, id, chain)
<1>1. /\ r = [chainOf |-> r.chainOf, uuidOf |-> r.uuidOf, root |-> r.root]
      /\ q = [chainOf |-> Insert(r.chainOf, id, chain),
              uuidOf |-> Insert(r.uuidOf, chain, id), root |-> r.root]
  BY DEF Good, IsRegistry, Bind
<1>2. /\ DOMAIN q.chainOf = DOMAIN r.chainOf \cup {id}
      /\ q.chainOf[id] = chain
      /\ \A i \in DOMAIN r.chainOf : q.chainOf[i] = r.chainOf[i]
  BY <1>1 DEF Insert, Known
<1>3. /\ DOMAIN q.uuidOf = DOMAIN r.uuidOf \cup {chain}
      /\ q.uuidOf[chain] = id
      /\ \A c \in DOMAIN r.uuidOf : q.uuidOf[c] = r.uuidOf[c]
  BY <1>1 DEF Insert
<1>4. IsRegistry(q)
  BY <1>1, <1>2, <1>3 DEF Good, IsRegistry, Insert
<1>5. Inverses(q)
  BY <1>2, <1>3 DEF Good, Inverses, Known
<1>6. QED
  BY <1>2, <1>4, <1>5 DEF Good, Keeps

LEMMA CleanupGood ==
    ASSUME NEW r, Good(r), NEW id \in Ids
    PROVE  Good(Cleanup(r, id)) /\ Keeps(r, Cleanup(r, id))
BY DEF Good, IsRegistry, Inverses, Known, Cleanup, Restrict, Keeps

\* get_or_create: the chain has an id afterwards.  Without a UUID to generate
\* (NoRoot) it must have had one before.
LEMMA GetOrCreateGood ==
    ASSUME NEW r, Good(r), NEW chain \in Chains, NEW fresh \in Ids \cup {NoRoot},
           ~Known(r, fresh), ~Known(GetOrCreate(r, chain, fresh), NoRoot)
    PROVE  /\ Good(GetOrCreate(r, chain, fresh))
           /\ Keeps(r, GetOrCreate(r, chain, fresh))
           /\ chain \in DOMAIN GetOrCreate(r, chain, fresh).uuidOf
           /\ DOMAIN r.chainOf \subseteq DOMAIN GetOrCreate(r, chain, fresh).chainOf
<1>1. CASE chain \in DOMAIN r.uuidOf
  BY <1>1 DEF GetOrCreate, Keeps
<1>2. CASE chain \notin DOMAIN r.uuidOf
  <2>1. GetOrCreate(r, chain, fresh) = Bind(r, fresh, chain)
    BY <1>2 DEF GetOrCreate
  <2>2. /\ DOMAIN Bind(r, fresh, chain).chainOf = DOMAIN r.chainOf \cup {fresh}
        /\ DOMAIN Bind(r, fresh, chain).uuidOf = DOMAIN r.uuidOf \cup {chain}
    BY DEF Bind, Insert
  <2>3. fresh \in Ids
    BY <2>1, <2>2 DEF Known
  <2>4. QED
    BY <1>2, <2>1, <2>2, <2>3, BindGood
<1>3. QED
  BY <1>1, <1>2

\* register_thread: an id met on a message, bound or left alone.
LEMMA RegisterGood ==
    ASSUME NEW r, Good(r), NEW id \in Ids, NEW i \in Names, NEW t \in Names
    PROVE  Good(RegisterThread(r, id, i, t)) /\ Keeps(r, RegisterThread(r, id, i, t))
<1> DEFINE chain == (IF r.root # NoRoot THEN RootChain ELSE <<>>) \o <<i, t>>
<1>1. <<>> \o <<i, t>> = <<i, t>>
  OBVIOUS
<1>2. chain \in Chains
  BY <1>1, ChainFacts
<1>3. RegisterThread(r, id, i, t)
        = IF Known(r, id) \/ chain \in DOMAIN r.uuidOf THEN r ELSE Bind(r, id, chain)
  BY DEF RegisterThread
<1> HIDE DEF chain
<1>4. QED
  BY <1>2, <1>3, BindGood DEF Keeps

\* initialize_root on the registry as it is created.
LEMMA InitRootGood ==
    ASSUME NEW fresh \in Ids
    PROVE  Good(InitializeRoot(EmptyRegistry, fresh))
<1>1. InitializeRoot(EmptyRegistry, fresh)
        = [chainOf |-> Insert(EmptyRegistry.chainOf, fresh, RootChain),
           uuidOf |-> Insert(EmptyRegistry.uuidOf, RootChain, fresh), root |-> fresh]
  BY DEF InitializeRoot, Bind, EmptyRegistry
<1>2. DOMAIN EmptyRegistry.chainOf = {} /\ DOMAIN EmptyRegistry.uuidOf = {}
  BY DEF EmptyRegistry
<1>3. RootChain \in Chains
  BY ChainFacts
<1>4. QED
  BY <1>1, <1>2, <1>3 DEF Good, IsRegistry, Inverses, Insert

\* extend_chain: the chain to be found or created.
LEMMA ExtendedIsChain ==
    ASSUME NEW r, Good(r), NEW id, NEW hop \in Names
    PROVE  ExtendedChain(r, id, hop) \in Chains
BY ChainFacts DEF ExtendedChain, Good, IsRegistry, Known

\* prune_for_response: the pruned chain is found or created, or the exhausted
\* one cleaned up.
LEMMA PruneGood ==
    ASSUME NEW r, Good(r), NEW id \in Ids, NEW fresh \in Ids \cup {NoRoot},
           ~Known(r, fresh), ~Known(PruneForResponse(r, id, fresh), NoRoot)
    PROVE  Good(PruneForResponse(r, id, fresh)) /\ Keeps(r, PruneForResponse(r, id, fresh))
<1>1. CASE HasCaller(r, id)
  <2>1. AllButLast(r.chainOf[id]) \in Chains
    BY <1>1, ChainFacts DEF HasCaller, Known, Good, IsRegistry
  <2>2. PruneForResponse(r, id, fresh) = GetOrCreate(r, AllButLast(r.chainOf[id]), fresh)
    BY <1>1 DEF PruneForResponse
  <2>3. QED
    BY <2>1, <2>2, GetOrCreateGood
<1>2. CASE ~HasCaller(r, id)
  BY <1>2, CleanupGood DEF PruneForResponse
<1>3. QED
  BY <1>1, <1>2

\* ThreadRegistry::new.
LEMMA EmptyGood == Good(EmptyRegistry)
BY DEF Good, IsRegistry, Inverses, EmptyRegistry
=============================================================================
