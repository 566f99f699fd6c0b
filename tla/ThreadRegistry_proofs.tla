----------------------- MODULE ThreadRegistry_proofs -----------------------
(***************************************************************************)
(* Proofs about the thread registry, for any ids, names and depth.         *)
(***************************************************************************)
EXTENDS ThreadRegistry, CallChains_proofs

\* The recorded calls: the callee's chain is the caller's with the hop added.
CallsHold ==
    \A c \in calls :
        /\ Known(registry, c.caller) /\ Known(registry, c.thread)
        /\ registry.chainOf[c.thread] = Append(registry.chainOf[c.caller], c.hop)

IInv ==
    /\ TypeOK
    /\ Inverses(registry)
    /\ DOMAIN registry.chainOf \subseteq External \cup minted
    /\ CallsHold

\* What every operation but extend_chain amounts to.
LEMMA BecomesKeeps ==
    ASSUME IInv, NEW r, Good(r), Keeps(registry, r), Becomes(r)
    PROVE  IInv' /\ Keeps(registry, registry')
<1>1. registry' = r /\ calls' = Remaining(r) /\ calls' \subseteq calls
  BY DEF Becomes, TakesPlace, Remaining
<1>2. TypeOK'
  BY <1>1 DEF IInv, TypeOK, Good, IsRegistry, Becomes, TakesPlace
<1>3. (DOMAIN registry.chainOf \subseteq External \cup minted)'
  BY DEF Becomes, TakesPlace
<1>4. CallsHold'
  BY <1>1 DEF IInv, CallsHold, Keeps, Remaining, Known
<1>5. QED
  BY <1>1, <1>2, <1>3, <1>4 DEF IInv, Good

LEMMA ExtendKeeps ==
    ASSUME IInv, Extend
    PROVE  IInv' /\ Keeps(registry, registry')
<1> PICK id \in External \cup minted, hop \in Names, fresh \in Fresh :
        LET chain == ExtendedChain(registry, id, hop)
            r == ExtendChain(registry, id, hop, fresh)
        IN  /\ Len(chain) <= MaxDepth
            /\ TakesPlace(r)
            /\ calls' = IF Known(registry, id)
                        THEN calls \cup {[caller |-> id, hop |-> hop, thread |-> r.uuidOf[chain]]}
                        ELSE calls
    BY DEF Extend
<1> DEFINE chain == ExtendedChain(registry, id, hop)
           r == GetOrCreate(registry, chain, fresh)
           call == [caller |-> id, hop |-> hop, thread |-> r.uuidOf[chain]]
<1>1. /\ TakesPlace(r)
      /\ calls' = IF Known(registry, id) THEN calls \cup {call} ELSE calls
  BY DEF ExtendChain
<1>2. Good(registry) /\ chain \in Chains /\ id \in Ids
  BY ExtendedIsChain, RegistryAssumption DEF IInv, TypeOK, Good
<1>3. fresh \in Ids \cup {NoRoot} /\ ~Known(registry, fresh)
  BY RegistryAssumption DEF Fresh, IInv, TypeOK, IsRegistry, Known
<1>4. /\ Good(r) /\ Keeps(registry, r) /\ chain \in DOMAIN r.uuidOf
      /\ DOMAIN registry.chainOf \subseteq DOMAIN r.chainOf
  <2>1. ~Known(r, NoRoot)
    BY <1>1 DEF TakesPlace
  <2> HIDE DEF chain
  <2>2. QED
    BY <1>2, <1>3, <2>1, GetOrCreateGood
<1>5. registry' = r
  BY <1>1 DEF TakesPlace
<1>6. Known(registry, id) => /\ chain = Append(registry.chainOf[id], hop)
                             /\ Known(r, id)
                             /\ r.chainOf[id] = registry.chainOf[id]
  BY <1>4 DEF ExtendedChain, Known, Keeps
<1> HIDE DEF chain, r
<1>7. /\ r.uuidOf[chain] \in Ids
      /\ Known(r, r.uuidOf[chain])
      /\ r.chainOf[r.uuidOf[chain]] = chain
  BY <1>4 DEF Good, IsRegistry, Inverses, Known
<1>8. TypeOK'
  BY <1>1, <1>2, <1>4, <1>5, <1>7 DEF IInv, TypeOK, Good, IsRegistry, TakesPlace
<1>9. CallsHold'
  <2> SUFFICES ASSUME NEW c \in calls'
               PROVE  /\ Known(r, c.caller) /\ Known(r, c.thread)
                      /\ r.chainOf[c.thread] = Append(r.chainOf[c.caller], c.hop)
    BY <1>5 DEF CallsHold
  <2>1. CASE c \in calls
    BY <2>1, <1>4 DEF IInv, CallsHold, Keeps, Known
  <2>2. CASE c \notin calls
    <3>1. Known(registry, id) /\ c = call
      BY <2>2, <1>1
    <3>2. c.caller = id /\ c.hop = hop /\ c.thread = r.uuidOf[chain]
      BY <3>1
    <3>3. QED
      BY <3>1, <3>2, <1>6, <1>7
  <2>3. QED
    BY <2>1, <2>2
<1>10. (DOMAIN registry.chainOf \subseteq External \cup minted)'
  BY <1>1 DEF TakesPlace
<1>11. QED
  BY <1>4, <1>5, <1>8, <1>9, <1>10 DEF IInv, Good

LEMMA StepIInv == IInv /\ [Next]_vars => IInv' /\ Keeps(registry, registry')
<1> SUFFICES ASSUME IInv, [Next]_vars
             PROVE  IInv' /\ Keeps(registry, registry')
    OBVIOUS
<1>0. /\ Good(registry)
      /\ External \cup minted \subseteq Ids
      /\ \A fresh \in Fresh : fresh \in Ids \cup {NoRoot} /\ ~Known(registry, fresh)
  BY RegistryAssumption DEF IInv, TypeOK, Good, IsRegistry, Fresh, Known
<1>1. CASE InitRoot
  <2>1. PICK fresh \in Fresh : Becomes(InitializeRoot(EmptyRegistry, fresh))
    BY <1>1 DEF InitRoot
  <2>2. fresh \in Ids
    BY <1>0, <2>1 DEF Becomes, TakesPlace, Known, InitializeRoot, EmptyRegistry, Bind, Insert
  <2>3. Keeps(registry, InitializeRoot(EmptyRegistry, fresh))
    BY <1>1 DEF InitRoot, Keeps, EmptyRegistry
  <2>4. QED
    BY <2>1, <2>2, <2>3, InitRootGood, BecomesKeeps
<1>2. CASE Register
  BY <1>0, <1>2, RegisterGood, BecomesKeeps DEF Register
<1>3. CASE StartChain
  <2>1. PICK i \in Names, t \in Names, fresh \in Fresh :
            Becomes(GetOrCreate(registry, <<i, t>>, fresh))
    BY <1>3 DEF StartChain
  <2>2. <<i, t>> \in Chains
    BY ChainFacts
  <2>3. QED
    BY <1>0, <2>1, <2>2, GetOrCreateGood, BecomesKeeps DEF Becomes, TakesPlace
<1>4. CASE Extend
  BY <1>4, ExtendKeeps
<1>5. CASE Prune
  <2>1. PICK id \in External \cup minted, fresh \in Fresh :
            Becomes(PruneForResponse(registry, id, fresh))
    BY <1>5 DEF Prune
  <2>2. QED
    BY <1>0, <2>1, PruneGood, BecomesKeeps DEF Becomes, TakesPlace
<1>6. CASE CleanUp
  BY <1>0, <1>6, CleanupGood, BecomesKeeps DEF CleanUp
<1>7. CASE Clear
  BY <1>7, EmptyGood, BecomesKeeps DEF Clear, Keeps, EmptyRegistry
<1>8. CASE UNCHANGED vars
  BY <1>8 DEF vars, IInv, TypeOK, CallsHold, Keeps
<1>9. QED
  BY <1>1, <1>2, <1>3, <1>4, <1>5, <1>6, <1>7, <1>8 DEF Next

LEMMA Inductive == Spec => []IInv
<1>1. Init => IInv
  BY EmptyGood DEF Init, IInv, TypeOK, CallsHold, Good, EmptyRegistry
<1>2. IInv /\ [Next]_vars => IInv'
  BY StepIInv
<1>3. QED
  BY <1>1, <1>2, PTL DEF Spec

\* The maps hold thread ids and non-empty chains only, and no UUID generated
\* is an id that external messages carry.
THEOREM TypeCorrect == Spec => []TypeOK
<1>1. IInv => TypeOK
  BY DEF IInv
<1>2. QED
  BY Inductive, <1>1, PTL

\* The two maps of the registry stay inverse to each other (thread.rs:23-37).
THEOREM BothDirectionsAgree == Spec => []MapsAreInverse
<1>1. IInv => MapsAreInverse
  BY DEF IInv, MapsAreInverse
<1>2. QED
  BY Inductive, <1>1, PTL

\* A response goes back to the caller's name, on the caller's thread
\* (thread.rs:10-15).
THEOREM ResponsesFindTheirCaller == Spec => []ResponsesRetraceCalls
<1>1. ASSUME IInv, NEW c \in calls
      PROVE  /\ HasCaller(registry, c.thread)
             /\ PruneTarget(registry, c.thread) = LastOf(registry.chainOf[c.caller])
             /\ PruneThread(registry, PruneForResponse(registry, c.thread, NoRoot), c.thread)
                  = c.caller
  <2> DEFINE r == registry
             u == r.chainOf[c.caller]
  <2>1. /\ Known(r, c.caller) /\ Known(r, c.thread)
        /\ r.chainOf[c.thread] = Append(u, c.hop)
        /\ u \in Chains /\ c.hop \in Names
    BY <1>1 DEF IInv, CallsHold, TypeOK, IsRegistry, Known
  <2>2. AllButLast(r.chainOf[c.thread]) = u /\ Len(r.chainOf[c.thread]) > 1
    BY <2>1, ChainFacts
  <2>3. u \in DOMAIN r.uuidOf /\ r.uuidOf[u] = c.caller
    BY <1>1, <2>1 DEF IInv, Inverses, Known
  <2>4. HasCaller(r, c.thread)
    BY <2>1, <2>2 DEF HasCaller
  <2>5. PruneForResponse(r, c.thread, NoRoot) = r
    BY <2>2, <2>3, <2>4 DEF PruneForResponse, GetOrCreate
  <2>6. QED
    BY <2>2, <2>3, <2>4, <2>5 DEF PruneTarget, PruneThread
<1>2. IInv => ResponsesRetraceCalls
  BY <1>1 DEF ResponsesRetraceCalls
<1>3. QED
  BY Inductive, <1>2, PTL

\* An id that stays registered keeps its chain, so a handler that holds one
\* across calls always speaks of the same conversation.
THEOREM IdsAreStable == Spec => IdsKeepTheirChain
<1>1. IInv /\ [Next]_vars =>
        [\A id \in DOMAIN registry.chainOf \cap DOMAIN registry'.chainOf :
             registry'.chainOf[id] = registry.chainOf[id]]_vars
  BY StepIInv DEF Keeps
<1>2. QED
  BY Inductive, <1>1, PTL DEF Spec, IdsKeepTheirChain
=============================================================================
