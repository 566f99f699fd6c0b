------------------------- MODULE Conversation_proofs -------------------------
(***************************************************************************)
(* Proofs about conversations: for any listeners, peers, handlers and      *)
(* number of calls, that state is well-typed for any host, and that        *)
(* responses find their way back for an orderly one.                       *)
(***************************************************************************)
EXTENDS Conversation, CallChains_proofs

(***************************************************************************)
(* Types.  What a worker is given is for a listener, and on its thread.    *)
(***************************************************************************)
TypeInv ==
    /\ TypeOK
    /\ \A u \in Ids : awaiting[u] <= made
    /\ \A t \in Ids : \A m \in Elements(queue[t]) : m.to \in Listeners /\ m.thread = t

(***************************************************************************)
(* What an orderly host's conversations are like.                          *)
(***************************************************************************)

\* What comes before a client in every chain,
Base == IF registry.root # NoRoot THEN RootChain ELSE <<>>

\* and what a chain is for: a client's request, the client it is answered to,
\* a call.
OfRequest(id) ==
    \E q \in Requests : q.thread = id /\ registry.chainOf[id] = Base \o <<q.from, q.to>>

OfClient(id) == \E q \in Requests : registry.chainOf[id] = Base \o <<q.from>>

OfCall(id) == \E c \in calls : c.on = id

Live(id) == Known(registry, id) /\ (OfRequest(id) \/ OfClient(id) \/ OfCall(id))

\* Every thread but the root's is of one of these, and a client's own id is of
\* its request.
ThreadsHold ==
    \A id \in DOMAIN registry.chainOf :
        /\ Live(id) \/ (registry.root # NoRoot /\ registry.chainOf[id] = RootChain)
        /\ id \in External => OfRequest(id)

\* A call extends the caller's chain, which ends with the caller.
CallsHold ==
    \A c \in calls :
        /\ Live(c.at) /\ Known(registry, c.on)
        /\ registry.chainOf[c.on] = Append(registry.chainOf[c.at], c.callee)
        /\ LastOf(registry.chainOf[c.at]) = c.caller
        /\ c.caller \in Listeners

\* An envelope is at the end of the chain of its thread, or it is a request
\* that may be the first on its thread.
Addressed(m) == Live(m.thread) /\ LastOf(registry.chainOf[m.thread]) = m.to

Asked(m) ==
    /\ m.re = NoRoot
    /\ \E q \in Requests : m.from = q.from /\ m.to = q.to /\ m.thread = q.thread

\* A response goes to the caller, or to the client.
Answers(m) ==
    m.re # NoRoot =>
        \/ \E c \in calls :
             c.on = m.re /\ c.callee = m.from /\ c.caller = m.to /\ c.at = m.thread
        \/ \E q \in Requests : q.thread = m.re /\ q.to = m.from /\ q.from = m.to

EnvelopesHold ==
    /\ \A m \in Elements(line) : (Addressed(m) \/ Asked(m)) /\ Answers(m)
    /\ \A t \in Ids : \A m \in Elements(queue[t]) : Addressed(m) /\ Answers(m)
    /\ \A t \in Ids : \A s \in Elements(steps[t]) :
         "reinject" \in DOMAIN s => Addressed(s.reinject) /\ Answers(s.reinject)

Holds == ThreadsHold /\ CallsHold /\ EnvelopesHold

IInv == TypeInv /\ Holds
-----------------------------------------------------------------------------
(* Sequences and chains.                                                   *)

LEMMA ElementsOf ==
    ASSUME NEW S, NEW s \in Seq(S)
    PROVE  /\ \A i \in S : Append(s, i) \in Seq(S) /\ Elements(Append(s, i)) = Elements(s) \cup {i}
           /\ s # <<>> => /\ Head(s) \in S /\ Head(s) \in Elements(s)
                          /\ Tail(s) \in Seq(S) /\ Elements(Tail(s)) \subseteq Elements(s)
           /\ Elements(s) \subseteq S
<1>1. ASSUME NEW i \in S
      PROVE  Append(s, i) \in Seq(S) /\ Elements(Append(s, i)) = Elements(s) \cup {i}
  <2>1. /\ Append(s, i) \in Seq(S)
        /\ DOMAIN Append(s, i) = DOMAIN s \cup {Len(s) + 1}
        /\ Append(s, i)[Len(s) + 1] = i
        /\ \A k \in DOMAIN s : Append(s, i)[k] = s[k]
    OBVIOUS
  <2>2. QED
    BY <2>1 DEF Elements
<1>2. ASSUME s # <<>>
      PROVE  /\ Head(s) \in S /\ Head(s) \in Elements(s)
             /\ Tail(s) \in Seq(S) /\ Elements(Tail(s)) \subseteq Elements(s)
  <2>1. /\ Tail(s) \in Seq(S) /\ 1 \in DOMAIN s /\ Head(s) = s[1]
        /\ \A k \in DOMAIN Tail(s) : k + 1 \in DOMAIN s /\ Tail(s)[k] = s[k + 1]
    BY <1>2
  <2>2. QED
    BY <2>1 DEF Elements
<1>3. Elements(s) \subseteq S
  BY DEF Elements
<1>4. QED
  BY <1>1, <1>2, <1>3

\* What a handler leaves its worker to do.
LEMMA ElementsOfSteps ==
    /\ Elements(<<>>) = {}
    /\ \A a : Elements(<<a>>) = {a}
    /\ \A a, b : Elements(<<a, b>>) = {a, b} /\ <<a, b>> \o <<>> = <<a, b>>
    /\ \A a, b, c : <<a, b>> \o <<c>> = <<a, b, c>> /\ Elements(<<a, b, c>>) = {a, b, c}
<1>1. DOMAIN <<>> = {} /\ \A a, b, c : /\ DOMAIN <<a>> = {1} /\ DOMAIN <<a, b>> = {1, 2}
                                      /\ DOMAIN <<a, b, c>> = {1, 2, 3}
  OBVIOUS
<1>2. ASSUME NEW a, NEW b, NEW c
      PROVE  <<a, b>> \o <<>> = <<a, b>> /\ <<a, b>> \o <<c>> = <<a, b, c>>
  <2> DEFINE S == {a, b, c}
  <2>1. a \in S /\ b \in S /\ c \in S
    OBVIOUS
  <2> HIDE DEF S
  <2>2. /\ <<>> \in Seq(S) /\ <<a, b>> \in Seq(S) /\ <<c>> \in Seq(S) /\ <<a, b, c>> \in Seq(S)
        /\ Len(<<a, b>>) = 2 /\ Len(<<c>>) = 1 /\ Len(<<a, b, c>>) = 3
    BY <2>1
  <2>3. <<a, b>> \o <<>> = <<a, b>>
    BY <2>2, ConcatEmptySeq
  <2>4. /\ <<a, b>> \o <<c>> \in Seq(S) /\ Len(<<a, b>> \o <<c>>) = 3
        /\ \A i \in 1..3 : (<<a, b>> \o <<c>>)[i] = <<a, b, c>>[i]
    BY <2>2, ConcatProperties
  <2>5. <<a, b>> \o <<c>> = <<a, b, c>>
    BY <2>2, <2>4, SeqEqual
  <2>6. QED
    BY <2>3, <2>5
<1>3. QED
  BY <1>1, <1>2 DEF Elements

LEMMA LastIsSegment == \A c \in Chains : LastOf(c) \in Segments
BY DEF Chains, LastOf

\* A UUID is new, and no host's.
LEMMA FreshFacts ==
    ASSUME TypeOK
    PROVE  /\ Fresh(registry) \in Ids \cup {NoRoot}
           /\ ~Known(registry, Fresh(registry))
           /\ Fresh(registry) \notin External
<1>1. External \subseteq Ids
  BY ConversationAssumption DEF External
<1>2. CASE Unused(registry) = {}
  BY <1>1, <1>2, ConversationAssumption DEF Fresh, Known, TypeOK, IsRegistry
<1>3. CASE Unused(registry) # {}
  <2>1. Fresh(registry) \in Unused(registry)
    BY <1>3 DEF Fresh
  <2>2. QED
    BY <2>1 DEF Unused, Known
<1>4. QED
  BY <1>2, <1>3
-----------------------------------------------------------------------------
(* Types.                                                                  *)

\* The envelope at hand, the workers' queues without it, and the calls that
\* are answered by it.
LEMMA HandleFacts ==
    ASSUME TypeInv, NEW t \in Ids, Handle(t)
    PROVE  /\ AtHand(t) \in Envelope /\ AtHand(t) \in Elements(queue[t])
           /\ AtHand(t).to \in Listeners /\ AtHand(t).to \in Names /\ AtHand(t).thread = t
           /\ queue' \in [Ids -> Seq(Envelope)]
           /\ \A u \in Ids : Elements(queue'[u]) \subseteq Elements(queue[u])
           /\ Heard(t, awaiting) \in [Ids -> 0..MaxCalls]
           /\ \A u \in Ids : Heard(t, awaiting)[u] <= awaiting[u]
<1>1. /\ AtHand(t) \in Envelope /\ AtHand(t) \in Elements(queue[t])
      /\ Tail(queue[t]) \in Seq(Envelope)
      /\ Elements(Tail(queue[t])) \subseteq Elements(queue[t])
  BY ElementsOf DEF TypeInv, TypeOK, Handle, AtHand
<1>2. AtHand(t).to \in Listeners /\ AtHand(t).to \in Names /\ AtHand(t).thread = t
  BY <1>1, ConversationAssumption DEF TypeInv
<1>3. queue' = [queue EXCEPT ![t] = Tail(queue[t])] /\ queue \in [Ids -> Seq(Envelope)]
  BY DEF Handle, TypeInv, TypeOK
<1>4. queue' \in [Ids -> Seq(Envelope)]
  BY <1>1, <1>3
<1>5. ASSUME NEW u \in Ids
      PROVE  Elements(queue'[u]) \subseteq Elements(queue[u])
  BY <1>1, <1>3
<1>6. /\ Heard(t, awaiting) \in [Ids -> 0..MaxCalls]
      /\ \A u \in Ids : Heard(t, awaiting)[u] <= awaiting[u]
  <2>1. /\ awaiting \in [Ids -> 0..MaxCalls] /\ MaxCalls \in Nat
        /\ AtHand(t).re \in Ids \cup {NoRoot}
    BY <1>1, ConversationAssumption DEF TypeInv, TypeOK, Envelope
  <2> DEFINE u == AtHand(t).re
  <2>2. Heard(t, awaiting) =
          IF u # NoRoot /\ awaiting[u] > 0 THEN [awaiting EXCEPT ![u] = awaiting[u] - 1] ELSE awaiting
    BY DEF Heard
  <2>3. u \in Ids \cup {NoRoot}
    BY <2>1
  <2> HIDE DEF u
  <2>4. CASE u # NoRoot /\ awaiting[u] > 0
    <3>1. u \in Ids /\ awaiting[u] - 1 \in 0..MaxCalls
      BY <2>1, <2>3, <2>4
    <3>2. QED
      BY <2>1, <2>2, <2>4, <3>1
  <2>5. CASE ~(u # NoRoot /\ awaiting[u] > 0)
    BY <2>1, <2>2, <2>5
  <2>6. QED
    BY <2>4, <2>5
<1>7. QED
  BY <1>1, <1>2, <1>4, <1>5, <1>6

\* A response, if there is one, is made on the registry's say.
LEMMA RespondFacts ==
    ASSUME TypeInv, NEW t \in Ids, NEW kind \in {"ack", "reply"}, Respond(t, kind)
    PROVE  /\ Good(registry') /\ Keeps(registry, registry')
           /\ HasCaller(registry, t) =>
                /\ registry' = GetOrCreate(registry, AllButLast(registry.chainOf[t]), Fresh(registry))
                /\ DOMAIN registry.chainOf \subseteq DOMAIN registry'.chainOf
                /\ AllButLast(registry.chainOf[t]) \in DOMAIN registry'.uuidOf
                /\ ResponseOn(t, registry', kind) \in Envelope
                /\ steps' = [steps EXCEPT ![t] = <<[reinject |-> ResponseOn(t, registry', kind)]>>]
           /\ ~HasCaller(registry, t) => steps' = [steps EXCEPT ![t] = <<>>]
           /\ steps' \in [Ids -> Seq(Step)]
<1>1. /\ Good(registry)
      /\ Fresh(registry) \in Ids \cup {NoRoot} /\ ~Known(registry, Fresh(registry))
      /\ steps \in [Ids -> Seq(Step)]
  BY FreshFacts DEF TypeInv, TypeOK, Good
<1>2. /\ registry' = PruneForResponse(registry, t, Fresh(registry))
      /\ ~Known(registry', NoRoot)
      /\ Handle(t)
      /\ steps' = [steps EXCEPT ![t] =
             IF HasCaller(registry, t) THEN <<[reinject |-> ResponseOn(t, registry', kind)]>> ELSE <<>>]
  BY DEF Respond
<1>3. Good(registry') /\ Keeps(registry, registry')
  BY <1>1, <1>2, PruneGood
<1>4. CASE HasCaller(registry, t)
  <2> DEFINE chain == AllButLast(registry.chainOf[t])
             m == ResponseOn(t, registry', kind)
  <2>1. chain \in Chains
    BY <1>1, <1>4, ChainFacts DEF HasCaller, Known, Good, IsRegistry
  <2>2. registry' = GetOrCreate(registry, chain, Fresh(registry))
    BY <1>2, <1>4 DEF PruneForResponse
  <2>3. chain \in DOMAIN registry'.uuidOf /\ DOMAIN registry.chainOf \subseteq DOMAIN registry'.chainOf
    BY <1>1, <1>2, <2>1, <2>2, GetOrCreateGood
  <2>4. registry'.uuidOf[chain] \in Ids /\ LastOf(chain) \in Segments
    BY <1>3, <2>1, <2>3, LastIsSegment DEF Good, IsRegistry
  <2>5. m \in Envelope
    <3>1. AtHand(t).to \in Names /\ kind \in Kinds /\ t \in Ids \cup {NoRoot}
      BY <1>2, HandleFacts DEF Kinds
    <3>2. m = [from |-> AtHand(t).to, to |-> LastOf(chain), thread |-> registry'.uuidOf[chain],
               kind |-> kind, re |-> t]
      BY DEF ResponseOn, PruneTarget, PruneThread
    <3> HIDE DEF m, chain
    <3>3. QED
      BY <2>4, <3>1, <3>2 DEF Envelope
  <2>6. steps' = [steps EXCEPT ![t] = <<[reinject |-> m]>>]
    BY <1>2, <1>4
  <2>7. <<[reinject |-> m]>> \in Seq(Step)
    <3> HIDE DEF m
    <3>1. [reinject |-> m] \in Step
      BY <2>5 DEF Step
    <3>2. QED
      BY <3>1
  <2> HIDE DEF m
  <2>8. steps' \in [Ids -> Seq(Step)]
    BY <1>1, <2>6, <2>7
  <2>9. QED
    BY <1>3, <1>4, <2>2, <2>3, <2>5, <2>6, <2>8 DEF m
<1>5. CASE ~HasCaller(registry, t)
  BY <1>1, <1>2, <1>3, <1>5
<1>6. QED
  BY <1>4, <1>5

\* A call is made on a thread whose chain goes on with the callee.
LEMMA CallFacts ==
    ASSUME TypeInv, NEW t \in Ids, NEW to \in Targets, NEW after,
           after = <<>> \/ after = <<[reinject |-> SpawnAck(t, to, "accepted")]>>,
           MakeCall(t, to, after)
    PROVE  LET chain == ExtendedChain(registry, t, to)
               u == registry'.uuidOf[chain]
           IN  /\ Good(registry') /\ Keeps(registry, registry')
               /\ registry' = GetOrCreate(registry, chain, Fresh(registry))
               /\ DOMAIN registry.chainOf \subseteq DOMAIN registry'.chainOf
               /\ u \in Ids /\ Known(registry', u) /\ registry'.chainOf[u] = chain
               /\ calls' = calls \cup {[caller |-> AtHand(t).to, at |-> t, callee |-> to, on |-> u]}
               /\ calls' \subseteq Call
               /\ steps' \in [Ids -> Seq(Step)]
               /\ \A v \in Ids : v # t => steps'[v] = steps[v]
               /\ Elements(steps'[t]) \subseteq {[reinject |-> Work(t, to, u)], [open |-> u],
                                                 [reinject |-> SpawnAck(t, to, "accepted")]}
               /\ awaiting' = [Heard(t, awaiting) EXCEPT ![u] = @ + 1]
<1> DEFINE chain == ExtendedChain(registry, t, to)
           u == registry'.uuidOf[chain]
           work == [reinject |-> Work(t, to, u)]
           ack == [reinject |-> SpawnAck(t, to, "accepted")]
<1>1. /\ Good(registry) /\ calls \subseteq Call
      /\ Fresh(registry) \in Ids \cup {NoRoot} /\ ~Known(registry, Fresh(registry))
      /\ steps \in [Ids -> Seq(Step)]
      /\ to \in Names /\ Names \subseteq Segments
  BY FreshFacts, ConversationAssumption DEF TypeInv, TypeOK, Good, Segments
<1>2. /\ registry' = GetOrCreate(registry, chain, Fresh(registry))
      /\ ~Known(registry', NoRoot)
      /\ Handle(t)
      /\ steps' = [steps EXCEPT ![t] = <<work, [open |-> u]>> \o after]
      /\ calls' = calls \cup {[caller |-> AtHand(t).to, at |-> t, callee |-> to, on |-> u]}
      /\ awaiting' = [Heard(t, awaiting) EXCEPT ![u] = @ + 1]
  BY DEF MakeCall, ExtendChain
<1>3. chain \in Chains
  BY <1>1, ExtendedIsChain
<1>4. /\ Good(registry') /\ Keeps(registry, registry') /\ chain \in DOMAIN registry'.uuidOf
      /\ DOMAIN registry.chainOf \subseteq DOMAIN registry'.chainOf
  <2> HIDE DEF chain
  <2>1. QED
    BY <1>1, <1>2, <1>3, GetOrCreateGood
<1>5. u \in Ids /\ Known(registry', u) /\ registry'.chainOf[u] = chain
  BY <1>4 DEF Good, IsRegistry, Inverses, Known
<1>6. AtHand(t).to \in Names
  BY <1>2, HandleFacts
<1>7. calls' \subseteq Call
  BY <1>1, <1>2, <1>5, <1>6 DEF Call
<1>8. work \in Step /\ [open |-> u] \in Step /\ ack \in Step
  <2> HIDE DEF u
  <2>1. Work(t, to, u) \in Envelope
    BY <1>1, <1>5, <1>6 DEF Work, Envelope, Kinds
  <2>2. SpawnAck(t, to, "accepted") \in Envelope
    BY <1>1, <1>6 DEF SpawnAck, Envelope, Kinds
  <2>3. QED
    BY <1>5, <2>1, <2>2 DEF Step
<1> HIDE DEF work, ack, chain
<1>9. /\ <<work, [open |-> u]>> \o after \in Seq(Step)
      /\ Elements(<<work, [open |-> u]>> \o after) \subseteq {work, [open |-> u], ack}
  <2> HIDE DEF u
  <2>1. CASE after = <<>>
    <3>1. <<work, [open |-> u]>> \o after = <<work, [open |-> u]>>
      BY <2>1, ElementsOfSteps
    <3>2. Elements(<<work, [open |-> u]>>) = {work, [open |-> u]}
      BY ElementsOfSteps
    <3>3. <<work, [open |-> u]>> \in Seq(Step)
      BY <1>8
    <3>4. QED
      BY <3>1, <3>2, <3>3
  <2>2. CASE after = <<ack>>
    <3>1. <<work, [open |-> u]>> \o after = <<work, [open |-> u], ack>>
      BY <2>2, ElementsOfSteps
    <3>2. Elements(<<work, [open |-> u], ack>>) = {work, [open |-> u], ack}
      BY ElementsOfSteps
    <3>3. <<work, [open |-> u], ack>> \in Seq(Step)
      BY <1>8
    <3>4. QED
      BY <3>1, <3>2, <3>3
  <2>3. QED
    BY <2>1, <2>2 DEF ack
<1> HIDE DEF u
<1>10. /\ steps' \in [Ids -> Seq(Step)]
       /\ \A v \in Ids : v # t => steps'[v] = steps[v]
       /\ Elements(steps'[t]) \subseteq {work, [open |-> u], ack}
  BY <1>1, <1>2, <1>9
<1>11. QED
  BY <1>2, <1>4, <1>5, <1>7, <1>10 DEF u, work, ack, chain

\* What is at the head of a worker's steps, and what is left after it.
LEMMA StepFacts ==
    ASSUME TypeInv, NEW t \in Ids, steps[t] # <<>>
    PROVE  /\ Head(steps[t]) \in Step /\ Head(steps[t]) \in Elements(steps[t])
           /\ "reinject" \in DOMAIN Head(steps[t]) => Head(steps[t]).reinject \in Envelope
           /\ "open" \in DOMAIN Head(steps[t]) => Head(steps[t]).open \in Ids
           /\ [steps EXCEPT ![t] = Tail(@)] \in [Ids -> Seq(Step)]
           /\ \A u \in Ids : Elements([steps EXCEPT ![t] = Tail(@)][u]) \subseteq Elements(steps[u])
<1>1. /\ Head(steps[t]) \in Step /\ Head(steps[t]) \in Elements(steps[t])
      /\ Tail(steps[t]) \in Seq(Step)
      /\ Elements(Tail(steps[t])) \subseteq Elements(steps[t])
      /\ steps \in [Ids -> Seq(Step)]
  BY ElementsOf DEF TypeInv, TypeOK
<1>2. ASSUME NEW s \in Step
      PROVE  /\ "reinject" \in DOMAIN s => s.reinject \in Envelope
             /\ "open" \in DOMAIN s => s.open \in Ids
  BY DEF Step
<1>3. QED
  BY <1>1, <1>2

LEMMA RoutedFacts ==
    ASSUME TypeInv, line # <<>>
    PROVE  /\ Head(line) \in Envelope /\ Head(line) \in Elements(line)
           /\ Tail(line) \in Seq(Envelope) /\ Elements(Tail(line)) \subseteq Elements(line)
BY ElementsOf DEF TypeInv, TypeOK

\* The routed envelope is the last of its thread's queue.
LEMMA PassFacts ==
    ASSUME TypeInv, RoutePasses
    PROVE  LET m == Head(line)
           IN  /\ m \in Envelope /\ m \in Elements(line) /\ m.to \in Listeners /\ m.to \in Names
               /\ line' \in Seq(Envelope) /\ Elements(line') \subseteq Elements(line)
               /\ queue' \in [Ids -> Seq(Envelope)]
               /\ \A t \in Ids : Elements(queue'[t]) =
                    Elements(queue[t]) \cup (IF t = m.thread THEN {m} ELSE {})
               /\ Good(registry') /\ Keeps(registry, registry')
<1> DEFINE m == Head(line)
<1>1. /\ m \in Envelope /\ m \in Elements(line)
      /\ line' \in Seq(Envelope) /\ Elements(line') \subseteq Elements(line)
  BY RoutedFacts DEF RoutePasses
<1>2. m.to \in Listeners /\ m.to \in Names
  BY ConversationAssumption DEF RoutePasses, Resolves
<1>3. /\ queue' = [queue EXCEPT ![m.thread] = Append(queue[m.thread], m)]
      /\ registry' = RegisterThread(registry, m.thread, m.from, m.to)
      /\ queue \in [Ids -> Seq(Envelope)]
      /\ Good(registry)
  BY DEF RoutePasses, TypeInv, TypeOK, Good
<1>4. m.thread \in Ids /\ m.from \in Names
  BY <1>1 DEF Envelope
<1> HIDE DEF m
<1>5. /\ Append(queue[m.thread], m) \in Seq(Envelope)
      /\ Elements(Append(queue[m.thread], m)) = Elements(queue[m.thread]) \cup {m}
  BY <1>1, <1>3, <1>4, ElementsOf
<1>6. /\ queue' \in [Ids -> Seq(Envelope)]
      /\ \A t \in Ids : queue'[t] = IF t = m.thread THEN Append(queue[t], m) ELSE queue[t]
  BY <1>3, <1>4, <1>5
<1>7. \A t \in Ids : Elements(queue'[t]) = Elements(queue[t]) \cup (IF t = m.thread THEN {m} ELSE {})
  BY <1>5, <1>6
<1>8. Good(registry') /\ Keeps(registry, registry')
  BY <1>2, <1>3, <1>4, RegisterGood
<1>9. QED
  BY <1>1, <1>2, <1>6, <1>7, <1>8 DEF m

LEMMA InitTypeInv == Init => TypeInv
<1> SUFFICES ASSUME Init PROVE TypeInv
    OBVIOUS
<1>1. Good(registry)
  <2>1. External \subseteq Ids /\ Ids \ External # {} /\ DOMAIN EmptyRegistry.chainOf = {}
    BY ConversationAssumption DEF External, EmptyRegistry
  <2>2. Unused(EmptyRegistry) = Ids \ External
    BY <2>1 DEF Unused
  <2>3. Fresh(EmptyRegistry) \in Ids
    BY <2>1, <2>2 DEF Fresh
  <2>4. QED
    BY <2>3, EmptyGood, InitRootGood DEF Init
<1>2. /\ line \in Seq(Envelope) /\ queue \in [Ids -> Seq(Envelope)] /\ steps \in [Ids -> Seq(Step)]
      /\ \A t \in Ids : Elements(queue[t]) = {}
  BY ElementsOfSteps DEF Init
<1>3. /\ awaiting \in [Ids -> 0..MaxCalls] /\ made \in 0..MaxCalls
      /\ \A u \in Ids : awaiting[u] <= made
  BY ConversationAssumption DEF Init
<1>4. requests \subseteq Requests /\ ledger \subseteq Ids /\ calls \subseteq Call
      /\ refused \subseteq Envelope /\ failed \in BOOLEAN
  BY DEF Init
<1>5. QED
  BY <1>1, <1>2, <1>3, <1>4 DEF TypeInv, TypeOK, Good

LEMMA StepTypeInv == TypeInv /\ [Next]_vars => TypeInv'
<1> SUFFICES ASSUME TypeInv, [Next]_vars PROVE TypeInv'
    OBVIOUS
<1>0. /\ IsRegistry(registry) /\ Inverses(registry) /\ Good(registry)
      /\ line \in Seq(Envelope) /\ queue \in [Ids -> Seq(Envelope)] /\ steps \in [Ids -> Seq(Step)]
      /\ requests \subseteq Requests /\ ledger \subseteq Ids /\ calls \subseteq Call
      /\ awaiting \in [Ids -> 0..MaxCalls] /\ made \in 0..MaxCalls /\ MaxCalls \in Nat
      /\ refused \subseteq Envelope /\ failed \in BOOLEAN
      /\ \A u \in Ids : awaiting[u] <= made
      /\ \A t \in Ids : \A m \in Elements(queue[t]) : m.to \in Listeners /\ m.thread = t
  BY ConversationAssumption DEF TypeInv, TypeOK, Good
<1>1. ASSUME NEW q \in Requests, Inject(q)
      PROVE  TypeInv'
  <2> DEFINE m == [from |-> q.from, to |-> q.to, thread |-> q.thread, kind |-> "task", re |-> NoRoot]
  <2>1. m \in Envelope
    BY ConversationAssumption DEF Envelope, Kinds, Segments
  <2>2. line' = Append(line, m)
    BY <1>1 DEF Inject
  <2> HIDE DEF m
  <2>3. line' \in Seq(Envelope)
    BY <1>0, <2>1, <2>2
  <2>4. QED
    BY <1>0, <1>1, <2>3 DEF Inject, hist, TypeInv, TypeOK
<1>2. CASE RouteRefuses
  BY <1>0, <1>2, RoutedFacts DEF RouteRefuses, TypeInv, TypeOK
<1>3. CASE RoutePasses
  BY <1>0, <1>3, PassFacts, SMTT(40) DEF RoutePasses, hist, TypeInv, TypeOK, Good
<1>4. ASSUME NEW t \in Ids, NEW kind \in {"ack", "reply"}, Respond(t, kind)
      PROVE  TypeInv'
  <2>1. Handle(t) /\ awaiting' = Heard(t, awaiting) /\ ledger' = ledger \ {t}
        /\ UNCHANGED <<line, requests, made, calls, refused, failed>>
    BY <1>4 DEF Respond
  <2>2. awaiting' \in [Ids -> 0..MaxCalls] /\ \A u \in Ids : awaiting'[u] <= made
    BY <1>0, <2>1, HandleFacts
  <2>3. QED
    BY <1>0, <1>4, <2>1, <2>2, HandleFacts, RespondFacts, SMTT(40) DEF TypeInv, TypeOK, Good
<1>5. ASSUME NEW t \in Ids, NEW to \in Targets, NEW after,
             after = <<>> \/ after = <<[reinject |-> SpawnAck(t, to, "accepted")]>>,
             MakeCall(t, to, after)
      PROVE  TypeInv'
  <2> DEFINE u == registry'.uuidOf[ExtendedChain(registry, t, to)]
             a == Heard(t, awaiting)
  <2>1. /\ Handle(t) /\ made < MaxCalls /\ made' = made + 1
        /\ UNCHANGED <<line, requests, ledger, refused, failed>>
    BY <1>5 DEF MakeCall
  <2>2. /\ a \in [Ids -> 0..MaxCalls] /\ \A v \in Ids : a[v] <= awaiting[v]
        /\ u \in Ids /\ awaiting' = [a EXCEPT ![u] = a[u] + 1]
    BY <1>5, <2>1, HandleFacts, CallFacts
  <2> HIDE DEF u, a
  <2>3. awaiting' \in [Ids -> 0..MaxCalls] /\ \A v \in Ids : awaiting'[v] <= made'
    BY <1>0, <2>1, <2>2, SMTT(40)
  <2>4. made' \in 0..MaxCalls
    BY <1>0, <2>1
  <2>5. Good(registry') /\ steps' \in [Ids -> Seq(Step)] /\ calls' \subseteq Call
    BY <1>5, CallFacts
  <2>6. QED
    BY <1>0, <2>1, <2>3, <2>4, <2>5, HandleFacts DEF TypeInv, TypeOK, Good
<1>6. ASSUME NEW t \in Ids, NEW to \in Targets, SpawnRejected(t, to)
      PROVE  TypeInv'
  <2> DEFINE ack == [reinject |-> SpawnAck(t, to, "rejected")]
  <2>1. /\ Handle(t) /\ made < MaxCalls /\ made' = made + 1
        /\ steps' = [steps EXCEPT ![t] = <<ack>>]
        /\ awaiting' = Heard(t, awaiting)
        /\ UNCHANGED <<registry, line, requests, ledger, calls, refused, failed>>
    BY <1>6 DEF SpawnRejected
  <2>2. AtHand(t).to \in Names
    BY <2>1, HandleFacts
  <2>3. ack \in Step
    BY <2>2, ConversationAssumption DEF SpawnAck, Envelope, Kinds, Segments, Step
  <2> HIDE DEF ack
  <2>4. steps' \in [Ids -> Seq(Step)]
    BY <1>0, <2>1, <2>3
  <2>5. awaiting' \in [Ids -> 0..MaxCalls] /\ \A v \in Ids : awaiting'[v] <= made'
    BY <1>0, <2>1, HandleFacts
  <2>6. made' \in 0..MaxCalls
    BY <1>0, <2>1
  <2>7. QED
    BY <1>0, <2>1, <2>4, <2>5, <2>6, HandleFacts DEF TypeInv, TypeOK
<1>7. ASSUME NEW t \in Ids, Fail(t)
      PROVE  TypeInv'
  <2>1. /\ Handle(t) /\ awaiting' = Heard(t, awaiting) /\ failed' = TRUE
        /\ UNCHANGED <<registry, line, steps, requests, ledger, made, calls, refused>>
    BY <1>7 DEF Fail
  <2>2. awaiting' \in [Ids -> 0..MaxCalls] /\ \A u \in Ids : awaiting'[u] <= made
    BY <1>0, <2>1, HandleFacts
  <2>3. QED
    BY <1>0, <2>1, <2>2, HandleFacts DEF TypeInv, TypeOK
<1>8. ASSUME NEW t \in Ids, Reinject(t)
      PROVE  TypeInv'
  <2>1. /\ steps[t] # <<>> /\ "reinject" \in DOMAIN Head(steps[t])
        /\ line' = Append(line, Head(steps[t]).reinject)
        /\ steps' = [steps EXCEPT ![t] = Tail(@)]
    BY <1>8 DEF Reinject
  <2>2. line' \in Seq(Envelope) /\ steps' \in [Ids -> Seq(Step)]
    BY <1>0, <2>1, StepFacts
  <2>3. QED
    BY <1>0, <1>8, <2>2 DEF Reinject, hist, TypeInv, TypeOK
<1>9. ASSUME NEW t \in Ids, Open(t)
      PROVE  TypeInv'
  <2>1. ledger' \subseteq Ids /\ steps' \in [Ids -> Seq(Step)]
    BY <1>0, <1>9, StepFacts DEF Open
  <2>2. QED
    BY <1>0, <1>9, <2>1 DEF Open, hist, TypeInv, TypeOK
<1>10. CASE UNCHANGED vars
  BY <1>0, <1>10 DEF vars, hist, TypeInv, TypeOK
<1>11. ASSUME NEW t \in Ids, ProcessMessage(t)
       PROVE  TypeInv'
  BY <1>4, <1>5, <1>6, <1>7, <1>8, <1>9, <1>11
     DEF ProcessMessage, RespondNone, Reply, Send, Spawn
<1>12. QED
  BY <1>1, <1>2, <1>3, <1>10, <1>11 DEF Next, Route

\* The registry's maps are inverse and hold threads and chains; the rest of the
\* state has its type, with any host.
THEOREM TypeCorrect == Spec => []TypeOK
<1>1. TypeInv => TypeOK
  BY DEF TypeInv
<1>2. QED
  BY <1>1, InitTypeInv, StepTypeInv, PTL DEF Spec
-----------------------------------------------------------------------------
(* Chains that begin with a client.                                        *)

\* A call's chain is the caller's and the callee.
LEMMA CallChainFacts ==
    ASSUME NEW c \in Chains, NEW n \in Names
    PROVE  /\ Append(c, n) \in Chains /\ AllButLast(Append(c, n)) = c
           /\ LastOf(Append(c, n)) = n /\ Len(Append(c, n)) > 1
<1>1. c \in Seq(Segments) /\ n \in Segments
  BY DEF Chains, Segments
<1>2. LastOf(Append(c, n)) = n
  BY <1>1 DEF LastOf
<1>3. QED
  BY <1>2, ChainFacts

LEMMA BaseFacts ==
    ASSUME NEW i \in Names, NEW t \in Names
    PROVE  /\ Base \o <<i, t>> \in Chains /\ Base \o <<i>> \in Chains
           /\ LastOf(Base \o <<i, t>>) = t /\ LastOf(Base \o <<i>>) = i
           /\ AllButLast(Base \o <<i, t>>) = Base \o <<i>>
           /\ Len(Base \o <<i, t>>) > 1
           /\ \A j, k \in Names : Base \o <<i, t>> = Base \o <<j, k>> => i = j /\ t = k
           /\ \A j \in Names : Base \o <<i, t>> # Base \o <<j>>
           /\ registry.root # NoRoot => Base \o <<i, t>> # RootChain
<1>1. Names \subseteq Segments /\ System \in Segments /\ Organism \in Segments
  BY DEF Segments
<1>2. Base \in Seq(Segments) /\ (registry.root # NoRoot => Base = RootChain /\ Len(Base) = 2)
  BY <1>1 DEF Base, RootChain
<1>3. ASSUME NEW j \in Names, NEW k \in Names
      PROVE  /\ Base \o <<j>> = Append(Base, j)
             /\ Base \o <<j, k>> = Append(Append(Base, j), k)
             /\ Append(Base, j) \in Seq(Segments) /\ Len(Append(Base, j)) = Len(Base) + 1
             /\ Append(Append(Base, j), k) \in Seq(Segments)
             /\ Len(Append(Append(Base, j), k)) = Len(Base) + 2
  <2>1. j \in Segments /\ k \in Segments
    BY <1>1
  <2>2. /\ <<j>> \in Seq(Segments) /\ <<k>> \in Seq(Segments)
        /\ Append(<<j>>, k) = <<j, k>>
    <3>1. /\ <<j>> \in Seq(Segments) /\ <<k>> \in Seq(Segments) /\ <<j, k>> \in Seq(Segments)
          /\ Len(<<j>>) = 1 /\ Len(<<j, k>>) = 2
      BY <2>1
    <3>2. /\ Append(<<j>>, k) \in Seq(Segments) /\ Len(Append(<<j>>, k)) = 2
          /\ \A n \in 1..2 : Append(<<j>>, k)[n] = <<j, k>>[n]
      BY <2>1, <3>1, AppendProperties
    <3>3. QED
      BY <3>1, <3>2, SeqEqual
  <2>3. Append(<<j>>, k) = <<j>> \o <<k>>
    BY <2>1, <2>2, AppendIsConcat
  <2>4. /\ Append(Base, j) = Base \o <<j>> /\ Append(Base, j) \in Seq(Segments)
        /\ Append(Append(Base, j), k) = Append(Base, j) \o <<k>>
    BY <1>2, <2>1, AppendIsConcat, AppendProperties
  <2>5. (Base \o <<j>>) \o <<k>> = Base \o (<<j>> \o <<k>>)
    BY <1>2, <2>2, ConcatAssociative
  <2>6. /\ Len(Append(Base, j)) = Len(Base) + 1
        /\ Append(Append(Base, j), k) \in Seq(Segments)
        /\ Len(Append(Append(Base, j), k)) = Len(Base) + 2
    BY <1>2, <2>1
  <2>7. QED
    BY <2>2, <2>3, <2>4, <2>5, <2>6
<1>4. Len(Base) \in Nat /\ Len(RootChain) = 2
  BY <1>2 DEF RootChain
<1>5. Append(Base, i) \in Chains /\ LastOf(Append(Base, i)) = i
  BY <1>1, <1>2 DEF Chains, LastOf
<1>6. /\ Append(Append(Base, i), t) \in Chains /\ LastOf(Append(Append(Base, i), t)) = t
      /\ AllButLast(Append(Append(Base, i), t)) = Append(Base, i)
      /\ Len(Append(Append(Base, i), t)) > 1
  BY <1>5, CallChainFacts
<1>7. ASSUME NEW j \in Names, NEW k \in Names, Append(Append(Base, i), t) = Append(Append(Base, j), k)
      PROVE  i = j /\ t = k
  BY <1>1, <1>2, <1>3, <1>7, AppendInjective
<1>8. \A j \in Names : Base \o <<i, t>> # Base \o <<j>>
  BY <1>3, <1>4
<1>9. registry.root # NoRoot => Base \o <<i, t>> # RootChain
  BY <1>2, <1>3, <1>4
<1>10. /\ Base \o <<i>> = Append(Base, i) /\ Base \o <<i, t>> = Append(Append(Base, i), t)
       /\ \A j, k \in Names : Base \o <<j, k>> = Append(Append(Base, j), k)
  BY <1>3
<1>11. \A j, k \in Names : Base \o <<i, t>> = Base \o <<j, k>> => i = j /\ t = k
  BY <1>7, <1>10
<1>12. QED
  BY <1>5, <1>6, <1>8, <1>9, <1>10, <1>11

\* get_or_create adds at most the thread it returns.
LEMMA CreateFacts ==
    ASSUME NEW r, Good(r), NEW chain \in Chains, NEW fresh \in Ids \cup {NoRoot},
           ~Known(r, fresh), ~Known(GetOrCreate(r, chain, fresh), NoRoot)
    PROVE  LET q == GetOrCreate(r, chain, fresh)
           IN  /\ q.root = r.root
               /\ \A id \in DOMAIN q.chainOf \ DOMAIN r.chainOf : id = fresh /\ q.chainOf[id] = chain
               /\ Known(q, q.uuidOf[chain]) /\ q.chainOf[q.uuidOf[chain]] = chain
               /\ q.uuidOf[chain] \in Ids
               /\ chain \in DOMAIN r.uuidOf => q.uuidOf[chain] = r.uuidOf[chain]
<1> DEFINE q == GetOrCreate(r, chain, fresh)
<1>1. Good(q) /\ chain \in DOMAIN q.uuidOf
  BY GetOrCreateGood
<1>2. /\ Known(q, q.uuidOf[chain]) /\ q.chainOf[q.uuidOf[chain]] = chain
      /\ q.uuidOf[chain] \in Ids
  BY <1>1 DEF Good, Inverses, IsRegistry, Known
<1>3. /\ q.root = r.root
      /\ \A id \in DOMAIN q.chainOf \ DOMAIN r.chainOf : id = fresh /\ q.chainOf[id] = chain
      /\ chain \in DOMAIN r.uuidOf => q.uuidOf[chain] = r.uuidOf[chain]
  BY DEF GetOrCreate, Bind, Insert
<1>4. QED
  BY <1>2, <1>3

\* What is true of threads and envelopes stays true as the registry and the
\* calls grow.
LEMMA Persists ==
    ASSUME Keeps(registry, registry'), registry'.root = registry.root, calls \subseteq calls',
           DOMAIN registry.chainOf \subseteq DOMAIN registry'.chainOf
    PROVE  /\ Base' = Base
           /\ \A id \in DOMAIN registry.chainOf : registry'.chainOf[id] = registry.chainOf[id]
           /\ \A id \in DOMAIN registry.chainOf : OfRequest(id) => OfRequest(id)'
           /\ \A id : Live(id) => Live(id)'
           /\ \A m : Addressed(m) => Addressed(m)'
           /\ \A m : Answers(m) => Answers(m)'
           /\ CallsHold =>
                \A c \in calls :
                  /\ Live(c.at)' /\ Known(registry', c.on)
                  /\ registry'.chainOf[c.on] = Append(registry'.chainOf[c.at], c.callee)
                  /\ LastOf(registry'.chainOf[c.at]) = c.caller
                  /\ c.caller \in Listeners
<1>1. Base' = Base
  BY DEF Base
<1>2. \A id \in DOMAIN registry.chainOf :
        id \in DOMAIN registry'.chainOf /\ registry'.chainOf[id] = registry.chainOf[id]
  BY DEF Keeps
<1>3. ASSUME NEW id \in DOMAIN registry.chainOf
      PROVE  /\ OfRequest(id) => OfRequest(id)'
             /\ OfClient(id) => OfClient(id)'
             /\ OfCall(id) => OfCall(id)'
  BY <1>1, <1>2 DEF OfRequest, OfClient, OfCall
<1>4. \A id : Live(id) => Live(id)'
  BY <1>2, <1>3 DEF Live, Known
<1>5. \A m : Addressed(m) => Addressed(m)'
  BY <1>2, <1>4 DEF Addressed, Live, Known
<1>6. \A m : Answers(m) => Answers(m)'
  BY DEF Answers
<1>7. ASSUME CallsHold, NEW c \in calls
      PROVE  /\ Live(c.at)' /\ Known(registry', c.on)
             /\ registry'.chainOf[c.on] = Append(registry'.chainOf[c.at], c.callee)
             /\ LastOf(registry'.chainOf[c.at]) = c.caller
             /\ c.caller \in Listeners
  BY <1>2, <1>4, <1>7 DEF CallsHold, Live, Known
<1>8. QED
  BY <1>1, <1>2, <1>3, <1>4, <1>5, <1>6, <1>7
-----------------------------------------------------------------------------
(* The steps.                                                              *)

\* The handler called is at the end of the chain, and was called or asked.
LEMMA HandlerFacts ==
    ASSUME IInv, OrderlyHost, NEW t \in Ids, Handle(t)
    PROVE  /\ Live(t) /\ registry.chainOf[t] \in Chains
           /\ LastOf(registry.chainOf[t]) = AtHand(t).to
           /\ AtHand(t).to \in Listeners
           /\ OfRequest(t) \/ OfCall(t)
<1>1. /\ AtHand(t) \in Elements(queue[t]) /\ AtHand(t).to \in Listeners /\ AtHand(t).thread = t
  BY HandleFacts DEF IInv
<1>2. Live(t) /\ LastOf(registry.chainOf[t]) = AtHand(t).to
  BY <1>1 DEF IInv, Holds, EnvelopesHold, Addressed
<1>3. registry.chainOf[t] \in Chains
  BY <1>2 DEF Live, Known, IInv, TypeInv, TypeOK, IsRegistry
<1>4. ~OfClient(t)
  <2> SUFFICES ASSUME NEW q \in Requests, registry.chainOf[t] = Base \o <<q.from>>
               PROVE  FALSE
    BY DEF OfClient
  <2>1. q.from \in Names /\ q.from \notin Listeners
    BY ConversationAssumption DEF OrderlyHost
  <2>2. QED
    BY <1>1, <1>2, <2>1, BaseFacts
<1>5. QED
  BY <1>1, <1>2, <1>3, <1>4 DEF Live

\* What steps that leave registry and calls alone keep.
LEMMA Unmoved ==
    ASSUME Holds, UNCHANGED <<registry, calls>>
    PROVE  /\ ThreadsHold' /\ CallsHold'
           /\ \A m : Addressed(m) => Addressed(m)'
           /\ \A m : Answers(m) => Answers(m)'
BY ZenonT(60) DEF Holds, ThreadsHold, CallsHold, Live, OfRequest, OfClient, OfCall, Base, Addressed, Answers

\* What there is besides after such a step is at its place, too.
LEMMA EnvelopesStay ==
    ASSUME Holds,
           \A m : Addressed(m) => Addressed(m)',
           \A m : Answers(m) => Answers(m)',
           \A m \in Elements(line') :
              \/ m \in Elements(line)
              \/ (Addressed(m)' \/ Asked(m)) /\ Answers(m)',
           \A u \in Ids : \A m \in Elements(queue'[u]) :
              \/ m \in Elements(queue[u])
              \/ Addressed(m)' /\ Answers(m)',
           \A u \in Ids : \A s \in Elements(steps'[u]) :
              \/ s \in Elements(steps[u])
              \/ "reinject" \in DOMAIN s => Addressed(s.reinject)' /\ Answers(s.reinject)'
    PROVE  EnvelopesHold'
<1>1. \A m : Asked(m) <=> Asked(m)'
  BY DEF Asked
<1>2. QED
  BY <1>1 DEF Holds, EnvelopesHold

LEMMA InjectHolds ==
    ASSUME IInv, NEW q \in Requests, Inject(q)
    PROVE  Holds'
<1> DEFINE m == [from |-> q.from, to |-> q.to, thread |-> q.thread, kind |-> "task", re |-> NoRoot]
<1>1. /\ line' = Append(line, m) /\ UNCHANGED <<registry, queue, steps, calls>>
      /\ line \in Seq(Envelope)
  BY DEF Inject, hist, IInv, TypeInv, TypeOK
<1>2. m \in Envelope
  BY ConversationAssumption DEF Envelope, Kinds, Segments
<1>3. Asked(m) /\ Answers(m)'
  BY DEF Asked, Answers
<1> HIDE DEF m
<1>4. Elements(line') = Elements(line) \cup {m}
  BY <1>1, <1>2, ElementsOf
<1>5. QED
  BY <1>1, <1>3, <1>4, Unmoved, EnvelopesStay DEF IInv, Holds

LEMMA RefuseHolds == ASSUME IInv, RouteRefuses PROVE Holds'
<1>1. UNCHANGED <<registry, queue, steps, calls>> /\ Elements(line') \subseteq Elements(line)
  BY RoutedFacts DEF RouteRefuses, IInv
<1>2. QED
  BY <1>1, Unmoved, EnvelopesStay DEF IInv, Holds

\* A request's chain is not there before the request.
LEMMA RequestIsNew ==
    ASSUME IInv, OrderlyHost, NEW q \in Requests, ~Known(registry, q.thread)
    PROVE  Base \o <<q.from, q.to>> \notin DOMAIN registry.uuidOf
<1> DEFINE chain == Base \o <<q.from, q.to>>
<1> SUFFICES ASSUME chain \in DOMAIN registry.uuidOf
             PROVE  FALSE
    OBVIOUS
<1>1. PICK id \in DOMAIN registry.chainOf : registry.chainOf[id] = chain
  BY ZenonT(60) DEF IInv, TypeInv, TypeOK, Inverses
<1>2. q.from \in Names /\ q.to \in Names /\ q.from \notin Listeners
  BY ConversationAssumption DEF OrderlyHost
<1>3. registry.root # NoRoot => chain # RootChain
  BY <1>2, BaseFacts
<1>4. OfRequest(id) \/ OfClient(id) \/ OfCall(id)
  BY <1>1, <1>3 DEF IInv, Holds, ThreadsHold, Live
<1>5. CASE OfRequest(id)
  <2>1. PICK p \in Requests : p.thread = id /\ chain = Base \o <<p.from, p.to>>
    BY <1>1, <1>5 DEF OfRequest
  <2>2. p.from \in Names /\ p.to \in Names
    BY ConversationAssumption
  <2>3. p.from = q.from /\ p.to = q.to
    BY <1>2, <2>1, <2>2, BaseFacts
  <2>4. QED
    BY <1>1, <2>1, <2>3 DEF OrderlyHost, Known
<1>6. CASE OfClient(id)
  <2>1. PICK p \in Requests : chain = Base \o <<p.from>>
    BY <1>1, <1>6 DEF OfClient
  <2>2. p.from \in Names
    BY ConversationAssumption
  <2>3. QED
    BY <1>2, <2>1, <2>2, BaseFacts
<1>7. CASE OfCall(id)
  <2>1. PICK c \in calls : c.on = id
    BY <1>7 DEF OfCall
  <2>2. /\ chain = Append(registry.chainOf[c.at], c.callee) /\ Known(registry, c.at)
        /\ LastOf(registry.chainOf[c.at]) = c.caller /\ c.caller \in Listeners
    BY <1>1, <2>1 DEF IInv, Holds, CallsHold, Live
  <2>3. registry.chainOf[c.at] \in Chains /\ c.callee \in Names
    BY <2>1, <2>2 DEF Known, IInv, TypeInv, TypeOK, IsRegistry, Call
  <2>4. AllButLast(chain) = registry.chainOf[c.at]
    BY <2>2, <2>3, CallChainFacts
  <2>5. AllButLast(chain) = Base \o <<q.from>> /\ LastOf(Base \o <<q.from>>) = q.from
    BY <1>2, BaseFacts
  <2>6. QED
    BY <1>2, <2>2, <2>4, <2>5
<1>8. QED
  BY <1>4, <1>5, <1>6, <1>7

\* An envelope that arrives is at the end of the chain its thread has then.
LEMMA PassHolds == ASSUME IInv, OrderlyHost, RoutePasses PROVE Holds'
<1> PICK m : m = Head(line)
    OBVIOUS
<1> PICK chain : chain = Base \o <<m.from, m.to>>
    OBVIOUS
<1>1. /\ m \in Envelope /\ m \in Elements(line) /\ m.to \in Listeners
      /\ Elements(line') \subseteq Elements(line)
      /\ \A t \in Ids : Elements(queue'[t]) \subseteq Elements(queue[t]) \cup {m}
      /\ Keeps(registry, registry') /\ Good(registry')
  BY PassFacts DEF IInv
<1>2. /\ registry' = IF Known(registry, m.thread) \/ chain \in DOMAIN registry.uuidOf
                     THEN registry ELSE Bind(registry, m.thread, chain)
      /\ UNCHANGED <<steps, calls>>
  BY DEF RoutePasses, RegisterThread, hist, Base
<1>3. /\ registry'.root = registry.root
      /\ DOMAIN registry.chainOf \subseteq DOMAIN registry'.chainOf
  BY <1>2 DEF Bind, Insert
<1>0. /\ Keeps(registry, registry') /\ registry'.root = registry.root
      /\ calls \subseteq calls' /\ DOMAIN registry.chainOf \subseteq DOMAIN registry'.chainOf
  <2>1. calls \subseteq calls'
    BY <1>2
  <2>2. QED
    BY <1>1, <1>3, <2>1, Zenon
<1>4. Addressed(m) \/ Asked(m)
  BY <1>1 DEF IInv, Holds, EnvelopesHold
<1>5. CASE Known(registry, m.thread)
  <2>1. registry' = registry
    BY <1>2, <1>5
  <2>2. Addressed(m)
    <3> SUFFICES ASSUME Asked(m) PROVE Addressed(m)
      BY <1>4
    <3>1. PICK q \in Requests : m.to = q.to /\ m.thread = q.thread
      BY DEF Asked
    <3>2. OfRequest(m.thread)
      BY <1>5, <3>1 DEF Known, External, IInv, Holds, ThreadsHold
    <3>3. PICK p \in Requests : p.thread = q.thread /\ registry.chainOf[m.thread] = Base \o <<p.from, p.to>>
      BY <3>1, <3>2 DEF OfRequest
    <3>4. p.to = m.to /\ p.from \in Names /\ p.to \in Names
      BY <3>1, <3>3, ConversationAssumption DEF OrderlyHost
    <3>5. LastOf(Base \o <<p.from, p.to>>) = p.to
      BY <3>4, BaseFacts
    <3>6. QED
      BY <1>5, <3>2, <3>3, <3>4, <3>5 DEF Addressed, Live
  <2>3. Answers(m)
    BY <1>1 DEF IInv, Holds, EnvelopesHold
  <2>4. QED
    BY <1>1, <1>2, <2>1, <2>2, <2>3, Unmoved, EnvelopesStay DEF IInv, Holds
<1>6. CASE ~Known(registry, m.thread)
  <2>1. Asked(m)
    BY <1>4, <1>6 DEF Addressed, Live
  <2>2. PICK q \in Requests : m.from = q.from /\ m.to = q.to /\ m.thread = q.thread
    BY <2>1 DEF Asked
  <2>3. chain = Base \o <<q.from, q.to>> /\ chain \notin DOMAIN registry.uuidOf
    BY <1>6, <2>2, RequestIsNew
  <2>4. registry' = Bind(registry, m.thread, chain)
    BY <1>2, <1>6, <2>3
  <2>5. q.from \in Names /\ q.to \in Names
    BY ConversationAssumption, SMTT(40)
  <2>6. /\ DOMAIN registry'.chainOf = DOMAIN registry.chainOf \cup {m.thread}
        /\ registry'.chainOf[m.thread] = chain
    <3>1. registry'.chainOf = Insert(registry.chainOf, m.thread, chain)
      BY <2>4 DEF Bind
    <3>2. /\ DOMAIN Insert(registry.chainOf, m.thread, chain) = DOMAIN registry.chainOf \cup {m.thread}
          /\ Insert(registry.chainOf, m.thread, chain)[m.thread] = chain
      BY DEF Insert
    <3>3. QED
      BY <3>1, <3>2, Zenon
  <2>7. /\ Base' = Base
        /\ \A id \in DOMAIN registry.chainOf : registry'.chainOf[id] = registry.chainOf[id]
        /\ \A id \in DOMAIN registry.chainOf : OfRequest(id) => OfRequest(id)'
        /\ \A id : Live(id) => Live(id)'
        /\ \A e : Addressed(e) => Addressed(e)'
        /\ \A e : Answers(e) => Answers(e)'
    BY <1>0, Persists, ZenonT(60)
  <2>8. CallsHold'
    <3>1. CallsHold
      BY Zenon DEF IInv, Holds
    <3>2. QED
      BY <1>1, <1>2, <1>3, <1>0, <3>1, Persists DEF CallsHold
  <2>9. OfRequest(m.thread)' /\ Live(m.thread)'
    BY <2>2, <2>3, <2>6, <2>7 DEF OfRequest, Live, Known
  <2>10. ThreadsHold'
    BY <1>3, <2>6, <2>7, <2>9 DEF IInv, Holds, ThreadsHold
  <2>11. Addressed(m)' /\ Answers(m)'
    <3>1. LastOf(Base \o <<q.from, q.to>>) = q.to
      BY <2>5, BaseFacts
    <3>2. Answers(m)
      BY <1>1 DEF IInv, Holds, EnvelopesHold
    <3>3. QED
      BY <2>2, <2>3, <2>6, <2>7, <2>9, <3>1, <3>2 DEF Addressed
  <2>12. EnvelopesHold'
    BY <1>1, <1>2, <2>7, <2>11, EnvelopesStay DEF IInv
  <2>13. QED
    BY <2>8, <2>10, <2>12 DEF Holds
<1>7. QED
  BY <1>5, <1>6

\* A response goes back along the chain: to the caller on the caller's thread,
\* or to the client on the thread of its answers.
LEMMA RespondHolds ==
    ASSUME IInv, OrderlyHost, NEW t \in Ids, NEW kind \in {"ack", "reply"}, Respond(t, kind)
    PROVE  Holds'
<1> PICK m : m = ResponseOn(t, registry', kind)
    OBVIOUS
<1> PICK chain : chain = AllButLast(registry.chainOf[t])
    OBVIOUS
<1>1. /\ Handle(t) /\ UNCHANGED <<line, calls>>
      /\ ~Known(registry', NoRoot)
      /\ registry' = PruneForResponse(registry, t, Fresh(registry))
  BY DEF Respond
<1>2. /\ Live(t) /\ registry.chainOf[t] \in Chains
      /\ LastOf(registry.chainOf[t]) = AtHand(t).to
      /\ AtHand(t).to \in Listeners
      /\ OfRequest(t) \/ OfCall(t)
      /\ \A u \in Ids : Elements(queue'[u]) \subseteq Elements(queue[u])
  BY <1>1, HandlerFacts, HandleFacts DEF IInv
<1>3. m.from = AtHand(t).to /\ m.to = LastOf(chain) /\ m.thread = registry'.uuidOf[chain] /\ m.re = t
  BY DEF ResponseOn, PruneTarget, PruneThread
\* Whose response it is.
<1>4. \/ /\ chain \in Chains /\ Len(registry.chainOf[t]) > 1
         /\ \E q \in Requests : /\ q.thread = t /\ q.to = AtHand(t).to /\ q.from = LastOf(chain)
                                /\ chain = Base \o <<q.from>>
      \/ /\ chain \in Chains /\ Len(registry.chainOf[t]) > 1
         /\ \E c \in calls : /\ c.on = t /\ c.callee = AtHand(t).to /\ c.caller = LastOf(chain)
                             /\ Live(c.at) /\ chain = registry.chainOf[c.at]
  <2>1. CASE OfRequest(t)
    <3>1. PICK q \in Requests : q.thread = t /\ registry.chainOf[t] = Base \o <<q.from, q.to>>
      BY <2>1 DEF OfRequest
    <3>2. q.from \in Names /\ q.to \in Names
      BY ConversationAssumption
    <3>3. /\ Base \o <<q.from>> \in Chains /\ LastOf(Base \o <<q.from, q.to>>) = q.to
          /\ LastOf(Base \o <<q.from>>) = q.from
          /\ AllButLast(Base \o <<q.from, q.to>>) = Base \o <<q.from>>
          /\ Len(Base \o <<q.from, q.to>>) > 1
      BY <3>2, BaseFacts
    <3>4. QED
      BY <1>2, <3>1, <3>3
  <2>2. CASE OfCall(t)
    <3>1. PICK c \in calls : c.on = t
      BY <2>2 DEF OfCall
    <3>2. /\ registry.chainOf[t] = Append(registry.chainOf[c.at], c.callee)
          /\ LastOf(registry.chainOf[c.at]) = c.caller /\ Live(c.at)
      BY <3>1 DEF IInv, Holds, CallsHold
    <3>3. registry.chainOf[c.at] \in Chains /\ c.callee \in Names
      BY <3>1, <3>2 DEF Live, Known, IInv, TypeInv, TypeOK, IsRegistry, Call
    <3>4. /\ AllButLast(registry.chainOf[t]) = registry.chainOf[c.at]
          /\ LastOf(registry.chainOf[t]) = c.callee /\ Len(registry.chainOf[t]) > 1
      BY <3>2, <3>3, CallChainFacts
    <3>5. QED
      BY <1>2, <3>1, <3>2, <3>3, <3>4
  <2>3. QED
    BY <1>2, <2>1, <2>2
<1>5. HasCaller(registry, t)
  BY <1>2, <1>4 DEF HasCaller, Live
<1>6. /\ registry' = GetOrCreate(registry, chain, Fresh(registry))
      /\ DOMAIN registry.chainOf \subseteq DOMAIN registry'.chainOf
      /\ Keeps(registry, registry')
      /\ steps' = [steps EXCEPT ![t] = <<[reinject |-> m]>>]
  BY <1>5, RespondFacts DEF IInv
<1>7. /\ registry'.root = registry.root
      /\ \A id \in DOMAIN registry'.chainOf \ DOMAIN registry.chainOf :
            id = Fresh(registry) /\ registry'.chainOf[id] = chain
      /\ Known(registry', m.thread) /\ registry'.chainOf[m.thread] = chain
      /\ chain \in DOMAIN registry.uuidOf => m.thread = registry.uuidOf[chain]
  <2>1. /\ Good(registry) /\ Fresh(registry) \in Ids \cup {NoRoot} /\ ~Known(registry, Fresh(registry))
    BY FreshFacts DEF IInv, TypeInv, TypeOK, Good
  <2>2. chain \in Chains
    BY <1>4
  <2>3. QED
    BY <1>1, <1>3, <1>6, <2>1, <2>2, CreateFacts
<1>0. /\ Keeps(registry, registry') /\ registry'.root = registry.root
      /\ calls \subseteq calls' /\ DOMAIN registry.chainOf \subseteq DOMAIN registry'.chainOf
  <2>1. calls \subseteq calls'
    BY <1>1
  <2>2. QED
    BY <1>6, <1>7, <2>1, Zenon
<1>8. Fresh(registry) \notin External
  BY FreshFacts, SMTT(40) DEF IInv, TypeInv
<1>9. /\ Base' = Base
      /\ \A id \in DOMAIN registry.chainOf : registry'.chainOf[id] = registry.chainOf[id]
      /\ \A id \in DOMAIN registry.chainOf : OfRequest(id) => OfRequest(id)'
      /\ \A id : Live(id) => Live(id)'
      /\ \A e : Addressed(e) => Addressed(e)'
      /\ \A e : Answers(e) => Answers(e)'
  BY <1>0, Persists, ZenonT(60)
<1>10. CallsHold'
  <2>1. CallsHold
    BY Zenon DEF IInv, Holds
  <2>2. QED
    BY <1>1, <1>6, <1>7, <1>0, <2>1, Persists DEF CallsHold
<1>11. ASSUME NEW c \in calls, Live(c.at), chain = registry.chainOf[c.at]
       PROVE  m.thread = c.at /\ registry' = registry
  <2>1. chain \in DOMAIN registry.uuidOf /\ registry.uuidOf[chain] = c.at
    BY <1>11 DEF Live, Known, IInv, TypeInv, TypeOK, Inverses
  <2>2. QED
    BY <1>6, <1>7, <2>1 DEF GetOrCreate
<1>12. Answers(m)'
  BY <1>1, <1>3, <1>4, <1>11 DEF Answers
<1>13. ASSUME NEW c \in calls, Live(c.at), chain = registry.chainOf[c.at]
       PROVE  ThreadsHold' /\ Addressed(m)'
  <2>1. m.thread = c.at /\ registry' = registry
    BY <1>11, <1>13
  <2>2. ThreadsHold'
    BY <1>1, <2>1, Unmoved DEF IInv
  <2>3. Addressed(m)'
    BY <1>3, <1>7, <1>9, <1>13, <2>1 DEF Addressed
  <2>4. QED
    BY <2>2, <2>3
<1>14. ASSUME NEW q \in Requests, chain = Base \o <<q.from>>
       PROVE  ThreadsHold' /\ Addressed(m)'
  <2>1. \A id : Known(registry', id) /\ registry'.chainOf[id] = chain => Live(id)'
    BY <1>9, <1>14 DEF Live, OfClient
  <2>2. Addressed(m)'
    BY <1>3, <1>7, <2>1 DEF Addressed
  <2>3. ThreadsHold'
    BY <1>7, <1>8, <1>9, <2>1 DEF IInv, Holds, ThreadsHold, Known
  <2>4. QED
    BY <2>2, <2>3
<1>15. ThreadsHold' /\ Addressed(m)'
  BY <1>4, <1>13, <1>14
<1>16. EnvelopesHold'
  <2>1. \A u \in Ids : \A s \in Elements(steps'[u]) : s \in Elements(steps[u]) \/ s = [reinject |-> m]
    BY <1>6, ElementsOfSteps DEF IInv, TypeInv, TypeOK
  <2>2. QED
    BY <1>1, <1>2, <1>9, <1>12, <1>15, <2>1, EnvelopesStay DEF IInv
<1>17. QED
  BY <1>10, <1>15, <1>16 DEF Holds

\* A call extends the chain of the caller's thread, at whose end the work and
\* the acknowledgement find their addressees.
LEMMA CallHolds ==
    ASSUME IInv, OrderlyHost, NEW t \in Ids, NEW to \in Targets, NEW after,
           after = <<>> \/ after = <<[reinject |-> SpawnAck(t, to, "accepted")]>>,
           MakeCall(t, to, after)
    PROVE  Holds'
<1> PICK chain : chain = ExtendedChain(registry, t, to)
    OBVIOUS
<1> PICK u : u = registry'.uuidOf[chain]
    OBVIOUS
<1> PICK work : work = Work(t, to, u)
    OBVIOUS
<1> PICK ack : ack = SpawnAck(t, to, "accepted")
    OBVIOUS
<1> PICK caller : caller = AtHand(t).to
    OBVIOUS
<1>1. /\ Handle(t) /\ line' = line
      /\ ~Known(registry', NoRoot)
  BY DEF MakeCall
<1>2. /\ Live(t) /\ registry.chainOf[t] \in Chains
      /\ LastOf(registry.chainOf[t]) = caller /\ caller \in Listeners
      /\ \A v \in Ids : Elements(queue'[v]) \subseteq Elements(queue[v])
  BY <1>1, HandlerFacts, HandleFacts DEF IInv
<1>3. /\ registry' = GetOrCreate(registry, chain, Fresh(registry))
      /\ Keeps(registry, registry')
      /\ DOMAIN registry.chainOf \subseteq DOMAIN registry'.chainOf
      /\ u \in Ids /\ Known(registry', u) /\ registry'.chainOf[u] = chain
      /\ calls' = calls \cup {[caller |-> caller, at |-> t, callee |-> to, on |-> u]}
      /\ \A v \in Ids : v # t => steps'[v] = steps[v]
      /\ Elements(steps'[t]) \subseteq {[reinject |-> work], [open |-> u], [reinject |-> ack]}
  BY CallFacts DEF IInv
<1>4. chain = Append(registry.chainOf[t], to) /\ to \in Names
  BY <1>2, ConversationAssumption DEF ExtendedChain, Live
<1>5. chain \in Chains /\ LastOf(chain) = to
  BY <1>2, <1>4, CallChainFacts
<1>6. /\ registry'.root = registry.root
      /\ \A id \in DOMAIN registry'.chainOf \ DOMAIN registry.chainOf :
            id = Fresh(registry) /\ id = u
      /\ Fresh(registry) \notin External
  <2>1. /\ Good(registry) /\ Good(registry')
        /\ Fresh(registry) \in Ids \cup {NoRoot} /\ ~Known(registry, Fresh(registry))
        /\ Fresh(registry) \notin External
    BY FreshFacts, CallFacts DEF IInv, TypeInv, TypeOK, Good
  <2>2. /\ registry'.root = registry.root
        /\ \A id \in DOMAIN registry'.chainOf \ DOMAIN registry.chainOf :
              id = Fresh(registry) /\ registry'.chainOf[id] = chain
    BY <1>1, <1>3, <1>5, <2>1, CreateFacts
  <2>3. \A id \in DOMAIN registry'.chainOf : registry'.chainOf[id] = chain => id = u
    BY <2>1 DEF Good, Inverses
  <2>4. QED
    BY <2>1, <2>2, <2>3
<1>0. /\ Keeps(registry, registry') /\ registry'.root = registry.root
      /\ calls \subseteq calls' /\ DOMAIN registry.chainOf \subseteq DOMAIN registry'.chainOf
  <2>1. calls \subseteq calls'
    BY <1>3
  <2>2. QED
    BY <1>3, <1>6, <2>1, Zenon
<1>7. /\ Base' = Base
      /\ \A id \in DOMAIN registry.chainOf : registry'.chainOf[id] = registry.chainOf[id]
      /\ \A id \in DOMAIN registry.chainOf : OfRequest(id) => OfRequest(id)'
      /\ \A id : Live(id) => Live(id)'
      /\ \A e : Addressed(e) => Addressed(e)'
      /\ \A e : Answers(e) => Answers(e)'
  BY <1>0, Persists, ZenonT(60)
<1>8. Live(u)'
  <2>1. [caller |-> caller, at |-> t, callee |-> to, on |-> u].on = u
    OBVIOUS
  <2>2. OfCall(u)'
    BY <1>3, <2>1 DEF OfCall
  <2>3. QED
    BY <1>3, <2>2 DEF Live
<1>9. Live(t)' /\ registry'.chainOf[t] = registry.chainOf[t]
  BY <1>2, <1>7 DEF Live, Known
<1>10. CallsHold'
  <2>1. \A c \in calls :
          /\ Live(c.at)' /\ Known(registry', c.on)
          /\ registry'.chainOf[c.on] = Append(registry'.chainOf[c.at], c.callee)
          /\ LastOf(registry'.chainOf[c.at]) = c.caller
          /\ c.caller \in Listeners
    <3>1. CallsHold
      BY Zenon DEF IInv, Holds
    <3>2. QED
      BY <1>0, <3>1, Persists, ZenonT(60)
  <2>2. ASSUME NEW c, c = [caller |-> caller, at |-> t, callee |-> to, on |-> u]
        PROVE  /\ Live(c.at)' /\ Known(registry', c.on)
               /\ registry'.chainOf[c.on] = Append(registry'.chainOf[c.at], c.callee)
               /\ LastOf(registry'.chainOf[c.at]) = c.caller
               /\ c.caller \in Listeners
    <3>1. c.caller = caller /\ c.at = t /\ c.callee = to /\ c.on = u
      BY <2>2
    <3>2. QED
      BY <1>2, <1>3, <1>4, <1>9, <3>1
  <2>3. QED
    BY <1>3, <2>1, <2>2 DEF CallsHold
<1>11. ThreadsHold'
  BY <1>3, <1>6, <1>7, <1>8 DEF IInv, Holds, ThreadsHold
<1>12. /\ Addressed(work)' /\ Answers(work)'
       /\ Addressed(ack)' /\ Answers(ack)'
  <2>1. /\ work.to = to /\ work.thread = u /\ work.re = NoRoot
        /\ ack.to = caller /\ ack.thread = t /\ ack.re = NoRoot
    BY DEF Work, SpawnAck
  <2>2. QED
    BY <1>2, <1>3, <1>5, <1>8, <1>9, <2>1 DEF Addressed, Answers
<1>13. EnvelopesHold'
  <2>1. ASSUME NEW v \in Ids, NEW s \in Elements(steps'[v])
        PROVE  \/ s \in Elements(steps[v])
               \/ "reinject" \in DOMAIN s => s.reinject \in {work, ack}
    BY <1>3
  <2>2. QED
    BY <1>1, <1>2, <1>7, <1>12, <2>1, EnvelopesStay DEF IInv
<1>14. QED
  BY <1>10, <1>11, <1>13 DEF Holds

LEMMA RejectHolds ==
    ASSUME IInv, OrderlyHost, NEW t \in Ids, NEW to \in Targets, SpawnRejected(t, to)
    PROVE  Holds'
<1> PICK ack : ack = SpawnAck(t, to, "rejected")
    OBVIOUS
<1>1. /\ Handle(t) /\ steps' = [steps EXCEPT ![t] = <<[reinject |-> ack]>>]
      /\ UNCHANGED <<registry, line, calls>>
  BY DEF SpawnRejected
<1>2. /\ Live(t) /\ LastOf(registry.chainOf[t]) = AtHand(t).to
      /\ \A u \in Ids : Elements(queue'[u]) \subseteq Elements(queue[u])
  BY <1>1, HandlerFacts, HandleFacts DEF IInv
<1>3. /\ ThreadsHold' /\ CallsHold'
      /\ \A m : Addressed(m) => Addressed(m)'
      /\ \A m : Answers(m) => Answers(m)'
  BY <1>1, Unmoved DEF IInv
<1>4. Addressed(ack)' /\ Answers(ack)'
  BY <1>2, <1>3 DEF SpawnAck, Addressed, Answers
<1>5. \A u \in Ids : \A s \in Elements(steps'[u]) : s \in Elements(steps[u]) \/ s = [reinject |-> ack]
  BY <1>1, ElementsOfSteps DEF IInv, TypeInv, TypeOK
<1>6. QED
  BY <1>1, <1>2, <1>3, <1>4, <1>5, EnvelopesStay DEF IInv, Holds

LEMMA FailHolds ==
    ASSUME IInv, NEW t \in Ids, Fail(t)
    PROVE  Holds'
<1>1. Handle(t) /\ UNCHANGED <<registry, line, steps, calls>>
  BY DEF Fail
<1>2. \A u \in Ids : Elements(queue'[u]) \subseteq Elements(queue[u])
  BY <1>1, HandleFacts DEF IInv
<1>3. QED
  BY <1>1, <1>2, Unmoved, EnvelopesStay DEF IInv, Holds

\* The worker's further steps move what it has to do to where it goes.
LEMMA WorkerHolds ==
    ASSUME IInv, NEW t \in Ids, Reinject(t) \/ Open(t)
    PROVE  Holds'
<1>1. /\ steps[t] # <<>> /\ steps' = [steps EXCEPT ![t] = Tail(@)]
      /\ UNCHANGED <<registry, queue, calls>>
      /\ \/ line' = line
         \/ "reinject" \in DOMAIN Head(steps[t]) /\ line' = Append(line, Head(steps[t]).reinject)
  BY DEF Reinject, Open, hist
<1>2. /\ Head(steps[t]) \in Elements(steps[t])
      /\ "reinject" \in DOMAIN Head(steps[t]) => Head(steps[t]).reinject \in Envelope
      /\ \A u \in Ids : Elements(steps'[u]) \subseteq Elements(steps[u])
  BY <1>1, StepFacts DEF IInv
<1>3. ASSUME NEW m \in Elements(line')
      PROVE  m \in Elements(line) \/ (Addressed(m) /\ Answers(m))
  <2>1. CASE line' = line
    BY <1>3, <2>1
  <2>2. CASE "reinject" \in DOMAIN Head(steps[t]) /\ line' = Append(line, Head(steps[t]).reinject)
    <3>1. Elements(line') = Elements(line) \cup {Head(steps[t]).reinject}
      BY <1>2, <2>2, ElementsOf DEF IInv, TypeInv, TypeOK
    <3>2. QED
      BY <1>2, <1>3, <2>2, <3>1 DEF IInv, Holds, EnvelopesHold
  <2>3. QED
    BY <1>1, <2>1, <2>2
<1>4. QED
  BY <1>1, <1>2, <1>3, Unmoved, EnvelopesStay DEF IInv, Holds

LEMMA InitIInv == Init => IInv
<1> SUFFICES ASSUME Init PROVE IInv
    OBVIOUS
<1>1. TypeInv
  BY InitTypeInv
<1>2. /\ line = <<>> /\ calls = {} /\ \A t \in Ids : queue[t] = <<>> /\ steps[t] = <<>>
  BY DEF Init
<1>3. CallsHold /\ EnvelopesHold
  BY <1>2, ElementsOfSteps DEF CallsHold, EnvelopesHold
<1>4. ThreadsHold
  <2>1. CASE registry = EmptyRegistry
    BY <2>1 DEF EmptyRegistry, ThreadsHold
  <2>2. CASE registry = InitializeRoot(EmptyRegistry, Fresh(EmptyRegistry))
    <3>1. External \subseteq Ids /\ Ids \ External # {} /\ DOMAIN EmptyRegistry.chainOf = {}
      BY ConversationAssumption DEF External, EmptyRegistry
    <3>2. Unused(EmptyRegistry) = Ids \ External
      BY <3>1 DEF Unused
    <3>3. Fresh(EmptyRegistry) \in Ids /\ Fresh(EmptyRegistry) \notin External
      BY <3>1, <3>2 DEF Fresh
    <3>4. /\ registry.root = Fresh(EmptyRegistry)
          /\ DOMAIN registry.chainOf = {Fresh(EmptyRegistry)}
          /\ registry.chainOf[Fresh(EmptyRegistry)] = RootChain
      BY <2>2, <3>1 DEF InitializeRoot, EmptyRegistry, Bind, Insert
    <3>5. QED
      BY <3>3, <3>4, ConversationAssumption DEF ThreadsHold
  <2>3. QED
    BY <2>1, <2>2 DEF Init
<1>5. QED
  BY <1>1, <1>3, <1>4 DEF IInv, Holds

LEMMA StepIInv == OrderlyHost /\ IInv /\ [Next]_vars => IInv'
<1> SUFFICES ASSUME OrderlyHost, IInv, [Next]_vars PROVE IInv'
    OBVIOUS
<1>1. TypeInv'
  BY StepTypeInv DEF IInv
<1>2. ASSUME NEW t \in Ids, ProcessMessage(t)
      PROVE  Holds'
  BY <1>2, RespondHolds, CallHolds, RejectHolds, FailHolds, WorkerHolds
     DEF ProcessMessage, RespondNone, Reply, Send, Spawn
<1>3. ASSUME UNCHANGED vars
      PROVE  Holds'
  BY <1>3, Unmoved, EnvelopesStay DEF vars, hist, IInv, Holds
<1>4. Holds'
  BY <1>2, <1>3, InjectHolds, RefuseHolds, PassHolds DEF Next, Route
<1>5. QED
  BY <1>1, <1>4 DEF IInv
-----------------------------------------------------------------------------
(* The theorems.                                                           *)

LEMMA Inductive == ASSUME OrderlyHost PROVE Spec => []IInv
<1>1. IInv /\ [Next]_vars => IInv'
  BY StepIInv
<1>2. QED
  BY <1>1, InitIInv, PTL DEF Spec

\* What a handler is given comes on a thread whose chain ends with that
\* handler (route_stage and the threads of responses), with an orderly host,
\* any peers, and handlers that return anything.
THEOREM ChainsCorrect == ASSUME OrderlyHost PROVE Spec => []ChainsEndWithHandler
<1>1. IInv => ChainsEndWithHandler
  BY DEF IInv, TypeInv, Holds, EnvelopesHold, Addressed, Live, ChainsEndWithHandler
<1>2. QED
  BY <1>1, Inductive, PTL

\* Each response goes to the caller on the caller's thread, or to the client
\* that asked (prune_for_response, as process_message uses it), however calls
\* nest and branch.
THEOREM ResponsesCorrect == ASSUME OrderlyHost PROVE Spec => []ResponsesReachCaller
<1>1. IInv => ResponsesReachCaller
  BY DEF IInv, Holds, EnvelopesHold, Answers, InFlight, ResponsesReachCaller
<1>2. QED
  BY <1>1, Inductive, PTL
=============================================================================
