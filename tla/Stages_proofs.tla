---------------------------- MODULE Stages_proofs ---------------------------
(***************************************************************************)
(* Proofs about module Stages, for any number of threads, any messages and *)
(* any capacity: its types, with the bounds of the channels, that the      *)
(* stages end in order, and that they implement module Conduit.            *)
(***************************************************************************)
EXTENDS Stages, SequenceTheorems, TLAPS

\* EndsInOrder needs no strengthening but the types: that a stage which holds a
\* message has not ended, and that the stage it sends to has not ended either,
\* are its own second and third conjuncts.
IInv == TypeOK /\ EndsInOrder

LEMMA StageNames ==
    /\ \A s \in Gates : After(s) \in Stages /\ After(s) # "parse" /\ Before(After(s)) = s
    /\ \A s \in Stages \ {"parse"} : Before(s) \in Gates
BY DEF Gates, Stages, After, Before

LEMMA SendAppends ==
    ASSUME TypeOK, NEW s \in Stages, NEW m \in Messages, Send(s, m)
    PROVE  /\ chan' = [chan EXCEPT ![s] = Append(chan[s], m)]
           /\ chan' \in [Stages -> Seq(Messages)]
           /\ \A r \in Stages : Len(chan'[r]) <= Cap
<1>1. chan' = [chan EXCEPT ![s] = Append(chan[s], m)] /\ Len(chan[s]) < Cap
  BY DEF Send
<1>2. chan[s] \in Seq(Messages) /\ Cap \in Nat
  BY StagesAssumption DEF TypeOK
<1>3. Append(chan[s], m) \in Seq(Messages) /\ Len(Append(chan[s], m)) = Len(chan[s]) + 1
  BY <1>2
<1>4. Len(chan[s]) \in Nat
  BY <1>2
<1>5. QED
  BY <1>1, <1>2, <1>3, <1>4 DEF TypeOK

LEMMA HeadAndTail ==
    ASSUME NEW q \in Seq(Messages), q # <<>>
    PROVE  Head(q) \in Messages /\ Tail(q) \in Seq(Messages) /\ Len(Tail(q)) = Len(q) - 1
           /\ Len(q) \in Nat
OBVIOUS

LEMMA ResponsesAreMessages ==
    ASSUME NEW m, NEW r \in Responses(m)
    PROVE  r \in Seq(Messages)
<1> DEFINE R == {q \in Messages : q.fuel + 1 = m.fuel}
<1>1. r = <<>> \/ (\E a \in R : r = <<a>>) \/ (\E a, b \in R : r = <<a, b>>)
  BY DEF Responses
<1>2. CASE r = <<>>
  BY <1>2
<1>3. ASSUME NEW a \in R, r = <<a>>
      PROVE  r \in Seq(Messages)
  BY <1>3
<1>4. ASSUME NEW a \in R, NEW b \in R, r = <<a, b>>
      PROVE  r \in Seq(Messages)
  <2>1. a \in Messages /\ b \in Messages
    OBVIOUS
  <2>2. <<a, b>> \in Seq(Messages)
    BY <2>1
  <2>3. QED
    BY <1>4, <2>2
<1>5. QED
  BY <1>1, <1>2, <1>3, <1>4

LEMMA EmptyFits == <<>> \in Seq(Messages) /\ Len(<<>>) = 0 /\ 0 <= Cap
BY StagesAssumption

LEMMA ThreadOfMessage == \A m \in Messages : m.thread \in Threads
BY StagesAssumption DEF Messages

LEMMA InitIInv == Init => IInv
<1> SUFFICES ASSUME Init
             PROVE  IInv
    OBVIOUS
<1>1. 0 \in 0..MaxInjected
  BY StagesAssumption
<1>2. TypeOK
  BY EmptyFits, <1>1 DEF Init, TypeOK
<1>3. EndsInOrder
  BY DEF Init, EndsInOrder
<1>4. QED
  BY <1>2, <1>3 DEF IInv

-----------------------------------------------------------------------------
LEMMA StepType == IInv /\ [Next]_vars => TypeOK'
<1> SUFFICES ASSUME IInv, [Next]_vars
             PROVE  TypeOK'
    OBVIOUS
<1> USE StagesAssumption
<1>0. TypeOK
  BY DEF IInv
<1>1. ASSUME NEW m \in Messages, Inject(m)
      PROVE  TypeOK'
  <2>1. "parse" \in Stages
    BY DEF Stages, Gates
  <2>2. /\ chan' \in [Stages -> Seq(Messages)]
        /\ \A r \in Stages : Len(chan'[r]) <= Cap
    BY <1>0, <1>1, <2>1, SendAppends DEF Inject
  <2>3. QED
    BY <1>0, <1>1, <2>2 DEF Inject, TypeOK, federation, workers
<1>2. CASE Shutdown
  BY <1>0, <1>2 DEF Shutdown, TypeOK, federation, workers
<1>3. ASSUME NEW s \in Gates, Receive(s)
      PROVE  TypeOK'
  <2>1. s \in Stages /\ chan[s] \in Seq(Messages) /\ chan[s] # <<>> /\ Len(chan[s]) <= Cap
    BY <1>0, <1>3 DEF Receive, TypeOK, Stages
  <2>2. /\ Head(chan[s]) \in Messages
        /\ Tail(chan[s]) \in Seq(Messages) /\ Len(Tail(chan[s])) = Len(chan[s]) - 1
        /\ Len(chan[s]) \in Nat
    BY <2>1, HeadAndTail
  <2>3. QED
    BY <1>0, <1>3, <2>1, <2>2 DEF Receive, TypeOK, federation, workers
<1>4. ASSUME NEW s \in Gates, Refuse(s)
      PROVE  TypeOK'
  BY <1>0, <1>4 DEF Refuse, TypeOK, federation, workers
<1>5. ASSUME NEW s \in Gates, Pass(s)
      PROVE  TypeOK'
  <2>1. hold[s] \in Messages /\ After(s) \in Stages
    BY <1>0, <1>5, StageNames DEF Pass, TypeOK
  <2>2. /\ chan' \in [Stages -> Seq(Messages)]
        /\ \A r \in Stages : Len(chan'[r]) <= Cap
    BY <1>0, <1>5, <2>1, SendAppends DEF Pass
  <2>3. QED
    BY <1>0, <1>5, <2>2 DEF Pass, TypeOK, federation, workers
<1>6. CASE SendRemote
  <2>1. hold["route"] \in Messages
    BY <1>0, <1>6 DEF SendRemote, TypeOK, Gates
  <2>2. egress' \in Seq(Messages) /\ Len(egress') <= Cap
    <3>1. CASE Len(egress) < Cap /\ egress' = Append(egress, hold["route"])
      BY <1>0, <2>1, <3>1 DEF TypeOK
    <3>2. CASE UNCHANGED egress
      BY <1>0, <3>2 DEF TypeOK
    <3>3. QED
      BY <1>6, <3>1, <3>2 DEF SendRemote
  <2>3. QED
    BY <1>0, <1>6, <2>2 DEF SendRemote, TypeOK, workers
<1>7. CASE ParseEnds
  BY <1>0, <1>7 DEF ParseEnds, TypeOK, federation, workers
<1>8. ASSUME NEW s \in Stages \ {"parse"}, Ends(s)
      PROVE  TypeOK'
  BY <1>0, <1>8 DEF Ends, TypeOK, federation, workers
<1>9. CASE Dispatch
  <2> DEFINE q == chan["dispatch"]
  <2>1. "dispatch" \in Stages /\ q \in Seq(Messages) /\ q # <<>> /\ Len(q) <= Cap
    BY <1>0, <1>9 DEF Dispatch, TypeOK, Stages
  <2>2. /\ Head(q) \in Messages
        /\ Tail(q) \in Seq(Messages) /\ Len(Tail(q)) = Len(q) - 1 /\ Len(q) \in Nat
    BY <2>1, HeadAndTail
  <2>3. queue' \in [Threads -> Seq(Messages)]
    <3>1. Head(q).thread \in Threads
      BY <2>2, ThreadOfMessage
    <3>2. Append(queue[Head(q).thread], Head(q)) \in Seq(Messages)
      BY <1>0, <2>2, <3>1 DEF TypeOK
    <3>3. queue' = [queue EXCEPT ![Head(q).thread] = Append(queue[Head(q).thread], Head(q))]
      BY <1>9 DEF Dispatch
    <3>4. QED
      BY <1>0, <3>2, <3>3 DEF TypeOK
  <2>4. /\ chan' \in [Stages -> Seq(Messages)]
        /\ \A r \in Stages : Len(chan'[r]) <= Cap
    BY <1>0, <1>9, <2>1, <2>2 DEF Dispatch, TypeOK
  <2>5. QED
    BY <1>0, <1>9, <2>3, <2>4 DEF Dispatch, TypeOK, federation
<1>10. ASSUME NEW t \in Threads, WorkerStep(t)
       PROVE  TypeOK'
  <2>1. CASE Call(t)
    <3>1. queue[t] \in Seq(Messages) /\ queue[t] # <<>>
      BY <1>0, <2>1 DEF Call, TypeOK
    <3>2. Tail(queue[t]) \in Seq(Messages)
      BY <3>1, HeadAndTail
    <3>3. PICK r \in Responses(Head(queue[t])) : out' = [out EXCEPT ![t] = r]
      BY <2>1 DEF Call
    <3>4. r \in Seq(Messages)
      BY ResponsesAreMessages
    <3>5. QED
      BY <1>0, <2>1, <3>2, <3>3, <3>4 DEF Call, TypeOK, stages, federation
  <2>2. CASE Reinject(t)
    <3>1. out[t] \in Seq(Messages) /\ out[t] # <<>>
      BY <1>0, <2>2 DEF Reinject, TypeOK
    <3>2. Head(out[t]) \in Messages /\ Tail(out[t]) \in Seq(Messages)
      BY <3>1, HeadAndTail
    <3>3. "parse" \in Stages
      BY DEF Stages, Gates
    <3>4. /\ chan' \in [Stages -> Seq(Messages)]
          /\ \A r \in Stages : Len(chan'[r]) <= Cap
      <4>1. CASE Send("parse", Head(out[t]))
        BY <1>0, <3>2, <3>3, <4>1, SendAppends
      <4>2. CASE UNCHANGED chan
        BY <1>0, <4>2 DEF TypeOK
      <4>3. QED
        BY <2>2, <4>1, <4>2 DEF Reinject
    <3>5. QED
      BY <1>0, <2>2, <3>2, <3>4 DEF Reinject, TypeOK, federation
  <2>3. CASE Return(t)
    BY <1>0, <2>3 DEF Return, TypeOK, stages, federation
  <2>4. QED
    BY <1>10, <2>1, <2>2, <2>3 DEF WorkerStep
<1>11. CASE Transmit
  <2>1. Tail(egress) \in Seq(Messages) /\ Len(Tail(egress)) = Len(egress) - 1 /\ Len(egress) \in Nat
    BY <1>0, <1>11, HeadAndTail DEF Transmit, TypeOK
  <2>2. QED
    BY <1>0, <1>11, <2>1 DEF Transmit, TypeOK, stages, workers
<1>12. CASE EgressEnds
  <2>1. egress' \in Seq(Messages) /\ Len(egress') <= Cap
    BY <1>12, EmptyFits DEF EgressEnds
  <2>2. QED
    BY <1>0, <1>12, <2>1 DEF EgressEnds, TypeOK, stages, workers
<1>13. CASE UNCHANGED vars
  BY <1>0, <1>13 DEF vars, TypeOK
<1>14. QED
  BY <1>1, <1>2, <1>3, <1>4, <1>5, <1>6, <1>7, <1>8, <1>9, <1>10, <1>11, <1>12, <1>13
     DEF Next, GateStep

-----------------------------------------------------------------------------
\* Only what a step does to channels, gates and tasks can disturb the order in
\* which the stages end.
LEMMA StepEnds == IInv /\ [Next]_vars => EndsInOrder'
<1> SUFFICES ASSUME IInv, [Next]_vars
             PROVE  EndsInOrder'
    OBVIOUS
<1>0. TypeOK /\ EndsInOrder
  BY DEF IInv
<1> DEFINE Same == UNCHANGED <<chan, hold, alive>>
<1>1. ASSUME NEW m \in Messages, Inject(m)
      PROVE  EndsInOrder'
  BY <1>0, <1>1 DEF Inject, Send, EndsInOrder, TypeOK
<1>2. ASSUME NEW s \in Gates, Receive(s)
      PROVE  EndsInOrder'
  BY <1>0, <1>2 DEF Receive, EndsInOrder, TypeOK
<1>3. ASSUME NEW s \in Gates, Refuse(s)
      PROVE  EndsInOrder'
  BY <1>0, <1>3 DEF Refuse, EndsInOrder, TypeOK
<1>4. ASSUME NEW s \in Gates, Pass(s)
      PROVE  EndsInOrder'
  <2>1. s \in alive
    BY <1>0, <1>4 DEF Pass, EndsInOrder, Stages
  <2>2. After(s) \in alive
    BY <1>0, <2>1, StageNames DEF EndsInOrder
  <2>3. QED
    BY <1>0, <1>4, <2>1, <2>2 DEF Pass, Send, EndsInOrder, TypeOK
<1>5. CASE SendRemote
  BY <1>0, <1>5 DEF SendRemote, EndsInOrder, TypeOK
<1>6. CASE ParseEnds
  BY <1>0, <1>6 DEF ParseEnds, EndsInOrder, TypeOK
<1>7. ASSUME NEW s \in Stages \ {"parse"}, Ends(s)
      PROVE  EndsInOrder'
  BY <1>0, <1>7 DEF Ends, EndsInOrder, TypeOK
<1>8. CASE Dispatch
  BY <1>0, <1>8 DEF Dispatch, EndsInOrder, TypeOK
<1>9. ASSUME NEW t \in Threads, Reinject(t)
      PROVE  EndsInOrder'
  BY <1>0, <1>9 DEF Reinject, Send, EndsInOrder, TypeOK
<1>10. CASE Same
  BY <1>0, <1>10 DEF EndsInOrder
<1>11. ASSUME NEW t \in Threads, Call(t) \/ Return(t)
       PROVE  Same
  BY <1>11 DEF Call, Return, stages
<1>12. CASE Shutdown \/ Transmit \/ EgressEnds \/ UNCHANGED vars
  BY <1>10, <1>12 DEF Shutdown, Transmit, EgressEnds, vars, stages
<1>13. QED
  BY <1>1, <1>2, <1>3, <1>4, <1>5, <1>6, <1>7, <1>8, <1>9, <1>10, <1>11, <1>12
     DEF Next, GateStep, WorkerStep

LEMMA Inductive == Spec => []IInv
<1>1. IInv /\ [Next]_vars => IInv'
  BY StepType, StepEnds DEF IInv
<1>2. QED
  BY InitIInv, <1>1, PTL DEF Spec

\* Every channel between the stages stays within its capacity, and every gate
\* holds at most one message.
THEOREM TypeCorrect == Spec => []TypeOK
<1>1. IInv => TypeOK
  BY DEF IInv
<1>2. QED
  BY Inductive, <1>1, PTL

\* The stages end in order and leave nothing behind, and no stage sends to one
\* that has ended (shutdown, pipeline.rs:263-271).
THEOREM OrderlyShutdown == Spec => []EndsInOrder
<1>1. IInv => EndsInOrder
  BY DEF IInv
<1>2. QED
  BY Inductive, <1>1, PTL
-----------------------------------------------------------------------------
(* The gates and the channels between them are one line.                   *)

\* A channel or a gate's hold after `parse` has only what parse let pass, and
\* so on: what reaches dispatch is bound for a local handler.
Sifted ==
    /\ \A i \in DOMAIN chan["validate"] : chan["validate"][i].fate # "parse"
    /\ \A i \in DOMAIN chan["route"] : chan["route"][i].fate \notin {"parse", "validate"}
    /\ \A i \in DOMAIN chan["dispatch"] : chan["dispatch"][i].fate = "dispatch"
    /\ hold["validate"] # None => hold["validate"].fate # "parse"
    /\ hold["route"] # None => hold["route"].fate \notin {"parse", "validate"}

\* What a step that appends to or takes from a sequence does to its elements.
LEMMA ElementsOf ==
    ASSUME NEW q \in Seq(Messages)
    PROVE  /\ \A m \in Messages : \A i \in DOMAIN Append(q, m) :
                 Append(q, m)[i] = m \/ (i \in DOMAIN q /\ Append(q, m)[i] = q[i])
           /\ q # <<>> => /\ 1 \in DOMAIN q /\ Head(q) = q[1]
                          /\ \A i \in DOMAIN Tail(q) : i + 1 \in DOMAIN q /\ Tail(q)[i] = q[i + 1]
  OBVIOUS

\* A channel of the line is one of the four.
LEMMA FourStages ==
    /\ Stages = {"parse", "validate", "route", "dispatch"}
    /\ After("parse") = "validate" /\ After("validate") = "route" /\ After("route") = "dispatch"
  BY DEF Stages, Gates, After

\* Every gate lets pass only what is not to end there.
LEMMA StepSifts == IInv /\ Sifted /\ [Next]_vars => Sifted'
  <1> SUFFICES ASSUME IInv, Sifted, [Next]_vars
               PROVE  Sifted'
    OBVIOUS
  <1>0. TypeOK
    BY DEF IInv
  <1>1. /\ chan \in [Stages -> Seq(Messages)] /\ hold \in [Gates -> Messages \cup {None}]
        /\ \A s \in Stages : chan[s] \in Seq(Messages)
    BY <1>0 DEF TypeOK
  <1>2. ASSUME NEW m \in Messages, Send("parse", m), UNCHANGED hold
        PROVE  Sifted'
    BY <1>1, <1>2, FourStages DEF Send, Sifted
  <1>3. ASSUME NEW m \in Messages, Inject(m)
        PROVE  Sifted'
    BY <1>2, <1>3 DEF Inject
  <1>4. ASSUME NEW s \in Gates, Receive(s)
        PROVE  Sifted'
    <2>1. PICK q : q = chan[s]
      OBVIOUS
    <2>2. q \in Seq(Messages) /\ q # <<>>
      BY <1>1, <1>4, <2>1, FourStages DEF Receive, Stages
    <2>3. /\ hold' = [hold EXCEPT ![s] = Head(q)] /\ chan' = [chan EXCEPT ![s] = Tail(q)]
      BY <1>4, <2>1 DEF Receive
    <2>4. /\ 1 \in DOMAIN q /\ Head(q) = q[1]
          /\ \A i \in DOMAIN Tail(q) : i + 1 \in DOMAIN q /\ Tail(q)[i] = q[i + 1]
      BY <2>2, ElementsOf
    <2>5. CASE s = "parse"
      BY <1>1, <2>3, <2>5, FourStages DEF Sifted, Gates
    <2>6. CASE s = "validate"
      BY <1>1, <2>1, <2>3, <2>4, <2>6, FourStages DEF Sifted, Gates
    <2>7. CASE s = "route"
      BY <1>1, <2>1, <2>3, <2>4, <2>7, FourStages DEF Sifted, Gates
    <2> QED
      BY <2>5, <2>6, <2>7 DEF Gates
  <1>5. ASSUME NEW s \in Gates, Refuse(s) \/ (s = "route" /\ SendRemote)
        PROVE  Sifted'
    <2>1. UNCHANGED chan /\ hold' = [hold EXCEPT ![s] = None]
      BY <1>5 DEF Refuse, SendRemote
    <2> QED
      BY <1>1, <2>1 DEF Sifted, Gates
  <1>6. ASSUME NEW s \in Gates, Pass(s)
        PROVE  Sifted'
    <2>1. PICK m, n, q : m = hold[s] /\ n = After(s) /\ q = chan[n]
      OBVIOUS
    <2>2. m \in Messages /\ n \in Stages /\ q \in Seq(Messages)
      BY <1>1, <1>6, <2>1, StageNames DEF Pass
    <2>3. /\ m.fate # s /\ ~(s = "route" /\ m.fate = "remote")
          /\ chan' = [chan EXCEPT ![n] = Append(q, m)]
          /\ hold' = [hold EXCEPT ![s] = None]
      BY <1>6, <2>1 DEF Pass, Send
    <2>4. \A i \in DOMAIN Append(q, m) :
            Append(q, m)[i] = m \/ (i \in DOMAIN q /\ Append(q, m)[i] = q[i])
      BY <2>2, ElementsOf
    <2>5. m.fate \in {"parse", "validate", "route", "dispatch", "remote"}
      BY <2>2, StagesAssumption, FourStages DEF Messages, Fates
    <2>6. CASE s = "parse"
      BY <1>1, <2>1, <2>3, <2>4, <2>6, FourStages DEF Sifted, Gates
    <2>7. CASE s = "validate"
      <3>1. m.fate \notin {"parse", "validate"}
        BY <1>6, <2>1, <2>3, <2>7 DEF Sifted, Pass
      <3> QED
        BY <1>1, <2>1, <2>3, <2>4, <2>7, <3>1, FourStages DEF Sifted, Gates
    <2>8. CASE s = "route"
      <3>1. m.fate = "dispatch"
        BY <1>6, <2>1, <2>3, <2>5, <2>8 DEF Sifted, Pass
      <3> QED
        BY <1>1, <2>1, <2>3, <2>4, <2>8, <3>1, FourStages DEF Sifted, Gates
    <2> QED
      BY <2>6, <2>7, <2>8 DEF Gates
  <1>7. CASE ParseEnds
    BY <1>1, <1>7, FourStages DEF ParseEnds, Sifted
  <1>8. CASE Dispatch
    <2>1. PICK q : q = chan["dispatch"]
      OBVIOUS
    <2>2. q \in Seq(Messages) /\ q # <<>>
      BY <1>1, <1>8, <2>1, FourStages DEF Dispatch
    <2>3. UNCHANGED hold /\ chan' = [chan EXCEPT !["dispatch"] = Tail(q)]
      BY <1>8, <2>1 DEF Dispatch
    <2>4. \A i \in DOMAIN Tail(q) : i + 1 \in DOMAIN q /\ Tail(q)[i] = q[i + 1]
      BY <2>2, ElementsOf
    <2> QED
      BY <1>1, <2>1, <2>3, <2>4, FourStages DEF Sifted
  <1>9. ASSUME NEW t \in Threads, Reinject(t)
        PROVE  Sifted'
    <2>1. Head(out[t]) \in Messages
      BY <1>0, <1>9, HeadAndTail DEF TypeOK, Reinject
    <2>2. CASE Send("parse", Head(out[t]))
      BY <1>2, <1>9, <2>1, <2>2 DEF Reinject
    <2>3. CASE UNCHANGED chan
      BY <1>9, <2>3 DEF Reinject, Sifted
    <2> QED
      BY <1>9, <2>2, <2>3 DEF Reinject
  <1>10. CASE UNCHANGED <<chan, hold>>
    BY <1>10 DEF Sifted
  <1> QED
    <2>1. ASSUME \/ Shutdown \/ Transmit \/ EgressEnds \/ UNCHANGED vars
                 \/ \E s \in Stages \ {"parse"} : Ends(s)
                 \/ \E t \in Threads : Call(t) \/ Return(t)
          PROVE  UNCHANGED <<chan, hold>>
      BY <2>1 DEF Shutdown, Transmit, EgressEnds, vars, stages, Ends, Call, Return
    <2> QED
      BY <1>3, <1>4, <1>5, <1>6, <1>7, <1>8, <1>9, <1>10, <2>1 DEF Next, GateStep, WorkerStep

LEMMA AllSifted == Spec => []Sifted
  <1>1. Init => Sifted
    BY FourStages DEF Init, Sifted, Gates
  <1>2. IInv /\ Sifted /\ [Next]_vars => Sifted'
    BY StepSifts
  <1> QED
    BY <1>1, <1>2, Inductive, PTL DEF Spec

Bound == {m \in Messages : m.fate = "dispatch"}

\* A message that is not bound for a local handler is missing from y.
Without(x, y) == \E i \in DOMAIN x : x[i] \notin Bound /\ y = C!RemoveAt(x, i)

\* The oldest message, which is bound for a local handler, is missing from y.
Onward(x, y) == x # <<>> /\ Head(x) \in Bound /\ y = Tail(x)

LEMMA Joins ==
    ASSUME NEW S
    PROVE  /\ \A x, y \in Seq(S) : x \o y \in Seq(S)
           /\ \A x \in Seq(S) : x \o <<>> = x /\ <<>> \o x = x
           /\ \A x, y, z \in Seq(S) : (x \o y) \o z = x \o (y \o z)
           /\ <<>> \in Seq(S) /\ \A m \in S : <<m>> \in Seq(S)
  BY ConcatProperties, ConcatEmptySeq, ConcatAssociative, EmptySeq, SMTT(40)

\* A part of a sequence, element by element.
LEMMA PartOf ==
    ASSUME NEW S, NEW s \in Seq(S), NEW m \in Nat \ {0}, NEW n \in Nat, m <= n + 1, n <= Len(s)
    PROVE  /\ SubSeq(s, m, n) \in Seq(S) /\ Len(SubSeq(s, m, n)) = n - m + 1
           /\ \A i \in 1..(n - m + 1) : SubSeq(s, m, n)[i] = s[i + m - 1]
  <1>1. \A i \in m..n : s[i] \in S
    <2>1. Len(s) \in Nat /\ \A i \in 1..Len(s) : s[i] \in S
      OBVIOUS
    <2> QED
      BY <2>1
  <1>2. /\ SubSeq(s, m, n) \in Seq(S)
        /\ Len(SubSeq(s, m, n)) = IF m <= n THEN n - m + 1 ELSE 0
        /\ \A i \in 1..n - m + 1 : SubSeq(s, m, n)[i] = s[m + i - 1]
    BY <1>1, SubSeqProperties
  <1>3. \A i \in 1..(n - m + 1) : m + i - 1 = i + m - 1
    OBVIOUS
  <1> QED
    BY <1>2, <1>3, SMTT(40)

\* What RemoveAt leaves.
LEMMA Removed ==
    ASSUME NEW x, NEW i \in Nat \ {0}
    PROVE  /\ C!RemoveAt(x, i) = SubSeq(x, 1, i - 1) \o SubSeq(x, i + 1, Len(x))
  BY DEF C!RemoveAt

\* A gate's message is the only one of its hold.
LEMMA HeldGone ==
    ASSUME NEW x \in Seq(Messages), NEW m \in Messages, m \notin Bound
    PROVE  Without(x \o <<m>>, x)
  <1>1. PICK y, n, i : y = x \o <<m>> /\ n = Len(x) /\ i = n + 1
    OBVIOUS
  <1>2. n \in Nat /\ i \in Nat \ {0} /\ i - 1 = n /\ i <= Len(y)
    BY <1>1
  <1>3. /\ y \in Seq(Messages) /\ Len(y) = i
        /\ y[i] = m /\ \A j \in 1..n : y[j] = x[j]
    BY <1>1
  <1>4. /\ SubSeq(y, 1, n) \in Seq(Messages) /\ Len(SubSeq(y, 1, n)) = n
        /\ \A j \in 1..n : SubSeq(y, 1, n)[j] = x[j]
    BY <1>2, <1>3, PartOf
  <1>5. SubSeq(y, 1, n) = x
    BY <1>1, <1>4, SeqEqual
  <1>6. SubSeq(y, i + 1, Len(y)) = <<>>
    BY <1>2, <1>3, SubSeqEmpty
  <1>7. C!RemoveAt(y, i) = SubSeq(y, 1, i - 1) \o SubSeq(y, i + 1, Len(y))
    BY <1>2, Removed
  <1>8. x \o <<>> = x
    BY Joins
  <1>9. C!RemoveAt(y, i) = x
    BY <1>2, <1>5, <1>6, <1>7, <1>8, Zenon
  <1>10. i \in DOMAIN y
    BY <1>2, <1>3
  <1> QED
    BY <1>1, <1>3, <1>9, <1>10 DEF Without

\* What is taken out of the front part of the line is taken out of the line.
LEMMA WithoutJoined ==
    ASSUME NEW x \in Seq(Messages), NEW y \in Seq(Messages), Without(x, y), NEW z \in Seq(Messages)
    PROVE  Without(x \o z, y \o z)
  <1>1. PICK i : i \in DOMAIN x /\ x[i] \notin Bound /\ y = C!RemoveAt(x, i)
    BY DEF Without
  <1>2. PICK a, b, w, k, n : /\ a = SubSeq(x, 1, i - 1) /\ b = SubSeq(x, i + 1, k)
                             /\ w = x \o z /\ k = Len(x) /\ n = Len(z)
    OBVIOUS
  <1>3. k \in Nat /\ n \in Nat /\ i \in 1..k /\ i \in Nat \ {0}
    BY <1>1, <1>2
  <1>4. /\ a \in Seq(Messages) /\ Len(a) = i - 1 /\ \A j \in 1..(i - 1) : a[j] = x[j]
    <2>1. i - 1 \in Nat /\ i - 1 <= Len(x) /\ (i - 1) - 1 + 1 = i - 1
      BY <1>2, <1>3
    <2>2. /\ a \in Seq(Messages) /\ Len(a) = (i - 1) - 1 + 1
          /\ \A j \in 1..((i - 1) - 1 + 1) : a[j] = x[j + 1 - 1]
      BY <1>2, <2>1, PartOf
    <2>3. \A j \in Int : j + 1 - 1 = j
      OBVIOUS
    <2> QED
      BY <1>3, <2>1, <2>2, <2>3
  <1>5. /\ b \in Seq(Messages) /\ Len(b) = k - i /\ \A j \in 1..(k - i) : b[j] = x[j + i]
    <2>1. i + 1 \in Nat \ {0} /\ i + 1 <= k + 1 /\ k - (i + 1) + 1 = k - i /\ k <= Len(x)
      BY <1>2, <1>3
    <2>2. /\ b \in Seq(Messages) /\ Len(b) = k - (i + 1) + 1
          /\ \A j \in 1..(k - (i + 1) + 1) : b[j] = x[j + (i + 1) - 1]
      BY <1>2, <1>3, <2>1, PartOf
    <2>3. \A j \in Int : j + (i + 1) - 1 = j + i
      BY <1>3
    <2> QED
      BY <1>3, <2>1, <2>2, <2>3
  <1>6. y = a \o b
    BY <1>1, <1>2, <1>3, Removed, Zenon
  <1>7. /\ w \in Seq(Messages) /\ Len(w) = k + n
        /\ \A j \in 1..k : w[j] = x[j]
        /\ \A j \in 1..n : w[j + k] = z[j]
    BY <1>2, <1>3
  <1>8. i \in DOMAIN w /\ w[i] = x[i]
    BY <1>3, <1>7
  <1>9. SubSeq(w, 1, i - 1) = a
    <2>1. i - 1 \in Nat /\ i - 1 <= Len(w) /\ (i - 1) - 1 + 1 = i - 1
      BY <1>3, <1>7
    <2>2. PICK u : u = SubSeq(w, 1, i - 1)
      OBVIOUS
    <2>3. /\ u \in Seq(Messages) /\ Len(u) = (i - 1) - 1 + 1
          /\ \A j \in 1..((i - 1) - 1 + 1) : u[j] = w[j + 1 - 1]
      BY <1>7, <2>1, <2>2, PartOf
    <2>4. \A j \in 1..(i - 1) : j + 1 - 1 = j /\ j \in 1..k
      BY <1>3
    <2>5. Len(u) = Len(a) /\ \A j \in 1..Len(u) : u[j] = a[j]
      BY <1>4, <1>7, <2>1, <2>3, <2>4
    <2> QED
      BY <1>4, <2>2, <2>3, <2>5, SeqEqual
  <1>10. SubSeq(w, i + 1, Len(w)) = b \o z
    <2>1. PICK u, l, p : u = SubSeq(w, i + 1, Len(w)) /\ l = k - i /\ p = k + n
      OBVIOUS
    <2>2. /\ i + 1 \in Nat \ {0} /\ p \in Nat /\ i + 1 <= p + 1 /\ p <= Len(w)
          /\ p - (i + 1) + 1 = l + n /\ l \in Nat /\ i + l = k
      BY <1>3, <1>7, <2>1
    <2>3. /\ u \in Seq(Messages) /\ Len(u) = p - (i + 1) + 1
          /\ \A j \in 1..(p - (i + 1) + 1) : u[j] = w[j + (i + 1) - 1]
      BY <1>7, <2>1, <2>2, PartOf, SMTT(40)
    <2>4. \A j \in Int : j + (i + 1) - 1 = j + i
      BY <1>3
    <2>5. Len(u) = l + n /\ \A j \in 1..(l + n) : u[j] = w[j + i]
      <3>1. Len(u) = l + n /\ \A j \in 1..(l + n) : u[j] = w[j + (i + 1) - 1]
        BY <2>2, <2>3, Zenon
      <3> QED
        BY <2>4, <3>1
    <2>6. Len(b) = l /\ Len(z) = n
      BY <1>2, <1>5, <2>1
    <2>7. /\ b \o z \in Seq(Messages) /\ Len(b \o z) = l + n
          /\ \A j \in 1..(l + n) : (b \o z)[j] = IF j <= l THEN b[j] ELSE z[j - l]
      BY <1>5, <2>6, ConcatProperties
    <2>8. ASSUME NEW j \in 1..(l + n)
          PROVE  u[j] = (b \o z)[j]
      <3>1. CASE j <= l
        <4>1. j + i \in 1..k /\ j \in 1..l
          BY <1>3, <2>2, <3>1
        <4> QED
          BY <1>5, <1>7, <2>1, <2>5, <2>7, <3>1, <4>1, ZenonT(60)
      <3>2. CASE ~(j <= l)
        <4>1. PICK h : h = j - l
          OBVIOUS
        <4>2. h \in 1..n /\ h + k = j + i
          BY <1>3, <2>2, <3>2, <4>1
        <4>3. w[j + i] = z[h]
          BY <1>7, <4>2
        <4> QED
          BY <2>5, <2>7, <3>2, <4>1, <4>3
      <3> QED
        BY <3>1, <3>2
    <2> QED
      BY <2>1, <2>3, <2>5, <2>7, <2>8, SeqEqual
  <1>11. C!RemoveAt(w, i) = a \o (b \o z)
    BY <1>3, <1>9, <1>10, Removed, Zenon
  <1>12. C!RemoveAt(w, i) = y \o z
    <2>1. (a \o b) \o z = a \o (b \o z)
      <3>1. \A f, g, h \in Seq(Messages) : (f \o g) \o h = f \o (g \o h)
        BY Joins
      <3>2. a \in Seq(Messages) /\ b \in Seq(Messages) /\ z \in Seq(Messages)
        BY <1>4, <1>5
      <3> QED
        BY <3>1, <3>2, ZenonT(60)
    <2> QED
      BY <1>6, <1>11, <2>1, Zenon
  <1> QED
    BY <1>1, <1>2, <1>8, <1>12 DEF Without

\* What goes from the front of the line's front part goes from the line's.
LEMMA OnwardJoined ==
    ASSUME NEW x \in Seq(Messages), NEW y \in Seq(Messages), Onward(x, y), NEW z \in Seq(Messages)
    PROVE  Onward(x \o z, y \o z)
  <1>1. PICK m, k : m = Head(x) /\ k = Len(x)
    OBVIOUS
  <1>2. m \in Bound /\ x # <<>> /\ y = Tail(x) /\ m \in Messages
    BY <1>1 DEF Onward, Bound
  <1>3. x = <<m>> \o y
    BY <1>1, <1>2
  <1>4. x \o z = <<m>> \o (y \o z)
    BY <1>2, <1>3, Joins
  <1>5. y \o z \in Seq(Messages)
    BY Joins
  <1>6. \A w \in Seq(Messages) : /\ <<m>> \o w # <<>> /\ Head(<<m>> \o w) = m
                                 /\ Tail(<<m>> \o w) = w
    BY <1>2
  <1> QED
    BY <1>2, <1>4, <1>5, <1>6 DEF Onward

\* The line, from its seven parts: the three channels between the stages and
\* the ingress channel, and what each gate holds.
Whole(d, hr, cr, hv, cv, hp, cp) == d \o hr \o cr \o hv \o cv \o hp \o cp

LEMMA PartsTyped ==
    ASSUME TypeOK
    PROVE  /\ \A s \in Stages : chan[s] \in Seq(Messages)
           /\ \A s \in Gates : Held(s) \in Seq(Messages)
           /\ Line = Whole(chan["dispatch"], Held("route"), chan["route"], Held("validate"),
                           chan["validate"], Held("parse"), chan["parse"])
  <1>1. \A s \in Gates : hold[s] = None \/ hold[s] \in Messages
    BY DEF TypeOK
  <1>2. <<>> \in Seq(Messages) /\ \A m \in Messages : <<m>> \in Seq(Messages)
    BY Joins
  <1>3. \A s \in Gates : Held(s) \in Seq(Messages)
    BY <1>1, <1>2 DEF Held
  <1> QED
    BY <1>3 DEF TypeOK, Line, Whole

\* Parts joined are a sequence of messages.
LEMMA WholeTyped ==
    ASSUME NEW d \in Seq(Messages), NEW hr \in Seq(Messages), NEW cr \in Seq(Messages),
           NEW hv \in Seq(Messages), NEW cv \in Seq(Messages), NEW hp \in Seq(Messages),
           NEW cp \in Seq(Messages)
    PROVE  /\ d \o hr \in Seq(Messages) /\ d \o hr \o cr \in Seq(Messages)
           /\ d \o hr \o cr \o hv \in Seq(Messages) /\ d \o hr \o cr \o hv \o cv \in Seq(Messages)
           /\ d \o hr \o cr \o hv \o cv \o hp \in Seq(Messages)
           /\ Whole(d, hr, cr, hv, cv, hp, cp) \in Seq(Messages)
  BY Joins DEF Whole

\* Taking a message into a gate, or passing it on, moves it within two adjacent
\* parts; the line stays the same.
LEMMA Moved == \A f, g, h \in Seq(Messages) : (f \o g) \o h = f \o (g \o h)
  BY Joins

LEMMA TakenIn ==
    ASSUME NEW q \in Seq(Messages), q # <<>>
    PROVE  <<>> \o q = <<Head(q)>> \o Tail(q)
  OBVIOUS

LEMMA PassedOn ==
    ASSUME NEW q \in Seq(Messages), NEW m \in Messages
    PROVE  q \o <<m>> = Append(q, m) \o <<>>
  OBVIOUS

\* What closing the ingress channel cuts off.
LEMMA CutOff ==
    ASSUME NEW x \in Seq(Messages), NEW z \in Seq(Messages)
    PROVE  x = SubSeq(x \o z, 1, Len(x)) /\ Len(x) \in 0..Len(x \o z)
  <1>1. PICK w, n, u : w = x \o z /\ n = Len(x) /\ u = SubSeq(w, 1, n)
    OBVIOUS
  <1>2. /\ n \in Nat /\ w \in Seq(Messages) /\ n <= Len(w) /\ Len(w) \in Nat
        /\ \A i \in 1..n : w[i] = x[i]
    BY <1>1
  <1>3. u \in Seq(Messages) /\ Len(u) = n - 1 + 1 /\ \A i \in 1..(n - 1 + 1) : u[i] = w[i + 1 - 1]
    BY <1>1, <1>2, PartOf
  <1>4. n - 1 + 1 = n /\ \A i \in 1..n : i + 1 - 1 = i
    BY <1>2
  <1>5. Len(u) = n /\ \A i \in 1..n : u[i] = x[i]
    BY <1>2, <1>3, <1>4
  <1>6. u = x
    BY <1>1, <1>3, <1>5, SeqEqual
  <1> QED
    BY <1>1, <1>2, <1>6

\* No part of the line changes but the two that are next to each other; or one
\* message comes or goes, or the end is cut off.
LEMMA StepLine == IInv /\ Sifted /\ [Next]_vars => [C!Next]_(C!vars)
  <1> SUFFICES ASSUME IInv, Sifted, [Next]_vars
               PROVE  [C!Next]_(C!vars)
    OBVIOUS
  <1> DEFINE Same == Line' = Line /\ ("parse" \notin alive)' = ("parse" \notin alive)
  <1>0. TypeOK
    BY DEF IInv
  <1>1. PICK d, hr, cr, hv, cv, hp, cp :
          /\ d = chan["dispatch"] /\ hr = Held("route") /\ cr = chan["route"]
          /\ hv = Held("validate") /\ cv = chan["validate"]
          /\ hp = Held("parse") /\ cp = chan["parse"]
    OBVIOUS
  <1>2. /\ d \in Seq(Messages) /\ hr \in Seq(Messages) /\ cr \in Seq(Messages)
        /\ hv \in Seq(Messages) /\ cv \in Seq(Messages) /\ hp \in Seq(Messages)
        /\ cp \in Seq(Messages)
        /\ Line = Whole(d, hr, cr, hv, cv, hp, cp)
    BY <1>0, <1>1, PartsTyped, FourStages DEF Gates
  <1>3. Line' = Whole(chan'["dispatch"], Held("route")', chan'["route"], Held("validate")',
                      chan'["validate"], Held("parse")', chan'["parse"])
    BY DEF Line, Whole
  <1>4. /\ chan \in [Stages -> Seq(Messages)] /\ hold \in [Gates -> Messages \cup {None}]
    BY <1>0 DEF TypeOK
  <1>5. ASSUME Same
        PROVE  [C!Next]_(C!vars)
    BY <1>5 DEF C!vars
  <1>6. UNCHANGED hold => \A s \in Gates : Held(s)' = Held(s)
    BY DEF Held
  <1>7. ASSUME NEW m \in Messages, "parse" \in alive, Send("parse", m), UNCHANGED <<hold, alive>>
        PROVE  [C!Next]_(C!vars)
    <2>1. Line' = Whole(d, hr, cr, hv, cv, hp, Append(cp, m))
      BY <1>1, <1>3, <1>4, <1>6, <1>7, FourStages DEF Send, Gates
    <2>2. \A x \in Seq(Messages) : x \o Append(cp, m) = Append(x \o cp, m)
      BY <1>2, SMTT(40)
    <2>3. PICK x : x = d \o hr \o cr \o hv \o cv \o hp
      OBVIOUS
    <2>4. x \in Seq(Messages) /\ Line = x \o cp /\ Line' = x \o Append(cp, m)
      BY <1>2, <2>1, <2>3, WholeTyped DEF Whole
    <2>5. Line' = Append(Line, m)
      BY <2>2, <2>4
    <2> QED
      BY <1>7, <2>5 DEF C!Next, C!Put
  <1>8. ASSUME NEW s \in Gates, Receive(s)
        PROVE  [C!Next]_(C!vars)
    <2>1. PICK q, m, t : q = chan[s] /\ m = Head(q) /\ t = Tail(q)
      OBVIOUS
    <2>2. q \in Seq(Messages) /\ q # <<>> /\ m \in Messages /\ t \in Seq(Messages) /\ m # None
      BY <1>4, <1>8, <2>1, HeadAndTail, NoneAssumption, FourStages DEF Receive, Gates
    <2>3. \A x \in Seq(Messages) : x \o <<>> \o q = x \o <<m>> \o t
      <3>1. PICK u, v : u = <<>> /\ v = <<m>>
        OBVIOUS
      <3>2. u \o q = v \o t /\ u \in Seq(Messages) /\ v \in Seq(Messages)
        BY <2>1, <2>2, <3>1, TakenIn, Joins
      <3>3. ASSUME NEW x \in Seq(Messages)
            PROVE  x \o u \o q = x \o v \o t
        <4>1. (x \o u) \o q = x \o (u \o q) /\ (x \o v) \o t = x \o (v \o t)
          BY <2>2, <3>2, Moved, Zenon
        <4> QED
          BY <3>2, <4>1, Zenon
      <3> QED
        BY <3>1, <3>3
    <2>4. /\ chan' = [chan EXCEPT ![s] = t] /\ hold' = [hold EXCEPT ![s] = m]
          /\ hold[s] = None /\ UNCHANGED alive
      BY <1>8, <2>1 DEF Receive
    <2>5. Held(s) = <<>> /\ Held(s)' = <<m>> /\ \A r \in Gates : r # s => Held(r)' = Held(r)
      BY <1>4, <2>2, <2>4 DEF Held
    <2>6. CASE s = "parse"
      <3>1. Line' = Whole(d, hr, cr, hv, cv, <<m>>, t) /\ hp = <<>> /\ cp = q
        BY <1>1, <1>3, <1>4, <2>1, <2>4, <2>5, <2>6, FourStages DEF Gates
      <3>2. d \o hr \o cr \o hv \o cv \in Seq(Messages)
        BY <1>2, WholeTyped
      <3>3. d \o hr \o cr \o hv \o cv \o <<>> \o q = d \o hr \o cr \o hv \o cv \o <<m>> \o t
        BY <2>3, <3>2
      <3> QED
        BY <1>2, <1>5, <2>4, <3>1, <3>3 DEF Whole
    <2>7. CASE s = "validate"
      <3>1. Line' = Whole(d, hr, cr, <<m>>, t, hp, cp) /\ hv = <<>> /\ cv = q
        BY <1>1, <1>3, <1>4, <2>1, <2>4, <2>5, <2>7, FourStages DEF Gates
      <3>2. d \o hr \o cr \in Seq(Messages)
        BY <1>2, WholeTyped
      <3>3. d \o hr \o cr \o <<>> \o q = d \o hr \o cr \o <<m>> \o t
        BY <2>3, <3>2
      <3> QED
        BY <1>2, <1>5, <2>4, <3>1, <3>3 DEF Whole
    <2>8. CASE s = "route"
      <3>1. Line' = Whole(d, <<m>>, t, hv, cv, hp, cp) /\ hr = <<>> /\ cr = q
        BY <1>1, <1>3, <1>4, <2>1, <2>4, <2>5, <2>8, FourStages DEF Gates
      <3>2. d \o <<>> \o q = d \o <<m>> \o t
        BY <1>2, <2>3
      <3> QED
        BY <1>2, <1>5, <2>4, <3>1, <3>2 DEF Whole
    <2> QED
      BY <2>6, <2>7, <2>8 DEF Gates
  <1>9. ASSUME NEW s \in Gates, Refuse(s) \/ (s = "route" /\ SendRemote)
        PROVE  [C!Next]_(C!vars)
    <2>1. PICK m : m = hold[s]
      OBVIOUS
    <2>2. m \in Messages /\ m # None /\ m \notin Bound
      BY <1>4, <1>9, <2>1 DEF Refuse, SendRemote, Bound, Gates
    <2>3. hold' = [hold EXCEPT ![s] = None] /\ UNCHANGED <<chan, alive>>
      BY <1>9 DEF Refuse, SendRemote
    <2>4. Held(s) = <<m>> /\ Held(s)' = <<>> /\ \A r \in Gates : r # s => Held(r)' = Held(r)
      BY <1>4, <2>1, <2>2, <2>3 DEF Held
    <2>5. \A x \in Seq(Messages) : Without(x \o <<m>>, x \o <<>>) /\ x \o <<m>> \in Seq(Messages)
                                    /\ x \o <<>> \in Seq(Messages)
      BY <2>2, HeldGone, Joins
    <2>6. ASSUME Without(Line, Line')
          PROVE  [C!Next]_(C!vars)
      BY <2>3, <2>6 DEF Without, C!Next, C!TakeOut, Bound
    <2>7. CASE s = "parse"
      <3>1. Line' = Whole(d, hr, cr, hv, cv, <<>>, cp) /\ hp = <<m>>
        BY <1>1, <1>3, <2>3, <2>4, <2>7, FourStages DEF Gates
      <3>2. PICK x : x = d \o hr \o cr \o hv \o cv
        OBVIOUS
      <3>3. x \in Seq(Messages)
        BY <1>2, <3>2, WholeTyped
      <3>4. Without(x \o <<m>> \o cp, x \o <<>> \o cp)
        BY <1>2, <2>5, <3>3, WithoutJoined
      <3> QED
        BY <1>2, <2>6, <3>1, <3>2, <3>4 DEF Whole
    <2>8. CASE s = "validate"
      <3>1. Line' = Whole(d, hr, cr, <<>>, cv, hp, cp) /\ hv = <<m>>
        BY <1>1, <1>3, <2>3, <2>4, <2>8, FourStages DEF Gates
      <3>2. PICK x : x = d \o hr \o cr
        OBVIOUS
      <3>3. x \in Seq(Messages)
        BY <1>2, <3>2, WholeTyped
      <3>4. Without(x \o <<m>> \o cv, x \o <<>> \o cv)
        BY <1>2, <2>5, <3>3, WithoutJoined
      <3>5. Without(x \o <<m>> \o cv \o hp, x \o <<>> \o cv \o hp)
        BY <1>2, <2>5, <3>3, <3>4, WithoutJoined, Joins
      <3>6. Without(x \o <<m>> \o cv \o hp \o cp, x \o <<>> \o cv \o hp \o cp)
        BY <1>2, <2>5, <3>3, <3>5, WithoutJoined, Joins
      <3> QED
        BY <1>2, <2>6, <3>1, <3>2, <3>6 DEF Whole
    <2>9. CASE s = "route"
      <3>1. Line' = Whole(d, <<>>, cr, hv, cv, hp, cp) /\ hr = <<m>>
        BY <1>1, <1>3, <2>3, <2>4, <2>9, FourStages DEF Gates
      <3>2. Without(d \o <<m>> \o cr, d \o <<>> \o cr)
        BY <1>2, <2>5, WithoutJoined
      <3>3. Without(d \o <<m>> \o cr \o hv, d \o <<>> \o cr \o hv)
        BY <1>2, <2>5, <3>2, WithoutJoined, Joins
      <3>4. Without(d \o <<m>> \o cr \o hv \o cv, d \o <<>> \o cr \o hv \o cv)
        BY <1>2, <2>5, <3>3, WithoutJoined, Joins
      <3>5. Without(d \o <<m>> \o cr \o hv \o cv \o hp, d \o <<>> \o cr \o hv \o cv \o hp)
        BY <1>2, <2>5, <3>4, WithoutJoined, Joins
      <3>6. Without(d \o <<m>> \o cr \o hv \o cv \o hp \o cp, d \o <<>> \o cr \o hv \o cv \o hp \o cp)
        BY <1>2, <2>5, <3>5, WithoutJoined, Joins
      <3> QED
        BY <1>2, <2>6, <3>1, <3>6 DEF Whole
    <2> QED
      BY <2>7, <2>8, <2>9 DEF Gates
  <1>10. ASSUME NEW s \in Gates, Pass(s)
         PROVE  [C!Next]_(C!vars)
    <2>1. PICK q, m, a : m = hold[s] /\ q = chan[After(s)] /\ a = Append(q, m)
      OBVIOUS
    <2>2. m \in Messages /\ m # None /\ q \in Seq(Messages) /\ a \in Seq(Messages)
      BY <1>4, <1>10, <2>1, StageNames, NoneAssumption DEF Pass
    <2>3. /\ q \o <<m>> = a \o <<>>
          /\ \A x \in Seq(Messages) : x \o q \o <<m>> = x \o a \o <<>>
      <3>1. PICK u, v : u = <<>> /\ v = <<m>>
        OBVIOUS
      <3>2. q \o v = a \o u /\ u \in Seq(Messages) /\ v \in Seq(Messages)
        BY <2>1, <2>2, <3>1, PassedOn, Joins
      <3>3. ASSUME NEW x \in Seq(Messages)
            PROVE  x \o q \o v = x \o a \o u
        <4>1. (x \o q) \o v = x \o (q \o v) /\ (x \o a) \o u = x \o (a \o u)
          BY <2>2, <3>2, Moved, Zenon
        <4> QED
          BY <3>2, <4>1, Zenon
      <3> QED
        BY <3>1, <3>2, <3>3
    <2>4. /\ chan' = [chan EXCEPT ![After(s)] = a] /\ hold' = [hold EXCEPT ![s] = None]
          /\ UNCHANGED alive
      BY <1>10, <2>1 DEF Pass, Send
    <2>5. Held(s) = <<m>> /\ Held(s)' = <<>> /\ \A r \in Gates : r # s => Held(r)' = Held(r)
      BY <1>4, <2>1, <2>2, <2>4 DEF Held
    <2>6. CASE s = "parse"
      <3>1. Line' = Whole(d, hr, cr, hv, a, <<>>, cp) /\ cv = q /\ hp = <<m>>
        BY <1>1, <1>3, <1>4, <2>1, <2>4, <2>5, <2>6, FourStages DEF Gates
      <3>2. d \o hr \o cr \o hv \in Seq(Messages)
        BY <1>2, WholeTyped
      <3>3. d \o hr \o cr \o hv \o q \o <<m>> = d \o hr \o cr \o hv \o a \o <<>>
        BY <2>3, <3>2
      <3> QED
        BY <1>2, <1>5, <2>4, <3>1, <3>3 DEF Whole
    <2>7. CASE s = "validate"
      <3>1. Line' = Whole(d, hr, a, <<>>, cv, hp, cp) /\ cr = q /\ hv = <<m>>
        BY <1>1, <1>3, <1>4, <2>1, <2>4, <2>5, <2>7, FourStages DEF Gates
      <3>2. d \o hr \in Seq(Messages)
        BY <1>2, WholeTyped
      <3>3. d \o hr \o q \o <<m>> = d \o hr \o a \o <<>>
        BY <2>3, <3>2
      <3> QED
        BY <1>2, <1>5, <2>4, <3>1, <3>3 DEF Whole
    <2>8. CASE s = "route"
      <3>1. Line' = Whole(a, <<>>, cr, hv, cv, hp, cp) /\ d = q /\ hr = <<m>>
        BY <1>1, <1>3, <1>4, <2>1, <2>4, <2>5, <2>8, FourStages DEF Gates
      <3> QED
        BY <1>2, <1>5, <2>3, <2>4, <3>1 DEF Whole
    <2> QED
      BY <2>6, <2>7, <2>8 DEF Gates
  <1>11. CASE ParseEnds
    <2>1. PICK x : x = d \o hr \o cr \o hv \o cv \o hp
      OBVIOUS
    <2>2. Line = x \o cp /\ x \in Seq(Messages)
      BY <1>2, <2>1, WholeTyped DEF Whole
    <2>3. Line' = x \o <<>>
      BY <1>1, <1>3, <1>4, <1>6, <1>11, <2>1, FourStages DEF ParseEnds, Whole, Gates
    <2>4. Line' = SubSeq(Line, 1, Len(x)) /\ Len(x) \in 0..Len(Line)
      BY <1>2, <2>2, <2>3, CutOff, Joins, ZenonT(60)
    <2>5. "parse" \in alive /\ "parse" \notin alive'
      BY <1>11 DEF ParseEnds
    <2> QED
      BY <2>4, <2>5 DEF C!Next, C!Close
  <1>12. ASSUME NEW s \in Stages \ {"parse"}, Ends(s)
         PROVE  [C!Next]_(C!vars)
    <2>1. UNCHANGED <<chan, hold>> /\ ("parse" \in alive' <=> "parse" \in alive)
      BY <1>12 DEF Ends
    <2> QED
      BY <1>1, <1>2, <1>3, <1>5, <1>6, <2>1 DEF Gates
  <1>13. CASE Dispatch
    <2>1. PICK t : t = Tail(d)
      OBVIOUS
    <2>2. d # <<>> /\ t \in Seq(Messages) /\ Head(d) \in Bound
      <3>1. d # <<>>
        BY <1>1, <1>13 DEF Dispatch
      <3>2. Head(d) \in Messages /\ Head(d) = d[1] /\ 1 \in DOMAIN d /\ Tail(d) \in Seq(Messages)
        BY <1>2, <3>1, HeadAndTail, ElementsOf
      <3> QED
        BY <1>1, <2>1, <3>1, <3>2 DEF Sifted, Bound
    <2>3. Onward(d, t)
      BY <2>1, <2>2 DEF Onward
    <2>4. Line' = Whole(t, hr, cr, hv, cv, hp, cp) /\ UNCHANGED alive
      BY <1>1, <1>3, <1>4, <1>6, <1>13, <2>1, FourStages DEF Dispatch, Gates
    <2>5. Onward(d \o hr, t \o hr)
      BY <1>2, <2>2, <2>3, OnwardJoined
    <2>6. Onward(d \o hr \o cr, t \o hr \o cr)
      BY <1>2, <2>2, <2>5, OnwardJoined, Joins
    <2>7. Onward(d \o hr \o cr \o hv, t \o hr \o cr \o hv)
      BY <1>2, <2>2, <2>6, OnwardJoined, Joins
    <2>8. Onward(d \o hr \o cr \o hv \o cv, t \o hr \o cr \o hv \o cv)
      BY <1>2, <2>2, <2>7, OnwardJoined, Joins
    <2>9. Onward(d \o hr \o cr \o hv \o cv \o hp, t \o hr \o cr \o hv \o cv \o hp)
      BY <1>2, <2>2, <2>8, OnwardJoined, Joins
    <2>10. Onward(d \o hr \o cr \o hv \o cv \o hp \o cp, t \o hr \o cr \o hv \o cv \o hp \o cp)
      BY <1>2, <2>2, <2>9, OnwardJoined, Joins
    <2>11. Onward(Line, Line')
      BY <1>2, <2>4, <2>10 DEF Whole
    <2> QED
      BY <2>4, <2>11 DEF Onward, Bound, C!Next, C!Take
  <1>14. ASSUME NEW t \in Threads, Reinject(t)
         PROVE  [C!Next]_(C!vars)
    <2>1. Head(out[t]) \in Messages
      BY <1>0, <1>14, HeadAndTail DEF TypeOK, Reinject
    <2>2. CASE "parse" \in alive /\ Send("parse", Head(out[t]))
      BY <1>7, <1>14, <2>1, <2>2 DEF Reinject
    <2>3. CASE UNCHANGED chan
      BY <1>1, <1>2, <1>3, <1>5, <1>6, <1>14, <2>3 DEF Reinject, Gates
    <2> QED
      BY <1>14, <2>2, <2>3 DEF Reinject
  <1>15. CASE UNCHANGED <<chan, hold, alive>>
    BY <1>1, <1>2, <1>3, <1>5, <1>6, <1>15 DEF Gates
  <1> QED
    <2>1. ASSUME \/ Shutdown \/ Transmit \/ EgressEnds \/ UNCHANGED vars
                 \/ \E t \in Threads : Call(t) \/ Return(t)
          PROVE  UNCHANGED <<chan, hold, alive>>
      BY <2>1 DEF Shutdown, Transmit, EgressEnds, vars, stages, Call, Return
    <2>2. ASSUME NEW m \in Messages, Inject(m)
          PROVE  [C!Next]_(C!vars)
      BY <1>7, <2>2 DEF Inject
    <2> QED
      BY <1>8, <1>9, <1>10, <1>11, <1>12, <1>13, <1>14, <1>15, <2>1, <2>2
         DEF Next, GateStep, WorkerStep

\* The gates and the channels between them are one line, first in first out, of
\* which a gate takes out only what is not bound for a local handler, and from
\* which only closing cuts off an end: for any threads, messages and capacity,
\* arrival order at the dispatcher is ingress order (run, pipeline.rs:194).
THEOREM ImplementsConduit == Spec => OneLine
  <1>1. Init => C!Init
    <2>1. \A x \in Seq(Messages) : <<>> \o x = x
      BY Joins
    <2>2. <<>> \o <<>> = <<>>
      BY <2>1, Joins
    <2>3. Init => Line = <<>>
      BY <2>2, FourStages DEF Init, Line, Held, Gates
    <2> QED
      BY <2>3, FourStages DEF Init, C!Init
  <1>2. IInv /\ Sifted /\ [Next]_vars => [C!Next]_(C!vars)
    BY StepLine
  <1> QED
    BY <1>1, <1>2, Inductive, AllSifted, PTL DEF Spec, OneLine, C!Spec
=============================================================================
