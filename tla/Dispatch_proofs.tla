-------------------------- MODULE Dispatch_proofs --------------------------
(***************************************************************************)
(* Proofs about the dispatch stage, for any number of threads, messages    *)
(* and workers and any set of panicking handler calls; and about module    *)
(* Instances, the switchboard before it, for any listeners, keys, calls of *)
(* route, refusals and Sends: its types, that nothing is injected for an   *)
(* instance that could not be materialized, and, where handlers Send to    *)
(* bare names only, that no handler is called for an instance that is busy.*)
(***************************************************************************)
EXTENDS Dispatch, Instances, CallChains_proofs

\* The mutex: held by the dispatcher between lookup and send, by a worker
\* while it decides whether to reap, and by nobody else.
LockInv ==
    /\ (lock = Dispatcher) <=> (dpc \in {"lookup", "send"})
    /\ \A w \in Workers : (lock = w) <=> (wpc[w] = "reap")

\* What the dispatcher holds: a message from recv() until it is handed over,
\* and while it sends, the sender that the map holds for that message.
HandInv ==
    /\ (pending # None) <=> (dpc \in {"lock", "lookup", "send"})
    /\ dpc = "send" => tx \in Workers /\ map[ThreadOf[pending]] = tx

\* The map leads to every live worker, and otherwise only to a panicked one.
MapInv ==
    /\ OneWorkerPerThread
    /\ \A t \in Threads :
         map[t] # None => wkey[map[t]] = t /\ wpc[map[t]] \in Alive \cup {"dead"}

\* A worker's own state: the thread it serves, the call it is in, and that
\* only a live worker has messages queued, all of its own thread.
WorkerInv ==
    \A w \in Workers :
        /\ wpc[w] # "unborn" => wkey[w] \in Threads
        /\ (cur[w] # None) <=> (wpc[w] = "busy")
        /\ wpc[w] \notin Alive => queue[w] = <<>>
        /\ \A i \in DOMAIN queue[w] : ThreadOf[queue[w][i]] = wkey[w]

\* The call a worker is in is of its thread and was taken from its queue.
CallInv ==
    \A w \in Workers : wpc[w] = "busy" =>
        /\ ThreadOf[cur[w]] = wkey[w]
        /\ \E i \in DOMAIN disposed[wkey[w]] : disposed[wkey[w]][i] = cur[w]

IInv ==
    /\ TypeOK
    /\ LockInv
    /\ HandInv
    /\ MapInv
    /\ WorkerInv
-----------------------------------------------------------------------------
\* The steps of Next, one name each, for the case splits below.
LEMMA NextCases ==
    ASSUME Next
    PROVE  \/ \E m \in Messages : Route(m)
           \/ RouteEnds
           \/ DRecv \/ DEnd \/ DLock \/ DFound \/ DSend \/ DSendError
           \/ \E w \in Workers :
                \/ DSpawn(w) \/ WRecv(w) \/ WFinish(w) \/ WPanic(w) \/ WExpire(w)
                \/ WLock(w) \/ WReap(w) \/ WRescue(w) \/ WExit(w)
BY DEF Next, DispatchStep, WorkerStep

\* Taking a message: it is of the worker's thread, and so is what stays queued.
LEMMA TakeFacts ==
    ASSUME IInv, NEW w \in Workers, wpc[w] \in Alive, Take(w)
    PROVE  /\ Head(queue[w]) \in Messages
           /\ ThreadOf[Head(queue[w])] = wkey[w]
           /\ queue' \in [Workers -> Seq(Messages)]
           /\ disposed' \in [Threads -> Seq(Messages)]
           /\ \A v \in Workers : \A i \in DOMAIN queue'[v] : ThreadOf[queue'[v][i]] = wkey[v]
<1>1. queue[w] \in Seq(Messages) /\ queue[w] # <<>> /\ wkey[w] \in Threads
  BY DEF IInv, TypeOK, Take, WorkerInv, Alive
<1>2. /\ Head(queue[w]) \in Messages
      /\ Tail(queue[w]) \in Seq(Messages)
      /\ ThreadOf[Head(queue[w])] = wkey[w]
      /\ \A i \in DOMAIN Tail(queue[w]) : ThreadOf[Tail(queue[w])[i]] = wkey[w]
  BY <1>1 DEF IInv, WorkerInv
<1>3. QED
  BY <1>1, <1>2 DEF IInv, TypeOK, Take, WorkerInv

\* A dropped receiver leaves an empty queue and well-formed histories.
LEMMA DropFacts ==
    ASSUME IInv, NEW w \in Workers, wpc[w] # "unborn", DropReceiver(w)
    PROVE  /\ queue' \in [Workers -> Seq(Messages)]
           /\ queue'[w] = <<>>
           /\ \A v \in Workers \ {w} : queue'[v] = queue[v]
           /\ disposed' \in [Threads -> Seq(Messages)]
           /\ lost' \subseteq Messages
<1>1. queue[w] \in Seq(Messages) /\ wkey[w] \in Threads
  BY DEF IInv, TypeOK, WorkerInv
<1>2. Range(queue[w]) \subseteq Messages
  BY <1>1, RangeOfSeq
<1>3. disposed[wkey[w]] \o queue[w] \in Seq(Messages)
  BY <1>1, ConcatProperties DEF IInv, TypeOK
<1>4. <<>> \in Seq(Messages)
  BY EmptySeq
<1>5. QED
  BY <1>1, <1>2, <1>3, <1>4 DEF IInv, TypeOK, DropReceiver

LEMMA InitIInv == Init => IInv
BY DispatchAssumption
   DEF Init, IInv, TypeOK, LockInv, HandInv, MapInv, OneWorkerPerThread, WorkerInv,
       Alive, Receiving

LEMMA StepIInv == IInv /\ [Next]_vars => IInv'
<1> SUFFICES ASSUME IInv, [Next]_vars
             PROVE  IInv'
    OBVIOUS
<1> USE DispatchAssumption DEF IInv, TypeOK, Alive, Receiving
<1>1. ASSUME NEW m \in Messages, Route(m)
      PROVE  IInv'
  <2>1. TypeOK'
    BY <1>1 DEF Route, dvars, wvars, hist
  <2>2. LockInv'
    BY <1>1 DEF Route, LockInv, dvars, wvars, hist
  <2>3. HandInv'
    BY <1>1 DEF Route, LockInv, HandInv, MapInv, dvars, wvars, hist
  <2>4. MapInv'
    BY <1>1 DEF Route, LockInv, HandInv, MapInv, OneWorkerPerThread, WorkerInv, dvars, wvars, hist
  <2>5. WorkerInv'
    BY <1>1 DEF Route, LockInv, HandInv, MapInv, WorkerInv, dvars, wvars, hist
  <2>6. QED
    BY <2>1, <2>2, <2>3, <2>4, <2>5
<1>2. CASE RouteEnds
  <2>1. TypeOK'
    BY <1>2 DEF RouteEnds, dvars, wvars, hist
  <2>2. LockInv'
    BY <1>2 DEF RouteEnds, LockInv, dvars, wvars, hist
  <2>3. HandInv'
    BY <1>2 DEF RouteEnds, LockInv, HandInv, MapInv, dvars, wvars, hist
  <2>4. MapInv'
    BY <1>2 DEF RouteEnds, LockInv, HandInv, MapInv, OneWorkerPerThread, WorkerInv, dvars, wvars, hist
  <2>5. WorkerInv'
    BY <1>2 DEF RouteEnds, LockInv, HandInv, MapInv, WorkerInv, dvars, wvars, hist
  <2>6. QED
    BY <2>1, <2>2, <2>3, <2>4, <2>5
<1>3. CASE DRecv
  <2>1. TypeOK'
    <3>1. Head(routed) \in Messages /\ Tail(routed) \in Seq(Messages) /\ ThreadOf[Head(routed)] \in Threads
      BY <1>3 DEF DRecv
    <3>2. arrived' \in [Threads -> Seq(Messages)]
      BY <1>3, <3>1 DEF DRecv
    <3>3. routed' \in Seq(Messages) /\ pending' \in Messages
      BY <1>3, <3>1 DEF DRecv
    <3>4. QED
      BY <1>3, <3>2, <3>3 DEF DRecv, wvars
  <2>2. LockInv'
    BY <1>3 DEF DRecv, LockInv, wvars
  <2>3. HandInv'
    BY <1>3 DEF DRecv, LockInv, HandInv, MapInv, wvars
  <2>4. MapInv'
    BY <1>3 DEF DRecv, LockInv, HandInv, MapInv, OneWorkerPerThread, WorkerInv, wvars
  <2>5. WorkerInv'
    BY <1>3 DEF DRecv, LockInv, HandInv, MapInv, WorkerInv, wvars
  <2>6. QED
    BY <2>1, <2>2, <2>3, <2>4, <2>5
<1>4. CASE DEnd
  <2>1. TypeOK'
    BY <1>4 DEF DEnd, wvars, hist
  <2>2. LockInv'
    BY <1>4 DEF DEnd, LockInv, wvars, hist
  <2>3. HandInv'
    BY <1>4 DEF DEnd, LockInv, HandInv, MapInv, wvars, hist
  <2>4. MapInv'
    BY <1>4 DEF DEnd, LockInv, HandInv, MapInv, OneWorkerPerThread, WorkerInv, wvars, hist
  <2>5. WorkerInv'
    BY <1>4 DEF DEnd, LockInv, HandInv, MapInv, WorkerInv, wvars, hist
  <2>6. QED
    BY <2>1, <2>2, <2>3, <2>4, <2>5
<1>5. CASE DLock
  <2>1. TypeOK'
    BY <1>5 DEF DLock, wvars, hist
  <2>2. LockInv'
    BY <1>5 DEF DLock, LockInv, wvars, hist
  <2>3. HandInv'
    BY <1>5 DEF DLock, LockInv, HandInv, MapInv, wvars, hist
  <2>4. MapInv'
    BY <1>5 DEF DLock, LockInv, HandInv, MapInv, OneWorkerPerThread, WorkerInv, wvars, hist
  <2>5. WorkerInv'
    BY <1>5 DEF DLock, LockInv, HandInv, MapInv, WorkerInv, wvars, hist
  <2>6. QED
    BY <2>1, <2>2, <2>3, <2>4, <2>5
<1>6. CASE DFound
  <2>1. TypeOK'
    BY <1>6 DEF DFound, HandInv, wvars, hist
  <2>2. LockInv'
    BY <1>6 DEF DFound, LockInv, wvars, hist
  <2>3. HandInv'
    BY <1>6 DEF DFound, LockInv, HandInv, MapInv, wvars, hist
  <2>4. MapInv'
    BY <1>6 DEF DFound, LockInv, HandInv, MapInv, OneWorkerPerThread, WorkerInv, wvars, hist
  <2>5. WorkerInv'
    BY <1>6 DEF DFound, LockInv, HandInv, MapInv, WorkerInv, wvars, hist
  <2>6. QED
    BY <2>1, <2>2, <2>3, <2>4, <2>5
<1>7. CASE DSend
  <2>1. TypeOK'
    BY <1>7 DEF DSend, HandInv, hist
  <2>2. LockInv'
    BY <1>7 DEF DSend, LockInv, hist
  <2>3. HandInv'
    BY <1>7 DEF DSend, LockInv, HandInv, MapInv, hist
  <2>4. MapInv'
    BY <1>7 DEF DSend, LockInv, HandInv, MapInv, OneWorkerPerThread, WorkerInv, hist
  <2>5. WorkerInv'
    BY <1>7, SMTT(40) DEF DSend, LockInv, HandInv, MapInv, WorkerInv, hist
  <2>6. QED
    BY <2>1, <2>2, <2>3, <2>4, <2>5
<1>8. CASE DSendError
  <2>1. TypeOK'
    BY <1>8 DEF DSendError, wvars, hist
  <2>2. LockInv'
    BY <1>8 DEF DSendError, LockInv, wvars, hist
  <2>3. HandInv'
    BY <1>8 DEF DSendError, LockInv, HandInv, MapInv, wvars, hist
  <2>4. MapInv'
    BY <1>8 DEF DSendError, LockInv, HandInv, MapInv, OneWorkerPerThread, WorkerInv, wvars, hist
  <2>5. WorkerInv'
    BY <1>8 DEF DSendError, LockInv, HandInv, MapInv, WorkerInv, wvars, hist
  <2>6. QED
    BY <2>1, <2>2, <2>3, <2>4, <2>5
<1>9. ASSUME NEW w \in Workers, DSpawn(w)
      PROVE  IInv'
  <2>1. TypeOK'
    BY <1>9 DEF DSpawn, HandInv, hist
  <2>2. LockInv'
    BY <1>9 DEF DSpawn, LockInv, hist
  <2>3. HandInv'
    BY <1>9 DEF DSpawn, LockInv, HandInv, MapInv, hist
  <2>4. MapInv'
    BY <1>9 DEF DSpawn, LockInv, HandInv, MapInv, OneWorkerPerThread, WorkerInv, hist
  <2>5. WorkerInv'
    BY <1>9 DEF DSpawn, LockInv, HandInv, MapInv, WorkerInv, hist
  <2>6. QED
    BY <2>1, <2>2, <2>3, <2>4, <2>5
<1>10. ASSUME NEW w \in Workers, WRecv(w)
      PROVE  IInv'
  <2>1. /\ queue' \in [Workers -> Seq(Messages)]
        /\ disposed' \in [Threads -> Seq(Messages)]
        /\ Head(queue[w]) \in Messages
        /\ \A v \in Workers : \A i \in DOMAIN queue'[v] : ThreadOf[queue'[v][i]] = wkey[v]
    BY <1>10, TakeFacts DEF WRecv
  <2>2. TypeOK'
    BY <1>10, <2>1 DEF WRecv, Take, dvars
  <2>3. LockInv'
    BY <1>10, <2>1 DEF WRecv, Take, LockInv, dvars
  <2>4. HandInv'
    BY <1>10, <2>1 DEF WRecv, Take, HandInv, dvars
  <2>5. MapInv'
    BY <1>10, <2>1, SMTT(40) DEF WRecv, Take, MapInv, OneWorkerPerThread, WorkerInv, dvars
  <2>6. WorkerInv'
    BY <1>10, <2>1, ZenonT(60) DEF WRecv, Take, WorkerInv, dvars
  <2>7. QED
    BY <2>2, <2>3, <2>4, <2>5, <2>6
<1>11. ASSUME NEW w \in Workers, WFinish(w)
       PROVE  IInv'
  <2>1. TypeOK'
    BY <1>11 DEF WFinish, dvars, hist
  <2>2. LockInv'
    BY <1>11 DEF WFinish, LockInv, dvars, hist
  <2>3. HandInv'
    BY <1>11 DEF WFinish, LockInv, HandInv, MapInv, dvars, hist
  <2>4. MapInv'
    BY <1>11 DEF WFinish, LockInv, HandInv, MapInv, OneWorkerPerThread, WorkerInv, dvars, hist
  <2>5. WorkerInv'
    BY <1>11 DEF WFinish, LockInv, HandInv, MapInv, WorkerInv, dvars, hist
  <2>6. QED
    BY <2>1, <2>2, <2>3, <2>4, <2>5
<1>12. ASSUME NEW w \in Workers, WPanic(w)
      PROVE  IInv'
  <2>1. /\ queue' \in [Workers -> Seq(Messages)]
        /\ queue'[w] = <<>>
        /\ \A v \in Workers \ {w} : queue'[v] = queue[v]
        /\ disposed' \in [Threads -> Seq(Messages)]
        /\ lost' \subseteq Messages
    BY <1>12, DropFacts DEF WPanic
  <2>2. TypeOK'
    BY <1>12, <2>1 DEF WPanic, DropReceiver, dvars
  <2>3. LockInv'
    BY <1>12, <2>1 DEF WPanic, DropReceiver, LockInv, dvars
  <2>4. HandInv'
    BY <1>12, <2>1 DEF WPanic, DropReceiver, HandInv, dvars
  <2>5. MapInv'
    BY <1>12, <2>1 DEF WPanic, DropReceiver, MapInv, OneWorkerPerThread, WorkerInv, dvars
  <2>6. WorkerInv'
    BY <1>12, <2>1 DEF WPanic, DropReceiver, WorkerInv, dvars
  <2>7. QED
    BY <2>2, <2>3, <2>4, <2>5, <2>6
<1>13. ASSUME NEW w \in Workers, WExpire(w)
       PROVE  IInv'
  <2>1. TypeOK'
    BY <1>13 DEF WExpire, dvars, hist
  <2>2. LockInv'
    BY <1>13 DEF WExpire, LockInv, dvars, hist
  <2>3. HandInv'
    BY <1>13 DEF WExpire, LockInv, HandInv, MapInv, dvars, hist
  <2>4. MapInv'
    BY <1>13 DEF WExpire, LockInv, HandInv, MapInv, OneWorkerPerThread, WorkerInv, dvars, hist
  <2>5. WorkerInv'
    BY <1>13 DEF WExpire, LockInv, HandInv, MapInv, WorkerInv, dvars, hist
  <2>6. QED
    BY <2>1, <2>2, <2>3, <2>4, <2>5
<1>14. ASSUME NEW w \in Workers, WLock(w)
       PROVE  IInv'
  <2>1. TypeOK'
    BY <1>14 DEF WLock, dvars, hist
  <2>2. LockInv'
    BY <1>14 DEF WLock, LockInv, dvars, hist
  <2>3. HandInv'
    BY <1>14 DEF WLock, LockInv, HandInv, MapInv, dvars, hist
  <2>4. MapInv'
    BY <1>14 DEF WLock, LockInv, HandInv, MapInv, OneWorkerPerThread, WorkerInv, dvars, hist
  <2>5. WorkerInv'
    BY <1>14 DEF WLock, LockInv, HandInv, MapInv, WorkerInv, dvars, hist
  <2>6. QED
    BY <2>1, <2>2, <2>3, <2>4, <2>5
<1>15. ASSUME NEW w \in Workers, WReap(w)
      PROVE  IInv'
  <2>1. TypeOK'
    BY <1>15 DEF WReap, dvars, hist
  <2>2. LockInv'
    BY <1>15 DEF WReap, LockInv, dvars, hist
  <2>3. HandInv'
    BY <1>15 DEF WReap, HandInv, LockInv, dvars, hist
  <2>4. MapInv'
    BY <1>15, SMTT(40) DEF WReap, MapInv, OneWorkerPerThread, WorkerInv, dvars, hist
  <2>5. WorkerInv'
    BY <1>15 DEF WReap, WorkerInv, dvars, hist
  <2>6. QED
    BY <2>1, <2>2, <2>3, <2>4, <2>5
<1>16. ASSUME NEW w \in Workers, WRescue(w)
      PROVE  IInv'
  <2>1. /\ queue' \in [Workers -> Seq(Messages)]
        /\ disposed' \in [Threads -> Seq(Messages)]
        /\ Head(queue[w]) \in Messages
        /\ \A v \in Workers : \A i \in DOMAIN queue'[v] : ThreadOf[queue'[v][i]] = wkey[v]
    BY <1>16, TakeFacts DEF WRescue
  <2>2. TypeOK'
    BY <1>16, <2>1 DEF WRescue, Take, dvars
  <2>3. LockInv'
    BY <1>16, <2>1, SMTT(40) DEF WRescue, Take, LockInv, dvars
  <2>4. HandInv'
    BY <1>16, <2>1 DEF WRescue, Take, HandInv, dvars
  <2>5. MapInv'
    BY <1>16, <2>1, SMTT(40) DEF WRescue, Take, MapInv, OneWorkerPerThread, WorkerInv, dvars
  <2>6. WorkerInv'
    BY <1>16, <2>1, ZenonT(60) DEF WRescue, Take, WorkerInv, dvars
  <2>7. QED
    BY <2>2, <2>3, <2>4, <2>5, <2>6
<1>17. ASSUME NEW w \in Workers, WExit(w)
      PROVE  IInv'
  <2>1. /\ queue' \in [Workers -> Seq(Messages)]
        /\ queue'[w] = <<>>
        /\ \A v \in Workers \ {w} : queue'[v] = queue[v]
        /\ disposed' \in [Threads -> Seq(Messages)]
        /\ lost' \subseteq Messages
    BY <1>17, DropFacts DEF WExit
  <2>2. TypeOK'
    BY <1>17, <2>1 DEF WExit, DropReceiver, dvars
  <2>3. LockInv'
    BY <1>17, <2>1 DEF WExit, DropReceiver, LockInv, dvars
  <2>4. HandInv'
    BY <1>17, <2>1 DEF WExit, DropReceiver, HandInv, dvars
  <2>5. MapInv'
    BY <1>17, <2>1 DEF WExit, DropReceiver, MapInv, OneWorkerPerThread, WorkerInv, dvars
  <2>6. WorkerInv'
    BY <1>17, <2>1 DEF WExit, DropReceiver, WorkerInv, dvars
  <2>7. QED
    BY <2>2, <2>3, <2>4, <2>5, <2>6
<1>18. CASE UNCHANGED vars
  <2>1. TypeOK'
    BY <1>18 DEF vars
  <2>2. LockInv'
    BY <1>18 DEF vars, LockInv
  <2>3. HandInv'
    BY <1>18 DEF vars, LockInv, HandInv, MapInv
  <2>4. MapInv'
    BY <1>18 DEF vars, LockInv, HandInv, MapInv, OneWorkerPerThread, WorkerInv
  <2>5. WorkerInv'
    BY <1>18 DEF vars, LockInv, HandInv, MapInv, WorkerInv
  <2>6. QED
    BY <2>1, <2>2, <2>3, <2>4, <2>5
<1>19. QED
  BY <1>1, <1>2, <1>3, <1>4, <1>5, <1>6, <1>7, <1>8, <1>9, <1>10, <1>11, <1>12,
     <1>13, <1>14, <1>15, <1>16, <1>17, <1>18, NextCases

\* Type correctness and the strengthening the results below rest on.
LEMMA Inductive == Spec => []IInv
<1>1. IInv /\ [Next]_vars => IInv'
  BY StepIInv
<1>2. QED
  BY InitIInv, <1>1, PTL DEF Spec

\* Every variable keeps its type: in particular the dispatcher only ever sends
\* a message it holds, to a worker it has looked up.
THEOREM TypeCorrect == Spec => []TypeOK
<1>1. IInv => TypeOK
  BY DEF IInv
<1>2. QED
  BY Inductive, <1>1, PTL

\* However enqueueing, reaping and panics interleave, at most one live worker
\* serves a thread, and the map leads to it (pipeline.rs:98-103).
THEOREM ExactlyOneWorker == Spec => []OneWorkerPerThread
<1>1. IInv => OneWorkerPerThread
  BY DEF IInv, MapInv
<1>2. QED
  BY Inductive, <1>1, PTL

\* Two handler calls of one thread never overlap (pipeline.rs:445-448).
THEOREM SerialCalls == Spec => []SerialPerThread
<1>1. IInv => SerialPerThread
  BY DEF IInv, MapInv, OneWorkerPerThread, SerialPerThread, Alive
<1>2. QED
  BY Inductive, <1>1, PTL
-----------------------------------------------------------------------------
(* Arrival order.                                                          *)

\* Concatenation of three, which the provers handle best unexpanded.
Cat3(a, b, c) == a \o b \o c

\* How a message moves along disposed, backlog and in-hand: it is received ...
LEMMA MoveReceive ==
    \A a \in Seq(Messages), b \in Seq(Messages), m \in Messages :
        Append(Cat3(a, b, <<>>), m) = Cat3(a, b, <<m>>)
<1> TAKE a \in Seq(Messages), b \in Seq(Messages), m \in Messages
<1> QED
  BY DEF Cat3

\* ... sent to a worker ...
LEMMA MoveSend ==
    \A a \in Seq(Messages), b \in Seq(Messages), m \in Messages :
        Cat3(a, Append(b, m), <<>>) = Cat3(a, b, <<m>>)
<1> TAKE a \in Seq(Messages), b \in Seq(Messages), m \in Messages
<1> QED
  BY DEF Cat3

\* ... and taken by it.
LEMMA MoveTake ==
    \A a \in Seq(Messages), b \in Seq(Messages), c \in Seq(Messages) :
        b # <<>> => Cat3(Append(a, Head(b)), Tail(b), c) = Cat3(a, b, c)
<1> TAKE a \in Seq(Messages), b \in Seq(Messages), c \in Seq(Messages)
<1> QED
  BY SMTT(40) DEF Cat3

\* The three parts of a thread's order are sequences of messages.
LEMMA PartsAreSequences ==
    ASSUME IInv, NEW t \in Threads
    PROVE  /\ disposed[t] \in Seq(Messages)
           /\ Backlog(t) \in Seq(Messages)
           /\ InHand(t) \in Seq(Messages)
BY EmptySeq DEF IInv, TypeOK, Backlog, InHand

\* Taking a message moves it from the backlog of its thread to the disposed.
LEMMA TakeOrder ==
    ASSUME IInv, NEW w \in Workers, wpc[w] \in Alive, Take(w),
           UNCHANGED <<map, wkey, pending>>, NEW t \in Threads
    PROVE  disposed'[t] \o Backlog(t)' \o InHand(t)' = disposed[t] \o Backlog(t) \o InHand(t)
<1>1. /\ wkey[w] \in Threads
      /\ map[wkey[w]] = w
      /\ w # None
      /\ InHand(t)' = InHand(t)
  BY DispatchAssumption DEF IInv, WorkerInv, MapInv, OneWorkerPerThread, Alive, InHand
<1>2. CASE t = wkey[w]
  <2>1. Backlog(t) = queue[w] /\ queue[w] # <<>> /\ Backlog(t)' = Tail(queue[w])
    BY <1>1, <1>2 DEF Backlog, Take, IInv, TypeOK
  <2>2. disposed'[t] = Append(disposed[t], Head(queue[w]))
    BY <1>2 DEF Take, IInv, TypeOK
  <2>3. Head(queue[w]) \in Messages
    BY TakeFacts
  <2>4. Cat3(Append(disposed[t], Head(queue[w])), Tail(queue[w]), InHand(t))
          = Cat3(disposed[t], queue[w], InHand(t))
    <3>1. /\ disposed[t] \in Seq(Messages)
          /\ queue[w] \in Seq(Messages)
          /\ InHand(t) \in Seq(Messages)
      BY <2>1, PartsAreSequences
    <3>2. QED
      BY <2>1, <3>1, MoveTake
  <2>5. QED
    BY <1>1, <2>1, <2>2, <2>4 DEF Cat3
<1>3. CASE t # wkey[w]
  <2>1. disposed'[t] = disposed[t]
    BY <1>3 DEF Take, IInv, TypeOK
  <2>2. map[t] # None => map[t] # w
    BY <1>3 DEF IInv, MapInv
  <2>3. Backlog(t)' = Backlog(t)
    BY <2>2 DEF Backlog, Take, IInv, TypeOK
  <2>4. QED
    BY <1>1, <2>1, <2>3
<1>4. QED
  BY <1>2, <1>3

\* Dropping a receiver moves the whole queue of a worker there.
LEMMA DropOrder ==
    ASSUME IInv, NEW w \in Workers, wpc[w] \in {"busy", "exit"}, DropReceiver(w),
           UNCHANGED <<map, wkey, pending>>, NEW t \in Threads
    PROVE  disposed'[t] \o Backlog(t)' \o InHand(t)' = disposed[t] \o Backlog(t) \o InHand(t)
<1>1. /\ wkey[w] \in Threads
      /\ queue[w] # <<>> => map[wkey[w]] = w
      /\ w # None
      /\ InHand(t)' = InHand(t)
  BY DispatchAssumption DEF IInv, WorkerInv, MapInv, OneWorkerPerThread, Alive, InHand
<1>2. CASE t = wkey[w] /\ queue[w] # <<>>
  <2>1. Backlog(t) = queue[w] /\ Backlog(t)' = <<>>
    BY <1>1, <1>2 DEF Backlog, DropReceiver, IInv, TypeOK
  <2>2. disposed'[t] = disposed[t] \o queue[w]
    BY <1>2 DEF DropReceiver, IInv, TypeOK
  <2>3. disposed[t] \in Seq(Messages) /\ queue[w] \in Seq(Messages) /\ InHand(t) \in Seq(Messages)
    BY <2>1, PartsAreSequences
  <2>4. (disposed[t] \o queue[w]) \o <<>> = disposed[t] \o queue[w]
    BY <2>3, ConcatProperties, ConcatEmptySeq
  <2>5. QED
    BY <1>1, <2>1, <2>2, <2>4
<1>3. CASE t # wkey[w] \/ queue[w] = <<>>
  <2>1. disposed'[t] = disposed[t]
    <3>1. disposed[t] \o <<>> = disposed[t]
      BY PartsAreSequences, ConcatEmptySeq
    <3>2. QED
      BY <1>3, <3>1 DEF DropReceiver, IInv, TypeOK
  <2>2. queue[w] = <<>> \/ (map[t] # None => map[t] # w)
    BY <1>3 DEF IInv, MapInv
  <2>3. Backlog(t)' = Backlog(t)
    BY <2>2 DEF Backlog, DropReceiver, IInv, TypeOK
  <2>4. QED
    BY <1>1, <2>1, <2>3
<1>4. QED
  BY <1>2, <1>3

LEMMA StepOrder == IInv /\ InArrivalOrder /\ [Next]_vars => InArrivalOrder'
<1> SUFFICES ASSUME IInv, InArrivalOrder, [Next]_vars, NEW t \in Threads
             PROVE  arrived'[t] = disposed'[t] \o Backlog(t)' \o InHand(t)'
    BY DEF InArrivalOrder
<1>0. /\ arrived[t] = disposed[t] \o Backlog(t) \o InHand(t)
      /\ disposed[t] \in Seq(Messages) /\ Backlog(t) \in Seq(Messages) /\ InHand(t) \in Seq(Messages)
  BY PartsAreSequences DEF InArrivalOrder
<1> USE DispatchAssumption DEF IInv, TypeOK
<1>1. ASSUME UNCHANGED <<map, queue, pending, arrived, disposed>>
      PROVE  arrived'[t] = disposed'[t] \o Backlog(t)' \o InHand(t)'
  BY <1>0, <1>1 DEF Backlog, InHand
<1>2. CASE DRecv
  <2>1. InHand(t) = <<>> /\ Backlog(t)' = Backlog(t) /\ disposed'[t] = disposed[t]
    BY <1>2 DEF DRecv, HandInv, InHand, Backlog, wvars
  <2>2. Head(routed) \in Messages
    BY <1>2 DEF DRecv
  <2>3. CASE t = ThreadOf[Head(routed)]
    <3>1. InHand(t)' = <<Head(routed)>> /\ arrived'[t] = Append(arrived[t], Head(routed))
      BY <1>2, <2>2, <2>3 DEF DRecv, InHand
    <3>2. Append(Cat3(disposed[t], Backlog(t), <<>>), Head(routed))
            = Cat3(disposed[t], Backlog(t), <<Head(routed)>>)
      BY <1>0, <2>2, MoveReceive
    <3>3. QED
      BY <1>0, <2>1, <3>1, <3>2 DEF Cat3
  <2>4. CASE t # ThreadOf[Head(routed)]
    BY <1>0, <1>2, <2>1, <2>4 DEF DRecv, InHand
  <2>5. QED
    BY <2>3, <2>4
<1>3. ASSUME NEW w \in Workers, DSpawn(w)
      PROVE  arrived'[t] = disposed'[t] \o Backlog(t)' \o InHand(t)'
  <2>1. queue[w] = <<>> /\ queue' = queue
    BY <1>3 DEF DSpawn, WorkerInv, Alive
  <2>2. Backlog(t)' = Backlog(t)
    BY <1>3, <2>1 DEF DSpawn, Backlog
  <2>3. QED
    BY <1>0, <1>3, <2>2 DEF DSpawn, InHand, hist
<1>4. CASE DSend
  <2>1. /\ tx \in Workers /\ map[ThreadOf[pending]] = tx /\ pending \in Messages
        /\ InHand(t)' = <<>> /\ arrived'[t] = arrived[t] /\ disposed'[t] = disposed[t]
    BY <1>4 DEF DSend, HandInv, InHand, hist
  <2>2. CASE t = ThreadOf[pending]
    <3>1. /\ Backlog(t)' = Append(Backlog(t), pending)
          /\ InHand(t) = <<pending>>
      BY <1>4, <2>1, <2>2 DEF DSend, Backlog, InHand
    <3>2. Cat3(disposed[t], Append(Backlog(t), pending), <<>>)
            = Cat3(disposed[t], Backlog(t), <<pending>>)
      BY <1>0, <2>1, MoveSend
    <3>3. QED
      BY <1>0, <2>1, <3>1, <3>2 DEF Cat3
  <2>3. CASE t # ThreadOf[pending]
    <3>1. map[t] # None => map[t] # tx
      BY <2>1, <2>3 DEF MapInv
    <3>2. Backlog(t)' = Backlog(t) /\ InHand(t) = <<>>
      BY <1>4, <2>1, <2>3, <3>1 DEF DSend, Backlog, InHand
    <3>3. QED
      BY <1>0, <2>1, <3>2
  <2>4. QED
    BY <2>2, <2>3
<1>5. CASE DSendError
  <2>1. Backlog(ThreadOf[pending]) = <<>>
    BY <1>5 DEF DSendError, HandInv, WorkerInv, Alive, Receiving, Backlog
  <2>2. Backlog(t)' = Backlog(t)
    BY <1>5, <2>1 DEF DSendError, Backlog, wvars
  <2>3. QED
    BY <1>0, <1>5, <2>2 DEF DSendError, InHand, hist
<1>6. ASSUME NEW w \in Workers, WReap(w)
      PROVE  arrived'[t] = disposed'[t] \o Backlog(t)' \o InHand(t)'
  <2>1. map[wkey[w]] = w /\ queue[w] = <<>> /\ wkey[w] \in Threads
    BY <1>6 DEF WReap, MapInv, OneWorkerPerThread, WorkerInv, Alive
  <2>2. Backlog(t)' = Backlog(t)
    BY <1>6, <2>1 DEF WReap, Backlog
  <2>3. QED
    BY <1>0, <1>6, <2>2 DEF WReap, InHand, hist, dvars
<1>7. ASSUME NEW w \in Workers, WRecv(w) \/ WRescue(w)
      PROVE  arrived'[t] = disposed'[t] \o Backlog(t)' \o InHand(t)'
  BY <1>0, <1>7, TakeOrder DEF WRecv, WRescue, dvars, Alive
<1>8. ASSUME NEW w \in Workers, WPanic(w) \/ WExit(w)
      PROVE  arrived'[t] = disposed'[t] \o Backlog(t)' \o InHand(t)'
  BY <1>0, <1>8, DropOrder DEF WPanic, WExit, dvars
<1>9. ASSUME NEW w \in Workers, WExpire(w) \/ WLock(w)
      PROVE  arrived'[t] = disposed'[t] \o Backlog(t)' \o InHand(t)'
  BY <1>1, <1>9 DEF WExpire, WLock, dvars, hist
<1>10. ASSUME NEW w \in Workers, WFinish(w)
       PROVE  arrived'[t] = disposed'[t] \o Backlog(t)' \o InHand(t)'
  BY <1>1, <1>10 DEF WFinish, dvars, hist
<1>11. ASSUME \/ \E m \in Messages : Route(m)
              \/ RouteEnds \/ DEnd \/ DLock \/ DFound \/ UNCHANGED vars
       PROVE  arrived'[t] = disposed'[t] \o Backlog(t)' \o InHand(t)'
  BY <1>1, <1>11 DEF Route, RouteEnds, DEnd, DLock, DFound, vars, dvars, wvars, hist
<1>12. QED
  BY <1>2, <1>3, <1>4, <1>5, <1>6, <1>7, <1>8, <1>9, <1>10, <1>11, NextCases

\* Per thread, what the dispatcher received is what was taken, then what is
\* queued, then what is in hand: first come first served, nothing duplicated or
\* mislaid, across any number of reaps, respawns and panics
\* (pipeline.rs:445-455).
THEOREM ArrivalOrder == Spec => []InArrivalOrder
<1>1. Init => InArrivalOrder
  BY ConcatEmptySeq, EmptySeq DEF Init, InArrivalOrder, Backlog, InHand
<1>2. QED
  BY <1>1, Inductive, StepOrder, PTL DEF Spec
-----------------------------------------------------------------------------
(* Losses.                                                                 *)

\* Concatenation, index by index.
LEMMA ConcatIndices ==
    \A a \in Seq(Messages), b \in Seq(Messages) :
        /\ \A i \in DOMAIN a : i \in DOMAIN (a \o b) /\ (a \o b)[i] = a[i]
        /\ \A k \in DOMAIN b : \A i \in DOMAIN a :
               /\ Len(a) + k \in DOMAIN (a \o b)
               /\ (a \o b)[Len(a) + k] = b[k]
               /\ i < Len(a) + k
<1> TAKE a \in Seq(Messages), b \in Seq(Messages)
<1> QED
  OBVIOUS

\* The history of a thread only grows at its end.
LEMMA DisposedGrows ==
    ASSUME IInv, [Next]_vars, NEW t \in Threads, NEW i \in DOMAIN disposed[t]
    PROVE  i \in DOMAIN disposed'[t] /\ disposed'[t][i] = disposed[t][i]
<1>1. disposed[t] \in Seq(Messages)
  BY DEF IInv, TypeOK
<1>2. ASSUME NEW w \in Workers, wpc[w] \in Alive, Take(w)
      PROVE  i \in DOMAIN disposed'[t] /\ disposed'[t][i] = disposed[t][i]
  <2>1. disposed'[t] = disposed[t] \/ disposed'[t] = Append(disposed[t], Head(queue[w]))
    BY <1>2 DEF Take, IInv, TypeOK
  <2>2. Head(queue[w]) \in Messages
    BY <1>2, TakeFacts
  <2>3. QED
    BY <1>1, <2>1, <2>2, AppendProperties, LenProperties
<1>3. ASSUME NEW w \in Workers, DropReceiver(w)
      PROVE  i \in DOMAIN disposed'[t] /\ disposed'[t][i] = disposed[t][i]
  <2>1. disposed'[t] = disposed[t] \/ disposed'[t] = disposed[t] \o queue[w]
    BY <1>3 DEF DropReceiver, IInv, TypeOK
  <2>2. queue[w] \in Seq(Messages)
    BY DEF IInv, TypeOK
  <2>3. QED
    BY <1>1, <2>1, <2>2, ConcatIndices, ZenonT(60)
<1>4. ASSUME UNCHANGED disposed
      PROVE  i \in DOMAIN disposed'[t] /\ disposed'[t][i] = disposed[t][i]
  BY <1>4
<1>5. CASE Next
  BY <1>2, <1>3, <1>4, <1>5, NextCases
     DEF Route, RouteEnds, DRecv, DEnd, DLock, DFound, DSend, DSendError, DSpawn,
         WRecv, WFinish, WPanic, WExpire, WLock, WReap, WRescue, WExit, hist, Alive
<1>6. QED
  BY <1>4, <1>5 DEF vars

LEMMA StepCall == IInv /\ CallInv /\ [Next]_vars => CallInv'
<1> SUFFICES ASSUME IInv, CallInv, [Next]_vars, NEW v \in Workers, wpc'[v] = "busy"
             PROVE  /\ ThreadOf[cur'[v]] = wkey'[v]
                    /\ \E i \in DOMAIN disposed'[wkey'[v]] : disposed'[wkey'[v]][i] = cur'[v]
    BY DEF CallInv
<1>1. CASE wpc[v] = "busy" /\ UNCHANGED <<cur[v], wkey[v]>>
  BY <1>1, DisposedGrows DEF CallInv, IInv, WorkerInv
<1>2. ASSUME NEW w \in Workers, wpc[w] \in Alive, Take(w), UNCHANGED wkey
      PROVE  /\ ThreadOf[cur'[v]] = wkey'[v]
             /\ \E i \in DOMAIN disposed'[wkey'[v]] : disposed'[wkey'[v]][i] = cur'[v]
  <2>1. CASE v = w
    <3>1. /\ cur'[v] = Head(queue[w]) /\ wkey'[v] = wkey[w] /\ wkey[w] \in Threads
          /\ disposed'[wkey[w]] = Append(disposed[wkey[w]], Head(queue[w]))
          /\ disposed[wkey[w]] \in Seq(Messages)
      BY <1>2, <2>1 DEF Take, IInv, TypeOK, WorkerInv, Alive
    <3>2. Head(queue[w]) \in Messages /\ ThreadOf[Head(queue[w])] = wkey[w]
      BY <1>2, TakeFacts
    <3>3. Len(disposed[wkey[w]]) + 1 \in DOMAIN disposed'[wkey[w]]
      BY <3>1, <3>2, AppendProperties, LenProperties
    <3>4. QED
      BY <3>1, <3>2, <3>3, AppendProperties
  <2>2. CASE v # w
    BY <1>1, <1>2, <2>2 DEF Take, IInv, TypeOK
  <2>3. QED
    BY <2>1, <2>2
<1>3. ASSUME NEW w \in Workers, DropReceiver(w), UNCHANGED wkey
      PROVE  /\ ThreadOf[cur'[v]] = wkey'[v]
             /\ \E i \in DOMAIN disposed'[wkey'[v]] : disposed'[wkey'[v]][i] = cur'[v]
  <2>1. v # w /\ wpc[v] = "busy" /\ UNCHANGED <<cur[v], wkey[v]>>
    BY <1>3 DEF DropReceiver, IInv, TypeOK
  <2>2. QED
    BY <1>1, <2>1
<1>4. CASE Next
  BY <1>1, <1>2, <1>3, <1>4, NextCases, ZenonT(60)
     DEF Route, RouteEnds, DRecv, DEnd, DLock, DFound, DSend, DSendError, DSpawn,
         WRecv, WFinish, WPanic, WExpire, WLock, WReap, WRescue, WExit, wvars,
         IInv, TypeOK, Alive
<1>5. QED
  BY <1>1, <1>4 DEF vars

LEMMA StepLost == IInv /\ CallInv /\ LostOnlyBehindPanic /\ [Next]_vars => LostOnlyBehindPanic'
<1> SUFFICES ASSUME IInv, CallInv, LostOnlyBehindPanic, [Next]_vars, NEW m \in lost'
             PROVE  \E i, j \in DOMAIN disposed'[ThreadOf[m]] :
                        /\ i < j
                        /\ disposed'[ThreadOf[m]][j] = m
                        /\ disposed'[ThreadOf[m]][i] \in Panicking
    BY DEF LostOnlyBehindPanic
<1>1. CASE m \in lost
  <2>1. ThreadOf[m] \in Threads
    BY <1>1, DispatchAssumption DEF IInv, TypeOK
  <2>2. PICK i, j \in DOMAIN disposed[ThreadOf[m]] :
            /\ i < j
            /\ disposed[ThreadOf[m]][j] = m
            /\ disposed[ThreadOf[m]][i] \in Panicking
    BY <1>1 DEF LostOnlyBehindPanic
  <2>3. QED
    BY <2>1, <2>2, DisposedGrows
<1>2. ASSUME NEW w \in Workers, WPanic(w), m \in Range(queue[w])
      PROVE  \E i, j \in DOMAIN disposed'[ThreadOf[m]] :
                 /\ i < j
                 /\ disposed'[ThreadOf[m]][j] = m
                 /\ disposed'[ThreadOf[m]][i] \in Panicking
  <2> DEFINE t == wkey[w]
             d == disposed[t]
             q == queue[w]
  <2>1. /\ t \in Threads /\ d \in Seq(Messages) /\ q \in Seq(Messages)
        /\ disposed'[t] = d \o q
        /\ cur[w] \in Panicking
    BY <1>2 DEF WPanic, DropReceiver, IInv, TypeOK, WorkerInv
  <2>2. PICK k \in DOMAIN q : q[k] = m
    BY <1>2 DEF Range
  <2>3. ThreadOf[m] = t
    BY <2>2 DEF IInv, WorkerInv
  <2>4. PICK i \in DOMAIN d : d[i] = cur[w]
    BY <1>2 DEF WPanic, CallInv
  <2>5. /\ i \in DOMAIN (d \o q) /\ (d \o q)[i] \in Panicking
        /\ Len(d) + k \in DOMAIN (d \o q) /\ (d \o q)[Len(d) + k] = m
        /\ i < Len(d) + k
    BY <2>1, <2>2, <2>4, ConcatIndices, ZenonT(60)
  <2> HIDE DEF t, d, q
  <2>6. \E i0, j0 \in DOMAIN (d \o q) :
            i0 < j0 /\ (d \o q)[j0] = m /\ (d \o q)[i0] \in Panicking
    BY <2>5
  <2>7. QED
    BY <2>1, <2>3, <2>6
<1>3. ASSUME NEW w \in Workers, WExit(w)
      PROVE  lost' = lost
  BY <1>3 DEF WExit, DropReceiver, IInv, WorkerInv, Alive, Range
<1>4. m \in lost \/ \E w \in Workers : WPanic(w) /\ m \in Range(queue[w])
  <2>1. CASE Next
    BY <2>1, <1>3, NextCases
       DEF Route, RouteEnds, DRecv, DEnd, DLock, DFound, DSend, DSendError, DSpawn,
           WRecv, WFinish, WPanic, WExpire, WLock, WReap, WRescue, hist, DropReceiver
  <2>2. QED
    BY <2>1, SMTT(40) DEF vars
<1>5. QED
  BY <1>1, <1>2, <1>4

\* Enqueueing, idle reaping and respawning lose nothing: a lost message was
\* queued behind one of its own thread whose handler panicked
\* (pipeline.rs:453-455 and 507-509).
THEOREM ReapingLosesNothing == Spec => []LostOnlyBehindPanic
<1>1. Init => CallInv /\ LostOnlyBehindPanic
  BY DEF Init, CallInv, LostOnlyBehindPanic
<1>2. QED
  BY <1>1, Inductive, StepCall, StepLost, PTL DEF Spec
-----------------------------------------------------------------------------
(* Refinement: the map, the lock, the timeouts and the respawning implement *)
(* one backlog and one running call per thread.                            *)

LEMMA InitSerial == Init => Serial!Init
BY DEF Init, Serial!Init, Backlog, Running

\* A worker other than the one thread t maps to does not concern t.
LEMMA OtherThreads ==
    ASSUME IInv, NEW w \in Workers, wpc[w] \in Alive
    PROVE  /\ map[wkey[w]] = w /\ wkey[w] \in Threads /\ w # None
           /\ \A t \in Threads : t # wkey[w] => map[t] # w
BY DispatchAssumption DEF IInv, MapInv, OneWorkerPerThread, WorkerInv, Alive

LEMMA TakeIsStart ==
    ASSUME IInv, NEW w \in Workers, wpc[w] \in Alive \ {"busy"}, Take(w), UNCHANGED map,
           NEW k \in Threads, wkey[w] = k
    PROVE  Serial!Start(k)
<1>1. map[k] = w /\ w # None /\ \A t \in Threads : t # k => map[t] # w
  BY OtherThreads
<1>2. Running(k) = None /\ Backlog(k) = queue[w] /\ queue[w] # <<>>
  BY <1>1 DEF Running, Backlog, Take, IInv, WorkerInv
<1>3. Running(k)' = Head(queue[w]) /\ Backlog(k)' = Tail(queue[w])
  BY <1>1 DEF Running, Backlog, Take, IInv, TypeOK
<1>4. \A t \in Threads : t # k => Running(t)' = Running(t) /\ Backlog(t)' = Backlog(t)
  BY <1>1 DEF Running, Backlog, Take, IInv, TypeOK
<1>5. QED
  BY <1>2, <1>3, <1>4 DEF Serial!Start

LEMMA FinishIsFinish ==
    ASSUME IInv, NEW w \in Workers, WFinish(w), NEW k \in Threads, wkey[w] = k
    PROVE  Serial!Finish(k)
<1>1. map[k] = w /\ w # None /\ \A t \in Threads : t # k => map[t] # w
  BY OtherThreads DEF WFinish, Alive
<1>2. Running(k) \in Messages \ Panicking /\ Running(k)' = None
  BY <1>1 DEF Running, WFinish, IInv, TypeOK, WorkerInv
<1>3. \A t \in Threads : t # k => Running(t)' = Running(t)
  BY <1>1 DEF Running, WFinish, IInv, TypeOK
<1>4. \A t \in Threads : Backlog(t)' = Backlog(t)
  BY DEF Backlog, WFinish
<1>5. QED
  BY <1>2, <1>3, <1>4 DEF Serial!Finish

LEMMA PanicIsCrash ==
    ASSUME IInv, NEW w \in Workers, WPanic(w), NEW k \in Threads, wkey[w] = k
    PROVE  Serial!Crash(k)
<1>1. map[k] = w /\ w # None /\ \A t \in Threads : t # k => map[t] # w
  BY OtherThreads DEF WPanic, Alive
<1>2. Running(k) \in Panicking /\ Running(k)' = None /\ Backlog(k)' = <<>>
  BY <1>1 DEF Running, Backlog, WPanic, DropReceiver, IInv, TypeOK
<1>3. \A t \in Threads : t # k => Running(t)' = Running(t) /\ Backlog(t)' = Backlog(t)
  BY <1>1 DEF Running, Backlog, WPanic, DropReceiver, IInv, TypeOK
<1>4. QED
  BY <1>2, <1>3 DEF Serial!Crash

LEMMA SendIsAccept ==
    ASSUME IInv, DSend, NEW m \in Messages, pending = m
    PROVE  Serial!Accept(m)
<1> DEFINE k == ThreadOf[m]
<1>1. k \in Threads /\ tx \in Workers /\ map[k] = tx /\ tx # None
  BY DispatchAssumption DEF DSend, IInv, HandInv
<1>2. \A t \in Threads : t # k => map[t] # tx
  BY <1>1 DEF IInv, MapInv
<1>3. Backlog(k)' = Append(Backlog(k), m)
  BY <1>1 DEF Backlog, DSend, IInv, TypeOK
<1>4. \A t \in Threads : t # k => Backlog(t)' = Backlog(t)
  BY <1>2 DEF Backlog, DSend, IInv, TypeOK
<1>5. \A t \in Threads : Running(t)' = Running(t)
  BY DEF Running, DSend
<1>6. QED
  BY <1>1, <1>3, <1>4, <1>5 DEF Serial!Accept

\* Every other step leaves the backlogs and the running calls alone.
LEMMA Stutters ==
    ASSUME \A t \in Threads : Running(t)' = Running(t) /\ Backlog(t)' = Backlog(t)
    PROVE  UNCHANGED Serial!vars
BY DEF Serial!vars

LEMMA StepSerial == IInv /\ [Next]_vars => [Serial!Next]_(Serial!vars)
<1> SUFFICES ASSUME IInv, [Next]_vars
             PROVE  Serial!Next \/ UNCHANGED Serial!vars
    OBVIOUS
<1>1. CASE DSend
  <2>1. PICK m \in Messages : pending = m
    BY <1>1, DispatchAssumption DEF DSend, IInv, TypeOK, HandInv
  <2>2. QED
    BY <1>1, <2>1, SendIsAccept DEF Serial!Next
<1>2. ASSUME NEW w \in Workers, WRecv(w) \/ WRescue(w)
      PROVE  Serial!Next
  <2>1. PICK k \in Threads : wkey[w] = k
    BY <1>2 DEF WRecv, WRescue, IInv, WorkerInv
  <2>2. Serial!Start(k)
    BY <1>2, <2>1, TakeIsStart DEF WRecv, WRescue, Alive
  <2>3. QED
    BY <2>2 DEF Serial!Next
<1>3. ASSUME NEW w \in Workers, WFinish(w) \/ WPanic(w)
      PROVE  Serial!Next
  <2>1. PICK k \in Threads : wkey[w] = k
    BY <1>3 DEF WFinish, WPanic, IInv, WorkerInv
  <2>2. Serial!Finish(k) \/ Serial!Crash(k)
    BY <1>3, <2>1, FinishIsFinish, PanicIsCrash
  <2>3. QED
    BY <2>2 DEF Serial!Next
<1>4. ASSUME UNCHANGED <<map, queue, cur>>
      PROVE  UNCHANGED Serial!vars
  BY <1>4, Stutters DEF Running, Backlog
<1>5. ASSUME NEW w \in Workers, DSpawn(w)
      PROVE  UNCHANGED Serial!vars
  <2>1. queue[w] = <<>> /\ cur[w] = None
    BY <1>5 DEF DSpawn, IInv, WorkerInv, Alive
  <2>2. QED
    BY <1>5, <2>1, Stutters, DispatchAssumption DEF DSpawn, Running, Backlog, IInv, TypeOK
<1>6. CASE DSendError
  <2>1. queue[tx] = <<>> /\ cur[tx] = None /\ map[ThreadOf[pending]] = tx
    BY <1>6 DEF DSendError, IInv, HandInv, WorkerInv, Alive, Receiving
  <2>2. QED
    BY <1>6, <2>1, Stutters DEF DSendError, wvars, Running, Backlog, IInv, TypeOK
<1>7. ASSUME NEW w \in Workers, WReap(w)
      PROVE  UNCHANGED Serial!vars
  <2>1. queue[w] = <<>> /\ cur[w] = None /\ map[wkey[w]] = w
    BY <1>7 DEF WReap, IInv, MapInv, OneWorkerPerThread, WorkerInv, Alive
  <2>2. QED
    BY <1>7, <2>1, Stutters DEF WReap, Running, Backlog, IInv, TypeOK
<1>8. ASSUME NEW w \in Workers, WExit(w)
      PROVE  UNCHANGED Serial!vars
  <2>1. queue[w] = <<>> /\ cur[w] = None
    BY <1>8 DEF WExit, IInv, WorkerInv, Alive
  <2>2. queue' = queue /\ cur' = cur /\ map' = map
    BY <1>8, <2>1 DEF WExit, DropReceiver, IInv, TypeOK
  <2>3. QED
    BY <1>4, <2>2
<1>9. ASSUME \/ \E m \in Messages : Route(m)
             \/ RouteEnds \/ DRecv \/ DEnd \/ DLock \/ DFound
             \/ \E w \in Workers : WExpire(w) \/ WLock(w)
             \/ UNCHANGED vars
      PROVE  UNCHANGED Serial!vars
  BY <1>4, <1>9
     DEF Route, RouteEnds, DRecv, DEnd, DLock, DFound, WExpire, WLock, vars, wvars
<1>10. QED
  BY <1>1, <1>2, <1>3, <1>5, <1>6, <1>7, <1>8, <1>9, NextCases

\* The dispatch stage implements serial delivery: whatever it does with its map
\* and its workers, a thread sees one backlog, served in order, one handler
\* call at a time (the doc comment of dispatch_stage, pipeline.rs:440-455).
THEOREM ImplementsSerialDelivery == Spec => Serial!Spec
<1>1. IInv /\ [Next]_vars => [Serial!Next]_(Serial!vars)
  BY StepSerial
<1>2. QED
  BY <1>1, InitSerial, Inductive, PTL DEF Spec, Serial!Spec

-----------------------------------------------------------------------------
(* The switchboard's instances.                                            *)

\* Handlers Send to listeners, never to an instance of one,
BareSends == \A a \in Sends : a.key = NoKey

\* so that only the switchboard's envelopes name an instance.
Bare(m) == m.to.key # NoKey => m.entry # Absent

\* Envelopes on their way, and those that are routed.
Envelope ==
    [from : Names, to : [name : Segments, key : Keys \cup {NoKey}], thread : Ids,
     entry : Entries \cup {Absent}, form : Forms]

Message == {m \in Envelope : BareSends => Bare(m)}

Routed(t) == {m \in Message : Passes(m) /\ m.thread = t}

\* What came by the switchboard is the envelope it was given, which it has said
\* it injected, on the thread of the instance it is for.
Stamp(m) ==
    m.entry # Absent =>
      /\ m.to \in DOMAIN resolved /\ m.thread = resolved[m.to]
      /\ entry[m.entry].at = "injected"
      /\ m.from = m.entry.from /\ m.to = m.entry.to /\ m.form = m.entry.form

Ats == {"never", "new", "resolved", "injected", "failed"}

InstancesInv ==
    /\ ingressOpen \in BOOLEAN
    /\ Good(registry)
    /\ resolved \in [DOMAIN resolved -> Ids] /\ DOMAIN resolved \subseteq Address \ Refused
    /\ \A a, b \in DOMAIN resolved : a # b => resolved[a] # resolved[b]
    /\ entry \in [Entries -> [at : Ats, thread : Ids]]
    /\ \A e \in Entries : entry[e].at = "resolved" =>
         e.to \in DOMAIN resolved /\ entry[e].thread = resolved[e.to]
    /\ line \in Seq(Message) /\ \A m \in Elements(line) : Stamp(m)
    /\ queues \in [Ids -> Seq(Message)] /\ busy \in [Ids -> Message \cup {Absent}]
    /\ \A t \in Ids : \A m \in Elements(queues[t]) \cup ({busy[t]} \ {Absent}) :
         m \in Routed(t) /\ Stamp(m)
    /\ sent \in 0..MaxSends /\ handled \subseteq Entries
    /\ \A e \in handled : entry[e].at = "injected" /\ e \in Due
-----------------------------------------------------------------------------
(* Sequences and ids.                                                      *)

\* Sending to a channel and receiving from it.
LEMMA ElementsOf ==
    ASSUME NEW S, NEW s \in Seq(S)
    PROVE  /\ \A x \in S : Append(s, x) \in Seq(S) /\ Elements(Append(s, x)) = Elements(s) \cup {x}
           /\ s # <<>> => /\ Head(s) \in S /\ Head(s) \in Elements(s)
                          /\ Tail(s) \in Seq(S) /\ Elements(Tail(s)) \subseteq Elements(s)
  <1>1. ASSUME NEW x \in S
        PROVE  Append(s, x) \in Seq(S) /\ Elements(Append(s, x)) = Elements(s) \cup {x}
    <2>1. /\ DOMAIN Append(s, x) = DOMAIN s \cup {Len(s) + 1}
          /\ Append(s, x)[Len(s) + 1] = x
          /\ \A k \in DOMAIN s : Append(s, x)[k] = s[k]
      OBVIOUS
    <2> QED
      BY <2>1 DEF Elements
  <1>2. ASSUME s # <<>>
        PROVE  /\ Head(s) \in S /\ Head(s) \in Elements(s)
               /\ Tail(s) \in Seq(S) /\ Elements(Tail(s)) \subseteq Elements(s)
    <2>1. /\ 1 \in DOMAIN s /\ Head(s) = s[1]
          /\ \A k \in DOMAIN Tail(s) : k + 1 \in DOMAIN s /\ Tail(s)[k] = s[k + 1]
      BY <1>2
    <2>2. Head(s) \in S /\ Tail(s) \in Seq(S)
      BY <1>2
    <2> QED
      BY <2>1, <2>2 DEF Elements
  <1> QED
    BY <1>1, <1>2

\* A UUID that is generated is nobody's.
LEMMA FreshFacts ==
    ASSUME InstancesAssumption, Good(registry)
    PROVE  /\ Fresh \in Ids \cup {NoRoot} /\ ~Known(registry, Fresh)
           /\ Fresh # NoRoot => Fresh \in Ids /\ \A a \in DOMAIN resolved : resolved[a] # Fresh
  <1>1. DOMAIN registry.chainOf \subseteq Ids /\ NoRoot \notin Ids
    BY DEF InstancesAssumption, Good, IsRegistry
  <1>2. CASE Unused = {}
    BY <1>1, <1>2 DEF Fresh, Known
  <1>3. CASE Unused # {}
    <2>1. Fresh \in Unused
      BY <1>3 DEF Fresh
    <2> QED
      BY <2>1 DEF Unused, Known
  <1> QED
    BY <1>2, <1>3

\* Instances keep their threads and what is injected is, so that what is
\* stamped stays so.
LEMMA StampStays ==
    ASSUME \A a \in DOMAIN resolved : a \in DOMAIN resolved' /\ resolved'[a] = resolved[a],
           \A e : entry[e].at = "injected" => entry'[e].at = "injected", NEW m, Stamp(m)
    PROVE  Stamp(m)'
  BY DEF Stamp

\* An envelope's message, once its instance is materialized.
LEMMA StampedFacts ==
    ASSUME InstancesAssumption, InstancesInv, NEW e \in Entries, entry[e].at = "resolved"
    PROVE  /\ Stamped(e) \in Message
           /\ Stamped(e).entry = e /\ e # Absent
           /\ Stamped(e).from = e.from /\ Stamped(e).to = e.to /\ Stamped(e).form = e.form
           /\ e.to \in DOMAIN resolved /\ Stamped(e).thread = resolved[e.to]
  <1>1. /\ e.to \in DOMAIN resolved /\ entry[e].thread = resolved[e.to]
        /\ resolved[e.to] \in Ids /\ e.to \in Address /\ e.from \in Names /\ e.form \in Forms
    BY DEF InstancesInv, InstancesAssumption
  <1>2. e.to \in [name : Segments, key : Keys \cup {NoKey}]
    BY <1>1 DEF Address, InstancesAssumption, Segments
  <1>3. Stamped(e) \in Envelope
    BY <1>1, <1>2 DEF Stamped, Envelope
  <1>4. Stamped(e).entry = e /\ e # Absent
    BY DEF Stamped, InstancesAssumption
  <1> QED
    BY <1>1, <1>3, <1>4 DEF Stamped, Message, Bare

\* What a worker has at hand is routed and a thread of its own.
LEMMA BusyFacts ==
    ASSUME InstancesAssumption, InstancesInv, NEW t \in Ids, busy[t] # Absent
    PROVE  /\ busy[t] \in Message /\ busy[t].to.name \in Listeners /\ busy[t].to.name \in Names
           /\ busy[t].thread = t
  BY DEF InstancesInv, Routed, Passes, InstancesAssumption
-----------------------------------------------------------------------------
(* Initially, and by every step.                                           *)

LEMMA InitInstances == InstancesAssumption /\ InstancesInit => InstancesInv
  <1> SUFFICES ASSUME InstancesAssumption, InstancesInit
               PROVE  InstancesInv
    OBVIOUS
  <1>1. <<>> \in Seq(Message) /\ Elements(<<>>) = {}
    BY DEF Elements
  <1>2. entry \in [Entries -> [at : Ats, thread : Ids]]
    BY DEF InstancesInit, InstancesAssumption, Ats
  <1>3. \A e \in Entries : entry[e].at # "resolved"
    BY DEF InstancesInit
  <1> QED
    BY <1>1, <1>2, <1>3, EmptyGood DEF InstancesInit, InstancesInv, InstancesAssumption

\* The switchboard's part.
LEMMA RouteEntryStep ==
    ASSUME InstancesAssumption, InstancesInv, NEW e \in Entries, RouteEntry(e)
    PROVE  InstancesInv'
  <1> USE DEF InstancesInv
  <1>1. CASE Resolve(e)
    <2>1. PICK a, id : a = e.to /\ id = IF e.to \in DOMAIN resolved THEN resolved[e.to] ELSE Fresh
      OBVIOUS
    <2>2. a \in Address \ Refused /\ id \in Ids
      BY <1>1, <2>1, FreshFacts DEF Resolve, InstancesAssumption
    <2>3. resolved' = Insert(resolved, a, id)
      BY <1>1, <2>1 DEF Resolve
    <2>4. /\ DOMAIN resolved' = DOMAIN resolved \cup {a} /\ resolved'[a] = id
          /\ resolved' \in [DOMAIN resolved' -> Ids]
          /\ \A b \in DOMAIN resolved : resolved'[b] = resolved[b]
      BY <2>1, <2>2, <2>3 DEF Insert
    <2>5. \A b \in DOMAIN resolved : b # a => resolved[b] # id
      BY <1>1, <2>1, FreshFacts DEF Resolve
    <2>6. \A b, c \in DOMAIN resolved' : b # c => resolved'[b] # resolved'[c]
      BY <2>4, <2>5
    <2>7. entry' = [entry EXCEPT ![e] = [at |-> "resolved", thread |-> id]] /\ entry[e].at = "new"
      BY <1>1, <2>1, <2>4 DEF Resolve
    <2>8. /\ entry' \in [Entries -> [at : Ats, thread : Ids]]
          /\ \A x \in Entries : entry'[x].at = "resolved" =>
               x.to \in DOMAIN resolved' /\ entry'[x].thread = resolved'[x.to]
      BY <2>1, <2>2, <2>4, <2>7 DEF Ats
    <2>9. \A x : entry[x].at = "injected" => entry'[x].at = "injected"
      BY <2>7
    <2>10. \A m : Stamp(m) => Stamp(m)'
      BY <2>4, <2>9, StampStays
    <2> QED
      BY <1>1, <2>2, <2>4, <2>6, <2>8, <2>9, <2>10 DEF Resolve, Routed
  <1>2. CASE RouteFails(e)
    <2>1. /\ entry' = [entry EXCEPT ![e].at = "failed"] /\ entry[e].at # "injected"
          /\ UNCHANGED <<ingressOpen, resolved, line, registry, queues, busy, sent, handled>>
      BY <1>2 DEF RouteFails
    <2>2. entry' \in [Entries -> [at : Ats, thread : Ids]]
      BY <2>1 DEF Ats
    <2>3. \A x \in Entries : entry'[x].at = "resolved" =>
            x.to \in DOMAIN resolved' /\ entry'[x].thread = resolved'[x.to]
      BY <2>1, ZenonT(60)
    <2>4. \A x : entry[x].at = "injected" => entry'[x].at = "injected"
      BY <2>1
    <2>5. \A m : Stamp(m) => Stamp(m)'
      BY <2>1, <2>4, StampStays
    <2> QED
      BY <2>1, <2>2, <2>3, <2>4, <2>5 DEF Routed
  <1>3. CASE Inject(e)
    <2>1. PICK m : m = Stamped(e)
      OBVIOUS
    <2>2. /\ m \in Message /\ m.entry = e /\ e # Absent
          /\ m.from = e.from /\ m.to = e.to /\ m.form = e.form
          /\ e.to \in DOMAIN resolved /\ m.thread = resolved[e.to]
      BY <1>3, <2>1, StampedFacts DEF Inject
    <2>3. /\ line' = Append(line, m) /\ entry' = [entry EXCEPT ![e].at = "injected"]
          /\ UNCHANGED <<ingressOpen, resolved, registry, queues, busy, sent, handled>>
      BY <1>3, <2>1 DEF Inject
    <2>4. line' \in Seq(Message) /\ Elements(line') = Elements(line) \cup {m}
      BY <2>2, <2>3, ElementsOf
    <2>5. entry' \in [Entries -> [at : Ats, thread : Ids]] /\ entry'[e].at = "injected"
      BY <2>3 DEF Ats
    <2>6. \A x \in Entries : entry'[x].at = "resolved" =>
            x.to \in DOMAIN resolved' /\ entry'[x].thread = resolved'[x.to]
      BY <2>3, ZenonT(60)
    <2>7. \A x : entry[x].at = "injected" => entry'[x].at = "injected"
      BY <2>3
    <2>8. \A x : Stamp(x) => Stamp(x)'
      BY <2>3, <2>7, StampStays
    <2>9. Stamp(m)'
      BY <2>2, <2>3, <2>5 DEF Stamp
    <2> QED
      BY <2>2, <2>3, <2>4, <2>5, <2>6, <2>7, <2>8, <2>9 DEF Routed
  <1> QED
    BY <1>1, <1>2, <1>3 DEF RouteEntry

\* The route stage.
LEMMA RouteStep == ASSUME InstancesAssumption, InstancesInv, RouteStage PROVE InstancesInv'
  <1> USE DEF InstancesInv
  <1>1. PICK m : m = Head(line)
    OBVIOUS
  <1>2. /\ m \in Message /\ Stamp(m)
        /\ line' \in Seq(Message) /\ Elements(line') \subseteq Elements(line)
    BY <1>1, ElementsOf DEF RouteStage
  <1>3. UNCHANGED <<ingressOpen, resolved, entry, busy, sent, handled>>
    BY DEF RouteStage
  <1>4. \A x : Stamp(x)' = Stamp(x)
    BY <1>3 DEF Stamp
  <1>5. CASE Passes(m)
    <2>0. m.to.name \in Listeners
      BY <1>5 DEF Passes
    <2>1. /\ registry' = RegisterThread(registry, m.thread, m.from, m.to.name)
          /\ queues' = [queues EXCEPT ![m.thread] = Append(@, m)]
      BY <1>1, <1>5 DEF RouteStage
    <2>2. Good(registry')
      BY <1>2, <2>0, <2>1, RegisterGood DEF Message, Envelope, InstancesAssumption
    <2>3. m.thread \in Ids /\ m \in Routed(m.thread)
      BY <1>2, <1>5 DEF Message, Envelope, Routed
    <2>4. /\ Append(queues[m.thread], m) \in Seq(Message)
          /\ Elements(Append(queues[m.thread], m)) = Elements(queues[m.thread]) \cup {m}
      BY <1>2, <2>3, ElementsOf
    <2>5. /\ queues' \in [Ids -> Seq(Message)]
          /\ \A t \in Ids : \A x \in Elements(queues'[t]) : x \in Elements(queues[t]) \/ (x = m /\ t = m.thread)
      BY <2>1, <2>3, <2>4
    <2>6. \A t \in Ids : \A x \in Elements(queues'[t]) \cup ({busy'[t]} \ {Absent}) : x \in Routed(t) /\ Stamp(x)'
      BY <1>2, <1>3, <1>4, <2>3, <2>5
    <2> QED
      BY <1>2, <1>3, <1>4, <2>2, <2>5, <2>6 DEF Routed
  <1>6. CASE ~Passes(m)
    BY <1>1, <1>2, <1>3, <1>4, <1>6 DEF RouteStage, Routed
  <1> QED
    BY <1>5, <1>6

\* The worker takes up what it is sent.
LEMMA BeginStep ==
    ASSUME InstancesAssumption, InstancesInv, NEW t \in Ids, Begin(t)
    PROVE  InstancesInv'
  <1> USE DEF InstancesInv
  <1>1. PICK m, rest : m = Head(queues[t]) /\ rest = Tail(queues[t])
    OBVIOUS
  <1>2. /\ queues' = [queues EXCEPT ![t] = rest] /\ busy' = [busy EXCEPT ![t] = m]
        /\ handled' = handled \cup ({m.entry} \ {Absent})
        /\ UNCHANGED <<ingressOpen, resolved, entry, line, registry, sent>>
    BY <1>1 DEF Begin
  <1>3. /\ m \in Message /\ m \in Elements(queues[t])
        /\ rest \in Seq(Message) /\ Elements(rest) \subseteq Elements(queues[t])
    BY <1>1, ElementsOf DEF Begin
  <1>4. \A x : Stamp(x)' = Stamp(x)
    BY <1>2 DEF Stamp
  <1>5. /\ handled' \subseteq Entries
        /\ \A e \in handled' : entry'[e].at = "injected" /\ e \in Due
    <2>1. Passes(m) /\ Stamp(m) /\ m.entry \in Entries \cup {Absent}
      BY <1>3 DEF Routed, Message, Envelope
    <2>2. ASSUME m.entry # Absent
          PROVE  m.entry \in Entries /\ entry[m.entry].at = "injected" /\ m.entry \in Due
      <3>1. /\ m.entry \in Entries /\ entry[m.entry].at = "injected" /\ m.to \in DOMAIN resolved
            /\ m.from = m.entry.from /\ m.to = m.entry.to /\ m.form = m.entry.form
        BY <2>1, <2>2 DEF Stamp
      <3>2. Passes(m.entry)
        BY <2>1, <3>1 DEF Passes
      <3>3. m.to # Absent
        BY <3>1 DEF InstancesAssumption, InstancesInv
      <3> QED
        BY <3>1, <3>2, <3>3 DEF Due
    <2> QED
      BY <1>2, <2>1, <2>2
  <1>6. /\ queues' \in [Ids -> Seq(Message)] /\ busy' \in [Ids -> Message \cup {Absent}]
        /\ \A u \in Ids : Elements(queues'[u]) \cup ({busy'[u]} \ {Absent})
                            \subseteq Elements(queues[u]) \cup ({busy[u]} \ {Absent})
    BY <1>2, <1>3
  <1>7. \A u \in Ids : \A x \in Elements(queues'[u]) \cup ({busy'[u]} \ {Absent}) : x \in Routed(u) /\ Stamp(x)'
    BY <1>4, <1>6
  <1> QED
    BY <1>2, <1>4, <1>5, <1>6, <1>7 DEF Routed

\* A handler that is done leaves its worker idle; what else it leaves is a
\* registry and at most a message on the line.
LEMMA DoneStep ==
    ASSUME InstancesInv, NEW t \in Ids, busy' = [busy EXCEPT ![t] = Absent],
           Good(registry'), NEW m, m \in Message, m.entry = Absent,
           line' = line \/ line' = Append(line, m),
           sent' \in 0..MaxSends,
           UNCHANGED <<ingressOpen, resolved, entry, queues, handled>>
    PROVE  InstancesInv'
  <1> USE DEF InstancesInv
  <1>1. \A x : Stamp(x)' = Stamp(x)
    BY DEF Stamp
  <1>2. line' \in Seq(Message) /\ \A x \in Elements(line') : Stamp(x)'
    <2>1. Append(line, m) \in Seq(Message) /\ Elements(Append(line, m)) = Elements(line) \cup {m}
      BY ElementsOf
    <2>2. Stamp(m)
      BY DEF Stamp
    <2> QED
      BY <1>1, <2>1, <2>2, ZenonT(60)
  <1>3. /\ busy' \in [Ids -> Message \cup {Absent}]
        /\ \A u \in Ids : {busy'[u]} \ {Absent} \subseteq {busy[u]} \ {Absent}
    OBVIOUS
  <1>4. \A u \in Ids : \A x \in Elements(queues'[u]) \cup ({busy'[u]} \ {Absent}) : x \in Routed(u) /\ Stamp(x)'
    BY <1>1, <1>3
  <1> QED
    BY <1>1, <1>2, <1>3, <1>4 DEF Routed

\* The message a handler puts on the line.
LEMMA MessageMade ==
    ASSUME InstancesAssumption, InstancesInv, NEW t \in Ids, busy[t] # Absent,
           NEW to \in [name : Segments, key : Keys \cup {NoKey}], BareSends => to.key = NoKey, NEW u \in Ids,
           NEW form \in Forms
    PROVE  [from |-> busy[t].to.name, to |-> to, entry |-> Absent, thread |-> u, form |-> form] \in Message
  <1>1. busy[t].to.name \in Names
    BY BusyFacts
  <1> QED
    BY <1>1 DEF Message, Envelope, Bare

\* The response of a handler.
LEMMA RespondStep ==
    ASSUME InstancesAssumption, InstancesInv, NEW t \in Ids, Respond(t)
    PROVE  InstancesInv'
  <1>1. PICK r : r = PruneForResponse(registry, t, Fresh)
    OBVIOUS
  <1>2. /\ busy[t] # Absent /\ busy' = [busy EXCEPT ![t] = Absent]
        /\ ~Known(r, NoRoot) /\ registry' = r
        /\ UNCHANGED <<ingressOpen, resolved, entry, queues, sent, handled>>
    BY <1>1 DEF Respond
  <1>3. Good(registry) /\ Fresh \in Ids \cup {NoRoot} /\ ~Known(registry, Fresh)
    BY FreshFacts DEF InstancesInv
  <1>4. Good(r)
    BY <1>1, <1>2, <1>3, PruneGood
  <1>5. CASE HasCaller(registry, t)
    <2>1. PICK chain : chain = AllButLast(registry.chainOf[t])
      OBVIOUS
    <2>2. chain \in Chains
      BY <1>3, <1>5, <2>1, ChainFacts DEF HasCaller, Known, Good, IsRegistry
    <2>3. r = GetOrCreate(registry, chain, Fresh)
      BY <1>1, <1>5, <2>1 DEF PruneForResponse
    <2>4. chain \in DOMAIN r.uuidOf
      BY <1>2, <1>3, <2>2, <2>3, GetOrCreateGood
    <2>5. r.uuidOf[chain] \in Ids /\ LastOf(chain) \in Segments
      BY <1>4, <2>2, <2>4 DEF Good, IsRegistry, Chains, LastOf
    <2>6. PICK form \in Forms :
            line' = Reinjected([from |-> busy[t].to.name, entry |-> Absent, form |-> form,
                                to |-> [name |-> LastOf(chain), key |-> NoKey], thread |-> r.uuidOf[chain]])
      BY <1>1, <1>5, <2>1 DEF Respond, PruneTarget, PruneThread, Forms
    <2>12. PICK m : m = [from |-> busy[t].to.name, to |-> [name |-> LastOf(chain), key |-> NoKey],
                         entry |-> Absent, thread |-> r.uuidOf[chain], form |-> form]
      OBVIOUS
    <2>7. line' = line \/ line' = Append(line, m)
      BY <2>6, <2>12 DEF Reinjected
    <2>8. PICK to : to = [name |-> LastOf(chain), key |-> NoKey]
      OBVIOUS
    <2>9. to \in [name : Segments, key : Keys \cup {NoKey}] /\ to.key = NoKey
      BY <2>5, <2>8
    <2>10. m \in Message /\ m.entry = Absent
      BY <1>2, <2>5, <2>12, <2>8, <2>9, MessageMade
    <2>11. sent' \in 0..MaxSends
      BY <1>2 DEF InstancesInv
    <2> QED
      BY <1>2, <1>4, <2>7, <2>10, <2>11, DoneStep
  <1>6. CASE ~HasCaller(registry, t)
    <2>1. line' = line
      BY <1>1, <1>6 DEF Respond
    <2>2. \A x : Stamp(x)' = Stamp(x)
      BY <1>2 DEF Stamp
    <2>3. /\ busy' \in [Ids -> Message \cup {Absent}]
          /\ \A u \in Ids : {busy'[u]} \ {Absent} \subseteq {busy[u]} \ {Absent}
      BY <1>2 DEF InstancesInv
    <2> QED
      BY <1>2, <1>4, <2>1, <2>2, <2>3 DEF InstancesInv, Routed
  <1> QED
    BY <1>5, <1>6

\* A message a handler sends on.
LEMMA SendStep ==
    ASSUME InstancesAssumption, InstancesInv, NEW t \in Ids, NEW to \in Sends, Send(t, to)
    PROVE  InstancesInv'
  <1>1. PICK chain, r : chain = ExtendedChain(registry, t, to.name) /\ r = GetOrCreate(registry, chain, Fresh)
    OBVIOUS
  <1>2. /\ busy[t] # Absent /\ busy' = [busy EXCEPT ![t] = Absent]
        /\ sent < MaxSends /\ sent' = sent + 1
        /\ ~Known(r, NoRoot) /\ registry' = r
        /\ UNCHANGED <<ingressOpen, resolved, entry, queues, handled>>
    BY <1>1 DEF Send, ExtendChain
  <1>12. PICK form \in Forms :
           line' = Reinjected([from |-> busy[t].to.name, to |-> to, entry |-> Absent, form |-> form,
                               thread |-> r.uuidOf[chain]])
    BY <1>1 DEF Send, ExtendChain, Forms
  <1>3. Good(registry) /\ Fresh \in Ids \cup {NoRoot} /\ ~Known(registry, Fresh)
    BY FreshFacts DEF InstancesInv
  <1>4. /\ to \in [name : Segments, key : Keys \cup {NoKey}] /\ to.name \in Names
        /\ BareSends => to.key = NoKey
    BY DEF InstancesAssumption, Address, Segments, BareSends
  <1>5. chain \in Chains
    BY <1>1, <1>3, <1>4, ExtendedIsChain
  <1>6. Good(r) /\ chain \in DOMAIN r.uuidOf
    BY <1>1, <1>2, <1>3, <1>5, GetOrCreateGood
  <1>7. PICK u : u = r.uuidOf[chain]
    OBVIOUS
  <1>8. u \in Ids
    BY <1>6, <1>7 DEF Good, IsRegistry
  <1>9. PICK m : m = [from |-> busy[t].to.name, to |-> to, entry |-> Absent, thread |-> u, form |-> form]
    OBVIOUS
  <1>10. m \in Message /\ m.entry = Absent
    BY <1>2, <1>4, <1>8, <1>9, MessageMade
  <1>13. line' = line \/ line' = Append(line, m)
    BY <1>7, <1>9, <1>12 DEF Reinjected
  <1>11. sent' \in 0..MaxSends
    BY <1>2 DEF InstancesInv, InstancesAssumption
  <1> QED
    BY <1>2, <1>6, <1>10, <1>11, <1>13, DoneStep

\* A handler that responds with nothing.
LEMMA FailStep ==
    ASSUME InstancesInv, NEW t \in Ids, Fail(t)
    PROVE  InstancesInv'
  <1>1. /\ busy' = [busy EXCEPT ![t] = Absent]
        /\ UNCHANGED <<ingressOpen, resolved, entry, line, registry, queues, sent, handled>>
    BY DEF Fail
  <1>2. \A x : Stamp(x)' = Stamp(x)
    BY <1>1 DEF Stamp
  <1>3. /\ busy' \in [Ids -> Message \cup {Absent}]
        /\ \A u \in Ids : {busy'[u]} \ {Absent} \subseteq {busy[u]} \ {Absent}
    BY <1>1 DEF InstancesInv
  <1> QED
    BY <1>1, <1>2, <1>3 DEF InstancesInv, Routed

\* The parse stage ends.
LEMMA ShutdownStep == ASSUME InstancesInv, Shutdown PROVE InstancesInv'
  <1>1. PICK n \in 0..Len(line) : line' = SubSeq(line, 1, n)
    BY DEF Shutdown
  <1>2. /\ ingressOpen' \in BOOLEAN
        /\ UNCHANGED <<resolved, entry, registry, queues, busy, sent, handled>>
    BY DEF Shutdown
  <1>3. line \in Seq(Message)
    BY DEF InstancesInv
  <1>4. line' \in Seq(Message) /\ \A k \in DOMAIN line' : k \in DOMAIN line /\ line'[k] = line[k]
    BY <1>1, <1>3
  <1>5. Elements(line') \subseteq Elements(line)
    BY <1>4 DEF Elements
  <1>6. \A x : Stamp(x)' = Stamp(x)
    BY <1>2 DEF Stamp
  <1> QED
    BY <1>2, <1>4, <1>5, <1>6 DEF InstancesInv, Routed

LEMMA NextInstances == InstancesAssumption /\ InstancesInv /\ [InstancesNext]_instanceVars => InstancesInv'
  <1> SUFFICES ASSUME InstancesAssumption, InstancesInv, [InstancesNext]_instanceVars
               PROVE  InstancesInv'
    OBVIOUS
  <1>1. CASE UNCHANGED instanceVars
    BY <1>1 DEF instanceVars, InstancesInv, Routed, Stamp
  <1>2. ASSUME NEW e \in Entries, RouteEntry(e)
        PROVE  InstancesInv'
    BY <1>2, RouteEntryStep
  <1>3. CASE RouteStage
    BY <1>3, RouteStep
  <1>4. ASSUME NEW t \in Ids, Work(t)
        PROVE  InstancesInv'
    BY <1>4, BeginStep, RespondStep, FailStep, SendStep DEF Work
  <1>5. CASE Shutdown
    BY <1>5, ShutdownStep
  <1> QED
    BY <1>1, <1>2, <1>3, <1>4, <1>5 DEF InstancesNext

LEMMA AllInstances == ASSUME InstancesAssumption PROVE InstancesSpec => []InstancesInv
  <1>1. InstancesInit => InstancesInv
    BY InitInstances
  <1>2. InstancesInv /\ [InstancesNext]_instanceVars => InstancesInv'
    BY NextInstances
  <1> QED
    BY <1>1, <1>2, PTL DEF InstancesSpec
-----------------------------------------------------------------------------
(* What follows.                                                           *)

LEMMA UnderWayFacts == ASSUME InstancesInv PROVE \A m \in UnderWay : m \in Message /\ Stamp(m)
  <1>1. \A m \in Elements(line) : m \in Message /\ Stamp(m)
    BY DEF InstancesInv, Elements
  <1>2. \A t \in Ids : \A m \in Elements(queues[t]) \cup ({busy[t]} \ {Absent}) : m \in Message /\ Stamp(m)
    BY DEF InstancesInv, Routed
  <1>3. ASSUME NEW m \in UnderWay
        PROVE  m \in Message /\ Stamp(m)
    <2>1. \/ m \in Elements(line)
          \/ \E t \in Ids : m \in Elements(queues[t])
          \/ \E t \in Ids : m = busy[t] /\ m # Absent
      BY <1>3 DEF UnderWay
    <2> QED
      BY <1>1, <1>2, <2>1
  <1> QED
    BY <1>3

\* The state has its type, whatever is called and sent: a message is handled
\* on the thread it was routed to (route_stage and serial_worker, pipeline.rs),
\* and each instance has a thread of its own (Switchboard::resolve).
THEOREM InstancesTyped == ASSUME InstancesAssumption PROVE InstancesSpec => []InstancesTypeOK
  <1>1. InstancesInv => InstancesTypeOK
    <2> SUFFICES ASSUME InstancesInv PROVE InstancesTypeOK
      OBVIOUS
    <2>1. \A m \in UnderWay : m \in Message
      BY UnderWayFacts
    <2> QED
      BY <2>1 DEF InstancesInv, InstancesTypeOK, Ats, Message, Envelope, Routed
  <1> QED
    BY <1>1, AllInstances, PTL

\* Switchboard::route injects on the thread of the instance the envelope is
\* for, materialized before, or it injects nothing; no later step moves the
\* envelope, or the instance, to another thread; and no handler is called with
\* an envelope whose caller was told that it failed, or past a gate.
THEOREM FailsClosed == ASSUME InstancesAssumption PROVE InstancesSpec => []FailClosed
  <1>1. InstancesInv => FailClosed
    <2> SUFFICES ASSUME InstancesInv PROVE FailClosed
      OBVIOUS
    <2>1. \A m \in UnderWay : Stamp(m)
      BY UnderWayFacts
    <2> QED
      BY <2>1 DEF FailClosed, Stamp, InstancesInv
  <1> QED
    BY <1>1, AllInstances, PTL

\* "A handler is never called concurrently for the same instance"
\* (pipeline.rs:445-448), as long as handlers address their own messages to
\* listeners: only then does all that names an instance come by the
\* switchboard, which stamps it with the instance's thread.  Without that
\* hypothesis it does not hold.
THEOREM InstancesSerial ==
    ASSUME InstancesAssumption, BareSends
    PROVE  InstancesSpec => []InstanceSerial
  <1>1. InstancesInv => InstanceSerial
    <2> SUFFICES ASSUME InstancesInv PROVE InstanceSerial
      OBVIOUS
    <2>1. ASSUME NEW t \in Ids, busy[t] # Absent, NEW a \in InstancesOf(busy[t])
          PROVE  a \in DOMAIN resolved /\ resolved[a] = t
      <3>1. busy[t] \in Message /\ busy[t].thread = t /\ Stamp(busy[t])
        BY <2>1 DEF InstancesInv, Routed
      <3>2. CASE busy[t].to.key # NoKey
        BY <2>1, <3>1, <3>2 DEF InstancesOf, Message, Bare, Stamp
      <3>3. CASE busy[t].to.key = NoKey
        BY <2>1, <3>1, <3>3 DEF InstancesOf
      <3> QED
        BY <3>2, <3>3
    <2> QED
      BY <2>1 DEF InstanceSerial
  <1> QED
    BY <1>1, AllInstances, PTL
=============================================================================
