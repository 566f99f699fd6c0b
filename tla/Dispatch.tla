------------------------------ MODULE Dispatch ------------------------------
(***************************************************************************)
(* Stage 4 of the pipeline (pipeline.rs: dispatch_stage, serial_worker and *)
(* the WorkerMap they share).  The dispatcher hands every routed message   *)
(* to the worker task of its delivery thread, spawning it on first sight;  *)
(* a worker handles its unbounded queue one message at a time and reaps    *)
(* itself after WORKER_IDLE_TIMEOUT without one.                           *)
(*                                                                         *)
(* The map mutex is explicit: acquiring it, the reads and writes under it  *)
(* and the send are steps of their own, so that what it excludes is        *)
(* something the checks and the proofs show.  What a handler call does is  *)
(* left to module Conversation: here a call begins, and returns or panics. *)
(***************************************************************************)
EXTENDS Naturals, Sequences, Functions

CONSTANTS
    Threads,      \* delivery thread ids, the keys of the WorkerMap
    Messages,     \* routed messages, each a value of its own
    ThreadOf,     \* [Messages -> Threads]: envelope.meta.thread
    Panicking,    \* the messages whose handler call panics
    Workers,      \* identities for the worker tasks, one for each spawn
    RoutedCap,    \* capacity of the routed channel (CHANNEL_BUFFER)
    Dispatcher,   \* the dispatcher, as a holder of the map lock
    None          \* absent: no message, no worker, no lock holder

ASSUME DispatchAssumption ==
    /\ ThreadOf \in [Messages -> Threads]
    /\ Panicking \subseteq Messages
    /\ RoutedCap \in Nat \ {0}
    /\ None \notin Messages \cup Workers \cup Threads \cup {Dispatcher}
    /\ Dispatcher \notin Workers

VARIABLES
    unrouted,   \* messages the route stage has not delivered yet
    routed,     \* the routed channel
    open,       \* the route stage still holds its sender
    map,        \* the WorkerMap: the worker whose sender the key maps to
    lock,       \* holder of the WorkerMap mutex
    dpc,        \* where the dispatcher is
    pending,    \* the message the dispatcher holds
    tx,         \* the worker whose sender the dispatcher has cloned
    wpc,        \* where each worker is
    wkey,       \* the thread a worker was spawned for
    queue,      \* a worker's unbounded channel
    cur,        \* the message whose handler call a worker is in
    arrived,    \* history: messages received by the dispatcher, per thread
    disposed,   \* history: messages that left a worker queue, per thread
    lost        \* history: messages dropped with a worker's receiver

dvars == <<dpc, pending, tx>>
wvars == <<wpc, wkey, queue, cur>>
hist  == <<arrived, disposed, lost>>
vars  == <<unrouted, routed, open, map, lock, dpc, pending, tx,
           wpc, wkey, queue, cur, arrived, disposed, lost>>

\* A worker that can still reach its loop head.
Alive == {"recv", "busy", "expired", "reap"}

\* The states in which a worker's receiver exists, so that a send succeeds.
Receiving == Alive \cup {"exit"}

TypeOK ==
    /\ unrouted \subseteq Messages
    /\ routed \in Seq(Messages)
    /\ open \in BOOLEAN
    /\ map \in [Threads -> Workers \cup {None}]
    /\ lock \in Workers \cup {Dispatcher, None}
    /\ dpc \in {"recv", "lock", "lookup", "send", "done"}
    /\ pending \in Messages \cup {None}
    /\ tx \in Workers \cup {None}
    /\ wpc \in [Workers -> Receiving \cup {"unborn", "dead"}]
    /\ wkey \in [Workers -> Threads \cup {None}]
    /\ queue \in [Workers -> Seq(Messages)]
    /\ cur \in [Workers -> Messages \cup {None}]
    /\ arrived \in [Threads -> Seq(Messages)]
    /\ disposed \in [Threads -> Seq(Messages)]
    /\ lost \subseteq Messages

Init ==
    /\ unrouted = Messages
    /\ routed = <<>>
    /\ open = TRUE
    /\ map = [t \in Threads |-> None]
    /\ lock = None
    /\ dpc = "recv"
    /\ pending = None
    /\ tx = None
    /\ wpc = [w \in Workers |-> "unborn"]
    /\ wkey = [w \in Workers |-> None]
    /\ queue = [w \in Workers |-> <<>>]
    /\ cur = [w \in Workers |-> None]
    /\ arrived = [t \in Threads |-> <<>>]
    /\ disposed = [t \in Threads |-> <<>>]
    /\ lost = {}
-----------------------------------------------------------------------------
(* The route stage, the only sender of the routed channel.                 *)

\* tx.send(routed).await completes: there is room.
Route(m) ==
    /\ open
    /\ m \in unrouted
    /\ Len(routed) < RoutedCap
    /\ routed' = Append(routed, m)
    /\ unrouted' = unrouted \ {m}
    /\ UNCHANGED <<open, map, lock, dvars, wvars, hist>>

\* The route stage ends (shutdown) and drops its sender.
RouteEnds ==
    /\ open
    /\ open' = FALSE
    /\ UNCHANGED <<unrouted, routed, map, lock, dvars, wvars, hist>>
-----------------------------------------------------------------------------
(* The dispatcher.                                                         *)

\* rx.recv() yields a message: it becomes `pending`.
DRecv ==
    /\ dpc = "recv"
    /\ routed # <<>>
    /\ pending' = Head(routed)
    /\ routed' = Tail(routed)
    /\ dpc' = "lock"
    /\ arrived' = [arrived EXCEPT ![ThreadOf[Head(routed)]] = Append(@, Head(routed))]
    /\ UNCHANGED <<unrouted, open, map, lock, tx, wvars, disposed, lost>>

\* rx.recv() yields nothing: the channel is empty and its sender gone.
DEnd ==
    /\ dpc = "recv"
    /\ routed = <<>>
    /\ ~open
    /\ dpc' = "done"
    /\ UNCHANGED <<unrouted, routed, open, map, lock, pending, tx, wvars, hist>>

\* workers.lock().await
DLock ==
    /\ dpc = "lock"
    /\ lock = None
    /\ lock' = Dispatcher
    /\ dpc' = "lookup"
    /\ UNCHANGED <<unrouted, routed, open, map, pending, tx, wvars, hist>>

\* map.get(&key) finds a sender, which is cloned.
DFound ==
    /\ dpc = "lookup"
    /\ map[ThreadOf[pending]] # None
    /\ tx' = map[ThreadOf[pending]]
    /\ dpc' = "send"
    /\ UNCHANGED <<unrouted, routed, open, map, lock, pending, wvars, hist>>

\* Mutant of DSpawn: the sender is not inserted.
DSpawnUnmapped(w) ==
    /\ dpc = "lookup"
    /\ map[ThreadOf[pending]] = None
    /\ wpc[w] = "unborn"
    /\ wpc' = [wpc EXCEPT ![w] = "recv"]
    /\ wkey' = [wkey EXCEPT ![w] = ThreadOf[pending]]
    /\ tx' = w
    /\ dpc' = "send"
    /\ UNCHANGED <<unrouted, routed, open, map, lock, pending, queue, cur, hist>>

\* map.get(&key) finds nothing: a worker is spawned and its sender inserted.
DSpawn(w) ==
    /\ dpc = "lookup"
    /\ map[ThreadOf[pending]] = None
    /\ wpc[w] = "unborn"
    /\ wpc' = [wpc EXCEPT ![w] = "recv"]
    /\ wkey' = [wkey EXCEPT ![w] = ThreadOf[pending]]
    /\ map' = [map EXCEPT ![ThreadOf[pending]] = w]
    /\ tx' = w
    /\ dpc' = "send"
    /\ UNCHANGED <<unrouted, routed, open, lock, pending, queue, cur, hist>>

\* tx.send(m) succeeds; the guard and the cloned sender go out of scope.
DSend ==
    /\ dpc = "send"
    /\ wpc[tx] \in Receiving
    /\ queue' = [queue EXCEPT ![tx] = Append(@, pending)]
    /\ pending' = None
    /\ tx' = None
    /\ lock' = None
    /\ dpc' = "recv"
    /\ UNCHANGED <<unrouted, routed, open, map, wpc, wkey, cur, hist>>

\* Mutant of DSendError: the returned message is dropped instead of retried.
DSendErrorDrops ==
    /\ dpc = "send"
    /\ wpc[tx] \notin Receiving
    /\ map' = [map EXCEPT ![ThreadOf[pending]] = None]
    /\ tx' = None
    /\ lock' = None
    /\ pending' = None
    /\ dpc' = "recv"
    /\ UNCHANGED <<unrouted, routed, open, wvars, hist>>

\* Mutant of DSendError: the stale entry stays, and the retry meets it again.
DSendErrorKeepsEntry ==
    /\ dpc = "send"
    /\ wpc[tx] \notin Receiving
    /\ tx' = None
    /\ lock' = None
    /\ dpc' = "lock"
    /\ UNCHANGED <<unrouted, routed, open, map, pending, wvars, hist>>

\* SendError: the receiver is gone.  The stale entry is removed, the guard
\* goes out of scope and the retry loop runs again with the returned message.
DSendError ==
    /\ dpc = "send"
    /\ wpc[tx] \notin Receiving
    /\ map' = [map EXCEPT ![ThreadOf[pending]] = None]
    /\ tx' = None
    /\ lock' = None
    /\ dpc' = "lock"
    /\ UNCHANGED <<unrouted, routed, open, pending, wvars, hist>>
-----------------------------------------------------------------------------
(* A worker.                                                               *)

\* Mutant of Take: the newest message first.
TakeNewest(w) ==
    /\ queue[w] # <<>>
    /\ LET n == Len(queue[w])
       IN  /\ cur' = [cur EXCEPT ![w] = queue[w][n]]
           /\ queue' = [queue EXCEPT ![w] = SubSeq(@, 1, n - 1)]
           /\ disposed' = [disposed EXCEPT ![wkey[w]] = Append(@, queue[w][n])]
    /\ wpc' = [wpc EXCEPT ![w] = "busy"]

\* The next message leaves the worker's queue and its handler call begins.
Take(w) ==
    /\ queue[w] # <<>>
    /\ cur' = [cur EXCEPT ![w] = Head(queue[w])]
    /\ queue' = [queue EXCEPT ![w] = Tail(@)]
    /\ wpc' = [wpc EXCEPT ![w] = "busy"]
    /\ disposed' = [disposed EXCEPT ![wkey[w]] = Append(@, Head(queue[w]))]

\* The receiver is dropped, with everything still in the queue.
DropReceiver(w) ==
    /\ queue' = [queue EXCEPT ![w] = <<>>]
    /\ wpc' = [wpc EXCEPT ![w] = "dead"]
    /\ cur' = [cur EXCEPT ![w] = None]
    /\ disposed' = [disposed EXCEPT ![wkey[w]] = @ \o queue[w]]
    /\ lost' = lost \cup Range(queue[w])

\* recv() wins inside the timeout: Ok(Some(msg)).
WRecv(w) ==
    /\ wpc[w] = "recv"
    /\ Take(w)
    /\ UNCHANGED <<unrouted, routed, open, map, lock, dvars, wkey, arrived, lost>>

\* process_message returns and the loop goes round.
WFinish(w) ==
    /\ wpc[w] = "busy"
    /\ cur[w] \notin Panicking
    /\ cur' = [cur EXCEPT ![w] = None]
    /\ wpc' = [wpc EXCEPT ![w] = "recv"]
    /\ UNCHANGED <<unrouted, routed, open, map, lock, dvars, wkey, queue, hist>>

\* The handler panics: the task unwinds and its receiver is dropped; nothing
\* touches the map.
WPanic(w) ==
    /\ wpc[w] = "busy"
    /\ cur[w] \in Panicking
    /\ DropReceiver(w)
    /\ UNCHANGED <<unrouted, routed, open, map, lock, dvars, wkey, arrived>>

\* The timeout elapses.  recv() was polled before the timer, so a message may
\* already have landed in between: the queue need not be empty.
WExpire(w) ==
    /\ wpc[w] = "recv"
    /\ wpc' = [wpc EXCEPT ![w] = "expired"]
    /\ UNCHANGED <<unrouted, routed, open, map, lock, dvars, wkey, queue, cur, hist>>

\* workers.lock().await on the way to reaping.
WLock(w) ==
    /\ wpc[w] = "expired"
    /\ lock = None
    /\ lock' = w
    /\ wpc' = [wpc EXCEPT ![w] = "reap"]
    /\ UNCHANGED <<unrouted, routed, open, map, dvars, wkey, queue, cur, hist>>

\* Mutant of WReap: the queue is not checked again under the lock.
WReapUnchecked(w) ==
    /\ wpc[w] = "reap"
    /\ map' = [map EXCEPT ![wkey[w]] = None]
    /\ lock' = None
    /\ wpc' = [wpc EXCEPT ![w] = "exit"]
    /\ UNCHANGED <<unrouted, routed, open, dvars, wkey, queue, cur, hist>>

\* Mutant of WReap: the loop is not left.
WReapContinues(w) ==
    /\ wpc[w] = "reap"
    /\ queue[w] = <<>>
    /\ map' = [map EXCEPT ![wkey[w]] = None]
    /\ lock' = None
    /\ wpc' = [wpc EXCEPT ![w] = "recv"]
    /\ UNCHANGED <<unrouted, routed, open, dvars, wkey, queue, cur, hist>>

\* try_recv() finds the queue empty: the entry is removed and the loop left.
\* Leaving the scope drops the guard; the receiver is dropped only after it.
WReap(w) ==
    /\ wpc[w] = "reap"
    /\ queue[w] = <<>>
    /\ map' = [map EXCEPT ![wkey[w]] = None]
    /\ lock' = None
    /\ wpc' = [wpc EXCEPT ![w] = "exit"]
    /\ UNCHANGED <<unrouted, routed, open, dvars, wkey, queue, cur, hist>>

\* try_recv() finds a message that landed after the timeout: drop(map), and
\* the message is processed like any other.
WRescue(w) ==
    /\ wpc[w] = "reap"
    /\ Take(w)
    /\ lock' = None
    /\ UNCHANGED <<unrouted, routed, open, map, dvars, wkey, arrived, lost>>

\* The task ends.
WExit(w) ==
    /\ wpc[w] = "exit"
    /\ DropReceiver(w)
    /\ UNCHANGED <<unrouted, routed, open, map, lock, dvars, wkey, arrived>>
-----------------------------------------------------------------------------
DispatchStep == DRecv \/ DEnd \/ DLock \/ DFound \/ (\E w \in Workers : DSpawn(w))
                    \/ DSend \/ DSendError

WorkerStep(w) == WRecv(w) \/ WFinish(w) \/ WPanic(w) \/ WExpire(w) \/ WLock(w)
                     \/ WReap(w) \/ WRescue(w) \/ WExit(w)

Next ==
    \/ \E m \in Messages : Route(m)
    \/ RouteEnds
    \/ DispatchStep
    \/ \E w \in Workers : WorkerStep(w)

Spec == Init /\ [][Next]_vars

\* Tokio polls every ready task, its timers elapse, and its mutex is FIFO: a
\* waiter acquires it even if it is free only now and then.  Handler calls
\* end (WFinish, WPanic), which is up to the handlers.  Nothing is assumed of
\* the route stage.
Fairness ==
    /\ WF_vars(DispatchStep)
    /\ SF_vars(DLock)
    /\ \A w \in Workers : WF_vars(WorkerStep(w)) /\ SF_vars(WLock(w))

FairSpec == Spec /\ Fairness
-----------------------------------------------------------------------------
(* Properties.                                                             *)

\* The messages a thread's mapped worker has queued.
Backlog(t) == IF map[t] = None THEN <<>> ELSE queue[map[t]]

\* The message whose handler call is under way on thread t.
Running(t) == IF map[t] = None THEN None ELSE cur[map[t]]

\* The message of thread t the dispatcher is handing over.
InHand(t) == IF pending # None /\ ThreadOf[pending] = t THEN <<pending>> ELSE <<>>

\* Exactly one live worker per key, and the map leads to it (the WorkerMap
\* comment, pipeline.rs:98-103): every worker that can still handle messages
\* is the one its key maps to.  So recv() never yields None in serial_worker:
\* the sender of a live worker is never dropped.
OneWorkerPerThread ==
    \A w \in Workers : wpc[w] \in Alive => map[wkey[w]] = w

\* A handler is never called concurrently for one thread (the bob[alice]
\* invariant of dispatch_stage, pipeline.rs:445-448), although workers come
\* and go and a panicked one leaves its entry behind.
SerialPerThread ==
    \A v, w \in Workers :
        wpc[v] = "busy" /\ wpc[w] = "busy" /\ wkey[v] = wkey[w] => v = w

\* Arrival order, no duplicate, nothing misplaced (pipeline.rs:445-446): what
\* the dispatcher received for a thread is what its workers took, then what is
\* queued, then what is in the dispatcher's hands.
InArrivalOrder ==
    \A t \in Threads : arrived[t] = disposed[t] \o Backlog(t) \o InHand(t)

\* A message is lost only behind one of its own thread whose handler panicked
\* (reaping never loses one, pipeline.rs:453-455).
LostOnlyBehindPanic ==
    \A m \in lost :
        \E i, j \in DOMAIN disposed[ThreadOf[m]] :
            /\ i < j
            /\ disposed[ThreadOf[m]][j] = m
            /\ disposed[ThreadOf[m]][i] \in Panicking

\* Every message the route stage delivered is handled, or lost to a panic,
\* whatever reaping and respawning goes on (the retry loop of dispatch_stage
\* terminates).
EveryMessageHandled ==
    \A m \in Messages : (m \notin unrouted) ~> (m \in Range(disposed[ThreadOf[m]]))

\* Idle workers reap themselves (serial_worker, pipeline.rs:491-493): with a
\* finite number of messages, none is left in the end.
WorkersEventuallyReaped == <>[](\A w \in Workers : wpc[w] \in {"unborn", "dead"})
-----------------------------------------------------------------------------
(* The specification implemented: a thread's backlog is the queue of the   *)
(* worker its key maps to, its running call that worker's.                 *)

Serial == INSTANCE SerialDelivery WITH
    backlog <- [t \in Threads |-> Backlog(t)],
    running <- [t \in Threads |-> Running(t)]

\* The dispatch stage delivers serially and in order per thread, and goes on
\* delivering (the doc comment of dispatch_stage, pipeline.rs:440-455).
DeliversSerially == Serial!FairSpec
=============================================================================
