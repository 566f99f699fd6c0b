------------------------------- MODULE Stages -------------------------------
(***************************************************************************)
(* The self-feeding loop (pipeline.rs: run, inject, shutdown and the four  *)
(* stages): parse, validate and route, each a task that holds at most one  *)
(* message between two bounded channels, then dispatch, which hands every  *)
(* message to an unbounded worker queue; and the workers, whose handlers'  *)
(* responses go back into ingress, competing with what is injected.        *)
(*                                                                         *)
(* How a gate decides is not modelled: a message carries its fate, the     *)
(* stage where it ends.  Worker tasks come and go in module Dispatch; here *)
(* every thread simply has its worker.                                     *)
(***************************************************************************)
EXTENDS Naturals, Sequences, FiniteSets

CONSTANTS
    Threads,        \* delivery threads
    Kinds,          \* the threads and fates of the messages in circulation
    MaxFuel,        \* bound: generations of responses to an injected message
    MaxInjected,    \* bound: messages injected
    Cap,            \* capacity of every bounded channel (CHANNEL_BUFFER)
    None            \* no message held

Gates == {"parse", "validate", "route"}
Stages == Gates \cup {"dispatch"}

\* Where a message ends: refused at a gate, sent to a remote node by the route
\* stage, or delivered to a handler by dispatch.
Fates == Stages \cup {"remote"}

ASSUME StagesAssumption ==
    /\ Kinds \subseteq [thread : Threads, fate : Fates]
    /\ MaxFuel \in Nat /\ MaxInjected \in Nat
    /\ Cap \in Nat \ {0}

Messages == {[thread |-> k.thread, fate |-> k.fate, fuel |-> n] : k \in Kinds, n \in 0..MaxFuel}

ASSUME NoneAssumption == None \notin Messages

VARIABLES
    chan,       \* the bounded channel into each stage; ingress is parse's
    hold,       \* the message a gate is working on, or waits to pass on
    alive,      \* the stage tasks that have not ended
    signal,     \* shutdown has been requested
    egress,     \* the federation egress channel
    egressOpen, \* its receiver exists
    queue,      \* the unbounded queue of each thread's worker
    busy,       \* a worker is in process_message
    out,        \* what that call has still to reinject
    injected    \* messages injected so far

stages == <<chan, hold, alive, signal>>
federation == <<egress, egressOpen>>
workers == <<queue, busy, out>>
vars == <<chan, hold, alive, signal, egress, egressOpen, queue, busy, out, injected>>

TypeOK ==
    /\ chan \in [Stages -> Seq(Messages)] /\ \A s \in Stages : Len(chan[s]) <= Cap
    /\ hold \in [Gates -> Messages \cup {None}]
    /\ alive \subseteq Stages
    /\ signal \in BOOLEAN
    /\ egress \in Seq(Messages) /\ Len(egress) <= Cap
    /\ egressOpen \in BOOLEAN
    /\ queue \in [Threads -> Seq(Messages)]
    /\ busy \in [Threads -> BOOLEAN]
    /\ out \in [Threads -> Seq(Messages)]
    /\ injected \in 0..MaxInjected

Init ==
    /\ chan = [s \in Stages |-> <<>>]
    /\ hold = [s \in Gates |-> None]
    /\ alive = Stages
    /\ signal = FALSE
    /\ egress = <<>>
    /\ egressOpen = TRUE
    /\ queue = [t \in Threads |-> <<>>]
    /\ busy = [t \in Threads |-> FALSE]
    /\ out = [t \in Threads |-> <<>>]
    /\ injected = 0

After(s) == CASE s = "parse" -> "validate" [] s = "validate" -> "route" [] s = "route" -> "dispatch"
Before(s) == CASE s = "validate" -> "parse" [] s = "route" -> "validate" [] s = "dispatch" -> "route"

\* Mutant of Send: one message too many.
SendOver(s, m) == Len(chan[s]) <= Cap /\ chan' = [chan EXCEPT ![s] = Append(@, m)]

\* tx.send(m).await completes: there is room in the channel into stage s.
Send(s, m) == Len(chan[s]) < Cap /\ chan' = [chan EXCEPT ![s] = Append(@, m)]
-----------------------------------------------------------------------------
(* The host.                                                               *)

\* inject, or any sender of the ingress channel; once the parse stage has
\* ended it is told so by an error.
Inject(m) ==
    /\ injected < MaxInjected
    /\ "parse" \in alive
    /\ Send("parse", m)
    /\ injected' = injected + 1
    /\ UNCHANGED <<hold, alive, signal, federation, workers>>

\* shutdown, up to its wait for the stages.
Shutdown ==
    /\ ~signal
    /\ signal' = TRUE
    /\ UNCHANGED <<chan, hold, alive, federation, workers, injected>>
-----------------------------------------------------------------------------
(* The gates.                                                              *)

\* Mutant of Receive: the newest message first.
ReceiveNewest(s) ==
    /\ s \in alive
    /\ hold[s] = None
    /\ chan[s] # <<>>
    /\ hold' = [hold EXCEPT ![s] = chan[s][Len(chan[s])]]
    /\ chan' = [chan EXCEPT ![s] = SubSeq(@, 1, Len(@) - 1)]
    /\ UNCHANGED <<alive, signal, federation, workers, injected>>

\* rx.recv() yields a message.
Receive(s) ==
    /\ s \in alive
    /\ hold[s] = None
    /\ chan[s] # <<>>
    /\ hold' = [hold EXCEPT ![s] = Head(chan[s])]
    /\ chan' = [chan EXCEPT ![s] = Tail(@)]
    /\ UNCHANGED <<alive, signal, federation, workers, injected>>

\* The message dies at this gate: decode_envelope, validate_value, resolve or
\* enforce_peers fails.
Refuse(s) ==
    /\ hold[s] # None
    /\ hold[s].fate = s
    /\ hold' = [hold EXCEPT ![s] = None]
    /\ UNCHANGED <<chan, alive, signal, federation, workers, injected>>

\* The message passes to the next stage.
Pass(s) ==
    /\ hold[s] # None
    /\ hold[s].fate # s
    /\ ~(s = "route" /\ hold[s].fate = "remote")
    /\ Send(After(s), hold[s])
    /\ hold' = [hold EXCEPT ![s] = None]
    /\ UNCHANGED <<alive, signal, federation, workers, injected>>

\* route_stage: fed.tx.send(envelope).await, to a live receiver with room; or
\* to none, which is only logged.
SendRemote ==
    /\ hold["route"] # None
    /\ hold["route"].fate = "remote"
    /\ \/ egressOpen /\ Len(egress) < Cap /\ egress' = Append(egress, hold["route"])
       \/ ~egressOpen /\ UNCHANGED egress
    /\ hold' = [hold EXCEPT !["route"] = None]
    /\ UNCHANGED <<chan, alive, signal, egressOpen, workers, injected>>

\* parse_stage takes the other branch of its select!, which it does only
\* between two messages.  What is left in the ingress channel goes with it.
ParseEnds ==
    /\ "parse" \in alive
    /\ signal
    /\ hold["parse"] = None
    /\ alive' = alive \ {"parse"}
    /\ chan' = [chan EXCEPT !["parse"] = <<>>]
    /\ UNCHANGED <<hold, signal, federation, workers, injected>>

\* Mutant of Ends: a clone of the parsed channel's sender is kept, as one of
\* the ingress channel's is.
EndsUnlessKept(s) ==
    /\ s \in alive
    /\ s # "validate"
    /\ Before(s) \notin alive
    /\ chan[s] = <<>>
    /\ s \in Gates => hold[s] = None
    /\ alive' = alive \ {s}
    /\ UNCHANGED <<chan, hold, signal, federation, workers, injected>>

\* Mutant of Ends: the stage stops with its predecessor.
EndsAtOnce(s) ==
    /\ s \in alive
    /\ Before(s) \notin alive
    /\ s \in Gates => hold[s] = None
    /\ alive' = alive \ {s}
    /\ UNCHANGED <<chan, hold, signal, federation, workers, injected>>

\* rx.recv() yields None: the channel is empty and its one sender, the stage
\* before, has ended.  (The other way for a stage to end, a failed send to the
\* stage after it, is excluded by EndsInOrder.)
Ends(s) ==
    /\ s \in alive
    /\ Before(s) \notin alive
    /\ chan[s] = <<>>
    /\ s \in Gates => hold[s] = None
    /\ alive' = alive \ {s}
    /\ UNCHANGED <<chan, hold, signal, federation, workers, injected>>
-----------------------------------------------------------------------------
(* Dispatch and the workers.                                               *)

\* Mutant of Dispatch: the stage waits for the worker, as a stage that called
\* the handlers itself would.
DispatchWaits ==
    /\ "dispatch" \in alive
    /\ chan["dispatch"] # <<>>
    /\ LET m == Head(chan["dispatch"])
       IN  /\ ~busy[m.thread] /\ queue[m.thread] = <<>>
           /\ queue' = [queue EXCEPT ![m.thread] = <<m>>]
    /\ chan' = [chan EXCEPT !["dispatch"] = Tail(@)]
    /\ UNCHANGED <<hold, alive, signal, federation, busy, out, injected>>

\* dispatch_stage hands the next message to the worker of its thread.
Dispatch ==
    /\ "dispatch" \in alive
    /\ chan["dispatch"] # <<>>
    /\ LET m == Head(chan["dispatch"])
       IN  queue' = [queue EXCEPT ![m.thread] = Append(@, m)]
    /\ chan' = [chan EXCEPT !["dispatch"] = Tail(@)]
    /\ UNCHANGED <<hold, alive, signal, federation, busy, out, injected>>

\* What process_message may have to reinject for m: nothing (None or Reply at
\* the end of a chain, an error), one envelope (None, Reply, Send) or two
\* (Spawn: the work and the ack).
Responses(m) ==
    LET R == {r \in Messages : r.fuel + 1 = m.fuel}
    IN  {<<>>} \cup {<<r>> : r \in R} \cup (R \X R)

\* A worker takes its next message; its handler is called.
Call(t) ==
    /\ ~busy[t]
    /\ queue[t] # <<>>
    /\ queue' = [queue EXCEPT ![t] = Tail(@)]
    /\ busy' = [busy EXCEPT ![t] = TRUE]
    /\ \E r \in Responses(Head(queue[t])) : out' = [out EXCEPT ![t] = r]
    /\ UNCHANGED <<stages, federation, injected>>

\* reinject_tx.send(raw).await completes, or fails and is ignored because the
\* parse stage has ended.
Reinject(t) ==
    /\ out[t] # <<>>
    /\ \/ "parse" \in alive /\ Send("parse", Head(out[t]))
       \/ "parse" \notin alive /\ UNCHANGED chan
    /\ out' = [out EXCEPT ![t] = Tail(@)]
    /\ UNCHANGED <<hold, alive, signal, federation, queue, busy, injected>>

\* process_message returns.
Return(t) ==
    /\ busy[t]
    /\ out[t] = <<>>
    /\ busy' = [busy EXCEPT ![t] = FALSE]
    /\ UNCHANGED <<stages, federation, queue, out, injected>>
-----------------------------------------------------------------------------
(* The federation server's egress loop.                                    *)

\* run_egress: the envelope has been sent, well or not, and the next is taken.
Transmit ==
    /\ egress # <<>>
    /\ egress' = Tail(egress)
    /\ UNCHANGED <<stages, egressOpen, workers, injected>>

\* The server goes away, and its receiver with it.
EgressEnds ==
    /\ egressOpen
    /\ egressOpen' = FALSE
    /\ egress' = <<>>
    /\ UNCHANGED <<stages, workers, injected>>
-----------------------------------------------------------------------------
GateStep(s) == Receive(s) \/ Refuse(s) \/ Pass(s) \/ (s = "route" /\ SendRemote)

WorkerStep(t) == Call(t) \/ Reinject(t) \/ Return(t)

Next ==
    \/ \E m \in Messages : Inject(m)
    \/ Shutdown
    \/ \E s \in Gates : GateStep(s)
    \/ ParseEnds
    \/ \E s \in Stages \ {"parse"} : Ends(s)
    \/ Dispatch
    \/ \E t \in Threads : WorkerStep(t)
    \/ Transmit
    \/ EgressEnds

Spec == Init /\ [][Next]_vars

\* Tokio runs every task that can go on, and a channel's waiting senders get
\* its room in turn, whence strong fairness for a worker that competes with
\* the host for the ingress channel.  Handler calls end, and so do the sends of
\* the federation server's transport, on both of which the pipeline depends.
Fairness ==
    /\ \A s \in Gates : WF_vars(GateStep(s))
    /\ WF_vars(ParseEnds)
    /\ \A s \in Stages \ {"parse"} : WF_vars(Ends(s))
    /\ WF_vars(Dispatch)
    /\ \A t \in Threads : WF_vars(WorkerStep(t)) /\ SF_vars(Reinject(t))
    /\ WF_vars(Transmit)

FairSpec == Spec /\ Fairness
-----------------------------------------------------------------------------
(* Properties.                                                             *)

\* A stage that has ended has left nothing behind, and the stages before it
\* have ended: shutdown loses nothing that the parse stage has accepted, and
\* no stage ever sends to one that has ended (shutdown and the two break
\* statements on a failed send, pipeline.rs:263-271, 311, 348, 435).
EndsInOrder ==
    \A s \in Stages \ alive :
        /\ chan[s] = <<>>
        /\ s \in Gates => hold[s] = None
        /\ s # "parse" => Before(s) \notin alive

\* Messages come through the gates once each and in the order they went into
\* ingress, whichever of them a gate refuses or sends to a remote node, so
\* that arrival order means ingress order to dispatch (run, pipeline.rs:194).
Held(s) == IF hold[s] = None THEN <<>> ELSE <<hold[s]>>

Line == chan["dispatch"] \o Held("route") \o chan["route"] \o Held("validate")
            \o chan["validate"] \o Held("parse") \o chan["parse"]

C == INSTANCE Conduit WITH
    Local  <- {m \in Messages : m.fate = "dispatch"},
    line   <- Line,
    closed <- "parse" \notin alive

OneLine == C!Spec

\* Nothing is under way.
Quiet ==
    /\ \A s \in Stages : chan[s] = <<>>
    /\ \A s \in Gates : hold[s] = None
    /\ \A t \in Threads : queue[t] = <<>> /\ ~busy[t]

\* The loop never jams: although every stage feeds the next through a bounded
\* channel and the workers feed the first, whatever has been injected and is
\* called forth by it is disposed of in the end.
Drains == <>[]Quiet

\* shutdown() returns: all four stages end, whatever is in flight
\* (pipeline.rs:263-271).
ShutdownCompletes == signal ~> (alive = {})
=============================================================================
