---------------------------- MODULE Conversation ----------------------------
(***************************************************************************)
(* What a conversation is made of (pipeline.rs: route_stage and            *)
(* process_message, over the thread registry): envelopes are resolved,     *)
(* checked against the sender's peers, registered and handled one at a     *)
(* time per thread; a handler's response prunes or extends its thread's    *)
(* chain, goes back through the same gates, and is reported to the host's  *)
(* observer.  A handler may return anything, and so may the middleware     *)
(* around it, which in the end returns a response or an error like one.    *)
(*                                                                         *)
(* Ingress, parse and validate are one line, which module Stages shows     *)
(* them to be; the dispatcher and a worker are a queue for each thread, as *)
(* module Dispatch shows.  The handler call and what process_message does  *)
(* up to its first await after it are one step: nothing between them       *)
(* touches shared state twice.                                             *)
(***************************************************************************)
EXTENDS CallChains, FiniteSets

CONSTANTS
    Listeners,  \* the names in the routing table
    Accepts,    \* [Listeners -> SUBSET Kinds]: the tags each is registered for
    Agents,     \* the listeners subject to peer constraints
    Peers,      \* [Agents -> SUBSET Names]: their declared peers
    Requests,   \* what the host injects: sender, addressee and thread id
    Responses,  \* what handlers return: None, Reply, Send, Spawn, Err
    Targets,    \* the names handlers send to and spawn
    MaxCalls    \* bound: how many Sends and Spawns handlers return

\* What an envelope's payload tag says: the sender's own task or reply, or the
\* ToolResponse and the SpawnAcks (accepted or not) the pipeline makes up.
Kinds == {"task", "reply", "ack", "accepted", "rejected"}

\* Thread ids come with requests, or are generated and never equal to those.
External == {q.thread : q \in Requests}

ASSUME ConversationAssumption ==
    /\ Listeners \subseteq Names
    /\ Accepts \in [Listeners -> SUBSET Kinds]
    /\ Agents \subseteq Listeners
    /\ Peers \in [Agents -> SUBSET Names]
    /\ Requests \subseteq [from : Names, to : Names, thread : Ids]
    /\ Responses \subseteq {"None", "Reply", "Send", "Spawn", "Err"}
    /\ Targets \subseteq Names
    /\ NoRoot \notin Ids
    /\ Ids \ External # {}
    /\ MaxCalls \in Nat

VARIABLES
    registry,   \* the thread registry
    line,       \* envelopes from ingress to the route stage
    queue,      \* routed envelopes, per delivery thread
    steps,      \* what the process_message under way on a thread has yet to do
    requests,   \* requests not injected yet
    ledger,     \* the host's view: threads opened and not closed since
    calls,      \* history: call edges, each with its caller and its callee
    awaiting,   \* history: calls on a thread not answered to the caller yet
    made,       \* Sends and Spawns returned so far
    refused,    \* history: the envelopes that died at the route stage
    failed      \* history: a handler call ended without a response

hist == <<calls, awaiting, refused, failed>>
vars == <<registry, line, queue, steps, requests, ledger, made, hist>>

\* A response is to a segment of a chain.  `re` is a ghost: the thread it was
\* produced on, or NoRoot.
Envelope == [from : Names, to : Segments, thread : Ids, kind : Kinds, re : Ids \cup {NoRoot}]

Step == [reinject : Envelope] \cup [open : Ids]

\* A call made on thread `at` by `caller`, and the thread it is answered on.
Call == [caller : Names, at : Ids, callee : Names, on : Ids]

Elements(s) == {s[i] : i \in DOMAIN s}

TypeOK ==
    /\ IsRegistry(registry) /\ Inverses(registry)
    /\ line \in Seq(Envelope)
    /\ queue \in [Ids -> Seq(Envelope)]
    /\ steps \in [Ids -> Seq(Step)]
    /\ requests \subseteq Requests
    /\ ledger \subseteq Ids
    /\ calls \subseteq Call
    /\ awaiting \in [Ids -> 0..MaxCalls]
    /\ made \in 0..MaxCalls
    /\ refused \subseteq Envelope
    /\ failed \in BOOLEAN

\* The ids not in use.  Nothing distinguishes new UUIDs, so that choosing one
\* does not restrict the model; there is none when the bound is reached.
Unused(r) == Ids \ (DOMAIN r.chainOf \cup External)
Fresh(r) == IF Unused(r) = {} THEN NoRoot ELSE CHOOSE id \in Unused(r) : TRUE

\* The host has initialized a root, or not.
Init ==
    /\ registry \in {EmptyRegistry, InitializeRoot(EmptyRegistry, Fresh(EmptyRegistry))}
    /\ line = <<>>
    /\ queue = [t \in Ids |-> <<>>]
    /\ steps = [t \in Ids |-> <<>>]
    /\ requests = Requests
    /\ ledger = {}
    /\ calls = {}
    /\ awaiting = [t \in Ids |-> 0]
    /\ made = 0
    /\ refused = {}
    /\ failed = FALSE
-----------------------------------------------------------------------------
(* The route stage.                                                        *)

\* resolve: the addressee is registered for the payload's tag.
Resolves(to, kind) == to \in Listeners /\ kind \in Accepts[to]

\* enforce_peers: an agent reaches its declared peers only.
MayMessage(from, to) == from \in Agents => to \in Peers[from]

\* The host injects a request.
Inject(q) ==
    /\ q \in requests
    /\ requests' = requests \ {q}
    /\ line' = Append(line, [from |-> q.from, to |-> q.to, thread |-> q.thread,
                             kind |-> "task", re |-> NoRoot])
    /\ UNCHANGED <<registry, queue, steps, ledger, made, hist>>

\* No route, or a peer violation: the envelope dies.
RouteRefuses ==
    /\ line # <<>>
    /\ LET m == Head(line)
       IN  /\ ~Resolves(m.to, m.kind) \/ ~MayMessage(m.from, m.to)
           /\ refused' = refused \cup {m}
    /\ line' = Tail(line)
    /\ UNCHANGED <<registry, queue, steps, requests, ledger, made, calls, awaiting, failed>>

\* The thread is registered if needed, and the envelope goes to its worker.
RoutePasses ==
    /\ line # <<>>
    /\ LET m == Head(line)
       IN  /\ Resolves(m.to, m.kind)
           /\ MayMessage(m.from, m.to)
           /\ registry' = RegisterThread(registry, m.thread, m.from, m.to)
           /\ queue' = [queue EXCEPT ![m.thread] = Append(@, m)]
    /\ line' = Tail(line)
    /\ UNCHANGED <<steps, requests, ledger, made, hist>>
-----------------------------------------------------------------------------
(* process_message.                                                        *)

\* The next envelope of thread t, of which its handler is m.to.
AtHand(t) == Head(queue[t])

\* The worker takes it and calls the handler.  If it answers a call, that call
\* is answered now.
Handle(t) ==
    /\ steps[t] = <<>>
    /\ queue[t] # <<>>
    /\ queue' = [queue EXCEPT ![t] = Tail(@)]

Heard(t, a) ==
    LET u == AtHand(t).re
    IN  IF u # NoRoot /\ a[u] > 0 THEN [a EXCEPT ![u] = @ - 1] ELSE a

\* Mutant of ResponseOn: it goes to the sender of the envelope at hand.
ResponseToSender(t, r, kind) ==
    [from |-> AtHand(t).to, to |-> AtHand(t).from,
     thread |-> PruneThread(registry, r, t), kind |-> kind, re |-> t]

\* Mutant of ResponseOn: it stays on the responder's thread.
ResponseOnSameThread(t, r, kind) ==
    [from |-> AtHand(t).to, to |-> PruneTarget(registry, t),
     thread |-> t, kind |-> kind, re |-> t]

\* The envelope of a response on thread t, r being the registry when the chain
\* has been pruned.
ResponseOn(t, r, kind) ==
    [from |-> AtHand(t).to, to |-> PruneTarget(registry, t),
     thread |-> PruneThread(registry, r, t), kind |-> kind, re |-> t]

\* None or Reply: the edge closes, the chain is pruned, and the reply, or the
\* ACK that stands for it, goes to whom is left at its end, if anyone.
Respond(t, kind) ==
    LET r == PruneForResponse(registry, t, Fresh(registry))
    IN  /\ Handle(t)
        /\ ledger' = ledger \ {t}
        /\ ~Known(r, NoRoot)
        /\ registry' = r
        /\ steps' = [steps EXCEPT ![t] =
             IF HasCaller(registry, t) THEN <<[reinject |-> ResponseOn(t, r, kind)]>> ELSE <<>>]
        /\ awaiting' = Heard(t, awaiting)
        /\ UNCHANGED <<line, requests, made, calls, refused, failed>>

\* Mutant of RespondNone: no ACK is made up.
RespondNoneSilently(t) ==
    /\ "None" \in Responses
    /\ Handle(t)
    /\ ledger' = ledger \ {t}
    /\ awaiting' = Heard(t, awaiting)
    /\ UNCHANGED <<registry, line, steps, requests, made, calls, refused, failed>>

RespondNone(t) == "None" \in Responses /\ Respond(t, "ack")

Reply(t) == "Reply" \in Responses /\ Respond(t, "reply")

\* The work handed to `to`, on a thread whose chain goes on with it.
Work(t, to, u) ==
    [from |-> AtHand(t).to, to |-> to, thread |-> u, kind |-> "task", re |-> NoRoot]

\* The acknowledgement of a Spawn, from its addressee to the handler itself.
SpawnAck(t, to, kind) ==
    [from |-> to, to |-> AtHand(t).to, thread |-> t, kind |-> kind, re |-> NoRoot]

\* The handler calls `to`: the chain is extended, and then, one at a time,
\* come the reinjection of the work, on_open, and `after`.
MakeCall(t, to, after) ==
    LET r == ExtendChain(registry, t, to, Fresh(registry))
        u == r.uuidOf[ExtendedChain(registry, t, to)]
    IN  /\ Handle(t)
        /\ MayMessage(AtHand(t).to, to)
        /\ made < MaxCalls
        /\ made' = made + 1
        /\ ~Known(r, NoRoot)
        /\ registry' = r
        /\ steps' = [steps EXCEPT ![t] = <<[reinject |-> Work(t, to, u)], [open |-> u]>> \o after]
        /\ calls' = calls \cup
             {[caller |-> AtHand(t).to, at |-> t, callee |-> to, on |-> u]}
        /\ awaiting' = [Heard(t, awaiting) EXCEPT ![u] = @ + 1]
        /\ UNCHANGED <<line, requests, ledger, refused, failed>>

Send(t, to) == "Send" \in Responses /\ MakeCall(t, to, <<>>)

\* The work is handed over first and acknowledged after it.
Spawn(t, to) ==
    /\ "Spawn" \in Responses
    /\ MakeCall(t, to, <<[reinject |-> SpawnAck(t, to, "accepted")]>>)

\* A Spawn that the peers do not allow is acknowledged all the same.
SpawnRejected(t, to) ==
    /\ "Spawn" \in Responses
    /\ Handle(t)
    /\ ~MayMessage(AtHand(t).to, to)
    /\ made < MaxCalls
    /\ made' = made + 1
    /\ steps' = [steps EXCEPT ![t] = <<[reinject |-> SpawnAck(t, to, "rejected")]>>]
    /\ awaiting' = Heard(t, awaiting)
    /\ UNCHANGED <<registry, line, requests, ledger, calls, refused, failed>>

\* An error, or a Send that the peers do not allow: nothing more happens.
Fail(t) ==
    /\ Handle(t)
    /\ \/ "Err" \in Responses
       \/ "Send" \in Responses /\ \E to \in Targets : ~MayMessage(AtHand(t).to, to)
    /\ awaiting' = Heard(t, awaiting)
    /\ failed' = TRUE
    /\ UNCHANGED <<registry, line, steps, requests, ledger, made, calls, refused>>

\* The worker's next step: reinject_tx.send(raw).await, or on_open.
Reinject(t) ==
    /\ steps[t] # <<>>
    /\ "reinject" \in DOMAIN Head(steps[t])
    /\ line' = Append(line, Head(steps[t]).reinject)
    /\ steps' = [steps EXCEPT ![t] = Tail(@)]
    /\ UNCHANGED <<registry, queue, requests, ledger, made, hist>>

Open(t) ==
    /\ steps[t] # <<>>
    /\ "open" \in DOMAIN Head(steps[t])
    /\ ledger' = ledger \cup {Head(steps[t]).open}
    /\ steps' = [steps EXCEPT ![t] = Tail(@)]
    /\ UNCHANGED <<registry, line, queue, requests, made, hist>>
-----------------------------------------------------------------------------
Route == RouteRefuses \/ RoutePasses

ProcessMessage(t) ==
    \/ RespondNone(t) \/ Reply(t) \/ Fail(t) \/ Reinject(t) \/ Open(t)
    \/ \E to \in Targets : Send(t, to) \/ Spawn(t, to) \/ SpawnRejected(t, to)

Next ==
    \/ \E q \in Requests : Inject(q)
    \/ Route
    \/ \E t \in Ids : ProcessMessage(t)

Spec == Init /\ [][Next]_vars

\* The stages and the workers go on (module Stages: the loop never jams), and
\* handler calls end.
Fairness == WF_vars(Route) /\ \A t \in Ids : WF_vars(ProcessMessage(t))

FairSpec == Spec /\ Fairness
-----------------------------------------------------------------------------
(* Properties.  The first three are about an orderly host, whose requests   *)
(* carry one thread id for each sender and addressee and come from clients  *)
(* that are no listeners.                                                   *)

OrderlyHost ==
    /\ \A q \in Requests : q.from \notin Listeners
    /\ \A q, p \in Requests : q.thread = p.thread <=> q.from = p.from /\ q.to = p.to

InFlight == Elements(line) \cup UNION {Elements(queue[t]) : t \in Ids}

\* The chain of a delivery thread ends with the handler the messages on it are
\* for (thread.rs:1-15), so that pruning its last segment removes the
\* responder, and no other.
ChainsEndWithHandler ==
    \A t \in Ids : \A m \in Elements(queue[t]) :
        Known(registry, t) /\ LastOf(registry.chainOf[t]) = m.to

\* Every reply and ACK goes to the one who made the call it is a response to,
\* on the thread the call was made from, or to the client whose request began
\* the conversation: no handler knows its caller, the chain does
\* (handler.rs:80-89, 96-104).
ResponsesReachCaller ==
    \A m \in InFlight :
        m.re # NoRoot =>
            \/ \E c \in calls :
                 c.on = m.re /\ c.callee = m.from /\ c.caller = m.to /\ c.at = m.thread
            \/ \E q \in Requests : q.thread = m.re /\ q.to = m.from /\ q.from = m.to

\* Every call is answered, however calls nest and branch: the caller does not
\* hang (handler.rs:75-77, 99-103).  The exceptions are the ones the observer's
\* comment leaves to the host (pipeline.rs:119-131): a handler that fails, and
\* an envelope that dies at the route stage on its way to a listener.
EveryCallAnswered ==
    \A u \in Ids :
        (awaiting[u] > 0) ~>
            (awaiting[u] = 0 \/ failed \/ \E m \in refused : m.to \in Listeners)

\* "Reply-to-caller and the LLM path are ungated, so a no-tools agent still
\* converses" (routing.rs:116-117): a response dies only for lack of a route.
RepliesAreUngated ==
    \A m \in refused : m.kind \in {"reply", "ack"} => ~Resolves(m.to, m.kind)

\* on_open and on_close tell the host which calls are in flight
\* (pipeline.rs:119-127): an edge it holds open has not been answered.
LedgerSettles == \A u \in ledger : awaiting[u] > 0

\* A Reply responds "back to the caller" (handler.rs:96): one to a task goes to
\* the sender of that task.
RepliesGoToSender ==
    [][\A t \in Ids :
          Reply(t) /\ AtHand(t).kind = "task" =>
              steps'[t] # <<>> /\ Head(steps'[t]).reinject.to = AtHand(t).from]_vars
=============================================================================
