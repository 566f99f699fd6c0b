------------------------------ MODULE Instances ------------------------------
(***************************************************************************)
(* Messages for addressed instances (switchboard.rs, and pipeline.rs with  *)
(* it): callers, on their own or through federation, put envelopes in by   *)
(* the switchboard, which has the host materialize the instance and stamps *)
(* the envelope with the instance's thread; the pipeline handles messages  *)
(* one at a time per thread; handlers send on to other addresses, on       *)
(* threads of the call chain's.  A call takes time, and the caller of route *)
(* waits for the ingress channel only: what the gates do to its envelope   *)
(* it is not told.  A response is reinjected with the step that makes it   *)
(* (module Conversation has both steps), and no handler panics (module     *)
(* Dispatch has that).                                                     *)
(***************************************************************************)
EXTENDS CallChains

CONSTANTS
    Listeners,  \* the names in the routing table
    Barred,     \* pairs of names: what enforce_peers refuses
    Keys,       \* instance keys
    NoKey,      \* key: None
    Entries,    \* the calls of route: from, own thread, to (or None), and form
    Calls,      \* sets of them: those that are made in a behaviour
    Refused,    \* addresses the host cannot materialize
    Sends,      \* the addresses handlers send to
    MaxSends,   \* bound: how many messages handlers send
    Absent      \* None

\* The instance-level address, of a listener or of nobody; namespaces and
\* buffers make no difference to one on this node.
Address == [name : Names, key : Keys \cup {NoKey}]

\* What becomes of an envelope: encode_envelope fails; it is encoded, and the
\* parse or the validate stage refuses it, or no route has its tag; they pass it.
Forms == {"unwritable", "refused", "good"}

InstancesAssumption ==
    /\ Listeners \subseteq Names /\ Barred \subseteq Names \X Names /\ NoRoot \notin Ids
    /\ Sends \subseteq Address /\ Refused \subseteq Address
    /\ Entries \subseteq [from : Names, thread : Ids, to : Address \cup {Absent}, form : Forms]
    /\ Calls \subseteq SUBSET Entries /\ Absent \notin Entries \cup Address /\ MaxSends \in Nat

VARIABLES
    ingressOpen, \* the parse stage takes what is injected
    resolved,   \* the host's: instance -> its delivery thread
    entry,      \* each call of route: how far it is, and the envelope's thread
    line,       \* envelopes from ingress to the route stage
    registry,   \* the pipeline's thread registry
    queues,     \* routed envelopes, per delivery thread
    busy,       \* the envelope a thread's worker has called its handler with
    sent,       \* messages handlers have sent
    handled     \* history: the entries whose handler has been called

instanceVars == <<ingressOpen, resolved, entry, line, registry, queues, busy, sent, handled>>

Elements(s) == {s[i] : i \in DOMAIN s}
UnderWay ==
    Elements(line) \cup (UNION {Elements(queues[t]) : t \in Ids}) \cup ({busy[t] : t \in Ids} \ {Absent})

InstancesTypeOK ==
    /\ ingressOpen \in BOOLEAN
    /\ DOMAIN resolved \subseteq Address \ Refused
    /\ \A a, b \in DOMAIN resolved : resolved[a] \in Ids /\ (a # b => resolved[a] # resolved[b])
    /\ \A e \in Entries : entry[e] \in [at : {"never", "new", "resolved", "injected", "failed"}, thread : Ids]
    /\ \A m \in UnderWay : m.thread \in Ids /\ m.entry \in Entries \cup {Absent}
    /\ \A t \in Ids : \A m \in Elements(queues[t]) \cup ({busy[t]} \ {Absent}) : m.thread = t
    /\ sent \in 0..MaxSends /\ handled \subseteq Entries

\* Ids nobody uses yet; the callers' own are theirs.
Unused ==
    Ids \ (DOMAIN registry.chainOf \cup {e.thread : e \in Entries} \cup {resolved[a] : a \in DOMAIN resolved})
Fresh == IF Unused = {} THEN NoRoot ELSE CHOOSE id \in Unused : TRUE

InstancesInit ==
    /\ ingressOpen = TRUE
    /\ resolved = [a \in {} |-> NoRoot]
    /\ \E made \in Calls :
         entry = [e \in Entries |-> [at |-> IF e \in made THEN "new" ELSE "never", thread |-> e.thread]]
    /\ line = <<>> /\ registry = EmptyRegistry
    /\ queues = [t \in Ids |-> <<>>]
    /\ busy = [t \in Ids |-> Absent]
    /\ sent = 0 /\ handled = {}
-----------------------------------------------------------------------------
(* Switchboard::route.                                                     *)

\* Mutant of Resolve: an instance that cannot be materialized is reached on the caller's thread.
ResolveAnyway(e) ==
    /\ entry[e].at = "new" /\ e.to # Absent /\ Fresh # NoRoot
    /\ resolved' = IF e.to \in Refused THEN resolved ELSE
                   Insert(resolved, e.to, IF e.to \in DOMAIN resolved THEN resolved[e.to] ELSE Fresh)
    /\ entry' = [entry EXCEPT ![e] =
                   [at |-> "resolved", thread |-> IF e.to \in Refused THEN e.thread ELSE resolved'[e.to]]]
    /\ UNCHANGED <<ingressOpen, line, registry, queues, busy, sent, handled>>

\* resolve(to).await: the instance's thread, materialized at the first access.
Resolve(e) ==
    /\ entry[e].at = "new" /\ e.to # Absent /\ e.to \notin Refused /\ Fresh # NoRoot
    /\ resolved' = Insert(resolved, e.to, IF e.to \in DOMAIN resolved THEN resolved[e.to] ELSE Fresh)
    /\ entry' = [entry EXCEPT ![e] = [at |-> "resolved", thread |-> resolved'[e.to]]]
    /\ UNCHANGED <<ingressOpen, line, registry, queues, busy, sent, handled>>

\* Mutant of RouteFails: an address the host refuses is tried on and on.
RouteFailsOnNone(e) ==
    /\ \/ entry[e].at = "new" /\ e.to = Absent
       \/ entry[e].at = "resolved" /\ (e.form = "unwritable" \/ ~ingressOpen)
    /\ entry' = [entry EXCEPT ![e].at = "failed"]
    /\ UNCHANGED <<ingressOpen, resolved, line, registry, queues, busy, sent, handled>>

\* NoDestination and Materialize; Encode and IngressClosed.
RouteFails(e) ==
    /\ \/ entry[e].at = "new" /\ (e.to = Absent \/ e.to \in Refused)
       \/ entry[e].at = "resolved" /\ (e.form = "unwritable" \/ ~ingressOpen)
    /\ entry' = [entry EXCEPT ![e].at = "failed"]
    /\ UNCHANGED <<ingressOpen, resolved, line, registry, queues, busy, sent, handled>>

\* Mutant of Stamped: the envelope keeps its thread.
Unstamped(e) == [from |-> e.from, to |-> e.to, thread |-> e.thread, entry |-> e, form |-> e.form]

\* meta.thread = thread_id
Stamped(e) == [from |-> e.from, to |-> e.to, thread |-> entry[e].thread, entry |-> e, form |-> e.form]

\* ingress.send(bytes).await
Inject(e) ==
    /\ entry[e].at = "resolved" /\ e.form # "unwritable" /\ ingressOpen
    /\ line' = Append(line, Stamped(e))
    /\ entry' = [entry EXCEPT ![e].at = "injected"]
    /\ UNCHANGED <<ingressOpen, resolved, registry, queues, busy, sent, handled>>
-----------------------------------------------------------------------------
(* The pipeline.                                                           *)

\* What the gates let pass: parse_stage and validate_stage; and route_stage, by
\* the organism's name alone, what has a route that enforce_peers allows.
Passes(m) == m.form = "good" /\ m.to.name \in Listeners /\ <<m.from, m.to.name>> \notin Barred

\* The three gates: a message that does not pass dies, and nobody is told.
RouteStage ==
    /\ line # <<>> /\ line' = Tail(line)
    /\ LET m == Head(line)
       IN  IF Passes(m)
           THEN /\ registry' = RegisterThread(registry, m.thread, m.from, m.to.name)
                /\ queues' = [queues EXCEPT ![m.thread] = Append(@, m)]
           ELSE UNCHANGED <<registry, queues>>
    /\ UNCHANGED <<ingressOpen, resolved, entry, busy, sent, handled>>

\* serial_worker takes the next message and calls the handler,
Begin(t) ==
    /\ busy[t] = Absent /\ queues[t] # <<>>
    /\ busy' = [busy EXCEPT ![t] = Head(queues[t])]
    /\ queues' = [queues EXCEPT ![t] = Tail(@)]
    /\ handled' = handled \cup ({Head(queues[t]).entry} \ {Absent})
    /\ UNCHANGED <<ingressOpen, resolved, entry, line, registry, sent>>

\* What a handler puts on the line is lost when ingress is closed; when it
\* cannot be encoded it dies here, as well as if a gate refused it.
Reinjected(m) == IF ingressOpen THEN Append(line, m) ELSE line

\* which returns a Reply or None: the response goes to the bare name in the chain,
Respond(t) ==
    LET r == PruneForResponse(registry, t, Fresh)
    IN  /\ busy[t] # Absent /\ busy' = [busy EXCEPT ![t] = Absent]
        /\ ~Known(r, NoRoot) /\ registry' = r
        /\ IF HasCaller(registry, t)
           THEN \E form \in {"refused", "good"} :
                  line' = Reinjected([from |-> busy[t].to.name, entry |-> Absent, form |-> form,
                                      to |-> [name |-> PruneTarget(registry, t), key |-> NoKey],
                                      thread |-> PruneThread(registry, r, t)])
           ELSE line' = line
        /\ UNCHANGED <<ingressOpen, resolved, entry, queues, sent, handled>>

\* or a Send (or a Spawn): the chain is extended with the organism's name, the
\* address's key left out, and the message goes to ingress, not to the switchboard.
Send(t, to) ==
    LET r == ExtendChain(registry, t, to.name, Fresh)
    IN  /\ busy[t] # Absent /\ busy' = [busy EXCEPT ![t] = Absent]
        /\ <<busy[t].to.name, to.name>> \notin Barred
        /\ sent < MaxSends /\ sent' = sent + 1
        /\ ~Known(r, NoRoot) /\ registry' = r
        /\ \E form \in {"refused", "good"} :
             line' = Reinjected([from |-> busy[t].to.name, to |-> to, entry |-> Absent, form |-> form,
                                 thread |-> r.uuidOf[ExtendedChain(registry, t, to.name)]])
        /\ UNCHANGED <<ingressOpen, resolved, entry, queues, handled>>

\* or nothing: an error, or a Send that enforce_peers refuses.
Fail(t) ==
    /\ busy[t] # Absent /\ busy' = [busy EXCEPT ![t] = Absent]
    /\ UNCHANGED <<ingressOpen, resolved, entry, line, registry, queues, sent, handled>>

\* Pipeline::shutdown: the parse stage ends, and what has not passed it is lost;
\* what has goes on to the workers.
Shutdown ==
    /\ ingressOpen /\ ingressOpen' = FALSE
    /\ \E n \in 0..Len(line) : line' = SubSeq(line, 1, n)
    /\ UNCHANGED <<resolved, entry, registry, queues, busy, sent, handled>>

RouteEntry(e) == Resolve(e) \/ RouteFails(e) \/ Inject(e)
Work(t) == Begin(t) \/ Respond(t) \/ Fail(t) \/ \E to \in Sends : Send(t, to)

InstancesNext ==
    \/ \E e \in Entries : RouteEntry(e)
    \/ RouteStage
    \/ \E t \in Ids : Work(t)
    \/ Shutdown

\* The calls of route, the stages and the handlers go on.
InstancesFairness ==
    /\ \A e \in Entries : WF_instanceVars(RouteEntry(e))
    /\ WF_instanceVars(RouteStage)
    /\ \A t \in Ids : WF_instanceVars(Work(t))

InstancesSpec == InstancesInit /\ [][InstancesNext]_instanceVars /\ InstancesFairness
-----------------------------------------------------------------------------
(* Properties.                                                             *)

\* The instances a message calls on: the one it is addressed to, else those
\* whose thread it comes on.
InstancesOf(m) ==
    IF m.to.key # NoKey THEN {m.to} ELSE {a \in DOMAIN resolved : resolved[a] = m.thread}

\* "serial per thread (= per instance)" (pipeline.rs:445-448): "a handler is
\* never called concurrently for the same instance".
InstanceSerial ==
    \A t, u \in Ids :
        t # u /\ busy[t] # Absent /\ busy[u] # Absent => InstancesOf(busy[t]) \cap InstancesOf(busy[u]) = {}

\* The envelopes for somebody that the gates pass.
Due == {e \in Entries : e.to # Absent /\ Passes(e)}

\* "On materialization failure nothing is injected (fail-closed)"
\* (switchboard.rs:97), nor without a destination; what is injected comes on
\* the thread of the instance it is addressed to, whatever thread it had, and no
\* handler is called with an envelope of which the caller of route was told that
\* it failed, or that a gate is to stop.
FailClosed ==
    /\ \A m \in UnderWay :
         m.entry # Absent => m.to \in DOMAIN resolved /\ m.thread = resolved[m.to]
    /\ \A e \in handled : entry[e].at = "injected" /\ e \in Due

\* Every call of route returns, with calls of one instance waiting for each
\* other: its envelope is injected, or it failed.  What is injected and due is
\* handled, unless the pipeline is shut down; what a gate stops is lost with
\* its caller told that all is well
\* (Switchboard::route and LocalDelivery::deliver, switchboard.rs:98-128).
EntriesAreHandled ==
    \A e \in Entries :
        <>(\/ entry[e].at \in {"never", "failed"}
           \/ entry[e].at = "injected" /\ (e \in Due => e \in handled \/ ~ingressOpen))
=============================================================================
