----------------------------- MODULE Middleware ------------------------------
(***************************************************************************)
(* One handler call with the middleware around it (middleware.rs and the   *)
(* two loops of process_message): the pre-dispatch hooks in the order the  *)
(* middleware was added, the handler unless one of them returned instead   *)
(* of it, and the post-dispatch hooks in reverse.  Every hook may return   *)
(* anything.  Payloads and responses are known by who made them.           *)
(***************************************************************************)
EXTENDS Integers, Sequences

CONSTANTS
    MaxChain    \* bound: how many middlewares a pipeline has

ASSUME MiddlewareAssumption == MaxChain \in Nat

\* A payload or a response is made by the sender or the handler, or by a layer,
\* a middleware's position.
Sender == 0
HandlerItself == MaxChain + 1
Layers == 1..MaxChain
Makers == 0..(MaxChain + 1)
Failed == MaxChain + 2  \* Err, or a response lost to a post-dispatch error

VARIABLES
    chain,      \* how many middlewares there are
    at,         \* what is called next: "pre", "handle", "post", or "done"
    i,          \* the position of the middleware whose hook is next
    payload,    \* whose payload goes on to the next hook
    result,     \* whose response it is, or Failed; Sender before there is one
    trace       \* history: the calls, and what each was given

vars == <<chain, at, i, payload, result, trace>>

Calls == [hook : {"pre", "handle", "post"}, layer : Makers, payload : Makers, given : Makers]

TypeOK ==
    /\ chain \in 0..MaxChain
    /\ at \in {"pre", "handle", "post", "done"}
    /\ i \in 0..(chain + 1)
    /\ payload \in {Sender} \cup Layers
    /\ result \in Makers \cup {Failed}
    /\ trace \in Seq(Calls) /\ Len(trace) <= 2 * chain + 1

Init ==
    /\ chain \in 0..MaxChain
    /\ at = "pre" /\ i = 1
    /\ payload = Sender /\ result = Sender
    /\ trace = <<>>
-----------------------------------------------------------------------------
Called(hook, layer) ==
    trace' = Append(trace, [hook |-> hook, layer |-> layer, payload |-> payload, given |-> result])

\* Continue, or Transform with a payload of its own.
PreContinues ==
    /\ at = "pre" /\ i <= chain
    /\ Called("pre", i)
    /\ payload' \in {payload, i}
    /\ i' = i + 1
    /\ UNCHANGED <<chain, at, result>>

PreLoopEnds ==
    /\ at = "pre" /\ i > chain
    /\ at' = "handle"
    /\ UNCHANGED <<chain, i, payload, result, trace>>

\* Mutant of ShortCircuits: the rest of the pre-dispatch hooks still run.
ShortCircuitsLate ==
    /\ at = "pre" /\ i <= chain
    /\ Called("pre", i)
    /\ result' = i
    /\ i' = i + 1
    /\ UNCHANGED <<chain, at, payload>>

\* ShortCircuit: the response goes to all post-dispatch hooks.
ShortCircuits ==
    /\ at = "pre" /\ i <= chain
    /\ Called("pre", i)
    /\ result' = i
    /\ at' = "post" /\ i' = chain
    /\ UNCHANGED <<chain, payload>>

\* A pre-dispatch hook, or the handler, fails: no post-dispatch hook is called.
PreFails ==
    /\ at = "pre" /\ i <= chain
    /\ Called("pre", i)
    /\ result' = Failed /\ at' = "done"
    /\ UNCHANGED <<chain, i, payload>>

HandlerFails ==
    /\ at = "handle"
    /\ Called("handle", HandlerItself)
    /\ result' = Failed /\ at' = "done"
    /\ UNCHANGED <<chain, i, payload>>

HandlerResponds ==
    /\ at = "handle"
    /\ Called("handle", HandlerItself)
    /\ result' = HandlerItself
    /\ at' = "post" /\ i' = chain
    /\ UNCHANGED <<chain, payload>>

\* Mutant of PostReturns: a replaced response is final.
PostReplacesFinally ==
    /\ at = "post" /\ i >= 1
    /\ Called("post", i)
    /\ result' \in {result, i}
    /\ i' = IF result' = result THEN i - 1 ELSE 0
    /\ UNCHANGED <<chain, at, payload>>

\* PassThrough, or Replace with a response of its own.
PostReturns ==
    /\ at = "post" /\ i >= 1
    /\ Called("post", i)
    /\ result' \in {result, i}
    /\ i' = i - 1
    /\ UNCHANGED <<chain, at, payload>>

PostFails ==
    /\ at = "post" /\ i >= 1
    /\ Called("post", i)
    /\ result' = Failed /\ at' = "done"
    /\ UNCHANGED <<chain, i, payload>>

PostLoopEnds ==
    /\ at = "post" /\ i = 0
    /\ at' = "done"
    /\ UNCHANGED <<chain, i, payload, result, trace>>

Next ==
    \/ PreContinues \/ PreLoopEnds \/ ShortCircuits \/ PreFails
    \/ HandlerResponds \/ HandlerFails
    \/ PostReturns \/ PostFails \/ PostLoopEnds

Spec == Init /\ [][Next]_vars
-----------------------------------------------------------------------------
(* Properties.                                                             *)

\* Whether trace[j] is a call of this hook of this layer.
IsCall(j, hook, layer) == trace[j].hook = hook /\ trace[j].layer = layer

\* The handler is called only when every middleware has let the payload pass,
\* the outer ones first, and gets it as the last to change it made it: a loop
\* guard or a permission gate cannot be got around (middleware.rs:1-16).
HandlerPastAllGates ==
    \A h \in DOMAIN trace :
        trace[h].hook = "handle" =>
            /\ h = chain + 1
            /\ \A l \in 1..chain : IsCall(l, "pre", l)
            /\ trace[h].given = Sender
            /\ \A l \in 1..chain :
                 trace[l].payload # trace[h].payload => trace[h].payload \in l..chain

\* A response gets out only through every layer's post_dispatch, the inner ones
\* first, whether the handler made it or a layer that short-circuited; every
\* layer is given what the next one inside it returned, and whatever gets out
\* was shown to every layer outside the one that made it (middleware.rs:6-16).
ResponsesPassAllLayers ==
    at = "done" /\ result # Failed =>
        \A l \in 1..chain :
            LET j == Len(trace) + 1 - l
            IN  /\ j \in DOMAIN trace /\ IsCall(j, "post", l)
                /\ l < chain => trace[j].given \in {trace[j - 1].given, l + 1}
                /\ l < result => trace[j].given = result
=============================================================================
