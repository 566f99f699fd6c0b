---------------------------- MODULE Gates_proofs -----------------------------
(***************************************************************************)
(* Proofs about what a message passes before and around its handler: the   *)
(* middleware, for chains of any length; the validator of documents, for   *)
(* any schemas and documents; the tables of registered listeners, for any  *)
(* registrations, spelled in any way; and the codec, for any documents and *)
(* any envelopes.                                                          *)
(***************************************************************************)
EXTENDS Gates, FiniteSetTheorems, SequenceTheorems, TLAPS
-----------------------------------------------------------------------------
(* The middleware: its types, that the handler is called past all gates,   *)
(* and that responses pass all layers.                                     *)

\* Where the loops are, and how many calls there have been.
PlaceInv ==
    /\ at # "done" => result # Failed
    /\ at \in {"pre", "handle"} => i >= 1 /\ Len(trace) = i - 1 /\ result = Sender
    /\ at = "handle" => i = chain + 1
    /\ at = "post" => i <= chain /\ chain - i <= Len(trace)
                                 /\ Len(trace) <= chain + 1 + (chain - i)

\* Before the handler, the calls are those of the layers so far, and whoever
\* changed the payload since is one of them.
GateInv ==
    at \in {"pre", "handle"} =>
        \A l \in 1..(i - 1) :
            IsCall(l, "pre", l) /\ (trace[l].payload # payload => payload \in l..chain)

\* In the second loop, the last calls are those of the layers so far, each given
\* what the next one inside it returned; so will the next one be.
LayerInv ==
    at = "post" =>
        /\ i < chain => result \in {trace[Len(trace)].given, i + 1}
        /\ \A l \in (i + 1)..chain :
             LET j == Len(trace) + 1 - (l - i)
             IN  /\ IsCall(j, "post", l)
                 /\ l < chain => trace[j].given \in {trace[j - 1].given, l + 1}
                 /\ l < result => trace[j].given = result

Inv ==
    /\ TypeOK /\ PlaceInv /\ GateInv /\ LayerInv
    /\ HandlerPastAllGates /\ ResponsesPassAllLayers

LEMMA InitInv == Init => Inv
<1> SUFFICES ASSUME Init PROVE Inv
  OBVIOUS
<1> USE MiddlewareAssumption
<1>1. TypeOK
  BY DEF Init, TypeOK, Sender, Layers, Makers, Calls
<1>2. PlaceInv
  BY DEF Init, PlaceInv, Sender, Failed
<1>3. GateInv /\ LayerInv /\ HandlerPastAllGates /\ ResponsesPassAllLayers
  BY DEF Init, GateInv, LayerInv, HandlerPastAllGates, ResponsesPassAllLayers
<1>4. QED
  BY <1>1, <1>2, <1>3 DEF Inv

\* A call adds one entry, made of the payload and the result in hand.
LEMMA CallAdds ==
    ASSUME TypeOK, result # Failed,
           NEW hook \in {"pre", "handle", "post"}, NEW layer \in Makers, Called(hook, layer)
    PROVE  /\ trace' \in Seq(Calls) /\ Len(trace') = Len(trace) + 1
           /\ \A k \in DOMAIN trace : k \in DOMAIN trace' /\ trace'[k] = trace[k]
           /\ LET new == trace'[Len(trace) + 1]
              IN  new.hook = hook /\ new.layer = layer /\ new.payload = payload /\ new.given = result
<1> DEFINE call == [hook |-> hook, layer |-> layer, payload |-> payload, given |-> result]
<1>1. call \in Calls
  BY MiddlewareAssumption DEF TypeOK, Calls, Makers, Layers, Sender, Failed
<1>2. trace \in Seq(Calls) /\ trace' = Append(trace, call)
  BY DEF TypeOK, Called
<1>3. /\ call.hook = hook /\ call.layer = layer /\ call.payload = payload /\ call.given = result
  OBVIOUS
<1> HIDE DEF call
<1>4. QED
  BY <1>1, <1>2, <1>3

\* Calling anything but the handler does not disturb what the handler was given.
LEMMA GatesKept ==
    ASSUME TypeOK, result # Failed, HandlerPastAllGates, chain' = chain,
           NEW hook \in {"pre", "post"}, NEW layer \in Makers, Called(hook, layer)
    PROVE  HandlerPastAllGates'
<1>1. /\ trace' \in Seq(Calls) /\ Len(trace') = Len(trace) + 1
      /\ \A k \in DOMAIN trace : k \in DOMAIN trace' /\ trace'[k] = trace[k]
      /\ trace'[Len(trace) + 1].hook = hook
  BY CallAdds
<1>2. chain \in Nat /\ trace \in Seq(Calls)
  BY MiddlewareAssumption DEF TypeOK
<1> SUFFICES ASSUME NEW h \in DOMAIN trace', trace'[h].hook = "handle"
             PROVE  /\ h = chain + 1
                    /\ \A l \in 1..chain : trace'[l].hook = "pre" /\ trace'[l].layer = l
                    /\ trace'[h].given = Sender
                    /\ \A l \in 1..chain :
                         trace'[l].payload # trace'[h].payload => trace'[h].payload \in l..chain
  BY DEF HandlerPastAllGates, IsCall
<1>3. h \in DOMAIN trace /\ trace'[h] = trace[h]
  BY <1>1, <1>2
<1>4. /\ h = chain + 1
      /\ \A l \in 1..chain : trace[l].hook = "pre" /\ trace[l].layer = l
      /\ trace[h].given = Sender
      /\ \A l \in 1..chain :
           trace[l].payload # trace[h].payload => trace[h].payload \in l..chain
  BY <1>3 DEF HandlerPastAllGates, IsCall
<1>5. \A l \in 1..chain : l \in DOMAIN trace
  BY <1>2, <1>3, <1>4
<1>6. QED
  BY <1>1, <1>3, <1>4, <1>5

LEMMA StepInv == Inv /\ [Next]_vars => Inv'
<1> SUFFICES ASSUME Inv, [Next]_vars PROVE Inv'
  OBVIOUS
<1> USE MiddlewareAssumption
<1>0. /\ chain \in 0..MaxChain /\ i \in 0..(chain + 1) /\ trace \in Seq(Calls)
      /\ payload \in {Sender} \cup Layers /\ result \in Makers \cup {Failed}
  BY DEF Inv, TypeOK
<1>1. CASE PreContinues
  <2>1. /\ at = "pre" /\ at' = "pre" /\ chain' = chain /\ i <= chain /\ i' = i + 1 /\ result' = result
        /\ payload' \in {payload, i} /\ Called("pre", i)
    BY <1>1 DEF PreContinues
  <2>2. i >= 1 /\ Len(trace) = i - 1 /\ result = Sender /\ i \in Layers /\ i \in Makers
    BY <1>0, <2>1 DEF Inv, PlaceInv, Layers, Makers
  <2>3. /\ trace' \in Seq(Calls) /\ Len(trace') = Len(trace) + 1
        /\ \A k \in DOMAIN trace : k \in DOMAIN trace' /\ trace'[k] = trace[k]
        /\ LET new == trace'[Len(trace) + 1]
           IN  new.hook = "pre" /\ new.layer = i /\ new.payload = payload /\ new.given = result
    BY <2>1, <2>2, CallAdds DEF Inv, Sender, Failed
  <2>4. TypeOK'
    BY <1>0, <2>1, <2>2, <2>3 DEF TypeOK, Sender, Makers
  <2>5. PlaceInv'
    BY <1>0, <2>1, <2>2, <2>3 DEF PlaceInv, Sender, Failed
  <2>6. GateInv'
    <3> SUFFICES ASSUME NEW l \in 1..(i' - 1)
                 PROVE  /\ trace'[l].hook = "pre" /\ trace'[l].layer = l
                        /\ trace'[l].payload # payload' => payload' \in l..chain'
      BY DEF GateInv, IsCall
    <3>1. CASE l = i
      BY <1>0, <2>1, <2>2, <2>3, <3>1
    <3>2. CASE l # i
      <4>1. l \in 1..(i - 1) /\ l \in DOMAIN trace /\ trace'[l] = trace[l]
        BY <1>0, <2>1, <2>2, <2>3, <3>2
      <4>2. /\ trace[l].hook = "pre" /\ trace[l].layer = l
            /\ trace[l].payload # payload => payload \in l..chain
        BY <2>1, <4>1 DEF Inv, GateInv, IsCall
      <4>3. QED
        BY <1>0, <2>1, <2>2, <4>1, <4>2
    <3>3. QED
      BY <3>1, <3>2
  <2>7. HandlerPastAllGates'
    BY <2>1, <2>2, GatesKept DEF Inv, Sender, Failed
  <2>8. LayerInv' /\ ResponsesPassAllLayers'
    BY <2>1 DEF LayerInv, ResponsesPassAllLayers
  <2>9. QED
    BY <2>4, <2>5, <2>6, <2>7, <2>8 DEF Inv
<1>2. CASE PreLoopEnds
  <2>1. /\ at = "pre" /\ i > chain /\ at' = "handle"
        /\ UNCHANGED <<chain, i, payload, result, trace>>
    BY <1>2 DEF PreLoopEnds
  <2>2. TypeOK' /\ PlaceInv' /\ GateInv'
    BY <1>0, <2>1 DEF Inv, TypeOK, PlaceInv, GateInv, IsCall
  <2>3. LayerInv' /\ ResponsesPassAllLayers'
    BY <2>1 DEF LayerInv, ResponsesPassAllLayers
  <2>4. HandlerPastAllGates'
    BY <2>1 DEF Inv, HandlerPastAllGates, IsCall
  <2>5. QED
    BY <2>2, <2>3, <2>4 DEF Inv
<1>3. CASE ShortCircuits
  <2>1. /\ at = "pre" /\ at' = "post" /\ chain' = chain /\ i <= chain /\ i' = chain
        /\ result' = i /\ payload' = payload /\ Called("pre", i)
    BY <1>3 DEF ShortCircuits
  <2>2. i >= 1 /\ Len(trace) = i - 1 /\ result = Sender /\ i \in Layers /\ i \in Makers
    BY <1>0, <2>1 DEF Inv, PlaceInv, Layers, Makers
  <2>3. trace' \in Seq(Calls) /\ Len(trace') = Len(trace) + 1
    BY <2>1, <2>2, CallAdds DEF Inv, Sender, Failed
  <2>4. TypeOK'
    BY <1>0, <2>1, <2>2, <2>3 DEF TypeOK
  <2>5. PlaceInv' /\ GateInv' /\ LayerInv' /\ ResponsesPassAllLayers'
    BY <1>0, <2>1, <2>2, <2>3
    DEF PlaceInv, GateInv, LayerInv, ResponsesPassAllLayers, Failed
  <2>6. HandlerPastAllGates'
    BY <2>1, <2>2, GatesKept DEF Inv, Sender, Failed
  <2>7. QED
    BY <2>4, <2>5, <2>6 DEF Inv
<1>4. CASE PreFails
  <2>1. /\ at = "pre" /\ at' = "done" /\ chain' = chain /\ i <= chain /\ i' = i
        /\ result' = Failed /\ payload' = payload /\ Called("pre", i)
    BY <1>4 DEF PreFails
  <2>2. i >= 1 /\ Len(trace) = i - 1 /\ result = Sender /\ i \in Makers
    BY <1>0, <2>1 DEF Inv, PlaceInv, Makers
  <2>3. trace' \in Seq(Calls) /\ Len(trace') = Len(trace) + 1
    BY <2>1, <2>2, CallAdds DEF Inv, Sender, Failed
  <2>4. TypeOK'
    BY <1>0, <2>1, <2>2, <2>3 DEF TypeOK
  <2>5. PlaceInv' /\ GateInv' /\ LayerInv' /\ ResponsesPassAllLayers'
    BY <2>1 DEF PlaceInv, GateInv, LayerInv, ResponsesPassAllLayers
  <2>6. HandlerPastAllGates'
    BY <2>1, <2>2, GatesKept DEF Inv, Sender, Failed
  <2>7. QED
    BY <2>4, <2>5, <2>6 DEF Inv
<1>5. ASSUME at = "handle", Called("handle", HandlerItself), chain' = chain
      PROVE  /\ trace' \in Seq(Calls) /\ Len(trace') = chain + 1
             /\ HandlerPastAllGates'
  <2>1. /\ i = chain + 1 /\ Len(trace) = chain /\ result = Sender /\ HandlerItself \in Makers
    BY <1>0, <1>5 DEF Inv, PlaceInv, HandlerItself, Makers
  <2>2. /\ trace' \in Seq(Calls) /\ Len(trace') = Len(trace) + 1
        /\ \A k \in DOMAIN trace : k \in DOMAIN trace' /\ trace'[k] = trace[k]
        /\ LET new == trace'[Len(trace) + 1]
           IN  new.hook = "handle" /\ new.layer = HandlerItself
               /\ new.payload = payload /\ new.given = result
    BY <1>5, <2>1, CallAdds DEF Inv, Sender, Failed
  <2>3. \A l \in 1..chain : /\ trace'[l].hook = "pre" /\ trace'[l].layer = l
                            /\ trace'[l].payload # payload => payload \in l..chain
    <3> SUFFICES ASSUME NEW l \in 1..chain
                 PROVE  /\ trace'[l].hook = "pre" /\ trace'[l].layer = l
                        /\ trace'[l].payload # payload => payload \in l..chain
      OBVIOUS
    <3>1. l \in DOMAIN trace /\ l \in 1..(i - 1)
      BY <1>0, <2>1
    <3>2. /\ trace[l].hook = "pre" /\ trace[l].layer = l
          /\ trace[l].payload # payload => payload \in l..chain
      BY <1>5, <3>1 DEF Inv, GateInv, IsCall
    <3>3. QED
      BY <2>2, <3>1, <3>2
  <2>4. ASSUME NEW h \in DOMAIN trace', trace'[h].hook = "handle"
        PROVE  h = chain + 1
    <3>1. h \in 1..(chain + 1)
      BY <2>1, <2>2
    <3>2. h \notin 1..chain
      BY <2>3, <2>4
    <3>3. QED
      BY <1>0, <3>1, <3>2
  <2>5. HandlerPastAllGates'
    BY <1>5, <2>1, <2>2, <2>3, <2>4 DEF HandlerPastAllGates, IsCall
  <2>6. QED
    BY <2>1, <2>2, <2>5
<1>6. CASE HandlerFails
  <2>1. /\ at = "handle" /\ at' = "done" /\ chain' = chain /\ i' = i
        /\ result' = Failed /\ payload' = payload /\ Called("handle", HandlerItself)
    BY <1>6 DEF HandlerFails
  <2>2. trace' \in Seq(Calls) /\ Len(trace') = chain + 1 /\ HandlerPastAllGates'
    BY <1>5, <2>1
  <2>3. TypeOK'
    BY <1>0, <2>1, <2>2 DEF TypeOK
  <2>4. PlaceInv' /\ GateInv' /\ LayerInv' /\ ResponsesPassAllLayers'
    BY <2>1 DEF PlaceInv, GateInv, LayerInv, ResponsesPassAllLayers
  <2>5. QED
    BY <2>2, <2>3, <2>4 DEF Inv
<1>7. CASE HandlerResponds
  <2>1. /\ at = "handle" /\ at' = "post" /\ chain' = chain /\ i' = chain
        /\ result' = HandlerItself /\ payload' = payload /\ Called("handle", HandlerItself)
    BY <1>7 DEF HandlerResponds
  <2>2. trace' \in Seq(Calls) /\ Len(trace') = chain + 1 /\ HandlerPastAllGates'
    BY <1>5, <2>1
  <2>3. TypeOK'
    BY <1>0, <2>1, <2>2 DEF TypeOK, HandlerItself, Makers
  <2>4. PlaceInv' /\ GateInv' /\ LayerInv' /\ ResponsesPassAllLayers'
    BY <1>0, <2>1, <2>2
    DEF PlaceInv, GateInv, LayerInv, ResponsesPassAllLayers, HandlerItself, Failed
  <2>5. QED
    BY <2>2, <2>3, <2>4 DEF Inv
<1>8. CASE PostReturns
  <2>1. /\ at = "post" /\ at' = "post" /\ chain' = chain /\ i >= 1 /\ i' = i - 1
        /\ result' \in {result, i} /\ payload' = payload /\ Called("post", i)
    BY <1>8 DEF PostReturns
  <2>2. /\ i <= chain /\ chain - i <= Len(trace) /\ Len(trace) <= chain + 1 + (chain - i)
        /\ result # Failed /\ i \in Makers
    BY <1>0, <2>1 DEF Inv, PlaceInv, Makers
  <2>3. /\ trace' \in Seq(Calls) /\ Len(trace') = Len(trace) + 1
        /\ \A k \in DOMAIN trace : k \in DOMAIN trace' /\ trace'[k] = trace[k]
        /\ LET new == trace'[Len(trace) + 1]
           IN  new.hook = "post" /\ new.layer = i /\ new.payload = payload /\ new.given = result
    BY <2>1, <2>2, CallAdds DEF Inv
  <2>4. TypeOK'
    BY <1>0, <2>1, <2>2, <2>3 DEF TypeOK, Makers
  <2>5. PlaceInv' /\ GateInv' /\ ResponsesPassAllLayers'
    BY <1>0, <2>1, <2>2, <2>3 DEF PlaceInv, GateInv, ResponsesPassAllLayers, Failed
  <2>6. HandlerPastAllGates'
    BY <2>1, <2>2, GatesKept DEF Inv
  <2>7. LayerInv'
    <3>1. i' < chain' => result' \in {trace'[Len(trace')].given, i' + 1}
      BY <1>0, <2>1, <2>3
    <3>2. ASSUME NEW l \in (i' + 1)..chain', NEW j, j = Len(trace') + 1 - (l - i')
          PROVE  /\ trace'[j].hook = "post" /\ trace'[j].layer = l
                 /\ l < chain' => trace'[j].given \in {trace'[j - 1].given, l + 1}
                 /\ l < result' => trace'[j].given = result'
      <4>0. l \in i..chain /\ l \in Int /\ j = Len(trace) + 1 - (l - i) /\ j \in Int
        BY <1>0, <2>1, <2>3, <3>2
      <4>1. CASE l = i
        <5>1. /\ j = Len(trace) + 1 /\ trace'[j].given = result
              /\ trace'[j].hook = "post" /\ trace'[j].layer = l
          BY <1>0, <2>3, <4>0, <4>1
        <5>2. l < chain => result \in {trace[Len(trace)].given, i + 1}
          BY <2>1, <4>1 DEF Inv, LayerInv
        <5>3. l < chain => trace'[j - 1] = trace[Len(trace)]
          BY <1>0, <2>2, <2>3, <4>1, <5>1
        <5>4. l < result' => result' = result
          BY <1>0, <2>1, <4>1
        <5>5. QED
          BY <2>1, <4>1, <5>1, <5>2, <5>3, <5>4
      <4>2. CASE l # i
        <5>1. l \in (i + 1)..chain /\ j \in DOMAIN trace /\ trace'[j] = trace[j]
          BY <1>0, <2>2, <2>3, <4>0, <4>2
        <5>2. /\ trace[j].hook = "post" /\ trace[j].layer = l
              /\ l < chain => trace[j].given \in {trace[j - 1].given, l + 1}
              /\ l < result => trace[j].given = result
          BY <2>1, <4>0, <5>1 DEF Inv, LayerInv, IsCall
        <5>3. l < chain => trace'[j - 1] = trace[j - 1]
          BY <1>0, <2>2, <2>3, <4>0, <5>1, SMTT(30)
        <5>4. l < result' => result' = result
          BY <1>0, <2>1, <4>0, <5>1
        <5>5. QED
          BY <2>1, <5>1, <5>2, <5>3, <5>4
      <4>3. QED
        BY <4>1, <4>2
    <3>3. QED
      BY <3>1, <3>2 DEF LayerInv, IsCall
  <2>8. QED
    BY <2>4, <2>5, <2>6, <2>7 DEF Inv
<1>9. CASE PostFails
  <2>1. /\ at = "post" /\ at' = "done" /\ chain' = chain /\ i >= 1 /\ i' = i
        /\ result' = Failed /\ payload' = payload /\ Called("post", i)
    BY <1>9 DEF PostFails
  <2>2. /\ i <= chain /\ Len(trace) <= chain + 1 + (chain - i) /\ result # Failed /\ i \in Makers
    BY <1>0, <2>1 DEF Inv, PlaceInv, Makers
  <2>3. trace' \in Seq(Calls) /\ Len(trace') = Len(trace) + 1
    BY <2>1, <2>2, CallAdds DEF Inv
  <2>4. TypeOK'
    BY <1>0, <2>1, <2>2, <2>3 DEF TypeOK
  <2>5. PlaceInv' /\ GateInv' /\ LayerInv' /\ ResponsesPassAllLayers'
    BY <2>1 DEF PlaceInv, GateInv, LayerInv, ResponsesPassAllLayers
  <2>6. HandlerPastAllGates'
    BY <2>1, <2>2, GatesKept DEF Inv
  <2>7. QED
    BY <2>4, <2>5, <2>6 DEF Inv
<1>10. CASE PostLoopEnds
  <2>1. /\ at = "post" /\ i = 0 /\ at' = "done"
        /\ UNCHANGED <<chain, i, payload, result, trace>>
    BY <1>10 DEF PostLoopEnds
  <2>2. TypeOK' /\ PlaceInv' /\ GateInv' /\ LayerInv'
    BY <2>1 DEF Inv, TypeOK, PlaceInv, GateInv, LayerInv
  <2>3. HandlerPastAllGates'
    BY <2>1 DEF Inv, HandlerPastAllGates, IsCall
  <2>4. ASSUME NEW l \in 1..chain, NEW j, j = Len(trace) + 1 - l
        PROVE  /\ j \in DOMAIN trace /\ trace[j].hook = "post" /\ trace[j].layer = l
               /\ l < chain => trace[j].given \in {trace[j - 1].given, l + 1}
               /\ l < result => trace[j].given = result
    <3>1. j \in DOMAIN trace /\ l \in (i + 1)..chain /\ j = Len(trace) + 1 - (l - i)
      BY <1>0, <2>1, <2>4 DEF Inv, PlaceInv
    <3>2. QED
      BY <2>1, <3>1 DEF Inv, LayerInv, IsCall
  <2>5. ResponsesPassAllLayers'
    BY <2>1, <2>4 DEF ResponsesPassAllLayers, IsCall
  <2>6. QED
    BY <2>2, <2>3, <2>5 DEF Inv
<1>11. CASE UNCHANGED vars
  BY <1>11 DEF vars, Inv, TypeOK, PlaceInv, GateInv, LayerInv, HandlerPastAllGates,
               ResponsesPassAllLayers, IsCall
<1>12. QED
  BY <1>1, <1>2, <1>3, <1>4, <1>6, <1>7, <1>8, <1>9, <1>10, <1>11 DEF Next

LEMMA InvHolds == Spec => []Inv
BY InitInv, StepInv, PTL DEF Spec

\* The variables keep their types, and no call of a hook is given the outcome of
\* a failure (process_message, pipeline.rs:566-622).
THEOREM TypeCorrect == Spec => []TypeOK
<1>1. Inv => TypeOK
  BY DEF Inv
<1>2. QED
  BY <1>1, InvHolds, PTL

\* No handler is called past a middleware that did not let the payload through,
\* however many there are (pipeline.rs:570-594).
THEOREM GatesHold == Spec => []HandlerPastAllGates
<1>1. Inv => HandlerPastAllGates
  BY DEF Inv
<1>2. QED
  BY <1>1, InvHolds, PTL

\* No response gets out but through every layer, the inner ones first
\* (pipeline.rs:597-622).
THEOREM LayersSeeResponses == Spec => []ResponsesPassAllLayers
<1>1. Inv => ResponsesPassAllLayers
  BY DEF Inv
<1>2. QED
  BY <1>1, InvHolds, PTL
-----------------------------------------------------------------------------
(* The validator of documents.                                             *)

\* While it reads, nothing it would refuse has been seen, and it has missed
\* nothing: inside of an element, a root has been found.
VInv ==
    /\ schema \in Schemas /\ path \in Seq(Elements)
    /\ valid \in {None, "ok", "error"}
    /\ foundRoot \in BOOLEAN /\ foundFields \subseteq Elements
    /\ valid = None =>
         /\ depth = Len(path)
         /\ roots \subseteq {schema.root} /\ (foundRoot <=> roots # {})
         /\ path # <<>> => foundRoot
         /\ foundFields = children
         /\ schema.strict => children \subseteq schema.fields
    /\ V!ValidatorsAgree

LEMMA InitValidator == V!ValidationAssumption /\ V!Init => VInv
<1> SUFFICES ASSUME V!ValidationAssumption, V!Init PROVE VInv
  OBVIOUS
<1>1. /\ schema \in Schemas /\ depth = 0 /\ foundRoot = FALSE /\ foundFields = {} /\ valid = None
      /\ path = <<>> /\ roots = {} /\ children = {}
  BY DEF V!Init
<1>2. V!ValidatorsAgree
  BY <1>1 DEF V!ValidatorsAgree
<1>3. path \in Seq(Elements) /\ Len(path) = 0
  BY <1>1
<1>4. QED
  BY <1>1, <1>2, <1>3 DEF VInv

\* A start tag, however it is closed.
LEMMA TagStep ==
    ASSUME V!ValidationAssumption, VInv, valid = None, NEW tag \in Elements,
           V!Appears(tag), V!Tagged(tag, depth + 1), schema' = schema
    PROVE  /\ valid' \in {None, "ok", "error"}
           /\ foundRoot' \in BOOLEAN /\ foundFields' \subseteq Elements
           /\ valid' = None =>
                /\ roots' \subseteq {schema.root} /\ (foundRoot' <=> roots' # {})
                /\ foundRoot'
                /\ foundFields' = children'
                /\ schema.strict => children' \subseteq schema.fields
           /\ V!ValidatorsAgree'
<1> USE DEF V!ValidationAssumption
<1>1. /\ path \in Seq(Elements) /\ depth = Len(path) /\ Len(path) \in Nat
      /\ roots \subseteq {schema.root} /\ (foundRoot <=> roots # {})
      /\ path # <<>> => foundRoot
      /\ foundRoot \in BOOLEAN /\ foundFields = children /\ foundFields \subseteq Elements
      /\ schema.strict => children \subseteq schema.fields
      /\ path = <<>> <=> Len(path) = 0
  BY DEF VInv
<1>2. CASE Len(path) = 0
  <2>1. roots' = roots \cup {tag} /\ children' = children
    BY <1>1, <1>2 DEF V!Appears
  <2>2. /\ valid' = IF tag # schema.root THEN "error" ELSE None
        /\ foundRoot' = (foundRoot \/ tag = schema.root)
        /\ foundFields' = foundFields
    BY <1>1, <1>2 DEF V!Tagged
  <2>3. QED
    BY <1>1, <2>1, <2>2 DEF V!ValidatorsAgree
<1>3. CASE Len(path) = 1
  <2>1. roots' = roots /\ children' = children \cup {tag}
    BY <1>1, <1>3 DEF V!Appears
  <2>2. /\ valid' = IF schema.strict /\ tag \notin schema.fields THEN "error" ELSE None
        /\ foundRoot' = foundRoot /\ foundRoot
        /\ foundFields' = IF schema.strict /\ tag \notin schema.fields
                          THEN foundFields ELSE foundFields \cup {tag}
    <3>1. foundRoot /\ depth + 1 = 2
      BY <1>1, <1>3
    <3>2. valid' = (IF schema.strict /\ tag \notin schema.fields THEN "error" ELSE None)
      BY <3>1 DEF V!Tagged
    <3>3. foundRoot' = foundRoot
      BY <3>1 DEF V!Tagged
    <3>4. foundFields' = (IF schema.strict /\ tag \notin schema.fields
                          THEN foundFields ELSE foundFields \cup {tag})
      BY <3>1 DEF V!Tagged
    <3>5. QED
      BY <3>1, <3>2, <3>3, <3>4
  <2>3. QED
    BY <1>1, <2>1, <2>2 DEF V!ValidatorsAgree, V!ValueConforms
<1>4. CASE Len(path) > 1
  <2>1. roots' = roots /\ children' = children
    BY <1>1, <1>4 DEF V!Appears
  <2>2. valid' = None /\ foundRoot' = foundRoot /\ foundFields' = foundFields
    BY <1>1, <1>4 DEF V!Tagged
  <2>3. QED
    BY <1>1, <1>4, <2>1, <2>2 DEF V!ValidatorsAgree
<1>5. QED
  BY <1>1, <1>2, <1>3, <1>4

LEMMA NextValidator == V!ValidationAssumption /\ VInv /\ [V!Next]_(V!vars) => VInv'
<1> SUFFICES ASSUME V!ValidationAssumption, VInv, [V!Next]_(V!vars) PROVE VInv'
  OBVIOUS
<1>1. ASSUME NEW tag \in Elements, V!Start(tag)
      PROVE  VInv'
  <2>1. /\ valid = None /\ V!Appears(tag) /\ schema' = schema
        /\ depth' = depth + 1 /\ path' = Append(path, tag)
        /\ V!Tagged(tag, depth + 1)
    BY <1>1 DEF V!Start, V!Tagged
  <2>2. path' \in Seq(Elements) /\ Len(path') = Len(path) + 1
    BY <2>1 DEF VInv
  <2>3. QED
    BY <2>1, <2>2, TagStep DEF VInv
<1>2. ASSUME NEW tag \in Elements, V!Empty(tag)
      PROVE  VInv'
  <2>1. /\ valid = None /\ V!Appears(tag) /\ UNCHANGED <<schema, depth, path>>
        /\ V!Tagged(tag, depth + 1)
    BY <1>2 DEF V!Empty
  <2>2. QED
    BY <2>1, TagStep DEF VInv
<1>3. CASE V!End
  <2>1. /\ valid = None /\ path # <<>> /\ path' = SubSeq(path, 1, Len(path) - 1)
        /\ depth' = depth - 1
        /\ UNCHANGED <<schema, foundRoot, foundFields, valid, roots, children>>
    BY <1>3 DEF V!End
  <2>2. path' \in Seq(Elements) /\ Len(path') = Len(path) - 1
    BY <2>1 DEF VInv
  <2>3. QED
    BY <2>1, <2>2 DEF VInv, V!ValidatorsAgree
<1>4. CASE V!Eof
  <2>1. /\ valid = None
        /\ valid' = IF foundRoot /\ schema.required \subseteq foundFields THEN "ok" ELSE "error"
        /\ UNCHANGED <<schema, depth, foundRoot, foundFields, path, roots, children>>
    BY <1>4 DEF V!Eof, V!doc
  <2>2. QED
    BY <2>1 DEF VInv, V!ValidatorsAgree, V!ValueConforms, V!ValidationAssumption
<1>5. CASE UNCHANGED V!vars
  BY <1>5 DEF V!vars, V!doc, VInv, V!ValidatorsAgree, V!ValueConforms
<1>6. QED
  BY <1>1, <1>2, <1>3, <1>4, <1>5 DEF V!Next

\* validate_payload accepts a document just if validate_payload_value would
\* accept a record of what its roots contain, for every schema and every
\* document (validation.rs:60-198).
THEOREM ValidatorAgrees ==
    ASSUME V!ValidationAssumption
    PROVE  V!Spec => []ValidatorsAgree
<1>1. V!Init => VInv
  BY InitValidator
<1>2. VInv /\ [V!Next]_(V!vars) => VInv'
  BY NextValidator
<1>3. VInv => ValidatorsAgree
  BY DEF VInv, V!TypeOK, ValidatorsAgree
<1>4. QED
  BY <1>1, <1>2, <1>3, PTL DEF V!Spec
-----------------------------------------------------------------------------
(* The tables of listeners.                                                *)

KeyOf(q) == L!RouteKey(q.name, q.tag)
HasSchema(q, tag) == q.schema # NoSchema /\ q.schema.root = tag

\* What is kept by name is of registration k, the last under that name.
Governs(k, n) ==
    /\ k \in DOMAIN log /\ log[k].name = n
    /\ \A j \in DOMAIN log : log[j].name = n => j <= k
    /\ handlers[n] = k
    /\ byName[n] = [name |-> n, isAgent |-> log[k].isAgent, peers |-> log[k].peers]
    /\ listeners[n] = [tag |-> log[k].tag, isAgent |-> log[k].isAgent, peers |-> log[k].peers]

\* The route of a key leads to registration k, the first with that key.
Leads(k, key) ==
    /\ k \in DOMAIN log /\ KeyOf(log[k]) = key
    /\ \A j \in DOMAIN log : KeyOf(log[j]) = key => k <= j
    /\ Head(routes[key]).name = log[k].name

\* The schema of a tag is that of registration k, the last with one for it.
Checks(k, tag) ==
    /\ k \in DOMAIN log /\ HasSchema(log[k], tag)
    /\ \A j \in DOMAIN log : HasSchema(log[j], tag) => j <= k
    /\ schemas[tag] = log[k].schema

TInv ==
    /\ L!TypeOK
    /\ \A n \in DOMAIN handlers : \E k : Governs(k, n)
    /\ \A j \in DOMAIN log : log[j].name \in DOMAIN handlers
    /\ \A key \in DOMAIN routes : \E k : Leads(k, key)
    /\ \A j \in DOMAIN log : KeyOf(log[j]) \in DOMAIN routes
    /\ \A tag \in DOMAIN schemas : \E k : Checks(k, tag)
    /\ \A j \in DOMAIN log : log[j].schema # NoSchema => log[j].schema.root \in DOMAIN schemas

LEMMA InitTables == L!ListenersAssumption /\ L!Init => TInv
<1> SUFFICES ASSUME L!ListenersAssumption, L!Init PROVE TInv
  OBVIOUS
<1>1. /\ DOMAIN handlers = {} /\ DOMAIN routes = {} /\ DOMAIN byName = {}
      /\ DOMAIN schemas = {} /\ DOMAIN listeners = {} /\ log = <<>>
  BY DEF L!Init, L!EmptyMap
<1>2. L!TypeOK
  BY <1>1 DEF L!Init, L!EmptyMap, L!TypeOK, L!ListenersAssumption
<1>3. QED
  BY <1>1, <1>2 DEF TInv

\* What a registration does to each table.
LEMMA RegisterFacts ==
    ASSUME L!ListenersAssumption, TInv, NEW q \in Registrations, L!Register(q)
    PROVE  /\ q \in L!Registration
           /\ log' = Append(log, q) /\ log' \in Seq(Registrations) /\ Len(log') <= MaxRegistered
           /\ DOMAIN log' = DOMAIN log \cup {Len(log) + 1} /\ Len(log) + 1 \notin DOMAIN log
           /\ \A j \in DOMAIN log : log'[j] = log[j] /\ j <= Len(log)
           /\ log'[Len(log) + 1] = q /\ Len(log) \in Nat
           /\ DOMAIN log \subseteq Nat
<1>1. log \in Seq(Registrations) /\ log' = Append(log, q) /\ Len(log) < MaxRegistered
  BY DEF TInv, L!TypeOK, L!Register
<1>2. q \in L!Registration /\ MaxRegistered \in Nat
  BY DEF L!ListenersAssumption
<1>3. QED
  BY <1>1, <1>2

LEMMA RegisterByName ==
    ASSUME L!ListenersAssumption, TInv, NEW q \in Registrations, L!Register(q)
    PROVE  /\ handlers' \in [DOMAIN handlers' -> 1..Len(log')] /\ DOMAIN handlers' \subseteq Names
           /\ byName' \in [DOMAIN handlers' -> L!Entry]
           /\ listeners' \in [DOMAIN handlers' -> [tag : Tags, isAgent : BOOLEAN, peers : SUBSET Names]]
           /\ \A n \in DOMAIN handlers' : \E k : Governs(k, n)'
           /\ \A j \in DOMAIN log' : log'[j].name \in DOMAIN handlers'
<1>1. PICK k, e, described :
        /\ k = Len(log) + 1
        /\ e = [name |-> q.name, isAgent |-> q.isAgent, peers |-> q.peers]
        /\ described = [tag |-> q.tag, isAgent |-> q.isAgent, peers |-> q.peers]
  OBVIOUS
<1>2. /\ handlers' = L!Put(handlers, q.name, k)
      /\ byName' = L!Put(byName, q.name, e)
      /\ listeners' = L!Put(listeners, q.name, described)
  BY <1>1 DEF L!Register
<1>3. /\ q.name \in Names /\ e \in L!Entry
      /\ described \in [tag : Tags, isAgent : BOOLEAN, peers : SUBSET Names]
  BY <1>1, RegisterFacts DEF L!Registration, L!Entry
<1>4. /\ handlers \in [DOMAIN handlers -> 1..Len(log)] /\ DOMAIN handlers \subseteq Names
      /\ byName \in [DOMAIN handlers -> L!Entry]
      /\ listeners \in [DOMAIN handlers -> [tag : Tags, isAgent : BOOLEAN, peers : SUBSET Names]]
  BY DEF TInv, L!TypeOK
<1>5. Len(log') = k /\ k \in Nat /\ k \in 1..k /\ 1..Len(log) \subseteq 1..k
  BY <1>1, RegisterFacts
<1>6. /\ handlers' \in [DOMAIN handlers' -> 1..Len(log')]
      /\ DOMAIN handlers' = DOMAIN handlers \cup {q.name}
      /\ handlers'[q.name] = k /\ \A n \in DOMAIN handlers : n # q.name => handlers'[n] = handlers[n]
  BY <1>2, <1>4, <1>5 DEF L!Put
<1>7. /\ byName' \in [DOMAIN byName' -> L!Entry]
      /\ DOMAIN byName' = DOMAIN handlers'
      /\ byName'[q.name] = e /\ \A n \in DOMAIN handlers : n # q.name => byName'[n] = byName[n]
  BY <1>2, <1>3, <1>4, <1>6 DEF L!Put
<1>8. /\ listeners' \in [DOMAIN listeners' -> [tag : Tags, isAgent : BOOLEAN, peers : SUBSET Names]]
      /\ DOMAIN listeners' = DOMAIN handlers'
      /\ listeners'[q.name] = described /\ \A n \in DOMAIN handlers : n # q.name => listeners'[n] = listeners[n]
  BY <1>2, <1>3, <1>4, <1>6 DEF L!Put
<1>9. ASSUME NEW n \in DOMAIN handlers'
      PROVE  \E x : Governs(x, n)'
  <2>1. CASE n = q.name
    <3>1. Governs(k, n)'
      BY <1>1, <1>6, <1>7, <1>8, <2>1, RegisterFacts DEF Governs
    <3>2. QED
      BY <3>1
  <2>2. CASE n # q.name
    <3>1. n \in DOMAIN handlers
      BY <1>6, <2>2
    <3>2. PICK x : Governs(x, n)
      BY <3>1 DEF TInv
    <3>3. Governs(x, n)'
      BY <1>6, <1>7, <1>8, <2>2, <3>1, <3>2, RegisterFacts DEF Governs
    <3>4. QED
      BY <3>3
  <2>3. QED
    BY <2>1, <2>2
<1>10. \A j \in DOMAIN log' : log'[j].name \in DOMAIN handlers'
  BY <1>6, RegisterFacts DEF TInv
<1>11. QED
  BY <1>3, <1>4, <1>6, <1>7, <1>8, <1>9, <1>10

LEMMA RegisterRoute ==
    ASSUME L!ListenersAssumption, TInv, NEW q \in Registrations, L!Register(q)
    PROVE  /\ routes' \in [DOMAIN routes' -> Seq(L!Entry) \ {<<>>}]
           /\ DOMAIN routes' \subseteq {L!RouteKey(n, t) : n \in Names, t \in Tags}
           /\ \A key \in DOMAIN routes' : \E k : Leads(k, key)'
           /\ \A j \in DOMAIN log' : KeyOf(log'[j]) \in DOMAIN routes'
<1>1. PICK e, key : /\ e = [name |-> q.name, isAgent |-> q.isAgent, peers |-> q.peers]
                    /\ key = KeyOf(q)
  OBVIOUS
<1>2. e \in L!Entry /\ e.name = q.name
  BY <1>1, RegisterFacts DEF L!Registration, L!Entry
<1>3. key \in {L!RouteKey(n, t) : n \in Names, t \in Tags}
  BY <1>1, RegisterFacts DEF L!Registration, KeyOf
<1>4. routes' = L!Push(routes, key, e)
  BY <1>1 DEF L!Register, KeyOf
<1>5. /\ routes \in [DOMAIN routes -> Seq(L!Entry) \ {<<>>}]
      /\ DOMAIN routes \subseteq {L!RouteKey(n, t) : n \in Names, t \in Tags}
  BY DEF TInv, L!TypeOK
<1> DEFINE Path == Seq(L!Entry) \ {<<>>}
<1>a. PICK w : w = IF key \in DOMAIN routes THEN Append(routes[key], e) ELSE <<e>>
  OBVIOUS
<1>b. w \in Path /\ Head(w) = IF key \in DOMAIN routes THEN Head(routes[key]) ELSE e
  <2>1. CASE key \in DOMAIN routes
    <3>1. PICK s : s = routes[key]
      OBVIOUS
    <3>2. s \in Seq(L!Entry) /\ s # <<>>
      BY <1>5, <2>1, <3>1
    <3>3. w = Append(s, e)
      BY <1>a, <2>1, <3>1
    <3>4. QED
      BY <1>2, <2>1, <3>1, <3>2, <3>3
  <2>2. CASE key \notin DOMAIN routes
    BY <1>2, <1>a, <2>2
  <2>3. QED
    BY <2>1, <2>2
<1>c. routes' = L!Put(routes, key, w)
  BY <1>4, <1>a DEF L!Push
<1>d. routes \in [DOMAIN routes -> Path]
  BY <1>5
<1> HIDE DEF Path
<1>6. /\ routes' \in [DOMAIN routes' -> Path]
      /\ DOMAIN routes' = DOMAIN routes \cup {key}
      /\ Head(routes'[key]) = IF key \in DOMAIN routes THEN Head(routes[key]) ELSE e
      /\ \A x \in DOMAIN routes : x # key => routes'[x] = routes[x]
  BY <1>b, <1>c, <1>d DEF L!Put
<1>7. \A j \in DOMAIN log' : KeyOf(log'[j]) \in DOMAIN routes'
  BY <1>1, <1>6, RegisterFacts DEF TInv
<1>8. ASSUME NEW x \in DOMAIN routes'
      PROVE  \E k : Leads(k, x)'
  <2>1. CASE x \in DOMAIN routes
    <3>1. PICK k : Leads(k, x)
      BY <2>1 DEF TInv
    <3>2. Head(routes'[x]) = Head(routes[x])
      BY <1>6, <2>1
    <3>3. k \in Nat /\ k <= Len(log) + 1
      BY <3>1, RegisterFacts DEF Leads
    <3>4. Leads(k, x)'
      BY <3>1, <3>2, <3>3, RegisterFacts DEF Leads, KeyOf, L!RouteKey
    <3>5. QED
      BY <3>4
  <2>2. CASE x \notin DOMAIN routes
    <3>1. x = key /\ Head(routes'[x]) = e
      BY <1>6, <2>2
    <3>2. \A j \in DOMAIN log : KeyOf(log[j]) # x
      BY <2>2 DEF TInv
    <3>3. PICK k : k = Len(log) + 1
      OBVIOUS
    <3>4. Leads(k, x)'
      <4>1. k \in DOMAIN log' /\ log'[k] = q
        BY <3>3, RegisterFacts
      <4>2. \A j \in DOMAIN log' : KeyOf(log'[j]) = x => j = k
        BY <3>2, <3>3, RegisterFacts
      <4>3. Head(routes'[x]).name = log'[k].name
        BY <1>2, <3>1, <4>1
      <4>4. \A j \in DOMAIN log' : KeyOf(log'[j]) = x => k <= j
        BY <3>3, <4>2, RegisterFacts
      <4>5. QED
        BY <1>1, <3>1, <4>1, <4>3, <4>4 DEF Leads, KeyOf, L!RouteKey
    <3>5. QED
      BY <3>4
  <2>3. QED
    BY <2>1, <2>2
<1>9. QED
  BY <1>3, <1>5, <1>6, <1>7, <1>8 DEF Path

LEMMA RegisterSchema ==
    ASSUME L!ListenersAssumption, TInv, NEW q \in Registrations, L!Register(q)
    PROVE  /\ schemas' \in [DOMAIN schemas' -> L!Schema] /\ DOMAIN schemas' \subseteq Tags
           /\ \A tag \in DOMAIN schemas' : \E k : Checks(k, tag)'
           /\ \A j \in DOMAIN log' :
                log'[j].schema # NoSchema => log'[j].schema.root \in DOMAIN schemas'
<1>1. schemas \in [DOMAIN schemas -> L!Schema] /\ DOMAIN schemas \subseteq Tags
  BY DEF TInv, L!TypeOK
<1>2. schemas' = IF q.schema = NoSchema THEN schemas ELSE L!Put(schemas, q.schema.root, q.schema)
  BY DEF L!Register
<1>3. q.schema # NoSchema => q.schema \in L!Schema /\ q.schema.root \in Tags
  BY RegisterFacts DEF L!Registration, L!Schema
<1>4. ASSUME NEW tag, NEW k, Checks(k, tag), ~HasSchema(q, tag), schemas'[tag] = schemas[tag]
      PROVE  \E x : Checks(x, tag)'
  <2>1. Checks(k, tag)'
    BY <1>4, RegisterFacts DEF Checks, HasSchema
  <2>2. QED
    BY <2>1
<1>5. CASE q.schema = NoSchema
  <2>1. schemas' = schemas
    BY <1>2, <1>5
  <2>2. \A tag \in DOMAIN schemas' : \E k : Checks(k, tag)'
    BY <1>4, <1>5, <2>1 DEF TInv, HasSchema
  <2>3. QED
    BY <1>1, <1>5, <2>1, <2>2, RegisterFacts DEF TInv
<1>6. CASE q.schema # NoSchema
  <2>1. /\ schemas' \in [DOMAIN schemas' -> L!Schema]
        /\ DOMAIN schemas' = DOMAIN schemas \cup {q.schema.root}
        /\ schemas'[q.schema.root] = q.schema
        /\ \A x \in DOMAIN schemas : x # q.schema.root => schemas'[x] = schemas[x]
    BY <1>1, <1>2, <1>3, <1>6 DEF L!Put
  <2>2. ASSUME NEW tag \in DOMAIN schemas'
        PROVE  \E k : Checks(k, tag)'
    <3>1. CASE tag = q.schema.root
      <4>1. PICK k : k = Len(log) + 1
        OBVIOUS
      <4>2. Checks(k, tag)'
        BY <1>6, <2>1, <3>1, <4>1, RegisterFacts DEF Checks, HasSchema
      <4>3. QED
        BY <4>2
    <3>2. CASE tag # q.schema.root
      BY <1>4, <2>1, <3>2 DEF TInv, HasSchema
    <3>3. QED
      BY <3>1, <3>2
  <2>3. \A j \in DOMAIN log' : log'[j].schema # NoSchema => log'[j].schema.root \in DOMAIN schemas'
    BY <2>1, RegisterFacts DEF TInv
  <2>4. QED
    BY <1>1, <1>3, <1>6, <2>1, <2>2, <2>3
<1>7. QED
  BY <1>5, <1>6

LEMMA NextTables == L!ListenersAssumption /\ TInv /\ [L!Next]_(L!vars) => TInv'
<1> SUFFICES ASSUME L!ListenersAssumption, TInv, [L!Next]_(L!vars) PROVE TInv'
  OBVIOUS
<1>1. ASSUME NEW q \in Registrations, L!Register(q)
      PROVE  TInv'
  <2>1. L!TypeOK'
    BY <1>1, RegisterFacts, RegisterByName, RegisterRoute, RegisterSchema DEF L!TypeOK
  <2>2. QED
    BY <1>1, <2>1, RegisterByName, RegisterRoute, RegisterSchema DEF TInv
<1>2. CASE UNCHANGED L!vars
  BY <1>2 DEF L!vars, TInv, L!TypeOK, Governs, Leads, Checks, KeyOf, L!RouteKey
<1>3. QED
  BY <1>1, <1>2 DEF L!Next

LEMMA AllTables == ASSUME L!ListenersAssumption PROVE L!Spec => []TInv
<1>1. L!Init => TInv
  BY InitTables
<1>2. TInv /\ [L!Next]_(L!vars) => TInv'
  BY NextTables
<1>3. QED
  BY <1>1, <1>2, PTL DEF L!Spec

\* The first and the last of a set of registrations.
LEMMA FirstIs ==
    ASSUME NEW S, S \subseteq Nat, NEW k \in S, \A j \in S : k <= j
    PROVE  L!First(S) = k
<1>1. PICK f : f = L!First(S)
  OBVIOUS
<1>2. f \in S /\ \A j \in S : f <= j
  BY <1>1 DEF L!First
<1>3. f \in Nat /\ k \in Nat /\ f <= k /\ k <= f
  BY <1>2
<1>4. QED
  BY <1>1, <1>3

LEMMA LastIs ==
    ASSUME NEW S, S \subseteq Nat, NEW k \in S, \A j \in S : j <= k
    PROVE  L!Last(S) = k
<1>1. PICK f : f = L!Last(S)
  OBVIOUS
<1>2. f \in S /\ \A j \in S : j <= f
  BY <1>1 DEF L!Last
<1>3. f \in Nat /\ k \in Nat /\ f <= k /\ k <= f
  BY <1>2
<1>4. QED
  BY <1>1, <1>3

LEMMA LogNumbers == TInv => DOMAIN log \subseteq Nat
BY DEF TInv, L!TypeOK

\* Whoever has been registered under a name is governed by the last such registration.
LEMMA LastGoverns == ASSUME TInv PROVE L!LastRegistrationGoverns
<1>1. ASSUME NEW n, L!Under(n) # {}
      PROVE  n \in DOMAIN handlers
  BY <1>1 DEF TInv, L!Under
<1>2. ASSUME NEW n \in DOMAIN handlers
      PROVE  L!Under(n) # {} /\ Governs(L!Last(L!Under(n)), n)
  <2>1. PICK k : Governs(k, n)
    BY <1>2 DEF TInv
  <2>2. k \in L!Under(n) /\ \A j \in L!Under(n) : j <= k
    BY <2>1 DEF Governs, L!Under
  <2>3. L!Under(n) \subseteq Nat
    BY LogNumbers DEF L!Under
  <2>4. L!Last(L!Under(n)) = k
    BY <2>2, <2>3, LastIs
  <2>5. QED
    BY <2>1, <2>2, <2>4
<1>3. QED
  BY <1>1, <1>2 DEF L!LastRegistrationGoverns, Governs

\* What conforms to the tag's schema conforms to the last that was registered.
LEMMA LastChecks == ASSUME TInv PROVE L!TaggedPayloadsConform
<1> SUFFICES ASSUME NEW m \in L!Message, L!Routed(m), L!SchemasFor(m.tag) # {}
             PROVE  L!Conforms(m.present, log[L!Last(L!SchemasFor(m.tag))].schema)
  BY DEF L!TaggedPayloadsConform
<1>1. m.tag \in DOMAIN schemas
  BY DEF TInv, L!SchemasFor
<1>2. PICK k : Checks(k, m.tag)
  BY <1>1 DEF TInv
<1>3. k \in L!SchemasFor(m.tag) /\ \A j \in L!SchemasFor(m.tag) : j <= k
  BY <1>2 DEF Checks, HasSchema, L!SchemasFor
<1>4. L!SchemasFor(m.tag) \subseteq Nat
  BY LogNumbers DEF L!SchemasFor
<1>5. L!Last(L!SchemasFor(m.tag)) = k
  BY <1>3, <1>4, LastIs
<1>6. L!Conforms(m.present, schemas[m.tag])
  BY <1>1 DEF L!Routed, L!Validates
<1>7. QED
  BY <1>2, <1>5, <1>6 DEF Checks

\* A message goes where its first registration leads.
LEMMA FirstRoutes == ASSUME TInv PROVE L!FirstRegistrationRoutes
<1> SUFFICES ASSUME NEW m \in L!Message
             PROVE  /\ L!Resolves(m) <=> L!Matching(m) # {}
                    /\ L!Resolves(m) => L!Target(m) = log[L!First(L!Matching(m))].name
                    /\ L!Resolves(m) => L!Target(m) \in DOMAIN handlers
  BY DEF L!FirstRegistrationRoutes
<1>1. PICK key : key = L!RouteKey(m.to, m.tag)
  OBVIOUS
<1>2. /\ L!Matching(m) = {k \in DOMAIN log : KeyOf(log[k]) = key}
      /\ L!Resolves(m) <=> key \in DOMAIN routes
      /\ L!Target(m) = Head(routes[key]).name
  BY <1>1 DEF L!Matching, L!Resolves, L!Target, KeyOf
<1>3. L!Matching(m) # {} => key \in DOMAIN routes
  BY <1>2 DEF TInv
<1>4. ASSUME key \in DOMAIN routes
      PROVE  /\ L!Matching(m) # {} /\ L!Target(m) = log[L!First(L!Matching(m))].name
             /\ L!Target(m) \in DOMAIN handlers
  <2>1. PICK k : Leads(k, key)
    BY <1>4 DEF TInv
  <2>2. k \in L!Matching(m) /\ \A j \in L!Matching(m) : k <= j
    BY <1>2, <2>1 DEF Leads
  <2>3. L!Matching(m) \subseteq Nat
    BY <1>2, LogNumbers
  <2>4. L!First(L!Matching(m)) = k
    BY <2>2, <2>3, FirstIs
  <2>5. QED
    BY <1>2, <2>1, <2>2, <2>4 DEF Leads, TInv
<1>5. QED
  BY <1>2, <1>3, <1>4

\* A message goes to the listener registered first for its name and tag,
\* whatever is registered later, and a handler is there to be called
\* (RoutingTable::resolve and route_stage, process_message's lookup).
THEOREM RoutesToFirst ==
    ASSUME L!ListenersAssumption
    PROVE  L!Spec => []FirstRegistrationRoutes
<1>1. TInv => FirstRegistrationRoutes
  BY FirstRoutes DEF FirstRegistrationRoutes
<1>2. QED
  BY <1>1, AllTables, PTL

\* The handler called, the peers enforced and the metadata reported for a name
\* are those of its last registration, and what is routed conforms to the
\* schema registered last for its tag (ListenerRegistry::register,
\* validate_value); with the tables' types.
THEOREM GovernedByLast ==
    ASSUME L!ListenersAssumption
    PROVE  L!Spec => []LastRegistrationGoverns
<1>1. TInv => LastRegistrationGoverns
  BY LastGoverns, LastChecks DEF TInv, LastRegistrationGoverns
<1>2. QED
  BY <1>1, AllTables, PTL

\* An agent's message is routed to a peer it was registered with last, or not
\* at all, however the agent, its peers and their listeners are spelled
\* (enforce_peers, routing.rs).
THEOREM PeersOnly ==
    ASSUME L!ListenersAssumption
    PROVE  L!Spec => []AgentsReachPeersOnly
<1>1. TInv => AgentsReachPeersOnly
  <2> SUFFICES ASSUME TInv, NEW m \in L!Message, L!Routed(m), L!Under(m.from) # {},
                      log[L!Last(L!Under(m.from))].isAgent
               PROVE  L!Target(m) \in log[L!Last(L!Under(m.from))].peers
    BY DEF AgentsReachPeersOnly, L!AgentsReachPeersOnly
  <2>1. m.from \in Names
    BY DEF L!Message
  <2>2. /\ m.from \in DOMAIN handlers
        /\ byName[m.from] = [name |-> m.from, isAgent |-> log[L!Last(L!Under(m.from))].isAgent,
                             peers |-> log[L!Last(L!Under(m.from))].peers]
    BY <2>1, LastGoverns DEF L!LastRegistrationGoverns
  <2>3. m.from \in DOMAIN byName
    BY <2>2 DEF TInv, L!TypeOK
  <2>4. QED
    BY <2>2, <2>3 DEF L!Routed, L!EnforcePeers
<1>2. QED
  BY <1>1, AllTables, PTL
-----------------------------------------------------------------------------
(* The decoder: what its stack of calls has to do with the elements that   *)
(* are open.                                                               *)

\* The calls that have an element to close, and its name.
Holds(c) == c.fn \notin {"decode_envelope", "expect_value"}
ElementOf(c) ==
    IF c.fn = "read_meta" THEN "meta"
    ELSE IF c.fn \in {"labelled", "expect_end"} THEN c.name
    ELSE "v"

Held(cs) == {k \in DOMAIN cs : Holds(cs[k])}

\* The elements of the calls are among those that are open, in their order; the
\* others are messages, or have a name that has been passed over.
Embeds(cs, op, over) ==
    \E spot \in [Held(cs) -> DOMAIN op] :
        /\ \A j, k \in Held(cs) : j < k => spot[j] < spot[k]
        /\ \A k \in Held(cs) : op[spot[k]] = ElementOf(cs[k])
        /\ \A m \in DOMAIN op : (\E k \in Held(cs) : spot[k] = m) \/ op[m] \in over \cup {"message"}

\* The calls that may be on top of one another.
CallOn(below, c) ==
    /\ "fn" \in DOMAIN c
    /\ \/ c.fn = "read_meta" /\ below.fn = "decode_envelope"
       \/ c.fn \in {"labelled", "expect_end"} /\ c.name = "payload" /\ below.fn = "decode_envelope"
       \/ c.fn \in {"labelled", "expect_end"} /\ c.name = "f" /\ below.fn = "rec"
       \/ c.fn = "expect_value" /\ below.fn = "labelled"
       \/ c.fn \in {"rec", "seq", "read_scalar"} /\ below.fn \in {"labelled", "seq"}

CallsOK(cs) ==
    /\ cs \in Seq({cs[k] : k \in DOMAIN cs}) /\ Len(cs) >= 1
    /\ cs[1].fn = "decode_envelope"
    /\ \A k \in 2..Len(cs) : CallOn(cs[k - 1], cs[k])

DInv ==
    /\ document \in Seq(D!Events) /\ pos \in 1..Len(document) + 1
    /\ opened \in Seq(STRING) /\ passed \subseteq STRING
    /\ CallsOK(calls)
    /\ decoded = None => Embeds(calls, opened, passed)
    /\ D!AcceptedIsClosed

LEMMA Appended ==
    ASSUME NEW S, NEW op \in Seq(S), NEW n \in S
    PROVE  /\ DOMAIN op = 1..Len(op) /\ DOMAIN Append(op, n) = 1..Len(op) + 1 /\ Len(op) \in Nat
           /\ Append(op, n)[Len(op) + 1] = n /\ \A k \in 1..Len(op) : Append(op, n)[k] = op[k]
<1>1. DOMAIN op = 1..Len(op) /\ Len(op) \in Nat
  OBVIOUS
<1>2. Append(op, n) \in Seq(S) /\ Len(Append(op, n)) = Len(op) + 1
  OBVIOUS
<1>3. DOMAIN Append(op, n) = 1..Len(op) + 1
  BY <1>2
<1>4. Append(op, n)[Len(op) + 1] = n
  OBVIOUS
<1>5. \A k \in 1..Len(op) : Append(op, n)[k] = op[k]
  OBVIOUS
<1>6. QED
  BY <1>1, <1>3, <1>4, <1>5

\* What is opened and passed over is one more that may stay open.
LEMMA EmbedsOpened ==
    ASSUME NEW cs, NEW S, NEW op \in Seq(S), NEW over, NEW now, NEW n \in S, Embeds(cs, op, over),
           over \subseteq now, n \in now \cup {"message"}
    PROVE  Embeds(cs, Append(op, n), now)
<1>1. PICK spot \in [Held(cs) -> DOMAIN op] :
        /\ \A j, k \in Held(cs) : j < k => spot[j] < spot[k]
        /\ \A k \in Held(cs) : op[spot[k]] = ElementOf(cs[k])
        /\ \A m \in DOMAIN op : (\E k \in Held(cs) : spot[k] = m) \/ op[m] \in over \cup {"message"}
  BY DEF Embeds
<1> DEFINE ap == Append(op, n)
<1>2. /\ DOMAIN op = 1..Len(op) /\ DOMAIN ap = 1..Len(op) + 1 /\ Len(op) \in Nat
      /\ ap[Len(op) + 1] = n /\ \A k \in 1..Len(op) : ap[k] = op[k]
  BY Appended
<1> HIDE DEF ap
<1>3. spot \in [Held(cs) -> DOMAIN ap]
  BY <1>2
<1>4. \A k \in Held(cs) : ap[spot[k]] = ElementOf(cs[k])
  BY <1>1, <1>2
<1>5. ASSUME NEW m \in DOMAIN ap PROVE (\E k \in Held(cs) : spot[k] = m) \/ ap[m] \in now \cup {"message"}
  <2>1. CASE m = Len(op) + 1
    BY <1>2, <2>1
  <2>2. CASE m # Len(op) + 1
    <3>1. m \in DOMAIN op /\ ap[m] = op[m]
      BY <1>2, <2>2
    <3>2. QED
      BY <1>1, <3>1
  <2>3. QED
    BY <2>1, <2>2
<1>6. Embeds(cs, ap, now)
  BY <1>1, <1>3, <1>4, <1>5 DEF Embeds
<1>7. QED
  BY <1>6 DEF ap

\* What is opened for one more call is that call's.
LEMMA EmbedsEntered ==
    ASSUME NEW cs, NEW ds, NEW S, NEW op \in Seq(S), NEW over, NEW n \in S, Embeds(cs, op, over),
           NEW k0, k0 \notin Held(cs), Held(ds) = Held(cs) \cup {k0}, ElementOf(ds[k0]) = n,
           \A j \in Held(cs) : ~(k0 < j) /\ ElementOf(ds[j]) = ElementOf(cs[j]),
           ~(k0 < k0)
    PROVE  Embeds(ds, Append(op, n), over)
<1>1. PICK spot \in [Held(cs) -> DOMAIN op] :
        /\ \A j, k \in Held(cs) : j < k => spot[j] < spot[k]
        /\ \A k \in Held(cs) : op[spot[k]] = ElementOf(cs[k])
        /\ \A m \in DOMAIN op : (\E k \in Held(cs) : spot[k] = m) \/ op[m] \in over \cup {"message"}
  BY DEF Embeds
<1> DEFINE ap == Append(op, n)
<1>2. /\ DOMAIN op = 1..Len(op) /\ DOMAIN ap = 1..Len(op) + 1 /\ Len(op) \in Nat
      /\ ap[Len(op) + 1] = n /\ \A k \in 1..Len(op) : ap[k] = op[k]
  BY Appended
<1> DEFINE to == [k \in Held(ds) |-> IF k = k0 THEN Len(op) + 1 ELSE spot[k]]
<1>3. /\ to \in [Held(ds) -> DOMAIN ap] /\ to[k0] = Len(op) + 1
      /\ \A k \in Held(cs) : to[k] = spot[k]
  BY <1>2
<1> HIDE DEF ap, to
<1>4. \A k \in Held(ds) : ap[to[k]] = ElementOf(ds[k])
  BY <1>1, <1>2, <1>3
<1>5. ASSUME NEW j \in Held(ds), NEW k \in Held(ds), j < k PROVE to[j] < to[k]
  <2>1. CASE k = k0
    BY <1>1, <1>2, <1>3, <1>5, <2>1
  <2>2. CASE k # k0
    BY <1>1, <1>2, <1>3, <1>5, <2>2
  <2>3. QED
    BY <2>1, <2>2
<1>6. ASSUME NEW m \in DOMAIN ap PROVE (\E k \in Held(ds) : to[k] = m) \/ ap[m] \in over \cup {"message"}
  <2>1. CASE m = Len(op) + 1
    BY <1>3, <2>1
  <2>2. CASE m # Len(op) + 1
    BY <1>1, <1>2, <1>3, <2>2
  <2>3. QED
    BY <2>1, <2>2
<1>7. Embeds(ds, ap, over)
  BY <1>3, <1>4, <1>5, <1>6 DEF Embeds
<1>8. QED
  BY <1>7 DEF ap

\* What is closed by the innermost call that has an element is its element, or
\* another one of that name inside of it.
LEMMA EmbedsLeft ==
    ASSUME NEW cs, NEW ds, NEW S, NEW op \in Seq(S), op # <<>>, NEW over, Embeds(cs, op, over),
           NEW k0 \in Held(cs), Held(ds) = Held(cs) \ {k0}, ElementOf(cs[k0]) = op[Len(op)],
           \A j \in Held(ds) : j < k0 /\ ElementOf(ds[j]) = ElementOf(cs[j])
    PROVE  Embeds(ds, SubSeq(op, 1, Len(op) - 1), over)
<1>1. PICK spot \in [Held(cs) -> DOMAIN op] :
        /\ \A j, k \in Held(cs) : j < k => spot[j] < spot[k]
        /\ \A k \in Held(cs) : op[spot[k]] = ElementOf(cs[k])
        /\ \A m \in DOMAIN op : (\E k \in Held(cs) : spot[k] = m) \/ op[m] \in over \cup {"message"}
  BY DEF Embeds
<1> DEFINE fr == SubSeq(op, 1, Len(op) - 1)
           to == [k \in Held(ds) |-> spot[k]]
<1>2. /\ DOMAIN op = 1..Len(op) /\ DOMAIN fr = 1..Len(op) - 1 /\ Len(op) \in Nat \ {0}
      /\ \A k \in 1..Len(op) - 1 : fr[k] = op[k]
  OBVIOUS
<1>3. \A k \in Held(ds) : spot[k] \in 1..Len(op) - 1 /\ spot[k] < spot[k0]
  BY <1>1, <1>2
<1>4. to \in [Held(ds) -> DOMAIN fr] /\ \A k \in Held(ds) : to[k] = spot[k]
  BY <1>2, <1>3
<1> HIDE DEF fr, to
<1>5. \A k \in Held(ds) : fr[to[k]] = ElementOf(ds[k])
  BY <1>1, <1>2, <1>3, <1>4
<1>6. \A j, k \in Held(ds) : j < k => to[j] < to[k]
  BY <1>1, <1>4
<1>7. ASSUME NEW m \in DOMAIN fr PROVE (\E k \in Held(ds) : to[k] = m) \/ fr[m] \in over \cup {"message"}
  <2>1. CASE spot[k0] = m
    <3>1. ~ \E k \in Held(cs) : spot[k] = Len(op)
      BY <1>2, <1>3, <2>1
    <3>2. op[Len(op)] \in over \cup {"message"}
      BY <1>1, <1>2, <3>1
    <3>3. fr[m] = op[Len(op)]
      BY <1>1, <1>2, <2>1
    <3>4. QED
      BY <3>2, <3>3
  <2>2. CASE spot[k0] # m
    BY <1>1, <1>2, <1>4, <2>2
  <2>3. QED
    BY <2>1, <2>2
<1>8. Embeds(ds, fr, over)
  BY <1>4, <1>5, <1>6, <1>7 DEF Embeds
<1>9. QED
  BY <1>8 DEF fr

\* What is closed and passed over is nobody's, if it is not of the name of the
\* innermost call's element.
LEMMA EmbedsClosed ==
    ASSUME NEW cs, NEW S, NEW op \in Seq(S), op # <<>>, NEW over, Embeds(cs, op, over),
           Held(cs) \subseteq Nat,
           \A k \in Held(cs) : ElementOf(cs[k]) = op[Len(op)] => \E j \in Held(cs) : k < j
    PROVE  Embeds(cs, SubSeq(op, 1, Len(op) - 1), over)
<1>1. PICK spot \in [Held(cs) -> DOMAIN op] :
        /\ \A j, k \in Held(cs) : j < k => spot[j] < spot[k]
        /\ \A k \in Held(cs) : op[spot[k]] = ElementOf(cs[k])
        /\ \A m \in DOMAIN op : (\E k \in Held(cs) : spot[k] = m) \/ op[m] \in over \cup {"message"}
  BY DEF Embeds
<1> DEFINE fr == SubSeq(op, 1, Len(op) - 1)
<1>2. /\ DOMAIN op = 1..Len(op) /\ DOMAIN fr = 1..Len(op) - 1 /\ Len(op) \in Nat \ {0}
      /\ \A k \in 1..Len(op) - 1 : fr[k] = op[k]
  OBVIOUS
<1> HIDE DEF fr
<1>3. ASSUME NEW k \in Held(cs), spot[k] = Len(op) PROVE FALSE
  <2>1. PICK j \in Held(cs) : k < j
    BY <1>1, <1>3
  <2>2. QED
    BY <1>1, <1>2, <1>3, <2>1
<1>4. spot \in [Held(cs) -> DOMAIN fr]
  <2>1. \A k \in Held(cs) : spot[k] \in DOMAIN fr
    BY <1>2, <1>3
  <2>2. QED
    BY <2>1
<1>5. /\ \A k \in Held(cs) : fr[spot[k]] = ElementOf(cs[k])
      /\ \A m \in DOMAIN fr : (\E k \in Held(cs) : spot[k] = m) \/ fr[m] \in over \cup {"message"}
  BY <1>1, <1>2, <1>4, SMTT(40)
<1>6. Embeds(cs, fr, over)
  BY <1>1, <1>4, <1>5 DEF Embeds
<1>7. QED
  BY <1>6 DEF fr

\* Only the elements of the calls matter.
LEMMA EmbedsAlike ==
    ASSUME NEW cs, NEW ds, NEW op, NEW over, Embeds(cs, op, over),
           Held(ds) = Held(cs), \A k \in Held(cs) : ElementOf(ds[k]) = ElementOf(cs[k])
    PROVE  Embeds(ds, op, over)
BY DEF Embeds

\* The stack, with a call more, a call less, and another call on top.
LEMMA CallsSeq == ASSUME NEW T, NEW s \in Seq(T)
    PROVE  s \in Seq({s[k] : k \in DOMAIN s}) /\ DOMAIN s = 1..Len(s) /\ Len(s) \in Nat
OBVIOUS

LEMMA Pushed ==
    ASSUME NEW cs, CallsOK(cs), NEW c, CallOn(cs[Len(cs)], c)
    PROVE  /\ CallsOK(Append(cs, c)) /\ Len(Append(cs, c)) = Len(cs) + 1
           /\ Append(cs, c)[Len(cs) + 1] = c /\ \A k \in 1..Len(cs) : Append(cs, c)[k] = cs[k]
<1> DEFINE T == {cs[k] : k \in DOMAIN cs} \cup {c}
           ds == Append(cs, c)
<1>1. cs \in Seq(T) /\ c \in T /\ Len(cs) \in Nat \ {0}
  BY DEF CallsOK
<1>2. ds \in Seq(T) /\ Len(ds) = Len(cs) + 1 /\ ds[Len(cs) + 1] = c /\ \A k \in 1..Len(cs) : ds[k] = cs[k]
  <2> HIDE DEF T
  <2> QED
    BY <1>1
<1> HIDE DEF T, ds
<1>3. ds \in Seq({ds[k] : k \in DOMAIN ds})
  BY <1>2, CallsSeq
<1>4. Len(ds) >= 1 /\ ds[1].fn = "decode_envelope"
  BY <1>1, <1>2 DEF CallsOK
<1>5. ASSUME NEW k \in 2..Len(ds) PROVE CallOn(ds[k - 1], ds[k])
  <2>1. CASE k = Len(ds)
    BY <1>1, <1>2, <2>1
  <2>2. CASE k # Len(ds)
    BY <1>1, <1>2, <2>2, SMTT(30) DEF CallsOK
  <2>3. QED
    BY <2>1, <2>2
<1>6. CallsOK(ds)
  BY <1>3, <1>4, <1>5 DEF CallsOK
<1>7. QED
  BY <1>2, <1>6 DEF ds

LEMMA Popped ==
    ASSUME NEW cs, CallsOK(cs), Len(cs) >= 2
    PROVE  /\ CallsOK(D!Front(cs)) /\ Len(D!Front(cs)) = Len(cs) - 1
           /\ \A k \in 1..Len(cs) - 1 : D!Front(cs)[k] = cs[k]
<1> DEFINE T == {cs[k] : k \in DOMAIN cs}
           ds == D!Front(cs)
<1>1. cs \in Seq(T) /\ Len(cs) \in Nat \ {0, 1}
  BY DEF CallsOK
<1>2. ds \in Seq(T) /\ Len(ds) = Len(cs) - 1 /\ \A k \in 1..Len(cs) - 1 : ds[k] = cs[k]
  <2> HIDE DEF T
  <2> QED
    BY <1>1 DEF D!Front
<1> HIDE DEF T, ds
<1>3. ds \in Seq({ds[k] : k \in DOMAIN ds})
  BY <1>2, CallsSeq
<1>4. Len(ds) >= 1 /\ ds[1].fn = "decode_envelope"
  <2>1. 1 \in 1..Len(cs) - 1
    BY <1>1
  <2>2. QED
    BY <1>1, <1>2, <2>1 DEF CallsOK
<1>5. ASSUME NEW k \in 2..Len(ds) PROVE CallOn(ds[k - 1], ds[k])
  <2>1. k \in 2..Len(cs) /\ k \in 1..Len(cs) - 1 /\ k - 1 \in 1..Len(cs) - 1
    BY <1>1, <1>2
  <2>2. CallOn(cs[k - 1], cs[k])
    BY <2>1 DEF CallsOK
  <2>3. QED
    BY <1>2, <2>1, <2>2
<1>6. CallsOK(ds)
  BY <1>3, <1>4, <1>5 DEF CallsOK
<1>7. QED
  BY <1>2, <1>6 DEF ds

LEMMA Replaced ==
    ASSUME NEW cs, CallsOK(cs), Len(cs) >= 2, NEW c, CallOn(cs[Len(cs) - 1], c)
    PROVE  /\ CallsOK(Append(D!Front(cs), c)) /\ Len(Append(D!Front(cs), c)) = Len(cs)
           /\ Append(D!Front(cs), c)[Len(cs)] = c
           /\ \A k \in 1..Len(cs) - 1 : Append(D!Front(cs), c)[k] = cs[k]
<1>1. Len(cs) \in Nat \ {0, 1}
  BY DEF CallsOK
<1>2. PICK fr : fr = D!Front(cs)
  OBVIOUS
<1>3. CallsOK(fr) /\ Len(fr) = Len(cs) - 1 /\ \A k \in 1..Len(cs) - 1 : fr[k] = cs[k]
  BY <1>2, Popped
<1>4. CallOn(fr[Len(fr)], c)
  BY <1>1, <1>3
<1>5. /\ CallsOK(Append(fr, c)) /\ Len(Append(fr, c)) = Len(fr) + 1
      /\ Append(fr, c)[Len(fr) + 1] = c /\ \A k \in 1..Len(fr) : Append(fr, c)[k] = fr[k]
  BY <1>3, <1>4, Pushed
<1>6. QED
  BY <1>1, <1>2, <1>3, <1>5

\* The call on top goes on with more in it.
LEMMA Updated ==
    ASSUME NEW cs, CallsOK(cs), Len(cs) >= 2, cs[Len(cs)].fn \in {"seq", "rec"},
           NEW c, "fn" \in DOMAIN c, c.fn = cs[Len(cs)].fn
    PROVE  /\ CallsOK([cs EXCEPT ![Len(cs)] = c]) /\ Held([cs EXCEPT ![Len(cs)] = c]) = Held(cs)
           /\ \A k \in Held(cs) : ElementOf([cs EXCEPT ![Len(cs)] = c][k]) = ElementOf(cs[k])
<1>0. PICK n : n = Len(cs)
  OBVIOUS
<1>1. n \in Nat \ {0, 1} /\ DOMAIN cs = 1..n /\ CallOn(cs[n - 1], cs[n])
  BY <1>0 DEF CallsOK
<1>2. PICK ds : ds = [cs EXCEPT ![n] = c]
  OBVIOUS
<1> DEFINE T == {cs[k] : k \in DOMAIN cs} \cup {c}
<1>3. cs \in Seq(T) /\ c \in T
  BY DEF CallsOK
<1>4. ds \in Seq(T) /\ Len(ds) = n /\ ds[n] = c /\ \A k \in 1..n - 1 : ds[k] = cs[k]
  <2> HIDE DEF T
  <2> QED
    BY <1>0, <1>1, <1>2, <1>3
<1>5. ds \in Seq({ds[k] : k \in DOMAIN ds}) /\ DOMAIN ds = 1..n
  BY <1>4, CallsSeq
<1> HIDE DEF T
<1>6. CallOn(cs[n - 1], c)
  BY <1>0, <1>1 DEF CallOn
<1>7. ASSUME NEW k \in 2..Len(ds) PROVE CallOn(ds[k - 1], ds[k])
  <2>1. CASE k = n
    BY <1>1, <1>4, <1>6, <2>1
  <2>2. CASE k # n
    <3>1. k \in 2..Len(cs) /\ k \in 1..n - 1 /\ k - 1 \in 1..n - 1
      BY <1>0, <1>1, <1>4, <2>2
    <3>2. CallOn(cs[k - 1], cs[k])
      BY <3>1 DEF CallsOK
    <3>3. QED
      BY <1>4, <3>1, <3>2
  <2>3. QED
    BY <2>1, <2>2
<1>8. CallsOK(ds)
  BY <1>1, <1>4, <1>5, <1>7 DEF CallsOK
<1>9. \A k \in 1..n : ds[k].fn = cs[k].fn /\ (cs[k].fn \notin {"seq", "rec"} => ds[k] = cs[k])
  BY <1>0, <1>1, <1>4
<1>10. Held(ds) = Held(cs) /\ \A k \in Held(cs) : ElementOf(ds[k]) = ElementOf(cs[k])
  BY <1>1, <1>5, <1>9 DEF Held, Holds, ElementOf
<1>11. QED
  BY <1>0, <1>2, <1>8, <1>10

\* A value is delivered to a sequence, or to the element that is to be closed.
LEMMA Delivered ==
    ASSUME NEW cs, CallsOK(cs), Len(cs) >= 2, cs[Len(cs)].fn \in {"seq", "labelled"}, NEW v
    PROVE  /\ CallsOK(D!Deliver(cs, v)) /\ Held(D!Deliver(cs, v)) = Held(cs)
           /\ \A k \in Held(cs) : ElementOf(D!Deliver(cs, v)[k]) = ElementOf(cs[k])
<1>0. PICK n : n = Len(cs)
  OBVIOUS
<1>1. n \in Nat \ {0, 1} /\ DOMAIN cs = 1..n /\ CallOn(cs[n - 1], cs[n])
  BY <1>0 DEF CallsOK
<1> DEFINE ds == D!Deliver(cs, v)
<1>2. CASE cs[n].fn = "seq"
  <2> DEFINE c == [cs[n] EXCEPT !.items = Append(@, v)]
  <2>1. ds = [cs EXCEPT ![Len(cs)] = c]
    BY <1>0, <1>2 DEF D!Deliver, D!Last
  <2>2. "fn" \in DOMAIN cs[n]
    BY <1>1 DEF CallOn
  <2>3. "fn" \in DOMAIN c /\ c.fn = cs[Len(cs)].fn /\ cs[Len(cs)].fn \in {"seq", "rec"}
    BY <1>0, <1>2, <2>2
  <2> HIDE DEF c, ds
  <2>4. PICK es : es = [cs EXCEPT ![Len(cs)] = c]
    OBVIOUS
  <2>5. CallsOK(es) /\ Held(es) = Held(cs) /\ \A k \in Held(cs) : ElementOf(es[k]) = ElementOf(cs[k])
    <3>1. /\ CallsOK([cs EXCEPT ![Len(cs)] = c]) /\ Held([cs EXCEPT ![Len(cs)] = c]) = Held(cs)
          /\ \A k \in Held(cs) : ElementOf([cs EXCEPT ![Len(cs)] = c][k]) = ElementOf(cs[k])
      BY <2>3, Updated
    <3>2. QED
      BY <2>4, <3>1
  <2>6. es = D!Deliver(cs, v)
    BY <2>1, <2>4 DEF ds
  <2>7. QED
    BY <2>5, <2>6
<1>3. CASE cs[n].fn = "labelled"
  <2> DEFINE c == [fn |-> "expect_end", name |-> cs[n].name, label |-> cs[n].label, value |-> v]
  <2>1. ds = Append(D!Front(cs), c)
    BY <1>0, <1>3 DEF D!Deliver, D!Last
  <2>2. c.fn = "expect_end" /\ c.name = cs[n].name /\ "fn" \in DOMAIN c
    OBVIOUS
  <2> HIDE DEF c, ds
  <2>3. CallOn(cs[n - 1], c)
    BY <1>1, <1>3, <2>2 DEF CallOn
  <2>4. CallsOK(ds) /\ Len(ds) = n /\ ds[n] = c /\ \A k \in 1..n - 1 : ds[k] = cs[k]
    <3>1. CallOn(cs[Len(cs) - 1], c) /\ Len(cs) >= 2
      BY <1>0, <2>3
    <3>2. /\ CallsOK(Append(D!Front(cs), c)) /\ Len(Append(D!Front(cs), c)) = Len(cs)
          /\ Append(D!Front(cs), c)[Len(cs)] = c
          /\ \A k \in 1..Len(cs) - 1 : Append(D!Front(cs), c)[k] = cs[k]
      BY <3>1, Replaced, ZenonT(60)
    <3>3. QED
      BY <1>0, <2>1, <3>2
  <2>5. DOMAIN ds = 1..n
    BY <2>4 DEF CallsOK
  <2>6. \A k \in 1..n : k # n => ds[k] = cs[k]
    BY <1>1, <2>4
  <2>7. Held(ds) = Held(cs) /\ \A k \in Held(cs) : ElementOf(ds[k]) = ElementOf(cs[k])
    BY <1>1, <1>3, <2>2, <2>4, <2>5, <2>6 DEF Held, Holds, ElementOf
  <2>8. QED
    BY <2>4, <2>7 DEF ds
<1>4. QED
  BY <1>0, <1>2, <1>3

\* Each of these with the elements that are open.
LEMMA HeldFacts ==
    ASSUME NEW cs, CallsOK(cs)
    PROVE  /\ Len(cs) \in Nat \ {0} /\ DOMAIN cs = 1..Len(cs)
           /\ Held(cs) = {k \in 2..Len(cs) : cs[k].fn # "expect_value"}
<1>1. Len(cs) \in Nat \ {0} /\ DOMAIN cs = 1..Len(cs)
  BY DEF CallsOK
<1>2. cs[1].fn = "decode_envelope" /\ \A k \in 2..Len(cs) : cs[k].fn # "decode_envelope"
  BY DEF CallsOK, CallOn
<1>3. QED
  BY <1>1, <1>2 DEF Held, Holds

LEMMA PushHeld ==
    ASSUME NEW S, NEW cs, NEW op \in Seq(S), NEW over, NEW n \in S, CallsOK(cs), Embeds(cs, op, over),
           NEW c, CallOn(cs[Len(cs)], c), Holds(c), ElementOf(c) = n
    PROVE  CallsOK(Append(cs, c)) /\ Embeds(Append(cs, c), Append(op, n), over)
<1>1. PICK ds : ds = Append(cs, c)
  OBVIOUS
<1>2. PICK k0 : k0 = Len(cs) + 1
  OBVIOUS
<1>3. CallsOK(ds) /\ Len(ds) = k0 /\ ds[k0] = c /\ \A k \in 1..Len(cs) : ds[k] = cs[k]
  BY <1>1, <1>2, Pushed
<1>4. /\ Held(cs) = {k \in 2..Len(cs) : cs[k].fn # "expect_value"}
      /\ Held(ds) = {k \in 2..k0 : ds[k].fn # "expect_value"}
      /\ Len(cs) \in Nat \ {0}
  BY <1>3, HeldFacts
<1>5. Held(ds) = Held(cs) \cup {k0}
  BY <1>2, <1>3, <1>4 DEF Holds
<1>6. /\ k0 \notin Held(cs) /\ ElementOf(ds[k0]) = n
      /\ \A j \in Held(cs) : ~(k0 < j) /\ ElementOf(ds[j]) = ElementOf(cs[j])
      /\ ~(k0 < k0)
  BY <1>2, <1>3, <1>4
<1>7. Embeds(ds, Append(op, n), over)
  BY <1>5, <1>6, EmbedsEntered
<1>8. QED
  BY <1>1, <1>3, <1>7

LEMMA PushBare ==
    ASSUME NEW cs, NEW op, NEW over, CallsOK(cs), Embeds(cs, op, over),
           NEW c, CallOn(cs[Len(cs)], c), ~Holds(c)
    PROVE  CallsOK(Append(cs, c)) /\ Embeds(Append(cs, c), op, over)
<1>1. PICK ds : ds = Append(cs, c)
  OBVIOUS
<1>2. PICK k0 : k0 = Len(cs) + 1
  OBVIOUS
<1>3. CallsOK(ds) /\ Len(ds) = k0 /\ ds[k0] = c /\ \A k \in 1..Len(cs) : ds[k] = cs[k]
  BY <1>1, <1>2, Pushed
<1>4. /\ Held(cs) = {k \in 2..Len(cs) : cs[k].fn # "expect_value"}
      /\ Held(ds) = {k \in 2..k0 : ds[k].fn # "expect_value"}
      /\ Len(cs) \in Nat \ {0}
  BY <1>3, HeldFacts
<1>5. c.fn = "expect_value"
  BY DEF Holds, CallOn
<1>6. Held(ds) = Held(cs) /\ \A j \in Held(cs) : ElementOf(ds[j]) = ElementOf(cs[j])
  BY <1>2, <1>3, <1>4, <1>5
<1>7. QED
  BY <1>1, <1>3, <1>6, EmbedsAlike

LEMMA PopHeld ==
    ASSUME NEW S, NEW cs, NEW op \in Seq(S), op # <<>>, NEW over, CallsOK(cs), Embeds(cs, op, over),
           Len(cs) >= 2, Holds(cs[Len(cs)]), ElementOf(cs[Len(cs)]) = op[Len(op)]
    PROVE  CallsOK(D!Front(cs)) /\ Embeds(D!Front(cs), SubSeq(op, 1, Len(op) - 1), over)
<1>1. PICK ds : ds = D!Front(cs)
  OBVIOUS
<1>2. PICK k0 : k0 = Len(cs)
  OBVIOUS
<1>3. CallsOK(ds) /\ Len(ds) = k0 - 1 /\ \A k \in 1..k0 - 1 : ds[k] = cs[k]
  BY <1>1, <1>2, Popped
<1>4. /\ Held(cs) = {k \in 2..k0 : cs[k].fn # "expect_value"}
      /\ Held(ds) = {k \in 2..k0 - 1 : ds[k].fn # "expect_value"}
      /\ k0 \in Nat \ {0, 1}
  BY <1>2, <1>3, HeldFacts
<1>5. k0 \in Held(cs) /\ Held(ds) = Held(cs) \ {k0} /\ ElementOf(cs[k0]) = op[Len(op)]
  BY <1>2, <1>3, <1>4 DEF Holds
<1>6. \A j \in Held(ds) : j < k0 /\ ElementOf(ds[j]) = ElementOf(cs[j])
  BY <1>3, <1>4
<1>7. Embeds(ds, SubSeq(op, 1, Len(op) - 1), over)
  BY <1>5, <1>6, EmbedsLeft
<1>8. QED
  BY <1>1, <1>3, <1>7

LEMMA PopBare ==
    ASSUME NEW cs, NEW op, NEW over, CallsOK(cs), Embeds(cs, op, over),
           Len(cs) >= 2, ~Holds(cs[Len(cs)])
    PROVE  CallsOK(D!Front(cs)) /\ Embeds(D!Front(cs), op, over)
<1>1. PICK ds : ds = D!Front(cs)
  OBVIOUS
<1>2. PICK k0 : k0 = Len(cs)
  OBVIOUS
<1>3. CallsOK(ds) /\ Len(ds) = k0 - 1 /\ \A k \in 1..k0 - 1 : ds[k] = cs[k]
  BY <1>1, <1>2, Popped
<1>4. /\ Held(cs) = {k \in 2..k0 : cs[k].fn # "expect_value"}
      /\ Held(ds) = {k \in 2..k0 - 1 : ds[k].fn # "expect_value"}
      /\ k0 \in Nat \ {0, 1}
  BY <1>2, <1>3, HeldFacts
<1>5. k0 \notin Held(cs)
  BY <1>2 DEF Held
<1>6. Held(ds) = Held(cs) /\ \A j \in Held(cs) : ElementOf(ds[j]) = ElementOf(cs[j])
  BY <1>3, <1>4, <1>5
<1>7. QED
  BY <1>1, <1>3, <1>6, EmbedsAlike

\* A call that goes on with the same element.
LEMMA Continued ==
    ASSUME NEW cs, NEW op, NEW over, CallsOK(cs), Embeds(cs, op, over), Len(cs) >= 2,
           NEW c, CallOn(cs[Len(cs) - 1], c), Holds(c), Holds(cs[Len(cs)]),
           ElementOf(c) = ElementOf(cs[Len(cs)])
    PROVE  CallsOK(Append(D!Front(cs), c)) /\ Embeds(Append(D!Front(cs), c), op, over)
<1>1. PICK ds : ds = Append(D!Front(cs), c)
  OBVIOUS
<1>2. PICK k0 : k0 = Len(cs)
  OBVIOUS
<1>3. CallsOK(ds) /\ Len(ds) = k0 /\ ds[k0] = c /\ \A k \in 1..k0 - 1 : ds[k] = cs[k]
  BY <1>1, <1>2, Replaced, ZenonT(30)
<1>4. /\ Held(cs) = {k \in 2..k0 : cs[k].fn # "expect_value"}
      /\ Held(ds) = {k \in 2..k0 : ds[k].fn # "expect_value"}
      /\ k0 \in Nat \ {0, 1}
  BY <1>2, <1>3, HeldFacts
<1>5. c.fn # "expect_value" /\ cs[k0].fn # "expect_value"
  BY <1>2 DEF Holds
<1>6. \A k \in 2..k0 : k # k0 => ds[k] = cs[k]
  BY <1>3, <1>4
<1>7. Held(ds) = Held(cs)
  BY <1>3, <1>4, <1>5, <1>6
<1>8. \A j \in Held(cs) : ElementOf(ds[j]) = ElementOf(cs[j])
  BY <1>2, <1>3, <1>4, <1>6
<1>9. QED
  BY <1>1, <1>3, <1>7, <1>8, EmbedsAlike

\* An end tag that the innermost call passes over.
LEMMA EndOver ==
    ASSUME NEW S, NEW cs, NEW op \in Seq(S), op # <<>>, NEW over, CallsOK(cs), Embeds(cs, op, over),
           Len(cs) = 1 \/ (Holds(cs[Len(cs)]) /\ ElementOf(cs[Len(cs)]) # op[Len(op)])
    PROVE  Embeds(cs, SubSeq(op, 1, Len(op) - 1), over)
<1>1. PICK k0 : k0 = Len(cs)
  OBVIOUS
<1>2. Held(cs) = {k \in 2..k0 : cs[k].fn # "expect_value"} /\ k0 \in Nat \ {0}
  BY <1>1, HeldFacts
<1>3. ASSUME NEW k \in Held(cs), ElementOf(cs[k]) = op[Len(op)] PROVE \E j \in Held(cs) : k < j
  <2>1. k0 \in Held(cs) /\ k # k0
    BY <1>1, <1>2, <1>3 DEF Holds
  <2>2. QED
    BY <1>2, <2>1
<1>4. Held(cs) \subseteq Nat
  BY <1>2
<1>5. QED
  BY <1>3, <1>4, EmbedsClosed
-----------------------------------------------------------------------------
LEMMA AppendTyped == ASSUME NEW S, NEW s \in Seq(S), NEW e \in S PROVE Append(s, e) \in Seq(S)
OBVIOUS

LEMMA FrontTyped == ASSUME NEW S, NEW s \in Seq(S), s # <<>> PROVE SubSeq(s, 1, Len(s) - 1) \in Seq(S)
OBVIOUS

\* What reading an event does, whatever is made of it.
LEMMA ReadFacts ==
    ASSUME DInv, NEW fn, D!Reads(fn)
    PROVE  /\ decoded = None /\ document' = document /\ pos' \in 1..Len(document) + 1
           /\ calls[Len(calls)].fn = fn
           /\ fn # "decode_envelope" => Len(calls) >= 2 /\ CallOn(calls[Len(calls) - 1], calls[Len(calls)])
           /\ fn = "decode_envelope" => Len(calls) = 1
           /\ opened' \in Seq(STRING)
           /\ D!Event.ev \in {"start", "empty", "text", "end", "other", "eof"}
           /\ D!Event = D!Eof => D!Event.ev = "eof"
           /\ D!Event.ev = "start" => D!Event.name \in STRING /\ opened' = Append(opened, D!Event.name)
           /\ D!Event.ev = "end" => /\ opened # <<>> /\ opened[Len(opened)] = D!Event.name
                                    /\ opened' = SubSeq(opened, 1, Len(opened) - 1)
           /\ D!Event.ev \notin {"start", "end"} => opened' = opened
<1>1. /\ decoded = None /\ document' = document /\ calls[Len(calls)].fn = fn /\ ~D!Misnested
      /\ pos' = IF D!Event = D!Eof THEN pos ELSE pos + 1
      /\ opened' = CASE D!Event.ev = "start" -> Append(opened, D!Event.name)
                     [] D!Event.ev = "end" -> D!Front(opened)
                     [] OTHER -> opened
  BY DEF D!Reads, D!Top, D!Last
<1>2. /\ document \in Seq(D!Events) /\ pos \in 1..Len(document) + 1 /\ opened \in Seq(STRING)
      /\ CallsOK(calls)
  BY DEF DInv
<1>3. D!Event = D!Eof => D!Event.ev = "eof"
  <2>1. D!Eof.ev = "eof"
    BY DEF D!Eof
  <2>2. QED
    BY <2>1
<1>4. /\ D!Event.ev \in {"start", "empty", "text", "end", "other", "eof"}
      /\ D!Event.ev = "start" => D!Event.name \in STRING
      /\ D!Event # D!Eof => pos \in 1..Len(document)
  <2>1. CASE pos \in DOMAIN document
    <3>1. D!Event = document[pos] /\ document[pos] \in D!Events /\ pos \in 1..Len(document)
      BY <1>2, <2>1 DEF D!Event
    <3>2. QED
      BY <3>1 DEF D!Events
  <2>2. CASE pos \notin DOMAIN document
    <3>1. D!Event = D!Eof
      BY <2>2 DEF D!Event
    <3>2. QED
      BY <1>3, <3>1
  <2>3. QED
    BY <2>1, <2>2
<1>5. pos' \in 1..Len(document) + 1
  <2>1. CASE D!Event = D!Eof
    BY <1>1, <1>2, <2>1
  <2>2. CASE D!Event # D!Eof
    BY <1>1, <1>2, <1>4, <2>2
  <2>3. QED
    BY <2>1, <2>2
<1>6. /\ fn # "decode_envelope" => Len(calls) >= 2 /\ CallOn(calls[Len(calls) - 1], calls[Len(calls)])
      /\ fn = "decode_envelope" => Len(calls) = 1
  <2>1. Len(calls) \in Nat \ {0} /\ calls[1].fn = "decode_envelope"
    BY <1>2, HeldFacts DEF CallsOK
  <2>2. Len(calls) # 1 => CallOn(calls[Len(calls) - 1], calls[Len(calls)])
    <3>1. Len(calls) # 1 => Len(calls) \in 2..Len(calls)
      BY <2>1
    <3>2. QED
      BY <1>2, <3>1 DEF CallsOK
  <2>3. Len(calls) # 1 => calls[Len(calls)].fn # "decode_envelope"
    BY <2>2 DEF CallOn
  <2>4. QED
    BY <1>1, <2>1, <2>2, <2>3
<1>7. CASE D!Event.ev = "start"
  <2>1. opened' = Append(opened, D!Event.name)
    BY <1>1, <1>7
  <2>2. opened' \in Seq(STRING)
    BY <1>2, <1>4, <1>7, <2>1, AppendTyped
  <2>3. QED
    BY <1>1, <1>3, <1>4, <1>5, <1>6, <1>7, <2>1, <2>2
<1>8. CASE D!Event.ev = "end"
  <2>1. opened' = SubSeq(opened, 1, Len(opened) - 1)
    BY <1>1, <1>8 DEF D!Front
  <2>2. opened # <<>> /\ opened[Len(opened)] = D!Event.name
    BY <1>1, <1>8 DEF D!Misnested, D!Last
  <2>3. opened' \in Seq(STRING)
    BY <1>2, <2>1, <2>2, FrontTyped
  <2>4. QED
    BY <1>1, <1>3, <1>4, <1>5, <1>6, <1>8, <2>1, <2>2, <2>3
<1>9. CASE D!Event.ev \notin {"start", "end"}
  <2>1. opened' = opened
    BY <1>1, <1>9
  <2>2. QED
    BY <1>1, <1>2, <1>3, <1>4, <1>5, <1>6, <1>9, <2>1
<1>10. QED
  BY <1>7, <1>8, <1>9
-----------------------------------------------------------------------------
(* The steps of the decoder.                                               *)

\* Reading on: what is left to show of a step is where the calls now stand.
LEMMA Goes ==
    ASSUME DInv, NEW fn, D!Reads(fn), CallsOK(calls'), passed' \subseteq STRING, decoded' = decoded,
           Embeds(calls', opened', passed')
    PROVE  DInv'
<1>1. /\ decoded = None /\ document' = document /\ pos' \in 1..Len(document) + 1
      /\ opened' \in Seq(STRING)
  BY ReadFacts
<1>2. D!AcceptedIsClosed'
  BY <1>1 DEF D!AcceptedIsClosed, D!Accepted
<1>3. QED
  BY <1>1, <1>2 DEF DInv

\* An error accepts nothing.
LEMMA Refused ==
    ASSUME D!DecoderAssumption, DInv, NEW e \in D!Reasons, D!Stop(e),
           document' = document, pos' \in 1..Len(document) + 1, opened' \in Seq(STRING)
    PROVE  DInv'
<1>1. decoded' = [error |-> e] /\ decoded' # None /\ passed' = passed /\ calls' = calls
  BY DEF D!Stop, D!DecoderAssumption
<1>2. D!AcceptedIsClosed'
  BY <1>1 DEF D!AcceptedIsClosed, D!Accepted
<1>3. QED
  BY <1>1, <1>2 DEF DInv

LEMMA ReadRefused ==
    ASSUME D!DecoderAssumption, DInv, NEW fn, D!Reads(fn), NEW e \in D!Reasons, D!Stop(e)
    PROVE  DInv'
BY ReadFacts, Refused

\* The calls are left as they are, and so is what is open.
LEMMA Stays ==
    ASSUME DInv, NEW fn, D!Reads(fn), D!Event.ev \notin {"start", "end"},
           CallsOK(calls'), Embeds(calls', opened, passed), UNCHANGED <<passed, decoded>>
    PROVE  DInv'
BY ReadFacts, Goes DEF DInv

\* An event is passed over.
LEMMA Skips ==
    ASSUME DInv, NEW fn, D!Reads(fn), D!Skip,
           D!Event.ev = "end" =>
               fn = "decode_envelope" \/ (Holds(calls[Len(calls)]) /\ ElementOf(calls[Len(calls)]) # D!Event.name)
    PROVE  DInv'
<1>1. /\ CallsOK(calls) /\ opened \in Seq(STRING) /\ Embeds(calls, opened, passed) /\ passed \subseteq STRING
  BY ReadFacts DEF DInv
<1>2. calls' = calls /\ decoded' = decoded /\ passed' = IF D!Event.ev = "start" THEN passed \cup {D!Event.name} ELSE passed
  BY DEF D!Skip
<1>3. CASE D!Event.ev = "start"
  <2>1. opened' = Append(opened, D!Event.name) /\ D!Event.name \in STRING /\ passed' = passed \cup {D!Event.name}
    BY <1>2, <1>3, ReadFacts
  <2>2. passed \subseteq passed' /\ D!Event.name \in passed' \cup {"message"} /\ passed' \subseteq STRING
    BY <1>1, <2>1
  <2>3. Embeds(calls, Append(opened, D!Event.name), passed')
    BY <1>1, <2>1, <2>2, EmbedsOpened
  <2>4. QED
    BY <1>1, <1>2, <2>1, <2>2, <2>3, Goes
<1>4. CASE D!Event.ev = "end"
  <2>1. /\ opened # <<>> /\ opened[Len(opened)] = D!Event.name
        /\ opened' = SubSeq(opened, 1, Len(opened) - 1)
        /\ fn = "decode_envelope" => Len(calls) = 1
    BY <1>4, ReadFacts
  <2>2. Len(calls) = 1 \/ (Holds(calls[Len(calls)]) /\ ElementOf(calls[Len(calls)]) # opened[Len(opened)])
    BY <1>4, <2>1
  <2>3. Embeds(calls, SubSeq(opened, 1, Len(opened) - 1), passed)
    BY <1>1, <2>1, <2>2, EndOver
  <2>4. QED
    BY <1>1, <1>2, <1>4, <2>1, <2>3, Goes
<1>5. CASE D!Event.ev \notin {"start", "end"}
  BY <1>1, <1>2, <1>5, Stays
<1>6. QED
  BY <1>3, <1>4, <1>5

\* A start tag that a call is made for.
LEMMA Entered ==
    ASSUME DInv, NEW fn, D!Reads(fn), D!Event.ev = "start", NEW cs, CallsOK(cs), Embeds(cs, opened, passed),
           NEW c, CallOn(cs[Len(cs)], c), Holds(c), ElementOf(c) = D!Event.name
    PROVE  CallsOK(Append(cs, c)) /\ Embeds(Append(cs, c), opened', passed)
<1>1. opened' = Append(opened, D!Event.name) /\ D!Event.name \in STRING /\ opened \in Seq(STRING)
  BY ReadFacts DEF DInv
<1>2. CallsOK(Append(cs, c)) /\ Embeds(Append(cs, c), Append(opened, D!Event.name), passed)
  BY <1>1, PushHeld
<1>3. QED
  BY <1>1, <1>2

\* <payload> and <f>: the call that opens it, and expect_value for what is in it.
LEMMA LabelledEntered ==
    ASSUME DInv, NEW fn, D!Reads(fn), D!Event.ev = "start", NEW name, D!Event.name = name,
           D!Enter(D!Labelled(name)),
           \/ name = "payload" /\ fn = "decode_envelope"
           \/ name = "f" /\ fn = "rec"
    PROVE  DInv'
<1> DEFINE c == [fn |-> "labelled", name |-> name, label |-> D!Event.text]
           b == [fn |-> "expect_value"]
<1>1. /\ CallsOK(calls) /\ Embeds(calls, opened, passed) /\ passed \subseteq STRING
      /\ calls[Len(calls)].fn = fn
  BY ReadFacts DEF DInv
<1>2. c.fn = "labelled" /\ c.name = name /\ "fn" \in DOMAIN c /\ b.fn = "expect_value" /\ "fn" \in DOMAIN b
  OBVIOUS
<1>3. calls' = calls \o <<c, b>> /\ passed' = passed /\ decoded' = decoded
  BY DEF D!Enter, D!Labelled
<1> HIDE DEF c, b
<1>4. PICK ds : ds = Append(calls, c)
  OBVIOUS
<1>5. CallOn(calls[Len(calls)], c) /\ Holds(c) /\ ElementOf(c) = D!Event.name
  BY <1>1, <1>2 DEF CallOn, Holds, ElementOf
<1>6. CallsOK(ds) /\ Embeds(ds, opened', passed)
  BY <1>1, <1>4, <1>5, Entered
<1>7. ds[Len(ds)] = c
  BY <1>1, <1>4, <1>5, Pushed
<1>8. CallOn(ds[Len(ds)], b) /\ ~Holds(b)
  BY <1>2, <1>7 DEF CallOn, Holds
<1>9. CallsOK(Append(ds, b)) /\ Embeds(Append(ds, b), opened', passed)
  BY <1>6, <1>8, PushBare
<1>10. calls' = Append(ds, b)
  <2>1. calls \in Seq({calls[k] : k \in DOMAIN calls})
    BY <1>1 DEF CallsOK
  <2>2. PICK T : calls \in Seq(T) /\ c \in T /\ b \in T
    <3>1. calls \in Seq({calls[k] : k \in DOMAIN calls} \cup {c, b})
      BY <2>1
    <3>2. QED
      BY <3>1
  <2>3. calls \o <<c, b>> = Append(Append(calls, c), b)
    BY <2>2
  <2>4. QED
    BY <1>3, <1>4, <2>3
<1>11. QED
  BY <1>1, <1>3, <1>9, <1>10, Goes

\* A <v> starts where a value is wanted.
LEMMA ValueEntered ==
    ASSUME D!DecoderAssumption, DInv, NEW fn, D!Reads(fn), D!Is("start", "v"),
           NEW cs, CallsOK(cs), Embeds(cs, opened, passed), cs[Len(cs)].fn \in {"labelled", "seq"},
           NEW kind, D!ParseValue(cs, kind)
    PROVE  DInv'
<1>1. D!Event.ev = "start" /\ D!Event.name = "v" /\ passed \subseteq STRING
  BY DEF D!Is, DInv
<1>2. ASSUME NEW c, "fn" \in DOMAIN c, c.fn \in {"rec", "seq", "read_scalar"},
             calls' = Append(cs, c), UNCHANGED <<passed, decoded>>
      PROVE  DInv'
  <2>1. CallOn(cs[Len(cs)], c) /\ Holds(c) /\ ElementOf(c) = D!Event.name
    BY <1>1, <1>2 DEF CallOn, Holds, ElementOf
  <2>2. CallsOK(Append(cs, c)) /\ Embeds(Append(cs, c), opened', passed)
    BY <1>1, <2>1, Entered
  <2>3. QED
    BY <1>1, <1>2, <2>2, Goes
<1>3. CASE kind = "rec"
  <2> DEFINE c == [fn |-> "rec", fields |-> <<>>]
  <2>1. "fn" \in DOMAIN c /\ c.fn = "rec"
    OBVIOUS
  <2>2. calls' = Append(cs, c) /\ UNCHANGED <<passed, decoded>>
    BY <1>3 DEF D!ParseValue
  <2> HIDE DEF c
  <2>3. QED
    BY <1>2, <2>1, <2>2
<1>4. CASE kind = "seq"
  <2> DEFINE c == [fn |-> "seq", items |-> <<>>]
  <2>1. "fn" \in DOMAIN c /\ c.fn = "seq"
    OBVIOUS
  <2>2. calls' = Append(cs, c) /\ UNCHANGED <<passed, decoded>>
    BY <1>4 DEF D!ParseValue
  <2> HIDE DEF c
  <2>3. QED
    BY <1>2, <2>1, <2>2
<1>5. CASE kind \in {"text", "uint", "sint", "real", "bool", "blob", "nil"}
  <2> DEFINE c == [fn |-> "read_scalar", kind |-> kind, text |-> D!Plain("")]
  <2>1. "fn" \in DOMAIN c /\ c.fn = "read_scalar"
    OBVIOUS
  <2>2. calls' = Append(cs, c) /\ UNCHANGED <<passed, decoded>>
    BY <1>5 DEF D!ParseValue
  <2> HIDE DEF c
  <2>3. QED
    BY <1>2, <2>1, <2>2
<1>6. CASE kind \notin {"rec", "seq", "text", "uint", "sint", "real", "bool", "blob", "nil"}
  <2>1. D!Stop("unknown kind") /\ "unknown kind" \in D!Reasons
    BY <1>6 DEF D!ParseValue, D!Reasons
  <2>2. QED
    BY <2>1, ReadRefused
<1>7. QED
  BY <1>3, <1>4, <1>5, <1>6

\* A value is complete, with its end tag.
LEMMA ValueReturned ==
    ASSUME DInv, NEW fn \in {"rec", "seq", "read_scalar"}, D!Reads(fn), D!Is("end", "v"), NEW v, D!Return(v)
    PROVE  DInv'
<1>1. D!Event.ev = "end" /\ D!Event.name = "v" /\ passed \subseteq STRING
  BY DEF D!Is, DInv
<1>2. /\ opened \in Seq(STRING) /\ opened # <<>> /\ opened[Len(opened)] = "v"
      /\ opened' = SubSeq(opened, 1, Len(opened) - 1)
      /\ CallsOK(calls) /\ Embeds(calls, opened, passed)
      /\ calls[Len(calls)].fn = fn /\ Len(calls) >= 2 /\ CallOn(calls[Len(calls) - 1], calls[Len(calls)])
  BY <1>1, ReadFacts DEF DInv
<1>3. PICK cs : cs = D!Front(calls)
  OBVIOUS
<1>4. Holds(calls[Len(calls)]) /\ ElementOf(calls[Len(calls)]) = opened[Len(opened)]
  BY <1>2 DEF Holds, ElementOf
<1>5. CallsOK(cs) /\ Embeds(cs, opened', passed)
  BY <1>2, <1>3, <1>4, PopHeld
<1>6. cs[Len(cs)].fn \in {"seq", "labelled"} /\ Len(cs) >= 2
  <2>1. Len(cs) = Len(calls) - 1 /\ cs[Len(calls) - 1] = calls[Len(calls) - 1] /\ Len(cs) \in Nat \ {0}
    <3>1. Len(calls) \in Nat
      BY <1>2, HeldFacts
    <3>2. Len(calls) - 1 \in 1..Len(calls) - 1
      BY <1>2, <3>1
    <3>3. Len(cs) = Len(calls) - 1 /\ \A k \in 1..Len(calls) - 1 : cs[k] = calls[k]
      BY <1>2, <1>3, Popped
    <3>4. QED
      BY <1>2, <3>1, <3>2, <3>3
  <2>2. cs[Len(cs)].fn \in {"seq", "labelled"}
    BY <1>2, <2>1 DEF CallOn
  <2>3. cs[1].fn = "decode_envelope"
    BY <1>5 DEF CallsOK
  <2>4. QED
    BY <2>1, <2>2, <2>3
<1>7. /\ CallsOK(D!Deliver(cs, v)) /\ Held(D!Deliver(cs, v)) = Held(cs)
      /\ \A k \in Held(cs) : ElementOf(D!Deliver(cs, v)[k]) = ElementOf(cs[k])
  BY <1>5, <1>6, Delivered
<1>8. calls' = D!Deliver(cs, v) /\ UNCHANGED <<passed, decoded>>
  BY <1>3 DEF D!Return
<1>9. Embeds(calls', opened', passed)
  BY <1>5, <1>7, <1>8, EmbedsAlike
<1>10. QED
  BY <1>1, <1>7, <1>8, <1>9, Goes
-----------------------------------------------------------------------------
LEMMA InitD == D!Init => DInv
<1> SUFFICES ASSUME D!Init PROVE DInv
  OBVIOUS
<1>1. /\ document \in Seq(D!Events) /\ pos = 1 /\ opened = <<>> /\ passed = {}
      /\ calls = <<[fn |-> "decode_envelope"]>> /\ decoded = None
  BY DEF D!Init, D!Ready
<1>2. pos \in 1..Len(document) + 1 /\ opened \in Seq(STRING) /\ passed \subseteq STRING
  BY <1>1
<1>3. Len(calls) = 1 /\ calls[1] = [fn |-> "decode_envelope"] /\ DOMAIN calls = 1..1 /\ calls \in Seq({calls[1]})
  BY <1>1
<1>4. CallsOK(calls)
  BY <1>3 DEF CallsOK
<1>5. Embeds(calls, opened, passed)
  <2>1. Held(calls) = {}
    BY <1>3, <1>4, HeldFacts
  <2>2. [k \in {} |-> k] \in [Held(calls) -> DOMAIN opened] /\ DOMAIN opened = {}
    BY <1>1, <2>1
  <2>3. QED
    BY <2>1, <2>2 DEF Embeds
<1>6. D!AcceptedIsClosed
  BY <1>1 DEF D!AcceptedIsClosed, D!Accepted
<1>7. QED
  BY <1>1, <1>2, <1>4, <1>5, <1>6 DEF DInv

LEMMA MalformedD == ASSUME D!DecoderAssumption, DInv, D!Malformed PROVE DInv'
<1>1. document' = document /\ pos' \in 1..Len(document) + 1 /\ opened' \in Seq(STRING) /\ D!Stop("xml")
  BY DEF D!Malformed, DInv
<1>2. "xml" \in D!Reasons
  BY DEF D!Reasons
<1>3. QED
  BY <1>1, <1>2, Refused

\* The one call there is returns: nothing is left that was not passed over.
LEMMA Completes ==
    ASSUME DInv, D!Reads("decode_envelope"), D!Is("end", "message") \/ D!Event = D!Eof,
           UNCHANGED <<passed, calls>>
    PROVE  DInv'
<1>1. /\ CallsOK(calls) /\ opened \in Seq(STRING) /\ Embeds(calls, opened, passed) /\ passed \subseteq STRING
      /\ Len(calls) = 1 /\ document \in Seq(D!Events) /\ document' = document
      /\ pos' \in 1..Len(document) + 1 /\ opened' \in Seq(STRING)
  BY ReadFacts DEF DInv
<1>2. Embeds(calls, opened', passed)
  <2>1. CASE D!Event.ev = "end"
    <3>1. opened # <<>> /\ opened' = SubSeq(opened, 1, Len(opened) - 1)
      BY <2>1, ReadFacts
    <3>2. Embeds(calls, SubSeq(opened, 1, Len(opened) - 1), passed)
      BY <1>1, <3>1, EndOver
    <3>3. QED
      BY <3>1, <3>2
  <2>2. CASE D!Event = D!Eof
    <3>1. D!Event.ev = "eof"
      BY <2>2, ReadFacts
    <3>2. opened' = opened
      BY <3>1, ReadFacts
    <3>3. QED
      BY <1>1, <3>2
  <2>3. QED
    BY <2>1, <2>2 DEF D!Is
<1>3. Held(calls) = {}
  BY <1>1, HeldFacts
<1>4. \A m \in DOMAIN opened' : opened'[m] \in passed \cup {"message"}
  BY <1>2, <1>3 DEF Embeds
<1>5. D!AcceptedIsClosed'
  BY <1>4 DEF D!AcceptedIsClosed, D!Range
<1>6. QED
  BY <1>1, <1>2, <1>5 DEF DInv

LEMMA DecodeEnvelopeD == ASSUME D!DecoderAssumption, DInv, D!DecodeEnvelope PROVE DInv'
<1>0. /\ D!Reads("decode_envelope") /\ calls[Len(calls)].fn = "decode_envelope"
      /\ CallsOK(calls) /\ opened \in Seq(STRING) /\ Embeds(calls, opened, passed) /\ passed \subseteq STRING
  BY ReadFacts DEF D!DecodeEnvelope, DInv
<1>1. CASE D!Is("start", "message") /\ UNCHANGED <<passed, calls, decoded>>
  <2>1. opened' = Append(opened, "message") /\ "message" \in STRING
    BY <1>0, <1>1, ReadFacts DEF D!Is
  <2>2. Embeds(calls, Append(opened, "message"), passed)
    BY <1>0, <2>1, EmbedsOpened
  <2>3. QED
    BY <1>0, <1>1, <2>1, <2>2, Goes
<1>2. CASE D!Is("start", "meta") /\ D!Enter(<<[fn |-> "read_meta", field |-> None]>>)
  <2> DEFINE c == [fn |-> "read_meta", field |-> None]
  <2>1. "fn" \in DOMAIN c /\ c.fn = "read_meta"
    OBVIOUS
  <2>2. calls' = calls \o <<c>> /\ UNCHANGED <<passed, decoded>>
    BY <1>2 DEF D!Enter
  <2> HIDE DEF c
  <2>3. calls' = Append(calls, c)
    <3>1. PICK T : calls \in Seq(T) /\ c \in T
      <4>1. calls \in Seq({calls[k] : k \in DOMAIN calls} \cup {c})
        BY <1>0 DEF CallsOK
      <4>2. QED
        BY <4>1
    <3>2. calls \o <<c>> = Append(calls, c)
      BY <3>1
    <3>3. QED
      BY <2>2, <3>2
  <2>4. D!Event.ev = "start" /\ D!Event.name = "meta"
    BY <1>2 DEF D!Is
  <2>5. CallOn(calls[Len(calls)], c) /\ Holds(c) /\ ElementOf(c) = D!Event.name
    BY <1>0, <2>1, <2>4 DEF CallOn, Holds, ElementOf
  <2>6. CallsOK(Append(calls, c)) /\ Embeds(Append(calls, c), opened', passed)
    BY <1>0, <2>4, <2>5, Entered
  <2>7. QED
    BY <1>0, <2>2, <2>3, <2>6, Goes
<1>3. CASE D!Is("start", "payload") /\ D!Enter(D!Labelled("payload"))
  BY <1>0, <1>3, LabelledEntered DEF D!Is
<1>4. CASE D!Stop("unexpected")
  <2>1. "unexpected" \in D!Reasons
    BY DEF D!Reasons
  <2>2. QED
    BY <1>0, <1>4, <2>1, ReadRefused
<1>5. CASE (D!Is("end", "message") \/ D!Event = D!Eof) /\ UNCHANGED <<passed, calls>>
  BY <1>0, <1>5, Completes
<1>6. CASE D!Skip
  BY <1>0, <1>6, Skips
<1>7. QED
  BY <1>1, <1>2, <1>3, <1>4, <1>5, <1>6 DEF D!DecodeEnvelope

LEMMA ReadMetaD == ASSUME D!DecoderAssumption, DInv, D!ReadMeta PROVE DInv'
<1>0. /\ D!Reads("read_meta") /\ calls[Len(calls)].fn = "read_meta" /\ Len(calls) >= 2
      /\ CallOn(calls[Len(calls) - 1], calls[Len(calls)])
      /\ CallsOK(calls) /\ opened \in Seq(STRING) /\ Embeds(calls, opened, passed) /\ passed \subseteq STRING
  BY ReadFacts, SMTT(40) DEF D!ReadMeta, DInv
<1>1. Holds(calls[Len(calls)]) /\ ElementOf(calls[Len(calls)]) = "meta"
  BY <1>0 DEF Holds, ElementOf
<1>2. ASSUME NEW c, "fn" \in DOMAIN c, c.fn = "read_meta"
      PROVE  CallOn(calls[Len(calls) - 1], c) /\ Holds(c) /\ ElementOf(c) = ElementOf(calls[Len(calls)])
  BY <1>0, <1>1, <1>2 DEF CallOn, Holds, ElementOf
<1>3. ASSUME NEW name
      PROVE  "fn" \in DOMAIN [D!Top EXCEPT !.field = name] /\ [D!Top EXCEPT !.field = name].fn = "read_meta"
  BY <1>0 DEF D!Top, D!Last, CallOn
<1>4. CASE /\ D!Event.ev = "start"
           /\ calls' = Append(D!Front(calls), [D!Top EXCEPT !.field = D!Event.name])
           /\ passed' = passed \cup {D!Event.name} /\ UNCHANGED decoded
  <2>1. opened' = Append(opened, D!Event.name) /\ D!Event.name \in STRING
    BY <1>0, <1>4, ReadFacts
  <2>2. passed \subseteq passed' /\ D!Event.name \in passed' \cup {"message"} /\ passed' \subseteq STRING
    BY <1>0, <1>4, <2>1
  <2>3. Embeds(calls, opened', passed')
    BY <1>0, <2>1, <2>2, EmbedsOpened
  <2>4. PICK c : c = [D!Top EXCEPT !.field = D!Event.name]
    OBVIOUS
  <2>5. CallOn(calls[Len(calls) - 1], c) /\ Holds(c) /\ ElementOf(c) = ElementOf(calls[Len(calls)])
    BY <1>2, <1>3, <2>4
  <2>6. CallsOK(Append(D!Front(calls), c)) /\ Embeds(Append(D!Front(calls), c), opened', passed')
    BY <1>0, <1>1, <2>3, <2>5, Continued
  <2>7. QED
    BY <1>0, <1>4, <2>2, <2>4, <2>6, Goes
<1>5. CASE D!Event.ev = "text" /\ UNCHANGED <<passed, calls, decoded>>
  BY <1>0, <1>5, Stays
<1>6. CASE D!Event.ev \in {"text", "empty", "other"} /\ D!Skip
  BY <1>0, <1>6, Skips
<1>7. CASE (\E reason \in D!MetaFaults(D!Top.field, D!Event.text) : D!Stop(reason)) \/ D!Stop("eof")
  <2>1. D!MetaFaults(D!Top.field, D!Event.text) \subseteq D!Reasons /\ "eof" \in D!Reasons
    BY DEF D!Reasons, D!MetaFaults
  <2>2. PICK reason \in D!Reasons : D!Stop(reason)
    BY <1>7, <2>1
  <2>3. QED
    BY <1>0, <2>2, ReadRefused
<1>8. CASE D!Is("end", "meta") /\ calls' = D!Front(calls) /\ UNCHANGED <<passed, decoded>>
  <2>1. opened # <<>> /\ opened[Len(opened)] = "meta" /\ opened' = SubSeq(opened, 1, Len(opened) - 1)
    BY <1>0, <1>8, ReadFacts DEF D!Is
  <2>2. CallsOK(D!Front(calls)) /\ Embeds(D!Front(calls), SubSeq(opened, 1, Len(opened) - 1), passed)
    BY <1>0, <1>1, <2>1, PopHeld
  <2>3. QED
    BY <1>0, <1>8, <2>1, <2>2, Goes
<1>9. CASE D!Event.ev = "end" /\ D!Event.name # "meta" /\ D!Become([D!Top EXCEPT !.field = None])
  <2>1. /\ opened # <<>> /\ opened[Len(opened)] # "meta" /\ opened' = SubSeq(opened, 1, Len(opened) - 1)
    BY <1>0, <1>9, ReadFacts
  <2>2. Embeds(calls, opened', passed)
    BY <1>0, <1>1, <2>1, EndOver
  <2>3. PICK c : c = [D!Top EXCEPT !.field = None]
    OBVIOUS
  <2>4. CallOn(calls[Len(calls) - 1], c) /\ Holds(c) /\ ElementOf(c) = ElementOf(calls[Len(calls)])
    BY <1>2, <1>3, <2>3
  <2>5. CallsOK(Append(D!Front(calls), c)) /\ Embeds(Append(D!Front(calls), c), opened', passed)
    BY <1>0, <1>1, <2>2, <2>4, Continued
  <2>6. calls' = Append(D!Front(calls), c) /\ UNCHANGED <<passed, decoded>>
    BY <1>9, <2>3 DEF D!Become
  <2>7. QED
    BY <1>0, <2>5, <2>6, Goes
<1>10. QED
  BY <1>4, <1>5, <1>6, <1>7, <1>8, <1>9 DEF D!ReadMeta

LEMMA ExpectValueD == ASSUME D!DecoderAssumption, DInv, D!ExpectValue PROVE DInv'
<1>0. /\ D!Reads("expect_value") /\ calls[Len(calls)].fn = "expect_value" /\ Len(calls) >= 2
      /\ CallOn(calls[Len(calls) - 1], calls[Len(calls)])
      /\ CallsOK(calls) /\ Embeds(calls, opened, passed) /\ passed \subseteq STRING
  BY ReadFacts DEF D!ExpectValue, DInv
<1>1. PICK cs : cs = D!Front(calls)
  OBVIOUS
<1>2. CallsOK(cs) /\ Embeds(cs, opened, passed)
  BY <1>0, <1>1, PopBare DEF Holds
<1>3. cs[Len(cs)].fn = "labelled" /\ Len(cs) >= 2
  <2>1. Len(calls) \in Nat /\ calls[Len(calls) - 1].fn = "labelled"
    BY <1>0, HeldFacts DEF CallOn
  <2>2. Len(cs) = Len(calls) - 1 /\ \A k \in 1..Len(calls) - 1 : cs[k] = calls[k]
    BY <1>0, <1>1, Popped
  <2>3. Len(calls) - 1 \in 1..Len(calls) - 1
    BY <1>0, <2>1
  <2>4. cs[Len(cs)].fn = "labelled"
    BY <2>1, <2>2, <2>3
  <2>5. Len(cs) # 1
    BY <1>2, <2>4 DEF CallsOK
  <2>6. QED
    BY <1>0, <2>1, <2>2, <2>4, <2>5
<1>4. CASE D!Is("start", "v") /\ D!ParseValue(D!Front(calls), D!Event.text.body)
  BY <1>0, <1>1, <1>2, <1>3, <1>4, ValueEntered
<1>5. CASE D!Is("empty", "v") /\ D!Return(D!EmptyValue(D!Event.text.body))
  <2>1. PICK v : v = D!EmptyValue(D!Event.text.body)
    OBVIOUS
  <2>2. /\ CallsOK(D!Deliver(cs, v)) /\ Held(D!Deliver(cs, v)) = Held(cs)
        /\ \A k \in Held(cs) : ElementOf(D!Deliver(cs, v)[k]) = ElementOf(cs[k])
    BY <1>2, <1>3, Delivered
  <2>3. calls' = D!Deliver(cs, v) /\ UNCHANGED <<passed, decoded>>
    BY <1>1, <1>5, <2>1 DEF D!Return
  <2>4. Embeds(calls', opened, passed)
    BY <1>2, <2>2, <2>3, EmbedsAlike
  <2>5. D!Event.ev \notin {"start", "end"}
    BY <1>5 DEF D!Is
  <2>6. QED
    BY <1>0, <2>2, <2>3, <2>4, <2>5, Stays
<1>6. CASE D!Event.ev = "text" /\ D!Skip
  BY <1>0, <1>6, Skips
<1>7. CASE D!Stop("eof") \/ D!Stop("unexpected")
  <2>1. "unexpected" \in D!Reasons /\ "eof" \in D!Reasons
    BY DEF D!Reasons
  <2>2. QED
    BY <1>0, <1>7, <2>1, ReadRefused
<1>8. QED
  BY <1>4, <1>5, <1>6, <1>7 DEF D!ExpectValue

LEMMA ParseRecD == ASSUME D!DecoderAssumption, DInv, D!ParseRec PROVE DInv'
<1>0. D!Reads("rec") /\ calls[Len(calls)].fn = "rec"
  BY ReadFacts DEF D!ParseRec
<1>1. Holds(calls[Len(calls)]) /\ ElementOf(calls[Len(calls)]) = "v"
  BY <1>0 DEF Holds, ElementOf
<1>2. CASE D!Is("start", "f") /\ D!Enter(D!Labelled("f"))
  BY <1>0, <1>2, LabelledEntered DEF D!Is
<1>3. CASE D!Is("end", "v") /\ D!Return(D!Rec(D!Top.fields))
  BY <1>0, <1>3, ValueReturned
<1>4. CASE D!Stop("eof")
  <2>1. "eof" \in D!Reasons
    BY DEF D!Reasons
  <2>2. QED
    BY <1>0, <1>4, <2>1, ReadRefused
<1>5. CASE ~D!Is("end", "v") /\ D!Skip
  BY <1>0, <1>1, <1>5, Skips DEF D!Is
<1>6. QED
  BY <1>2, <1>3, <1>4, <1>5 DEF D!ParseRec

LEMMA ParseSeqD == ASSUME D!DecoderAssumption, DInv, D!ParseSeq PROVE DInv'
<1>0. /\ D!Reads("seq") /\ calls[Len(calls)].fn = "seq" /\ Len(calls) >= 2
      /\ CallsOK(calls) /\ Embeds(calls, opened, passed)
  BY ReadFacts DEF D!ParseSeq, DInv
<1>1. Holds(calls[Len(calls)]) /\ ElementOf(calls[Len(calls)]) = "v"
  BY <1>0 DEF Holds, ElementOf
<1>2. CASE D!Is("start", "v") /\ D!ParseValue(calls, D!Event.text.body)
  BY <1>0, <1>2, ValueEntered
<1>3. CASE /\ D!Is("empty", "v") /\ calls' = D!Deliver(calls, D!EmptyValue(D!Event.text.body))
           /\ UNCHANGED <<passed, meta, decoded>>
  <2>1. PICK v : v = D!EmptyValue(D!Event.text.body)
    OBVIOUS
  <2>2. /\ CallsOK(D!Deliver(calls, v)) /\ Held(D!Deliver(calls, v)) = Held(calls)
        /\ \A k \in Held(calls) : ElementOf(D!Deliver(calls, v)[k]) = ElementOf(calls[k])
    BY <1>0, Delivered
  <2>3. calls' = D!Deliver(calls, v) /\ UNCHANGED <<passed, decoded>>
    BY <1>3, <2>1
  <2>4. Embeds(calls', opened, passed)
    BY <1>0, <2>2, <2>3, EmbedsAlike
  <2>5. D!Event.ev \notin {"start", "end"}
    BY <1>3 DEF D!Is
  <2>6. QED
    BY <1>0, <2>2, <2>3, <2>4, <2>5, Stays
<1>4. CASE D!Is("end", "v") /\ D!Return(D!Seqn(D!Top.items))
  BY <1>0, <1>4, ValueReturned
<1>5. CASE D!Stop("eof")
  <2>1. "eof" \in D!Reasons
    BY DEF D!Reasons
  <2>2. QED
    BY <1>0, <1>5, <2>1, ReadRefused
<1>6. CASE D!Event.name # "v" /\ D!Skip
  BY <1>0, <1>1, <1>6, Skips
<1>7. QED
  BY <1>2, <1>3, <1>4, <1>5, <1>6 DEF D!ParseSeq

LEMMA ReadScalarD == ASSUME D!DecoderAssumption, DInv, D!ReadScalar PROVE DInv'
<1>0. /\ D!Reads("read_scalar") /\ calls[Len(calls)].fn = "read_scalar" /\ Len(calls) >= 2
      /\ CallOn(calls[Len(calls) - 1], calls[Len(calls)])
      /\ CallsOK(calls) /\ Embeds(calls, opened, passed)
  <2>1. D!Reads("read_scalar")
    BY DEF D!ReadScalar
  <2>2. QED
    BY <2>1, ReadFacts DEF DInv
<1>1. Holds(calls[Len(calls)]) /\ ElementOf(calls[Len(calls)]) = "v"
  BY <1>0 DEF Holds, ElementOf
<1>2. CASE /\ D!Event.ev = "text"
           /\ D!Become([D!Top EXCEPT !.text = D!Joined(@, D!Unescape(D!Event.text))])
  <2>1. PICK t : t = D!Joined(D!Top.text, D!Unescape(D!Event.text))
    OBVIOUS
  <2>2. PICK c : c = [D!Top EXCEPT !.text = t]
    OBVIOUS
  <2>3. "fn" \in DOMAIN c /\ c.fn = "read_scalar"
    BY <1>0, <2>2 DEF D!Top, D!Last, CallOn
  <2>4. CallOn(calls[Len(calls) - 1], c) /\ Holds(c) /\ ElementOf(c) = ElementOf(calls[Len(calls)])
    BY <1>0, <1>1, <2>3 DEF CallOn, Holds, ElementOf
  <2>5. CallsOK(Append(D!Front(calls), c)) /\ Embeds(Append(D!Front(calls), c), opened, passed)
    BY <1>0, <1>1, <2>4, Continued
  <2>6. calls' = Append(D!Front(calls), c) /\ UNCHANGED <<passed, decoded>>
    BY <1>2, <2>1, <2>2 DEF D!Become
  <2>7. QED
    BY <1>0, <1>2, <2>5, <2>6, Stays
<1>3. CASE D!Is("end", "v") /\ D!Return(D!ScalarValue(D!Top.kind, D!Top.text))
  BY <1>0, <1>3, ValueReturned
<1>4. CASE \/ D!Stop("eof") \/ D!Stop("unescape")
           \/ \E reason \in D!ScalarFaults(D!Top.kind, D!Top.text) : D!Stop(reason)
  <2>1. D!ScalarFaults(D!Top.kind, D!Top.text) \subseteq D!Reasons /\ "eof" \in D!Reasons /\ "unescape" \in D!Reasons
    BY DEF D!Reasons, D!ScalarFaults
  <2>2. PICK reason \in D!Reasons : D!Stop(reason)
    BY <1>4, <2>1
  <2>3. QED
    BY <1>0, <2>2, ReadRefused
<1>5. CASE ~D!Is("end", "v") /\ D!Skip
  BY <1>0, <1>1, <1>5, Skips DEF D!Is
<1>6. QED
  BY <1>2, <1>3, <1>4, <1>5 DEF D!ReadScalar

LEMMA ExpectEndD == ASSUME D!DecoderAssumption, DInv, D!ExpectEnd PROVE DInv'
<1>0. /\ D!Reads("expect_end") /\ calls[Len(calls)].fn = "expect_end" /\ Len(calls) >= 2
      /\ CallOn(calls[Len(calls) - 1], calls[Len(calls)]) /\ D!Top = calls[Len(calls)]
      /\ CallsOK(calls) /\ opened \in Seq(STRING) /\ Embeds(calls, opened, passed) /\ passed \subseteq STRING
  BY ReadFacts DEF D!ExpectEnd, DInv, D!Top, D!Last
<1>1. Holds(calls[Len(calls)]) /\ ElementOf(calls[Len(calls)]) = D!Top.name
  BY <1>0 DEF Holds, ElementOf
<1>2. PICK cs : cs = D!Front(calls)
  OBVIOUS
<1>3. ASSUME D!Is("end", D!Top.name) PROVE CallsOK(cs) /\ Embeds(cs, opened', passed)
  <2>1. opened # <<>> /\ opened[Len(opened)] = D!Top.name /\ opened' = SubSeq(opened, 1, Len(opened) - 1)
    BY <1>0, <1>3, ReadFacts DEF D!Is
  <2>2. QED
    BY <1>0, <1>1, <1>2, <2>1, PopHeld
<1>4. CASE D!Is("end", D!Top.name) /\ calls' = D!Front(calls) /\ UNCHANGED <<passed, decoded>>
  BY <1>0, <1>2, <1>3, <1>4, Goes
<1>5. CASE /\ D!Is("end", D!Top.name) /\ D!Top.name = "f"
           /\ calls' = [D!Front(calls) EXCEPT ![Len(calls) - 1].fields =
                          Append(@, [name |-> D!Top.label, value |-> D!Top.value])]
           /\ UNCHANGED <<passed, meta, decoded>>
  <2>1. PICK n : n = Len(cs)
    OBVIOUS
  <2>2. n = Len(calls) - 1 /\ cs[n] = calls[n] /\ n \in Nat \ {0}
    <3>1. Len(calls) \in Nat /\ Len(calls) - 1 \in 1..Len(calls) - 1
      BY <1>0, HeldFacts
    <3>2. Len(cs) = Len(calls) - 1 /\ \A k \in 1..Len(calls) - 1 : cs[k] = calls[k]
      BY <1>0, <1>2, Popped
    <3>3. QED
      BY <1>0, <2>1, <3>1, <3>2
  <2>3. cs[n].fn = "rec"
    BY <1>0, <1>5, <2>2 DEF CallOn
  <2>4. Len(cs) >= 2 /\ "fn" \in DOMAIN cs[n]
    <3>1. n # 1
      BY <1>3, <1>5, <2>3 DEF CallsOK
    <3>2. n \in 2..Len(cs)
      BY <2>1, <2>2, <3>1
    <3>3. CallOn(cs[n - 1], cs[n])
      BY <1>3, <1>5, <3>2 DEF CallsOK
    <3>4. QED
      BY <3>2, <3>3 DEF CallOn
  <2>5. PICK c : c = [cs[n] EXCEPT !.fields = Append(@, [name |-> D!Top.label, value |-> D!Top.value])]
    OBVIOUS
  <2>6. "fn" \in DOMAIN c /\ c.fn = cs[Len(cs)].fn /\ cs[Len(cs)].fn \in {"seq", "rec"}
    BY <2>1, <2>3, <2>4, <2>5
  <2>7. /\ CallsOK([cs EXCEPT ![Len(cs)] = c]) /\ Held([cs EXCEPT ![Len(cs)] = c]) = Held(cs)
        /\ \A k \in Held(cs) : ElementOf([cs EXCEPT ![Len(cs)] = c][k]) = ElementOf(cs[k])
    BY <1>3, <1>5, <2>4, <2>6, Updated
  <2>8. calls' = [cs EXCEPT ![Len(cs)] = c]
    BY <1>2, <1>5, <2>1, <2>2, <2>5
  <2>9. Embeds(calls', opened', passed)
    BY <1>3, <1>5, <2>7, <2>8, EmbedsAlike
  <2>10. QED
    BY <1>0, <1>5, <2>7, <2>8, <2>9, Goes
<1>6. CASE D!Event.ev = "text" /\ D!Skip
  BY <1>0, <1>6, Skips
<1>7. CASE D!Stop("eof") \/ D!Stop("unexpected")
  <2>1. "unexpected" \in D!Reasons /\ "eof" \in D!Reasons
    BY DEF D!Reasons
  <2>2. QED
    BY <1>0, <1>7, <2>1, ReadRefused
<1>8. QED
  BY <1>4, <1>5, <1>6, <1>7 DEF D!ExpectEnd

LEMMA NextD == ASSUME D!DecoderAssumption, DInv, [D!Next]_(D!vars) PROVE DInv'
<1>1. CASE D!Next
  BY <1>1, MalformedD, DecodeEnvelopeD, ReadMetaD, ExpectValueD, ParseRecD, ParseSeqD, ReadScalarD, ExpectEndD DEF D!Next
<1>2. CASE UNCHANGED D!vars
  <2>1. UNCHANGED <<document, pos, opened, passed, calls, decoded>>
    BY <1>2 DEF D!vars
  <2>2. D!AcceptedIsClosed' <=> D!AcceptedIsClosed
    BY <2>1 DEF D!AcceptedIsClosed, D!Accepted, D!Range
  <2>3. QED
    BY <2>1, <2>2 DEF DInv
<1>3. QED
  BY <1>1, <1>2

LEMMA DTyped == DInv => D!TypeOK
<1> SUFFICES ASSUME DInv PROVE D!TypeOK
  OBVIOUS
<1>1. Len(calls) \in Nat \ {0} /\ DOMAIN calls = 1..Len(calls) /\ calls[1].fn = "decode_envelope"
  BY HeldFacts DEF DInv, CallsOK
<1>2. \A k \in 2..Len(calls) : CallOn(calls[k - 1], calls[k])
  BY DEF DInv, CallsOK
<1>3. \A k \in DOMAIN calls : calls[k].fn \in D!Functions
  <2>1. \A k \in 2..Len(calls) : calls[k].fn \in D!Functions
    BY <1>2 DEF CallOn, D!Functions
  <2>2. calls[1].fn \in D!Functions
    BY <1>1 DEF D!Functions
  <2>3. QED
    BY <1>1, <2>1, <2>2
<1>4. \A k \in 2..Len(calls) : calls[k].fn = "expect_value" => calls[k - 1].fn = "labelled"
  BY <1>2 DEF CallOn
<1>5. calls # <<>>
  BY <1>1
<1>6. QED
  BY <1>1, <1>3, <1>4, <1>5 DEF D!TypeOK, DInv

\* Whatever events a document is made of, and however long it is: what is accepted
\* was not cut short within its metadata, its payload or a value of it.  Each
\* call of the decoder that reads an element's content returns on its end tag
\* alone, and end tags match (codec.rs:121-359).
THEOREM DecoderCloses == ASSUME D!DecoderAssumption PROVE D!Spec => []AcceptedIsClosed
<1>1. DInv => AcceptedIsClosed
  BY DTyped DEF AcceptedIsClosed, DInv
<1>2. QED
  BY <1>1, InitD, NextD, PTL DEF D!Spec
-----------------------------------------------------------------------------
(* The round trip: what the decoder accepts of an envelope's document is   *)
(* the envelope.  A document is laid out by its envelope, and a value in   *)
(* it by what is inside that value; the decoder's position in the document *)
(* says how much of the metadata, of each record and of each sequence it   *)
(* has in hand.                                                            *)

\* A set with 0, and with each number's successor, has every number: the numbers
\* below one it had not would, moved down by one, be fewer than they are.
LEMMA SetInduction ==
    ASSUME NEW S, 0 \in S, \A n \in Nat : n \in S => n + 1 \in S
    PROVE  Nat \subseteq S
<1> SUFFICES ASSUME NEW n \in Nat, n \notin S PROVE FALSE
  OBVIOUS
<1> DEFINE T == {k \in 0..n : k \notin S}
           f == [k \in T |-> k - 1]
<1>1. IsFiniteSet(T)
  <2>1. IsFiniteSet(0..n)
    BY FS_Interval
  <2>2. QED
    BY <2>1, FS_Subset
<1>2. n \in T
  OBVIOUS
<1>3. /\ IsFiniteSet(T \ {n}) /\ Cardinality(T \ {n}) = Cardinality(T) - 1
      /\ Cardinality(T) \in Nat
  BY <1>1, <1>2, FS_RemoveElement, FS_CardinalityType
<1>4. \A k \in T : k - 1 \in T \ {n}
  OBVIOUS
<1>5. f \in [T -> T \ {n}]
  BY <1>4
<1>6. \A x, y \in T : x # y => f[x] # f[y]
  OBVIOUS
<1>7. Cardinality(T \ {n}) < Cardinality(T)
  BY <1>3
<1> HIDE DEF T, f
<1>8. QED
  BY <1>1, <1>3, <1>5, <1>6, <1>7, FS_PigeonHole

\* A set of sequences with the empty one, and with each one's continuations, has
\* every sequence.
LEMMA SeqInduction ==
    ASSUME NEW X, NEW A, <<>> \in A, \A s \in Seq(X), x \in X : s \in A => Append(s, x) \in A
    PROVE  Seq(X) \subseteq A
<1> DEFINE N == {n \in Nat : \A s \in Seq(X) : Len(s) = n => s \in A}
<1>1. 0 \in N
  BY EmptySeq
<1>2. ASSUME NEW n \in Nat, n \in N PROVE n + 1 \in N
  <2> SUFFICES ASSUME NEW s \in Seq(X), Len(s) = n + 1 PROVE s \in A
    OBVIOUS
  <2>1. s # <<>>
    OBVIOUS
  <2>2. PICK t \in Seq(X), x \in X : s = Append(t, x)
    BY <2>1, SequenceEmptyOrAppend
  <2>3. Len(t) = n
    BY <2>2, AppendProperties
  <2>4. t \in A
    BY <1>2, <2>3
  <2>5. QED
    BY <2>2, <2>4
<1> HIDE DEF N
<1>3. Nat \subseteq N
  BY <1>1, <1>2, SetInduction
<1>4. ASSUME NEW s \in Seq(X) PROVE s \in A
  <2>1. Len(s) \in N
    BY <1>3
  <2>2. QED
    BY <2>1 DEF N
<1>5. QED
  BY <1>4
-----------------------------------------------------------------------------
(* Sequences.                                                              *)

LEMMA Appends ==
    ASSUME NEW X, NEW s \in Seq(X), NEW x \in X
    PROVE  /\ Append(s, x) \in Seq(X) /\ Len(Append(s, x)) = Len(s) + 1 /\ Len(s) \in Nat
           /\ Append(s, x)[Len(s) + 1] = x /\ \A k \in 1..Len(s) : Append(s, x)[k] = s[k]
           /\ SubSeq(Append(s, x), 1, Len(s)) = s
OBVIOUS

LEMMA SliceAppend ==
    ASSUME NEW X, NEW s \in Seq(X), NEW m \in 1..Len(s) + 1, NEW n \in Nat, m - 1 <= n, n < Len(s)
    PROVE  /\ SubSeq(s, m, n) \in Seq(X) /\ Len(SubSeq(s, m, n)) = n - m + 1
           /\ SubSeq(s, m, n + 1) = Append(SubSeq(s, m, n), s[n + 1])
OBVIOUS

LEMMA Whole == ASSUME NEW X, NEW s \in Seq(X) PROVE SubSeq(s, 1, Len(s)) = s
OBVIOUS

\* The function that FlattenSeq takes its value from.
Flattening(h, s, n) == \A k \in 1..n : h[k] = IF k = 1 THEN s[k] ELSE h[k - 1] \o s[k]

LEMMA FlattenExists ==
    ASSUME NEW X, NEW s \in Seq(Seq(X)), NEW n \in 0..Len(s)
    PROVE  \E h \in [1..n -> Seq(X)] : Flattening(h, s, n)
<1> DEFINE A == {m \in Nat : m <= Len(s) => \E h \in [1..m -> Seq(X)] : Flattening(h, s, m)}
<1>1. 0 \in A
  <2>1. 1..0 = {}
    OBVIOUS
  <2>2. [k \in {} |-> <<>>] \in [1..0 -> Seq(X)]
    BY <2>1
  <2>3. Flattening([k \in {} |-> <<>>], s, 0)
    BY <2>1 DEF Flattening
  <2>4. QED
    BY <2>2, <2>3
<1>2. ASSUME NEW m \in Nat, m \in A PROVE m + 1 \in A
  <2> SUFFICES ASSUME m + 1 <= Len(s) PROVE \E g \in [1..m + 1 -> Seq(X)] : Flattening(g, s, m + 1)
    OBVIOUS
  <2>1. PICK h \in [1..m -> Seq(X)] : Flattening(h, s, m)
    <3>1. m <= Len(s)
      OBVIOUS
    <3>2. QED
      BY <1>2, <3>1
  <2>2. PICK last \in Seq(X) : last = IF m = 0 THEN s[1] ELSE h[m] \o s[m + 1]
    <3>1. m + 1 \in DOMAIN s /\ s[m + 1] \in Seq(X)
      OBVIOUS
    <3>2. CASE m = 0
      BY <3>1, <3>2
    <3>3. CASE m # 0
      <4>1. h[m] \in Seq(X)
        BY <2>1, <3>3
      <4>2. h[m] \o s[m + 1] \in Seq(X)
        BY <3>1, <4>1, ConcatProperties
      <4>3. QED
        BY <3>3, <4>2
    <3>4. QED
      BY <3>2, <3>3
  <2>3. PICK g : g = [k \in 1..m + 1 |-> IF k = m + 1 THEN last ELSE h[k]]
    OBVIOUS
  <2>4. g \in [1..m + 1 -> Seq(X)] /\ g[m + 1] = last /\ \A k \in 1..m : g[k] = h[k]
    BY <2>3
  <2>5. ASSUME NEW k \in 1..m + 1 PROVE g[k] = IF k = 1 THEN s[k] ELSE g[k - 1] \o s[k]
    <3>1. CASE k = m + 1
      <4>1. m # 0 => g[m] = h[m]
        BY <2>4
      <4>2. QED
        BY <2>2, <2>4, <3>1, <4>1
    <3>2. CASE k # m + 1
      <4>1. k \in 1..m /\ (k # 1 => k - 1 \in 1..m)
        BY <3>2
      <4>2. h[k] = IF k = 1 THEN s[k] ELSE h[k - 1] \o s[k]
        BY <2>1, <4>1 DEF Flattening
      <4>3. QED
        BY <2>4, <4>1, <4>2
    <3>3. QED
      BY <3>1, <3>2
  <2>6. Flattening(g, s, m + 1)
    BY <2>5 DEF Flattening
  <2>7. QED
    BY <2>4, <2>6
<1>3. n \in A
  <2> HIDE DEF A
  <2>1. n \in Nat
    OBVIOUS
  <2>2. QED
    BY <1>1, <1>2, <2>1, SetInduction
<1>4. n <= Len(s)
  OBVIOUS
<1>5. QED
  BY <1>3, <1>4

LEMMA FlattenBy ==
    ASSUME NEW X, NEW s \in Seq(Seq(X)), Len(s) # 0
    PROVE  \E h : D!FlattenSeq(s) = h[Len(s)] /\ Flattening(h, s, Len(s))
<1> DEFINE P(h) == h = [k \in 1..Len(s) |-> IF k = 1 THEN s[k] ELSE h[k - 1] \o s[k]]
<1>1. D!FlattenSeq(s) = (CHOOSE h : P(h))[Len(s)]
  BY Zenon DEF D!FlattenSeq
<1>2. P(CHOOSE h : P(h))
  <2>1. PICK g \in [1..Len(s) -> Seq(X)] : Flattening(g, s, Len(s))
    <3>1. Len(s) \in 0..Len(s)
      OBVIOUS
    <3>2. QED
      BY <3>1, FlattenExists
  <2>2. P(g)
    BY <2>1 DEF Flattening
  <2> HIDE DEF P
  <2>3. QED
    BY <2>2
<1>3. PICK h : h = CHOOSE g : P(g)
  OBVIOUS
<1>4. D!FlattenSeq(s) = h[Len(s)] /\ P(h)
  <2> HIDE DEF P
  <2> QED
    BY <1>1, <1>2, <1>3
<1>5. \A k \in 1..Len(s) : h[k] = IF k = 1 THEN s[k] ELSE h[k - 1] \o s[k]
  BY <1>4
<1>6. QED
  BY <1>4, <1>5 DEF Flattening

LEMMA FlattenEmpty == D!FlattenSeq(<<>>) = <<>>
BY DEF D!FlattenSeq

\* A sequence is flattened element by element.
LEMMA FlattenStep ==
    ASSUME NEW X, NEW s \in Seq(Seq(X)), NEW x \in Seq(X)
    PROVE  D!FlattenSeq(s) \in Seq(X) /\ D!FlattenSeq(Append(s, x)) = D!FlattenSeq(s) \o x
<1>1. PICK t : t = Append(s, x)
  OBVIOUS
<1>2. PICK n : n = Len(s)
  OBVIOUS
<1>3. /\ t \in Seq(Seq(X)) /\ Len(t) = n + 1 /\ n \in Nat
      /\ t[n + 1] = x /\ \A k \in 1..n : t[k] = s[k]
  BY <1>1, <1>2, Appends
<1>4. PICK g : D!FlattenSeq(t) = g[n + 1] /\ Flattening(g, t, n + 1)
  <2>1. Len(t) # 0
    BY <1>3
  <2>2. QED
    BY <1>3, <2>1, FlattenBy
<1>5. \A k \in 1..n + 1 : g[k] = IF k = 1 THEN t[k] ELSE g[k - 1] \o t[k]
  BY <1>4 DEF Flattening
<1>6. CASE n = 0
  <2>1. s = <<>>
    BY <1>2, <1>6, EmptySeq
  <2>2. D!FlattenSeq(s) = <<>>
    BY <2>1, FlattenEmpty
  <2>3. g[1] = x
    <3>1. 1 \in 1..n + 1
      BY <1>6
    <3>2. QED
      BY <1>3, <1>5, <1>6, <3>1
  <2>4. <<>> \o x = x /\ <<>> \in Seq(X) /\ n + 1 = 1
    BY <1>6, ConcatEmptySeq
  <2>5. QED
    BY <1>1, <1>4, <2>2, <2>3, <2>4
<1>7. CASE n # 0
  <2>1. PICK h : D!FlattenSeq(s) = h[n] /\ Flattening(h, s, n)
    BY <1>2, <1>7, FlattenBy
  <2>2. \A k \in 1..n : h[k] = IF k = 1 THEN s[k] ELSE h[k - 1] \o s[k]
    BY <2>1 DEF Flattening
  <2> DEFINE A == {k \in Nat : k + 1 <= n => g[k + 1] = h[k + 1] /\ h[k + 1] \in Seq(X)}
  <2>3. 0 \in A
    <3>1. 1 \in 1..n /\ 1 \in 1..n + 1 /\ s[1] \in Seq(X)
      BY <1>2, <1>3, <1>7
    <3>2. g[1] = t[1] /\ h[1] = s[1] /\ t[1] = s[1]
      BY <1>3, <1>5, <2>2, <3>1
    <3>3. QED
      BY <3>1, <3>2
  <2>4. ASSUME NEW k \in Nat, k \in A PROVE k + 1 \in A
    <3> SUFFICES ASSUME k + 2 <= n PROVE g[k + 2] = h[k + 2] /\ h[k + 2] \in Seq(X)
      OBVIOUS
    <3>1. k + 2 \in 1..n /\ k + 2 \in 1..n + 1 /\ s[k + 2] \in Seq(X) /\ k + 2 # 1 /\ (k + 2) - 1 = k + 1
      BY <1>2, <1>3
    <3>2. g[k + 2] = g[k + 1] \o t[k + 2] /\ h[k + 2] = h[k + 1] \o s[k + 2] /\ t[k + 2] = s[k + 2]
      BY <1>3, <1>5, <2>2, <3>1
    <3>3. g[k + 1] = h[k + 1] /\ h[k + 1] \in Seq(X)
      <4>1. k + 1 <= n
        BY <1>3
      <4>2. QED
        BY <2>4, <4>1
    <3>4. QED
      BY <3>1, <3>2, <3>3, ConcatProperties
  <2>5. n - 1 \in A
    <3> HIDE DEF A
    <3>1. n - 1 \in Nat
      BY <1>3, <1>7
    <3>2. QED
      BY <2>3, <2>4, <3>1, SetInduction
  <2>6. g[n] = h[n] /\ h[n] \in Seq(X)
    BY <1>3, <2>5
  <2>7. g[n + 1] = g[n] \o x
    <3>1. n + 1 \in 1..n + 1 /\ n + 1 # 1 /\ (n + 1) - 1 = n
      BY <1>3, <1>7
    <3>2. QED
      BY <1>3, <1>5, <3>1
  <2>8. QED
    BY <1>1, <1>4, <2>1, <2>6, <2>7
<1>8. QED
  BY <1>6, <1>7

-----------------------------------------------------------------------------

\* The functions over the levels of nesting are what their definitions say.
LEMMA ValuesExist ==
    ASSUME NEW n \in Nat
    PROVE  \E f : f = [k \in 0..n |-> D!ValuesOver(IF k = 0 THEN {} ELSE f[k - 1])]
<1> DEFINE B(k, f) == D!ValuesOver(IF k = 0 THEN {} ELSE f[k - 1])
           A == {m \in Nat : \E f : f = [k \in 0..m |-> B(k, f)]}
<1>1. 0 \in A
  <2>1. PICK f : f = [k \in 0..0 |-> D!ValuesOver({})]
    OBVIOUS
  <2>2. f = [k \in 0..0 |-> B(k, f)]
    BY <2>1
  <2>3. QED
    BY <2>2
<1>2. ASSUME NEW m \in Nat, m \in A PROVE m + 1 \in A
  <2>1. PICK f : f = [k \in 0..m |-> B(k, f)]
    BY <1>2
  <2>2. PICK g : g = [k \in 0..m + 1 |-> IF k = m + 1 THEN D!ValuesOver(f[m]) ELSE f[k]]
    OBVIOUS
  <2>3. ASSUME NEW k \in 0..m + 1 PROVE g[k] = B(k, g)
    <3>1. CASE k = m + 1
      <4>1. g[m] = f[m] /\ k - 1 = m /\ k # 0
        BY <2>2, <3>1
      <4>2. QED
        BY <2>2, <3>1, <4>1
    <3>2. CASE k # m + 1
      <4>1. k \in 0..m /\ (k # 0 => k - 1 \in 0..m /\ k - 1 \in 0..m + 1 /\ k - 1 # m + 1)
        BY <3>2
      <4>2. g[k] = f[k] /\ (k # 0 => g[k - 1] = f[k - 1])
        BY <2>2, <3>2, <4>1
      <4>3. f[k] = B(k, f)
        BY <2>1, <4>1
      <4>4. QED
        BY <4>2, <4>3
    <3>3. QED
      BY <3>1, <3>2
  <2>4. g = [k \in 0..m + 1 |-> B(k, g)]
    <3>1. g = [k \in 0..m + 1 |-> g[k]]
      BY <2>2
    <3> HIDE DEF B
    <3>2. QED
      BY <2>3, <3>1
  <2>5. QED
    BY <2>4
<1>3. n \in A
  <2> HIDE DEF A
  <2> QED
    BY <1>1, <1>2, SetInduction
<1>4. QED
  BY <1>3

LEMMA ValuesAre ==
    ASSUME MaxNesting \in Nat, NEW n \in 0..MaxNesting
    PROVE  D!Values[n] = D!ValuesOver(IF n = 0 THEN {} ELSE D!Values[n - 1])
<1> DEFINE P(f) == f = [k \in 0..MaxNesting |-> D!ValuesOver(IF k = 0 THEN {} ELSE f[k - 1])]
<1>1. D!Values = CHOOSE f : P(f)
  BY Zenon DEF D!Values
<1>2. \E f : P(f)
  BY ValuesExist
<1>3. P(D!Values)
  <2> HIDE DEF P
  <2> QED
    BY <1>1, <1>2
<1>4. QED
  BY <1>3

LEMMA EventsExist ==
    ASSUME NEW n \in Nat
    PROVE  \E f : f = [k \in 0..n |-> [v \in D!Values[k] |-> D!Written(v, IF k = 0 THEN <<>> ELSE f[k - 1])]]
<1> DEFINE B(k, f) == [v \in D!Values[k] |-> D!Written(v, IF k = 0 THEN <<>> ELSE f[k - 1])]
           A == {m \in Nat : \E f : f = [k \in 0..m |-> B(k, f)]}
<1>1. 0 \in A
  <2>1. PICK f : f = [k \in 0..0 |-> [v \in D!Values[0] |-> D!Written(v, <<>>)]]
    OBVIOUS
  <2>2. f = [k \in 0..0 |-> B(k, f)]
    BY <2>1
  <2>3. QED
    BY <2>2
<1>2. ASSUME NEW m \in Nat, m \in A PROVE m + 1 \in A
  <2>1. PICK f : f = [k \in 0..m |-> B(k, f)]
    BY <1>2
  <2>2. PICK g : g = [k \in 0..m + 1 |-> IF k = m + 1 THEN [v \in D!Values[m + 1] |-> D!Written(v, f[m])] ELSE f[k]]
    OBVIOUS
  <2>3. ASSUME NEW k \in 0..m + 1 PROVE g[k] = B(k, g)
    <3>1. CASE k = m + 1
      <4>1. g[m] = f[m] /\ k - 1 = m /\ k # 0
        BY <2>2, <3>1
      <4>2. QED
        BY <2>2, <3>1, <4>1
    <3>2. CASE k # m + 1
      <4>1. k \in 0..m /\ (k # 0 => k - 1 \in 0..m /\ k - 1 \in 0..m + 1 /\ k - 1 # m + 1)
        BY <3>2
      <4>2. g[k] = f[k] /\ (k # 0 => g[k - 1] = f[k - 1])
        BY <2>2, <3>2, <4>1
      <4>3. f[k] = B(k, f)
        BY <2>1, <4>1
      <4>4. QED
        BY <4>2, <4>3
    <3>3. QED
      BY <3>1, <3>2
  <2>4. g = [k \in 0..m + 1 |-> B(k, g)]
    <3>1. g = [k \in 0..m + 1 |-> g[k]]
      BY <2>2
    <3> HIDE DEF B
    <3>2. QED
      BY <2>3, <3>1
  <2>5. QED
    BY <2>4
<1>3. n \in A
  <2> HIDE DEF A
  <2> QED
    BY <1>1, <1>2, SetInduction
<1>4. QED
  BY <1>3

LEMMA EventsAre ==
    ASSUME MaxNesting \in Nat, NEW n \in 0..MaxNesting
    PROVE  D!ValueEvents[n] = [v \in D!Values[n] |-> D!Written(v, IF n = 0 THEN <<>> ELSE D!ValueEvents[n - 1])]
<1> DEFINE P(f) == f = [k \in 0..MaxNesting |-> [v \in D!Values[k] |-> D!Written(v, IF k = 0 THEN <<>> ELSE f[k - 1])]]
<1>1. D!ValueEvents = CHOOSE f : P(f)
  BY Zenon DEF D!ValueEvents
<1>2. \E f : P(f)
  BY EventsExist
<1>3. P(D!ValueEvents)
  <2> HIDE DEF P
  <2> QED
    BY <1>1, <1>2
<1>4. QED
  BY <1>3

LEMMA SettledExist ==
    ASSUME NEW n \in Nat
    PROVE  \E f : f = [k \in 0..n |-> [v \in D!Values[k] |-> D!SettledOver(v, IF k = 0 THEN <<>> ELSE f[k - 1])]]
<1> DEFINE B(k, f) == [v \in D!Values[k] |-> D!SettledOver(v, IF k = 0 THEN <<>> ELSE f[k - 1])]
           A == {m \in Nat : \E f : f = [k \in 0..m |-> B(k, f)]}
<1>1. 0 \in A
  <2>1. PICK f : f = [k \in 0..0 |-> [v \in D!Values[0] |-> D!SettledOver(v, <<>>)]]
    OBVIOUS
  <2>2. f = [k \in 0..0 |-> B(k, f)]
    BY <2>1
  <2>3. QED
    BY <2>2
<1>2. ASSUME NEW m \in Nat, m \in A PROVE m + 1 \in A
  <2>1. PICK f : f = [k \in 0..m |-> B(k, f)]
    BY <1>2
  <2>2. PICK g : g = [k \in 0..m + 1 |-> IF k = m + 1 THEN [v \in D!Values[m + 1] |-> D!SettledOver(v, f[m])] ELSE f[k]]
    OBVIOUS
  <2>3. ASSUME NEW k \in 0..m + 1 PROVE g[k] = B(k, g)
    <3>1. CASE k = m + 1
      <4>1. g[m] = f[m] /\ k - 1 = m /\ k # 0
        BY <2>2, <3>1
      <4>2. QED
        BY <2>2, <3>1, <4>1
    <3>2. CASE k # m + 1
      <4>1. k \in 0..m /\ (k # 0 => k - 1 \in 0..m /\ k - 1 \in 0..m + 1 /\ k - 1 # m + 1)
        BY <3>2
      <4>2. g[k] = f[k] /\ (k # 0 => g[k - 1] = f[k - 1])
        BY <2>2, <3>2, <4>1
      <4>3. f[k] = B(k, f)
        BY <2>1, <4>1
      <4>4. QED
        BY <4>2, <4>3
    <3>3. QED
      BY <3>1, <3>2
  <2>4. g = [k \in 0..m + 1 |-> B(k, g)]
    <3>1. g = [k \in 0..m + 1 |-> g[k]]
      BY <2>2
    <3> HIDE DEF B
    <3>2. QED
      BY <2>3, <3>1
  <2>5. QED
    BY <2>4
<1>3. n \in A
  <2> HIDE DEF A
  <2> QED
    BY <1>1, <1>2, SetInduction
<1>4. QED
  BY <1>3

LEMMA SettledAre ==
    ASSUME MaxNesting \in Nat, NEW n \in 0..MaxNesting
    PROVE  D!Settled[n] = [v \in D!Values[n] |-> D!SettledOver(v, IF n = 0 THEN <<>> ELSE D!Settled[n - 1])]
<1> DEFINE P(f) == f = [k \in 0..MaxNesting |-> [v \in D!Values[k] |-> D!SettledOver(v, IF k = 0 THEN <<>> ELSE f[k - 1])]]
<1>1. D!Settled = CHOOSE f : P(f)
  BY Zenon DEF D!Settled
<1>2. \E f : P(f)
  BY SettledExist
<1>3. P(D!Settled)
  <2> HIDE DEF P
  <2> QED
    BY <1>1, <1>2
<1>4. QED
  BY <1>3

-----------------------------------------------------------------------------
(* What is written of a value, and what the reader yields of it.           *)

\* Texts and events, with the strings that are written literally among them: that
\* they are in STRING is nothing the provers know.
Strings == STRING \cup {"", "7", "-7", "0.5", "true", "false", "07", "1", "nil", "text", "uint", "sint", "real", "bool",
                        "blob", "rec", "seq", "v", "f", "message", "meta",
                        "from", "to", "thread", "provenance", "payload"}
Texts == [body : Strings, pad : BOOLEAN, markup : Nat]
Events == [ev : {"start", "empty", "text", "end"}, name : Strings, text : Texts]

\* What is inside the values of a level.
Inner(n) == IF n = 0 THEN {} ELSE D!Values[n - 1]
InnerEvents(n) == IF n = 0 THEN <<>> ELSE D!ValueEvents[n - 1]
InnerSettled(n) == IF n = 0 THEN <<>> ELSE D!Settled[n - 1]

\* How many fields or items a value has, and each of them.
Size(v) == IF v.kind = "rec" THEN Len(v.fields) ELSE Len(v.items)
Child(v, j) == IF v.kind = "rec" THEN v.fields[j].value ELSE v.items[j]

LEMMA TextIs == ASSUME NEW a \in Strings, NEW b \in BOOLEAN, NEW c \in Nat PROVE [body |-> a, pad |-> b, markup |-> c] \in Texts
BY DEF Texts

LEMMA PlainText == ASSUME NEW a \in Strings PROVE D!Plain(a) \in Texts
<1>1. FALSE \in BOOLEAN /\ 0 \in Nat
  OBVIOUS
<1>2. [body |-> a, pad |-> FALSE, markup |-> 0] \in Texts
  BY <1>1, TextIs, Zenon
<1>3. QED
  BY <1>2, Zenon DEF D!Plain

LEMMA TextsToo == D!Text \subseteq Texts
BY DEF D!Text, Texts, Strings

\* The scalars that are no texts: each as it is written is read as it was.
LEMMA LiteralKinds ==
    /\ DOMAIN D!Literals = {"uint", "sint", "real", "bool", "blob"}
    /\ D!Literals["uint"] = {"7"} /\ D!Literals["sint"] = {"7", "-7"} /\ D!Literals["real"] = {"7", "-7", "0.5"}
    /\ D!Literals["bool"] = {"true", "false"} /\ D!Literals["blob"] = {"", "07"}
BY DEF D!Literals

LEMMA LiteralRead ==
    ASSUME NEW kind \in DOMAIN D!Literals, NEW b \in D!Literals[kind]
    PROVE  /\ D!ScalarFaults(kind, D!Plain(b)) = {} /\ D!ScalarValue(kind, D!Plain(b)) = D!Scalar(kind, D!Plain(b))
           /\ D!Trim(D!Plain(b)) = D!Plain(b) /\ D!Plain(b) \in Texts /\ D!Plain(b).body = b
           /\ kind \in {"uint", "sint", "real", "bool", "blob"}
<1>1. kind \in {"uint", "sint", "real", "bool", "blob"} /\ b \in {"7", "-7", "0.5", "true", "false", "", "07"}
  BY LiteralKinds
<1>11. b \in Strings
  BY <1>1 DEF Strings
<1>2. D!Trim(D!Plain(b)) = D!Plain(b) /\ D!Plain(b) \in Texts /\ D!Plain(b).body = b
  <2>1. D!Plain(b) \in Texts
    BY <1>11, PlainText
  <2>2. D!Plain(b) = [body |-> b, pad |-> FALSE, markup |-> 0]
    BY Zenon DEF D!Plain
  <2>3. PICK u, F : u = D!Plain(b) /\ F = FALSE
    OBVIOUS
  <2>4. u = [body |-> b, pad |-> F, markup |-> 0]
    BY <2>2, <2>3, Zenon
  <2>5. u.body = b /\ [u EXCEPT !.pad = F] = u
    BY <2>4
  <2>6. D!Trim(u) = u
    BY <2>3, <2>5, Zenon DEF D!Trim
  <2>7. QED
    BY <2>1, <2>3, <2>5, <2>6
<1>3. PICK t : t = D!Plain(b)
  OBVIOUS
<1>4. CASE kind \in {"uint", "sint", "real"}
  <2>1. t \in {D!Plain(c) : c \in D!Literals[kind] \cup {"+7"}} /\ t.body = b /\ b # "+7"
    BY <1>1, <1>2, <1>3
  <2>2. D!ScalarFaults(kind, t) = {}
    BY <1>4, <2>1 DEF D!ScalarFaults
  <2>3. D!ScalarValue(kind, t) = D!Scalar(kind, D!Plain(b))
    BY <1>4, <2>1 DEF D!ScalarValue
  <2>4. QED
    BY <1>1, <1>2, <1>3, <2>2, <2>3
<1>5. CASE kind = "bool"
  <2>1. b \in {"true", "false"}
    BY <1>5, LiteralKinds
  <2>2. D!ScalarFaults(kind, t) = {}
    BY <1>5 DEF D!ScalarFaults
  <2>3. D!Plain("true") # D!Plain("false")
    BY DEF D!Plain
  <2>4. D!ScalarValue(kind, t) = D!Scalar(kind, D!Plain(b))
    BY <1>3, <1>5, <2>1, <2>3 DEF D!ScalarValue
  <2>5. QED
    BY <1>1, <1>2, <1>3, <2>2, <2>4
<1>6. CASE kind = "blob"
  <2>1. b \in D!Literals.blob /\ b \notin {"+7", D!Astride} /\ t.body = b
    BY <1>2, <1>3, <1>6, LiteralKinds DEF D!Astride
  <2>2. D!ScalarFaults(kind, t) = {}
    BY <1>6, <2>1 DEF D!ScalarFaults
  <2>3. D!ScalarValue(kind, t) = D!Scalar(kind, D!Plain(b))
    BY <1>6, <2>1 DEF D!ScalarValue
  <2>4. QED
    BY <1>1, <1>2, <1>3, <2>2, <2>3
<1>7. QED
  BY <1>1, <1>4, <1>5, <1>6

LEMMA Kinds ==
    ASSUME MaxNesting \in Nat, NEW n \in 0..MaxNesting, NEW v \in D!Values[n]
    PROVE  /\ v.kind \in {"nil", "text", "uint", "sint", "real", "bool", "blob", "rec", "seq"}
           /\ v.kind = "nil" => v = D!Nil
           /\ v.kind \in {"text", "uint", "sint", "real", "bool", "blob"} => v.text \in Texts
           /\ v.kind \in {"uint", "sint", "real", "bool", "blob"} =>
                /\ v.kind \in DOMAIN D!Literals /\ v = D!Scalar(v.kind, v.text)
                /\ \E b \in D!Literals[v.kind] : v.text = D!Plain(b)
           /\ v.kind = "rec" => v.fields \in Seq([name : D!Text, value : Inner(n)])
           /\ v.kind = "seq" => v.items \in Seq(Inner(n))
<1>1. v \in D!ValuesOver(Inner(n))
  BY ValuesAre DEF Inner
<1>2. D!Text \subseteq Texts
  BY TextsToo
<1>3. CASE v = D!Nil
  BY <1>3 DEF D!Nil
<1>4. ASSUME NEW k \in DOMAIN D!Literals, v \in [kind : {k}, text : {D!Plain(b) : b \in D!Literals[k]}]
      PROVE  /\ v.kind \in {"uint", "sint", "real", "bool", "blob"} /\ v.kind \in DOMAIN D!Literals
             /\ v = D!Scalar(v.kind, v.text) /\ v.text \in Texts
             /\ \E b \in D!Literals[v.kind] : v.text = D!Plain(b)
  <2>1. v.kind = k /\ v = [kind |-> v.kind, text |-> v.text]
    BY <1>4
  <2>2. PICK b \in D!Literals[k] : v.text = D!Plain(b)
    BY <1>4
  <2>3. D!Plain(b) \in Texts /\ k \in {"uint", "sint", "real", "bool", "blob"}
    BY LiteralRead
  <2>4. QED
    BY <2>1, <2>2, <2>3 DEF D!Scalar
<1>5. CASE v \in [kind : {"text"}, text : D!Text]
  BY <1>2, <1>5
<1>6. CASE v \in [kind : {"rec"}, fields : Seq([name : D!Text, value : Inner(n)])]
  BY <1>6
<1>7. CASE v \in [kind : {"seq"}, items : Seq(Inner(n))]
  BY <1>7
<1>8. CASE \E k \in DOMAIN D!Literals : v \in [kind : {k}, text : {D!Plain(b) : b \in D!Literals[k]}]
  <2>1. /\ v.kind \in {"uint", "sint", "real", "bool", "blob"} /\ v.kind \in DOMAIN D!Literals
        /\ v = D!Scalar(v.kind, v.text) /\ v.text \in Texts
        /\ \E b \in D!Literals[v.kind] : v.text = D!Plain(b)
    BY <1>4, <1>8
  <2>2. QED
    BY <2>1
<1>9. QED
  <2>1. \/ v = D!Nil
        \/ \E k \in DOMAIN D!Literals : v \in [kind : {k}, text : {D!Plain(b) : b \in D!Literals[k]}]
        \/ v \in [kind : {"text"}, text : D!Text]
        \/ v \in [kind : {"rec"}, fields : Seq([name : D!Text, value : Inner(n)])]
        \/ v \in [kind : {"seq"}, items : Seq(Inner(n))]
    BY <1>1 DEF D!ValuesOver
  <2>2. QED
    BY <2>1, <1>3, <1>5, <1>6, <1>7, <1>8

LEMMA Children ==
    ASSUME MaxNesting \in Nat, NEW n \in 0..MaxNesting, NEW v \in D!Values[n], v.kind \in {"rec", "seq"}
    PROVE  /\ Size(v) \in Nat
           /\ \A j \in 1..Size(v) : /\ Child(v, j) \in Inner(n)
                                    /\ n \in 1..MaxNesting /\ n - 1 \in 0..MaxNesting
                                    /\ Child(v, j) \in D!Values[n - 1]
           /\ v.kind = "rec" => DOMAIN v.fields = 1..Size(v) /\ \A j \in 1..Size(v) : v.fields[j].name \in D!Text
           /\ v.kind = "seq" => DOMAIN v.items = 1..Size(v)
<1>1. \A w \in Inner(n) : n \in 1..MaxNesting /\ n - 1 \in 0..MaxNesting /\ w \in D!Values[n - 1]
  BY DEF Inner
<1>2. CASE v.kind = "rec"
  <2>1. PICK T : T = [name : D!Text, value : Inner(n)]
    OBVIOUS
  <2>2. PICK fs : fs = v.fields
    OBVIOUS
  <2>3. Size(v) = Len(fs) /\ \A j \in 1..Size(v) : Child(v, j) = fs[j].value
    BY <1>2, <2>2 DEF Size, Child
  <2>4. fs \in Seq(T)
    BY <1>2, <2>1, <2>2, Kinds
  <2>5. Len(fs) \in Nat /\ DOMAIN fs = 1..Len(fs) /\ \A j \in 1..Len(fs) : fs[j] \in T
    BY <2>4
  <2>6. \A j \in 1..Len(fs) : fs[j].name \in D!Text /\ fs[j].value \in Inner(n)
    BY <2>1, <2>5
  <2>7. QED
    BY <1>1, <1>2, <2>2, <2>3, <2>5, <2>6
<1>3. CASE v.kind = "seq"
  <2>1. v.items \in Seq(Inner(n))
    BY <1>3, Kinds
  <2>2. Size(v) = Len(v.items) /\ \A j \in 1..Size(v) : Child(v, j) = v.items[j]
    BY <1>3 DEF Size, Child
  <2>3. Size(v) \in Nat /\ \A j \in 1..Size(v) : Child(v, j) \in Inner(n)
    BY <2>1, <2>2
  <2>4. QED
    BY <1>1, <1>3, <2>1, <2>2, <2>3
<1>4. QED
  BY <1>2, <1>3

LEMMA SeqOf ==
    ASSUME NEW S, NEW n \in Nat, NEW f, DOMAIN f = 1..n, f = [j \in 1..n |-> f[j]], \A j \in 1..n : f[j] \in S
    PROVE  f \in Seq(S) /\ Len(f) = n
OBVIOUS

LEMMA FlattenTyped == ASSUME NEW X, NEW s \in Seq(Seq(X)) PROVE D!FlattenSeq(s) \in Seq(X)
<1>1. <<>> \in Seq(X)
  OBVIOUS
<1>2. QED
  BY <1>1, FlattenStep

LEMMA Written3 == ASSUME NEW X, NEW a \in X, NEW b \in Seq(X), NEW c \in X
    PROVE  /\ <<a>> \o b \o <<c>> \in Seq(X) /\ Len(<<a>> \o b \o <<c>>) = Len(b) + 2
           /\ <<a>> \in Seq(X) /\ <<c>> \in Seq(X) /\ <<a>> \o b \in Seq(X)
OBVIOUS

\* Each event that is written is one.
LEMMA EventsTyped ==
    ASSUME NEW t \in Texts, NEW name \in Strings
    PROVE  /\ D!Escape(t) \in Texts /\ D!Trim(t) \in Texts /\ D!Plain(name) \in Texts
           /\ D!Start(name, t) \in Events /\ D!Empty(name, t) \in Events
           /\ D!Chars(t) \in Events /\ D!End(name) \in Events
<1>1. D!Plain("") \in Texts /\ D!Plain(name) \in Texts /\ "" \in Strings
  BY PlainText DEF Strings
<1>2. D!Trim(t) \in Texts
  BY DEF D!Trim, Texts
<1>3. D!Escape(t) \in Texts
  BY DEF D!Escape, Texts
<1>4. D!Start(name, t) \in Events /\ D!Empty(name, t) \in Events /\ D!Chars(t) \in Events
  BY <1>1 DEF D!Start, D!Empty, D!Chars, Events
<1>5. D!End(name) \in Events
  BY <1>1 DEF D!End, Events
<1>6. QED
  BY <1>1, <1>2, <1>3, <1>4, <1>5

Parts(n, v) == D!PartsWritten(v, InnerEvents(n))

LEMMA PartsAre ==
    ASSUME MaxNesting \in Nat, NEW n \in 0..MaxNesting, NEW v \in D!Values[n], v.kind \in {"rec", "seq"},
           \A w \in Inner(n) : InnerEvents(n)[w] \in Seq(Events)
    PROVE  /\ Parts(n, v) \in Seq(Seq(Events)) /\ Len(Parts(n, v)) = Size(v)
           /\ \A j \in 1..Size(v) :
                /\ v.kind = "rec" => Parts(n, v)[j] = D!FieldEvents(v.fields[j].name, InnerEvents(n)[Child(v, j)])
                /\ v.kind = "seq" => Parts(n, v)[j] = InnerEvents(n)[Child(v, j)]
<1>0. /\ Size(v) \in Nat /\ \A j \in 1..Size(v) : Child(v, j) \in Inner(n)
      /\ v.kind = "rec" => DOMAIN v.fields = 1..Size(v) /\ \A j \in 1..Size(v) : v.fields[j].name \in D!Text
      /\ v.kind = "seq" => DOMAIN v.items = 1..Size(v)
  BY Children
<1>1. CASE v.kind = "rec"
  <2>1. Parts(n, v) = [j \in 1..Size(v) |-> D!FieldEvents(v.fields[j].name, InnerEvents(n)[Child(v, j)])]
    BY <1>0, <1>1 DEF Parts, D!PartsWritten, Child
  <2>2. ASSUME NEW j \in 1..Size(v) PROVE D!FieldEvents(v.fields[j].name, InnerEvents(n)[Child(v, j)]) \in Seq(Events)
    <3>1. v.fields[j].name \in Texts /\ "f" \in Strings
      BY <1>0, <1>1, TextsToo DEF Strings
    <3>2. D!Start("f", D!Escape(v.fields[j].name)) \in Events /\ D!End("f") \in Events
      BY <3>1, EventsTyped
    <3>3. InnerEvents(n)[Child(v, j)] \in Seq(Events)
      BY <1>0
    <3>4. QED
      BY <3>2, <3>3, Written3 DEF D!FieldEvents
  <2>3. QED
    BY <1>0, <1>1, <2>1, <2>2, SeqOf
<1>2. CASE v.kind = "seq"
  <2>1. Parts(n, v) = [j \in 1..Size(v) |-> InnerEvents(n)[Child(v, j)]]
    BY <1>0, <1>2 DEF Parts, D!PartsWritten, Child
  <2>2. \A j \in 1..Size(v) : InnerEvents(n)[Child(v, j)] \in Seq(Events)
    BY <1>0
  <2>3. QED
    BY <1>0, <1>2, <2>1, <2>2, SeqOf, SMTT(40)
<1>3. QED
  BY <1>1, <1>2

LEMMA WrittenIs ==
    ASSUME MaxNesting \in Nat, NEW n \in 0..MaxNesting, NEW v \in D!Values[n]
    PROVE  D!ValueEvents[n][v] = D!Written(v, InnerEvents(n))
BY EventsAre DEF InnerEvents

\* What is written of a value is events, at every level of nesting.
LEMMA LevelTyped ==
    ASSUME MaxNesting \in Nat, NEW n \in 0..MaxNesting, NEW v \in D!Values[n],
           \A w \in Inner(n) : InnerEvents(n)[w] \in Seq(Events)
    PROVE  D!ValueEvents[n][v] \in Seq(Events)
<1>0. v.kind \in Strings /\ v.kind \in {"nil", "text", "uint", "sint", "real", "bool", "blob", "rec", "seq"} /\ "v" \in Strings
  BY Kinds DEF Strings
<1>1. D!Plain(v.kind) \in Texts
  BY <1>0, PlainText
<1>2. D!Start("v", D!Plain(v.kind)) \in Events /\ D!Empty("v", D!Plain(v.kind)) \in Events /\ D!End("v") \in Events
  BY <1>0, <1>1, EventsTyped
<1>3. D!ValueEvents[n][v] = D!Written(v, InnerEvents(n))
  BY WrittenIs
<1>4. CASE v.kind \in {"rec", "seq"}
  <2>1. D!FlattenSeq(Parts(n, v)) \in Seq(Events)
    BY <1>4, PartsAre, FlattenTyped
  <2>2. D!Written(v, InnerEvents(n)) = <<D!Start("v", D!Plain(v.kind))>> \o D!FlattenSeq(Parts(n, v)) \o <<D!End("v")>>
    BY <1>4, LiteralKinds DEF D!Written, Parts
  <2>3. QED
    BY <1>2, <1>3, <2>1, <2>2, Written3
<1>5. CASE v.kind = "nil"
  <2>1. D!Written(v, InnerEvents(n)) = <<D!Empty("v", D!Plain("nil"))>>
    BY <1>5, LiteralKinds DEF D!Written
  <2>2. QED
    BY <1>2, <1>3, <1>5, <2>1
<1>6. CASE v.kind \in {"text", "uint", "sint", "real", "bool", "blob"}
  <2>1. D!Written(v, InnerEvents(n)) = <<D!Start("v", D!Plain(v.kind)), D!Chars(D!Escape(v.text)), D!End("v")>>
    BY <1>6, LiteralKinds DEF D!Written, D!Element
  <2>2. v.text \in Texts
    BY <1>6, Kinds
  <2>3. D!Escape(v.text) \in Texts
    BY <1>0, <2>2, EventsTyped
  <2>4. D!Chars(D!Escape(v.text)) \in Events
    BY <1>0, <2>3, EventsTyped
  <2>5. QED
    BY <1>2, <1>3, <2>1, <2>4
<1>7. QED
  BY <1>0, <1>4, <1>5, <1>6

LEMMA WrittenTyped ==
    ASSUME MaxNesting \in Nat, NEW n \in 0..MaxNesting
    PROVE  /\ \A v \in D!Values[n] : D!ValueEvents[n][v] \in Seq(Events)
           /\ \A w \in Inner(n) : InnerEvents(n)[w] \in Seq(Events)
<1> DEFINE A == {m \in Nat : m \in 0..MaxNesting => \A v \in D!Values[m] : D!ValueEvents[m][v] \in Seq(Events)}
<1>1. 0 \in A
  <2>1. \A w \in Inner(0) : InnerEvents(0)[w] \in Seq(Events)
    BY DEF Inner
  <2>2. QED
    BY <2>1, LevelTyped
<1>2. ASSUME NEW m \in Nat, m \in A PROVE m + 1 \in A
  <2> SUFFICES ASSUME m + 1 \in 0..MaxNesting PROVE \A v \in D!Values[m + 1] : D!ValueEvents[m + 1][v] \in Seq(Events)
    OBVIOUS
  <2>1. Inner(m + 1) = D!Values[m] /\ InnerEvents(m + 1) = D!ValueEvents[m] /\ m \in 0..MaxNesting
    BY DEF Inner, InnerEvents
  <2>2. \A w \in Inner(m + 1) : InnerEvents(m + 1)[w] \in Seq(Events)
    BY <1>2, <2>1
  <2>3. QED
    BY <2>2, LevelTyped
<1>3. Nat \subseteq A
  <2> HIDE DEF A
  <2> QED
    BY <1>1, <1>2, SetInduction
<1>4. \A m \in 0..MaxNesting : \A v \in D!Values[m] : D!ValueEvents[m][v] \in Seq(Events)
  BY <1>3
<1>5. ASSUME NEW w \in Inner(n) PROVE InnerEvents(n)[w] \in Seq(Events)
  BY <1>4 DEF Inner, InnerEvents
<1>6. QED
  BY <1>4, <1>5
-----------------------------------------------------------------------------
(* What the reader yields.                                                 *)

LEMMA OfEventTyped == ASSUME NEW e \in Events PROVE D!OfEvent(e) \in Seq(Events)
<1>0. CASE e.ev # "text"
  BY <1>0 DEF D!OfEvent
<1>1. CASE e.ev = "text" /\ e.text.body = ""
  <2>1. D!OfEvent(e) = <<>>
    BY <1>1 DEF D!OfEvent
  <2>2. QED
    BY <2>1
<1>2. CASE e.ev = "text" /\ e.text.body # ""
  <2>1. D!Trim(e.text) \in Texts
    BY DEF D!Trim, Texts, Events
  <2>2. [e EXCEPT !.text = D!Trim(e.text)] \in Events
    BY <2>1 DEF Events
  <2>3. D!OfEvent(e) = <<[e EXCEPT !.text = D!Trim(e.text)]>>
    BY <1>2 DEF D!OfEvent
  <2>4. QED
    BY <2>2, <2>3
<1>3. QED
  BY <1>0, <1>1, <1>2

Yields(es) == [j \in DOMAIN es |-> D!OfEvent(es[j])]

LEMMA YieldsTyped == ASSUME NEW es \in Seq(Events) PROVE Yields(es) \in Seq(Seq(Events)) /\ Len(Yields(es)) = Len(es)
<1>1. \A j \in 1..Len(es) : D!OfEvent(es[j]) \in Seq(Events)
  BY OfEventTyped
<1>2. DOMAIN es = 1..Len(es) /\ Len(es) \in Nat
  OBVIOUS
<1>3. Yields(es) = [j \in 1..Len(es) |-> D!OfEvent(es[j])]
  BY <1>2 DEF Yields
<1>4. QED
  BY <1>1, <1>2, <1>3, SeqOf

LEMMA YieldedTyped == ASSUME NEW es \in Seq(Events) PROVE D!Yielded(es) \in Seq(Events)
BY YieldsTyped, FlattenTyped DEF D!Yielded, Yields

LEMMA YieldedEmpty == D!Yielded(<<>>) = <<>>
<1>1. Yields(<<>>) = <<>>
  BY DEF Yields
<1>2. QED
  BY <1>1, FlattenEmpty DEF D!Yielded, Yields

LEMMA YieldedAppend ==
    ASSUME NEW es \in Seq(Events), NEW e \in Events
    PROVE  D!Yielded(Append(es, e)) = D!Yielded(es) \o D!OfEvent(e)
<1>1. PICK ys : ys = Yields(es)
  OBVIOUS
<1>2. PICK zs : zs = Yields(Append(es, e))
  OBVIOUS
<1>3. ys \in Seq(Seq(Events)) /\ Len(ys) = Len(es) /\ D!OfEvent(e) \in Seq(Events) /\ Len(es) \in Nat
  BY <1>1, YieldsTyped, OfEventTyped
<1>4. zs \in Seq(Seq(Events)) /\ Len(zs) = Len(es) + 1
  BY <1>2, YieldsTyped, Appends
<1>5. DOMAIN Append(es, e) = 1..Len(es) + 1 /\ DOMAIN es = 1..Len(es)
  OBVIOUS
<1>6. \A j \in 1..Len(es) : ys[j] = D!OfEvent(es[j]) /\ zs[j] = D!OfEvent(es[j])
  BY <1>1, <1>2, <1>5, Appends DEF Yields
<1>7. zs[Len(es) + 1] = D!OfEvent(e)
  BY <1>2, <1>5, Appends DEF Yields
<1>8. zs = Append(ys, D!OfEvent(e))
  BY <1>3, <1>4, <1>6, <1>7
<1>9. D!FlattenSeq(Append(ys, D!OfEvent(e))) = D!FlattenSeq(ys) \o D!OfEvent(e)
  BY <1>3, FlattenStep
<1>10. QED
  BY <1>1, <1>2, <1>8, <1>9 DEF D!Yielded, Yields

LEMMA Associates == \A s, t, u \in Seq(Events) : (s \o t) \o u = s \o (t \o u)
BY ConcatAssociative

LEMMA YieldedConcat ==
    ASSUME NEW es \in Seq(Events), NEW fs \in Seq(Events)
    PROVE  D!Yielded(es \o fs) = D!Yielded(es) \o D!Yielded(fs)
<1> DEFINE A == {gs \in Seq(Events) : D!Yielded(es \o gs) = D!Yielded(es) \o D!Yielded(gs)}
<1>1. <<>> \in A
  BY YieldedEmpty, YieldedTyped, ConcatEmptySeq
<1>2. ASSUME NEW gs \in Seq(Events), NEW e \in Events, gs \in A PROVE Append(gs, e) \in A
  <2>1. es \o Append(gs, e) = Append(es \o gs, e) /\ es \o gs \in Seq(Events)
    OBVIOUS
  <2>2. D!Yielded(Append(es \o gs, e)) = D!Yielded(es \o gs) \o D!OfEvent(e)
    BY <2>1, YieldedAppend
  <2>3. D!Yielded(Append(gs, e)) = D!Yielded(gs) \o D!OfEvent(e)
    BY YieldedAppend
  <2>4. PICK a, b, c : a = D!Yielded(es) /\ b = D!Yielded(gs) /\ c = D!OfEvent(e)
    OBVIOUS
  <2>5. a \in Seq(Events) /\ b \in Seq(Events) /\ c \in Seq(Events)
    BY <2>4, YieldedTyped, OfEventTyped
  <2>6. (a \o b) \o c = a \o (b \o c)
    BY <2>5, Associates, ZenonT(60)
  <2>7. D!Yielded(es \o gs) = a \o b
    BY <1>2, <2>4
  <2>8. D!Yielded(es \o Append(gs, e)) = D!Yielded(es) \o D!Yielded(Append(gs, e))
    BY <2>1, <2>2, <2>3, <2>4, <2>6, <2>7
  <2>9. Append(gs, e) \in Seq(Events)
    OBVIOUS
  <2>10. QED
    BY <2>8, <2>9
<1>3. fs \in A
  <2> HIDE DEF A
  <2> QED
    BY <1>1, <1>2, SeqInduction
<1>4. QED
  BY <1>3

LEMMA YieldedOne == ASSUME NEW e \in Events PROVE D!Yielded(<<e>>) = D!OfEvent(e)
<1>1. Append(<<>>, e) = <<e>> /\ <<>> \in Seq(Events)
  OBVIOUS
<1>2. D!Yielded(Append(<<>>, e)) = D!Yielded(<<>>) \o D!OfEvent(e)
  BY <1>1, YieldedAppend
<1>3. QED
  BY <1>1, <1>2, YieldedEmpty, OfEventTyped, ConcatEmptySeq

LEMMA YieldedTag ==
    ASSUME NEW e \in Events, e.ev # "text"
    PROVE  D!Yielded(<<e>>) = <<e>>
BY YieldedOne DEF D!OfEvent

LEMMA Framed ==
    ASSUME NEW a \in Events, NEW es \in Seq(Events), NEW c \in Events, a.ev # "text", c.ev # "text"
    PROVE  D!Yielded(<<a>> \o es \o <<c>>) = <<a>> \o D!Yielded(es) \o <<c>>
<1>1. <<a>> \in Seq(Events) /\ <<c>> \in Seq(Events) /\ <<a>> \o es \in Seq(Events)
  OBVIOUS
<1>2. D!Yielded(<<a>> \o es \o <<c>>) = D!Yielded(<<a>> \o es) \o D!Yielded(<<c>>)
  BY <1>1, YieldedConcat
<1>3. D!Yielded(<<a>> \o es) = D!Yielded(<<a>>) \o D!Yielded(es)
  BY <1>1, YieldedConcat
<1>4. QED
  BY <1>2, <1>3, YieldedTag
-----------------------------------------------------------------------------
(* Where in a document what is written of a value lies.                    *)

\* The events es are those of document w from p on.
At(w, es, p) == p \in Nat \ {0} /\ p + Len(es) <= Len(w) + 1 /\ \A j \in 1..Len(es) : w[(p - 1) + j] = es[j]

LEMMA AtConcat ==
    ASSUME NEW w \in Seq(Events), NEW es \in Seq(Events), NEW fs \in Seq(Events), NEW p \in Nat, At(w, es \o fs, p)
    PROVE  /\ At(w, es, p) /\ At(w, fs, p + Len(es)) /\ p \in Nat \ {0}
           /\ Len(es \o fs) = Len(es) + Len(fs) /\ Len(es) \in Nat /\ Len(fs) \in Nat
<1>1. PICK a, b : a = Len(es) /\ b = Len(fs)
  OBVIOUS
<1>2. PICK gs : gs = es \o fs
  OBVIOUS
<1>3. /\ a \in Nat /\ b \in Nat /\ Len(gs) = a + b
      /\ \A j \in 1..a : gs[j] = es[j]
      /\ \A j \in 1..b : gs[a + j] = fs[j]
  BY <1>1, <1>2
<1>4. p \in Nat \ {0} /\ p + a + b <= Len(w) + 1 /\ \A j \in 1..a + b : w[(p - 1) + j] = gs[j]
  BY <1>2, <1>3, SMTT(30) DEF At
<1>5. At(w, es, p)
  <2>1. \A j \in 1..a : w[(p - 1) + j] = es[j]
    BY <1>3, <1>4, SMTT(40)
  <2>2. p + a <= Len(w) + 1
    BY <1>3, <1>4
  <2>3. QED
    BY <1>1, <1>4, <2>1, <2>2 DEF At
<1>6. At(w, fs, p + a)
  <2>1. ASSUME NEW j \in 1..b PROVE w[((p + a) - 1) + j] = fs[j]
    <3>1. a + j \in 1..a + b /\ (p - 1) + (a + j) = ((p + a) - 1) + j
      BY <1>3, <1>4
    <3>2. QED
      BY <1>3, <1>4, <3>1
  <2>2. (p + a) + b <= Len(w) + 1 /\ p + a \in Nat \ {0}
    BY <1>3, <1>4
  <2>3. QED
    BY <1>1, <2>1, <2>2 DEF At
<1>7. QED
  BY <1>1, <1>2, <1>3, <1>4, <1>5, <1>6

LEMMA AtOne ==
    ASSUME NEW w \in Seq(Events), NEW e \in Events, NEW p \in Nat, At(w, <<e>>, p)
    PROVE  w[p] = e /\ p \in 1..Len(w)
<1>1. Len(<<e>>) = 1 /\ <<e>>[1] = e /\ 1 \in 1..1
  OBVIOUS
<1>2. p \in Nat \ {0} /\ p + 1 <= Len(w) + 1 /\ w[(p - 1) + 1] = e
  BY <1>1 DEF At
<1>3. QED
  BY <1>2

LEMMA AtConcat3 ==
    ASSUME NEW w \in Seq(Events), NEW x \in Seq(Events), NEW es \in Seq(Events), NEW y \in Seq(Events), NEW p \in Nat,
           At(w, x \o es \o y, p)
    PROVE  /\ At(w, x, p) /\ At(w, es, p + Len(x)) /\ At(w, y, p + (Len(x) + Len(es)))
           /\ p \in Nat \ {0} /\ Len(es) \in Nat
           /\ Len(x \o es \o y) = Len(x) + Len(es) + Len(y)
<1>1. x \o es \in Seq(Events)
  OBVIOUS
<1>2. At(w, x \o es, p)
  BY <1>1, AtConcat
<1>3. At(w, y, p + Len(x \o es))
  BY <1>1, AtConcat
<1>4. At(w, x, p) /\ At(w, es, p + Len(x)) /\ p \in Nat \ {0}
  BY <1>2, AtConcat
<1>5. /\ Len(x \o es) = Len(x) + Len(es) /\ Len(es) \in Nat
      /\ Len(x \o es \o y) = Len(x) + Len(es) + Len(y)
  OBVIOUS
<1>6. QED
  BY <1>3, <1>4, <1>5

LEMMA AtFramed ==
    ASSUME NEW w \in Seq(Events), NEW a \in Events, NEW es \in Seq(Events), NEW c \in Events, NEW p \in Nat,
           At(w, <<a>> \o es \o <<c>>, p)
    PROVE  /\ p \in Nat \ {0} /\ Len(es) \in Nat
           /\ w[p] = a /\ At(w, es, p + 1) /\ w[p + 1 + Len(es)] = c
           /\ Len(<<a>> \o es \o <<c>>) = Len(es) + 2
           /\ p + Len(es) + 2 <= Len(w) + 1
<1>0. PICK x, y : x = <<a>> /\ y = <<c>>
  OBVIOUS
<1>1. x \in Seq(Events) /\ y \in Seq(Events) /\ Len(x) = 1 /\ Len(y) = 1
  BY <1>0
<1>2. At(w, x \o es \o y, p)
  BY <1>0
<1>3. At(w, x, p) /\ At(w, es, p + 1)
  BY <1>1, <1>2, AtConcat3
<1>4. At(w, y, p + (1 + Len(es)))
  BY <1>1, <1>2, AtConcat3, ZenonT(60)
<1>9. p \in Nat \ {0} /\ Len(es) \in Nat
  BY <1>3 DEF At
<1>10. Len(<<a>> \o es \o <<c>>) = Len(es) + 2
  BY Written3
<1>5. w[p] = a
  BY <1>0, <1>3, AtOne
<1>6. w[p + (1 + Len(es))] = c /\ p + (1 + Len(es)) \in 1..Len(w)
  BY <1>0, <1>4, AtOne
<1>7. p + (1 + Len(es)) = p + 1 + Len(es)
  BY <1>9
<1>8. QED
  BY <1>3, <1>5, <1>6, <1>7, <1>9, <1>10

\* What the reader yields of a value, and of its first k fields or items.
Read(n, v) == D!Yielded(D!ValueEvents[n][v])
Body(n, v, k) == D!Yielded(D!FlattenSeq(SubSeq(Parts(n, v), 1, k)))

LEMMA BodyFacts ==
    ASSUME MaxNesting \in Nat, NEW n \in 0..MaxNesting, NEW v \in D!Values[n], v.kind \in {"rec", "seq"}
    PROVE  /\ Read(n, v) \in Seq(Events)
           /\ Read(n, v) = <<D!Start("v", D!Plain(v.kind))>> \o Body(n, v, Size(v)) \o <<D!End("v")>>
           /\ Body(n, v, 0) = <<>>
           /\ \A k \in 0..Size(v) : Body(n, v, k) \in Seq(Events)
           /\ \A k \in 1..Size(v) : /\ D!Yielded(Parts(n, v)[k]) \in Seq(Events)
                                    /\ Body(n, v, k) = Body(n, v, k - 1) \o D!Yielded(Parts(n, v)[k])
<1>1. PICK ps : ps = Parts(n, v)
  OBVIOUS
<1>2. ps \in Seq(Seq(Events)) /\ Len(ps) = Size(v) /\ Size(v) \in Nat
  BY <1>1, PartsAre, WrittenTyped, Children
<1>3. SubSeq(ps, 1, Size(v)) = ps /\ SubSeq(ps, 1, 0) = <<>>
  BY <1>2
<1>4. \A k \in 0..Size(v) : SubSeq(ps, 1, k) \in Seq(Seq(Events))
  BY <1>2
<1>5. \A k \in 0..Size(v) : D!FlattenSeq(SubSeq(ps, 1, k)) \in Seq(Events)
  BY <1>4, FlattenTyped
<1>6. \A k \in 0..Size(v) : Body(n, v, k) \in Seq(Events)
  BY <1>1, <1>5, YieldedTyped DEF Body
<1>7. Body(n, v, 0) = <<>>
  BY <1>1, <1>3, FlattenEmpty, YieldedEmpty DEF Body
<1>8. ASSUME NEW k \in 1..Size(v)
      PROVE  /\ D!Yielded(ps[k]) \in Seq(Events)
             /\ Body(n, v, k) = Body(n, v, k - 1) \o D!Yielded(ps[k])
  <2>1. SubSeq(ps, 1, k) = Append(SubSeq(ps, 1, k - 1), ps[k]) /\ ps[k] \in Seq(Events) /\ k - 1 \in 0..Size(v)
    BY <1>2
  <2>2. D!FlattenSeq(SubSeq(ps, 1, k)) = D!FlattenSeq(SubSeq(ps, 1, k - 1)) \o ps[k]
    BY <1>4, <2>1, FlattenStep
  <2>3. D!Yielded(D!FlattenSeq(SubSeq(ps, 1, k - 1)) \o ps[k]) = Body(n, v, k - 1) \o D!Yielded(ps[k])
    BY <1>1, <1>5, <2>1, YieldedConcat DEF Body
  <2>4. QED
    BY <1>1, <2>1, <2>2, <2>3, YieldedTyped DEF Body
<1>9. PICK a, c : a = D!Start("v", D!Plain(v.kind)) /\ c = D!End("v")
  OBVIOUS
<1>10. a \in Events /\ c \in Events /\ a.ev # "text" /\ c.ev # "text"
  <2>1. v.kind \in Strings /\ "v" \in Strings
    BY DEF Strings
  <2>2. D!Plain(v.kind) \in Texts
    BY <2>1, PlainText
  <2>3. QED
    BY <1>9, <2>1, <2>2, EventsTyped DEF D!Start, D!End
<1>11. D!ValueEvents[n][v] = <<a>> \o D!FlattenSeq(ps) \o <<c>>
  BY <1>1, <1>9, LiteralKinds, WrittenIs DEF D!Written, Parts
<1>12. D!FlattenSeq(ps) \in Seq(Events) /\ D!Yielded(D!FlattenSeq(ps)) = Body(n, v, Size(v))
  BY <1>1, <1>2, <1>3, FlattenTyped DEF Body
<1>13. Read(n, v) = <<a>> \o Body(n, v, Size(v)) \o <<c>>
  BY <1>10, <1>11, <1>12, Framed DEF Read
<1>14. Read(n, v) \in Seq(Events)
  BY WrittenTyped, YieldedTyped DEF Read
<1>15. QED
  BY <1>1, <1>6, <1>7, <1>8, <1>9, <1>13, <1>14

Off(n, v, k) == Len(Body(n, v, k))

LEMMA Nested ==
    ASSUME MaxNesting \in Nat, NEW n \in 0..MaxNesting, NEW v \in D!Values[n], v.kind \in {"rec", "seq"},
           NEW w \in Seq(Events), NEW p \in Nat, At(w, Read(n, v), p)
    PROVE  /\ p \in Nat \ {0} /\ Size(v) \in Nat
           /\ w[p] = D!Start("v", D!Plain(v.kind))
           /\ w[p + 1 + Off(n, v, Size(v))] = D!End("v")
           /\ Len(Read(n, v)) = Off(n, v, Size(v)) + 2
           /\ p + Off(n, v, Size(v)) + 2 <= Len(w) + 1
           /\ Off(n, v, 0) = 0 /\ \A k \in 0..Size(v) : Off(n, v, k) \in Nat
           /\ \A k \in 1..Size(v) :
                /\ At(w, D!Yielded(Parts(n, v)[k]), p + 1 + Off(n, v, k - 1))
                /\ Off(n, v, k) = Off(n, v, k - 1) + Len(D!Yielded(Parts(n, v)[k]))
<1>1. PICK N : N = Size(v)
  OBVIOUS
<1>2. N \in Nat
  BY <1>1, Children
<1>3. /\ Read(n, v) = <<D!Start("v", D!Plain(v.kind))>> \o Body(n, v, N) \o <<D!End("v")>>
      /\ Body(n, v, 0) = <<>>
      /\ \A k \in 0..N : Body(n, v, k) \in Seq(Events)
      /\ \A k \in 1..N : /\ D!Yielded(Parts(n, v)[k]) \in Seq(Events)
                         /\ Body(n, v, k) = Body(n, v, k - 1) \o D!Yielded(Parts(n, v)[k])
  BY <1>1, BodyFacts
<1>4. D!Start("v", D!Plain(v.kind)) \in Events /\ D!End("v") \in Events
  <2>1. v.kind \in Strings /\ "v" \in Strings
    BY DEF Strings
  <2>2. D!Plain(v.kind) \in Texts
    BY <2>1, PlainText
  <2>3. QED
    BY <2>1, <2>2, EventsTyped
<1>5. PICK a, b, c : a = D!Start("v", D!Plain(v.kind)) /\ b = Body(n, v, N) /\ c = D!End("v")
  OBVIOUS
<1>6. a \in Events /\ b \in Seq(Events) /\ c \in Events /\ At(w, <<a>> \o b \o <<c>>, p)
  <2>1. N \in 0..N
    BY <1>2
  <2>2. QED
    BY <1>3, <1>4, <1>5, <2>1
<1>7. /\ p \in Nat \ {0} /\ Len(b) \in Nat
      /\ w[p] = a /\ At(w, b, p + 1) /\ w[p + 1 + Len(b)] = c
      /\ Len(<<a>> \o b \o <<c>>) = Len(b) + 2
      /\ p + Len(b) + 2 <= Len(w) + 1
  BY <1>6, AtFramed
<1>8. Off(n, v, 0) = 0 /\ \A k \in 0..N : Off(n, v, k) \in Nat
  BY <1>3 DEF Off
<1> DEFINE A == {m \in Nat : m <= N => At(w, Body(n, v, N - m), p + 1)}
<1>9. 0 \in A
  BY <1>2, <1>5, <1>7
<1>10. ASSUME NEW m \in Nat, m \in A PROVE m + 1 \in A
  <2> SUFFICES ASSUME m + 1 <= N PROVE At(w, Body(n, v, N - (m + 1)), p + 1)
    OBVIOUS
  <2>1. PICK k : k = N - m
    OBVIOUS
  <2>2. k \in 1..N /\ k - 1 = N - (m + 1) /\ k - 1 \in 0..N
    BY <1>2, <2>1
  <2>3. At(w, Body(n, v, k), p + 1)
    BY <1>2, <1>10, <2>1
  <2>4. /\ Body(n, v, k) = Body(n, v, k - 1) \o D!Yielded(Parts(n, v)[k])
        /\ Body(n, v, k - 1) \in Seq(Events) /\ D!Yielded(Parts(n, v)[k]) \in Seq(Events)
    BY <1>3, <2>2
  <2>5. At(w, Body(n, v, k - 1), p + 1)
    BY <2>3, <2>4, AtConcat
  <2>6. QED
    BY <2>2, <2>5
<1>11. \A k \in 0..N : At(w, Body(n, v, k), p + 1)
  <2>1. Nat \subseteq A
    <3> HIDE DEF A
    <3> QED
      BY <1>9, <1>10, SetInduction
  <2> SUFFICES ASSUME NEW k \in 0..N PROVE At(w, Body(n, v, k), p + 1)
    OBVIOUS
  <2>2. N - k \in Nat /\ N - k <= N /\ N - (N - k) = k
    BY <1>2
  <2>3. At(w, Body(n, v, N - (N - k)), p + 1)
    BY <2>1, <2>2
  <2>4. QED
    BY <2>2, <2>3
<1>12. ASSUME NEW k \in 1..N
       PROVE  /\ At(w, D!Yielded(Parts(n, v)[k]), p + 1 + Off(n, v, k - 1))
              /\ Off(n, v, k) = Off(n, v, k - 1) + Len(D!Yielded(Parts(n, v)[k]))
  <2>1. PICK x, y : x = Body(n, v, k - 1) /\ y = D!Yielded(Parts(n, v)[k])
    OBVIOUS
  <2>2. k \in 0..N /\ k - 1 \in 0..N
    BY <1>2
  <2>3. x \in Seq(Events) /\ y \in Seq(Events) /\ Body(n, v, k) = x \o y /\ At(w, x \o y, p + 1)
    BY <1>3, <1>11, <2>1, <2>2
  <2>4. At(w, y, (p + 1) + Len(x)) /\ Len(x \o y) = Len(x) + Len(y)
    BY <2>3, AtConcat, SMTT(30)
  <2>5. QED
    BY <2>1, <2>3, <2>4 DEF Off
<1>13. QED
  BY <1>1, <1>2, <1>3, <1>5, <1>7, <1>8, <1>12 DEF Off

LEMMA NestedField ==
    ASSUME MaxNesting \in Nat, NEW n \in 0..MaxNesting, NEW v \in D!Values[n], v.kind = "rec",
           NEW w \in Seq(Events), NEW p \in Nat, At(w, Read(n, v), p), NEW k \in 1..Size(v)
    PROVE  /\ w[p + 1 + Off(n, v, k - 1)] = D!Start("f", D!Escape(v.fields[k].name))
           /\ At(w, Read(n - 1, Child(v, k)), p + 2 + Off(n, v, k - 1))
           /\ w[p + 2 + Off(n, v, k - 1) + Len(Read(n - 1, Child(v, k)))] = D!End("f")
           /\ Len(Read(n - 1, Child(v, k))) \in Nat
           /\ Off(n, v, k) = Off(n, v, k - 1) + Len(Read(n - 1, Child(v, k))) + 2
<1>1. PICK q, a, es, c : /\ q = p + 1 + Off(n, v, k - 1) /\ a = D!Start("f", D!Escape(v.fields[k].name))
                         /\ es = D!ValueEvents[n - 1][Child(v, k)] /\ c = D!End("f")
  OBVIOUS
<1>2. /\ At(w, D!Yielded(Parts(n, v)[k]), q) /\ p \in Nat
      /\ Off(n, v, k) = Off(n, v, k - 1) + Len(D!Yielded(Parts(n, v)[k]))
      /\ Off(n, v, k - 1) \in Nat
  <2>1. Size(v) \in Nat
    BY Children
  <2>2. k - 1 \in 0..Size(v)
    BY <2>1
  <2>3. QED
    BY <1>1, <2>2, Nested
<1>3. /\ n \in 1..MaxNesting /\ n - 1 \in 0..MaxNesting /\ Child(v, k) \in D!Values[n - 1]
      /\ v.fields[k].name \in Texts /\ "f" \in Strings
  BY Children, TextsToo DEF Strings
<1>4. D!Escape(v.fields[k].name) \in Texts
  BY <1>3, EventsTyped
<1>5. a \in Events /\ c \in Events /\ es \in Seq(Events) /\ a.ev # "text" /\ c.ev # "text"
  BY <1>1, <1>3, <1>4, EventsTyped, WrittenTyped DEF D!Start, D!End
<1>6. Parts(n, v)[k] = <<a>> \o es \o <<c>>
  <2>1. Parts(n, v)[k] = D!FieldEvents(v.fields[k].name, InnerEvents(n)[Child(v, k)])
    BY PartsAre, WrittenTyped
  <2>2. InnerEvents(n) = D!ValueEvents[n - 1]
    BY <1>3 DEF InnerEvents
  <2>3. QED
    BY <1>1, <2>1, <2>2 DEF D!FieldEvents
<1>7. PICK r : r = D!Yielded(es)
  OBVIOUS
<1>8. r = Read(n - 1, Child(v, k)) /\ r \in Seq(Events)
  BY <1>1, <1>5, <1>7, YieldedTyped DEF Read
<1>9. D!Yielded(Parts(n, v)[k]) = <<a>> \o r \o <<c>>
  BY <1>5, <1>6, <1>7, Framed
<1>10. /\ q \in Nat \ {0} /\ Len(r) \in Nat
       /\ w[q] = a /\ At(w, r, q + 1) /\ w[q + 1 + Len(r)] = c
       /\ Len(<<a>> \o r \o <<c>>) = Len(r) + 2
  <2>1. q \in Nat /\ At(w, <<a>> \o r \o <<c>>, q)
    BY <1>1, <1>2, <1>9, SMTT(40)
  <2>2. q \in Nat \ {0} /\ Len(r) \in Nat /\ w[q] = a /\ At(w, r, q + 1)
    BY <1>5, <1>8, <2>1, AtFramed
  <2>3. w[q + 1 + Len(r)] = c
    BY <1>5, <1>8, <2>1, AtFramed, SMTT(30)
  <2>4. Len(<<a>> \o r \o <<c>>) = Len(r) + 2
    BY <1>5, <1>8, Written3
  <2>5. QED
    BY <2>2, <2>3, <2>4
<1>11. q + 1 = p + 2 + Off(n, v, k - 1) /\ q + 1 + Len(r) = p + 2 + Off(n, v, k - 1) + Len(r)
  <2>1. PICK o, l : o = Off(n, v, k - 1) /\ l = Len(r)
    OBVIOUS
  <2>2. o \in Nat /\ l \in Nat /\ q = p + 1 + o /\ p \in Nat
    BY <1>1, <1>2, <1>10, <2>1
  <2>3. q + 1 = p + 2 + o /\ q + 1 + l = p + 2 + o + l
    BY <2>2
  <2>4. QED
    BY <2>1, <2>3
<1>12. Off(n, v, k) = Off(n, v, k - 1) + Len(r) + 2
  BY <1>2, <1>9, <1>10
<1>13. QED
  BY <1>1, <1>8, <1>10, <1>11, <1>12

LEMMA NestedItem ==
    ASSUME MaxNesting \in Nat, NEW n \in 0..MaxNesting, NEW v \in D!Values[n], v.kind = "seq",
           NEW w \in Seq(Events), NEW p \in Nat, At(w, Read(n, v), p), NEW k \in 1..Size(v)
    PROVE  /\ At(w, Read(n - 1, Child(v, k)), p + 1 + Off(n, v, k - 1))
           /\ Len(Read(n - 1, Child(v, k))) \in Nat
           /\ Off(n, v, k) = Off(n, v, k - 1) + Len(Read(n - 1, Child(v, k)))
<1>1. Parts(n, v)[k] = InnerEvents(n)[Child(v, k)]
  BY PartsAre, WrittenTyped
<1>2. n \in 1..MaxNesting /\ n - 1 \in 0..MaxNesting /\ Child(v, k) \in D!Values[n - 1]
  BY Children
<1>3. InnerEvents(n) = D!ValueEvents[n - 1]
  BY <1>2 DEF InnerEvents
<1>4. D!Yielded(Parts(n, v)[k]) = Read(n - 1, Child(v, k)) /\ Read(n - 1, Child(v, k)) \in Seq(Events)
  BY <1>1, <1>2, <1>3, WrittenTyped, YieldedTyped DEF Read
<1>5. Len(Read(n - 1, Child(v, k))) \in Nat
  BY <1>4
<1>6. QED
  BY <1>4, <1>5, Nested

\* Values with nothing inside them.
LEMMA ReadNil ==
    ASSUME MaxNesting \in Nat, NEW n \in 0..MaxNesting, NEW v \in D!Values[n], v.kind = "nil",
           NEW w \in Seq(Events), NEW p \in Nat, At(w, Read(n, v), p)
    PROVE  w[p] = D!Empty("v", D!Plain("nil")) /\ Len(Read(n, v)) = 1 /\ p \in 1..Len(w)
<1>1. "v" \in Strings /\ "nil" \in Strings
  BY DEF Strings
<1>2. D!Plain("nil") \in Texts
  BY <1>1, PlainText
<1>3. D!Empty("v", D!Plain("nil")) \in Events /\ D!Empty("v", D!Plain("nil")).ev # "text"
  BY <1>1, <1>2, EventsTyped DEF D!Empty
<1>4. D!ValueEvents[n][v] = <<D!Empty("v", D!Plain("nil"))>>
  BY LiteralKinds, WrittenIs DEF D!Written
<1>5. Read(n, v) = <<D!Empty("v", D!Plain("nil"))>>
  BY <1>3, <1>4, YieldedTag DEF Read
<1>6. QED
  BY <1>3, <1>5, AtOne

LEMMA InThree == ASSUME NEW X, NEW a \in X, NEW b \in X, NEW c \in X PROVE <<a, b, c>> = <<a>> \o <<b>> \o <<c>>
<1>1. PICK x, y, z : x = <<a>> /\ y = <<b>> /\ z = <<c>>
  OBVIOUS
<1>2. /\ x \in Seq(X) /\ y \in Seq(X) /\ z \in Seq(X) /\ Len(x) = 1 /\ Len(y) = 1 /\ Len(z) = 1
      /\ x[1] = a /\ y[1] = b /\ z[1] = c
  BY <1>1
<1>3. PICK u : u = x \o y
  OBVIOUS
<1>4. u \in Seq(X) /\ Len(u) = 2 /\ u[1] = a /\ u[2] = b
  <2>1. /\ u \in Seq(X) /\ Len(u) = Len(x) + Len(y)
        /\ \A j \in 1..Len(x) + Len(y) : u[j] = IF j <= Len(x) THEN x[j] ELSE y[j - Len(x)]
    BY <1>2, <1>3, ConcatProperties
  <2>2. \A j \in 1..2 : u[j] = IF j <= 1 THEN x[j] ELSE y[j - 1]
    BY <1>2, <2>1
  <2>3. QED
    BY <1>2, <2>1, <2>2
<1>5. PICK s : s = u \o z
  OBVIOUS
<1>6. s \in Seq(X) /\ Len(s) = 3 /\ s[1] = a /\ s[2] = b /\ s[3] = c
  <2>1. /\ s \in Seq(X) /\ Len(s) = Len(u) + Len(z)
        /\ \A j \in 1..Len(u) + Len(z) : s[j] = IF j <= Len(u) THEN u[j] ELSE z[j - Len(u)]
    BY <1>2, <1>4, <1>5, ConcatProperties
  <2>2. \A j \in 1..3 : s[j] = IF j <= 2 THEN u[j] ELSE z[j - 2]
    BY <1>2, <1>4, <2>1
  <2>3. QED
    BY <1>2, <1>4, <2>1, <2>2
<1>7. PICK t : t = <<a, b, c>>
  OBVIOUS
<1>8. t \in Seq(X) /\ Len(t) = 3 /\ t[1] = a /\ t[2] = b /\ t[3] = c
  BY <1>7
<1>9. s = t
  BY <1>6, <1>8
<1>10. QED
  BY <1>1, <1>3, <1>5, <1>7, <1>9

LEMMA CharsOf == ASSUME NEW t \in Texts, NEW u \in Texts PROVE [D!Chars(t) EXCEPT !.text = u] = D!Chars(u)
<1>1. PICK b, c : b = D!Chars(t) /\ c = D!Chars(u)
  OBVIOUS
<1>2. b \in Events /\ c \in Events /\ b.ev = c.ev /\ b.name = c.name /\ c.text = u
  <2>1. "" \in Strings
    BY DEF Strings
  <2>2. b \in Events /\ c \in Events
    BY <1>1, <2>1, EventsTyped
  <2>3. QED
    BY <1>1, <2>2 DEF D!Chars
<1>3. [b EXCEPT !.text = u] = c
  BY <1>2 DEF Events
<1>4. QED
  BY <1>1, <1>3

\* A start tag, what the reader yields of a text, if it is anything, and an end tag
\* are the events of a document from p on.
ElementLen(t) == IF t.body = "" THEN 2 ELSE 3
Lies(w, p, a, t, c) ==
    /\ p \in Nat \ {0} /\ p + ElementLen(t) - 1 <= Len(w) /\ w[p] = a
    /\ t.body = "" => w[p + 1] = c
    /\ t.body # "" => w[p + 1] = D!Chars(D!Trim(D!Escape(t))) /\ w[p + 2] = c

LEMMA ElementAt ==
    ASSUME NEW name \in Strings, NEW kind \in Strings, NEW text \in Texts, NEW w \in Seq(Events), NEW p \in Nat,
           At(w, D!Yielded(D!Element(D!Start(name, D!Plain(kind)), text, name)), p)
    PROVE  /\ D!Element(D!Start(name, D!Plain(kind)), text, name) \in Seq(Events)
           /\ Lies(w, p, D!Start(name, D!Plain(kind)), text, D!End(name))
           /\ Len(D!Yielded(D!Element(D!Start(name, D!Plain(kind)), text, name))) = ElementLen(text)
<1>0. PICK es : es = D!Element(D!Start(name, D!Plain(kind)), text, name)
  OBVIOUS
<1>1. PICK a, b, c, t : /\ a = D!Start(name, D!Plain(kind)) /\ b = D!Chars(t) /\ c = D!End(name)
                        /\ t = D!Escape(text)
  OBVIOUS
<1>3. t \in Texts /\ D!Plain(kind) \in Texts
  BY <1>1, EventsTyped
<1>4. a \in Events /\ b \in Events /\ c \in Events /\ a.ev # "text" /\ c.ev # "text" /\ b.ev = "text" /\ b.text = t
  BY <1>1, <1>3, EventsTyped DEF D!Start, D!End, D!Chars
<1>5. es = <<a>> \o <<b>> \o <<c>>
  <2>1. es = <<a, b, c>>
    BY <1>0, <1>1 DEF D!Element
  <2>2. <<a, b, c>> = <<a>> \o <<b>> \o <<c>>
    BY <1>4, InThree
  <2>3. QED
    BY <2>1, <2>2
<1>6. PICK ys : ys = D!OfEvent(b)
  OBVIOUS
<1>7. ys \in Seq(Events) /\ D!Yielded(<<b>>) = ys
  BY <1>4, <1>6, OfEventTyped, YieldedOne
<1>8. <<b>> \in Seq(Events) /\ es \in Seq(Events)
  BY <1>4, <1>5
<1>9. D!Yielded(es) = <<a>> \o ys \o <<c>>
  BY <1>4, <1>5, <1>7, <1>8, Framed
<1>15. At(w, D!Yielded(es), p)
  BY <1>0
<1>10. /\ p \in Nat \ {0} /\ w[p] = a /\ At(w, ys, p + 1) /\ w[p + 1 + Len(ys)] = c
       /\ Len(D!Yielded(es)) = Len(ys) + 2 /\ p + Len(ys) + 2 <= Len(w) + 1
  BY <1>4, <1>7, <1>9, <1>15, AtFramed, SMTT(30)
<1>11. t.body = text.body
  BY <1>1 DEF D!Escape, Texts
<1>12. CASE text.body = ""
  <2>1. ys = <<>>
    BY <1>4, <1>6, <1>11, <1>12 DEF D!OfEvent
  <2>2. Len(ys) = 0
    BY <2>1
  <2>3. p + 1 + 0 = p + 1 /\ 0 + 2 = 2 /\ (p + 0 + 2 <= Len(w) + 1 => p + 1 <= Len(w))
    BY <1>10
  <2>4. QED
    <3>1. ElementLen(text) = 2
      BY <1>12 DEF ElementLen
    <3>2. Len(D!Yielded(es)) = 2
      BY <1>10, <2>2
    <3>3. w[p + 1] = c /\ p + 2 - 1 <= Len(w)
      BY <1>10, <2>2, <2>3
    <3>4. Lies(w, p, a, text, c)
      BY <1>10, <1>12, <3>1, <3>3 DEF Lies
    <3>5. QED
      BY <1>0, <1>1, <1>8, <3>1, <3>2, <3>4
<1>13. CASE text.body # ""
  <2>1. ys = <<[b EXCEPT !.text = D!Trim(t)]>>
    BY <1>4, <1>6, <1>11, <1>13 DEF D!OfEvent
  <2>2. [b EXCEPT !.text = D!Trim(t)] = D!Chars(D!Trim(t))
    BY <1>1, <1>3, EventsTyped, CharsOf
  <2>3. D!Chars(D!Trim(t)) \in Events
    BY <1>3, EventsTyped
  <2>4. Len(ys) = 1 /\ ys = <<D!Chars(D!Trim(t))>>
    BY <2>1, <2>2
  <2>7. w[p + 1] = D!Chars(D!Trim(t))
    BY <1>10, <2>3, <2>4, AtOne
  <2>5. p + 1 + 1 = p + 2 /\ 1 + 2 = 3 /\ (p + 1 + 2 <= Len(w) + 1 => p + 2 <= Len(w))
    BY <1>10
  <2>6. QED
    <3>1. ElementLen(text) = 3
      BY <1>13 DEF ElementLen
    <3>2. Len(D!Yielded(es)) = 3
      BY <1>10, <2>4
    <3>3. w[p + 2] = c /\ p + 3 - 1 <= Len(w)
      BY <1>10, <2>4, <2>5
    <3>4. Lies(w, p, a, text, c)
      BY <1>1, <1>10, <1>13, <2>7, <3>1, <3>3 DEF Lies
    <3>5. QED
      BY <1>0, <1>1, <1>8, <3>1, <3>2, <3>4
<1>14. QED
  BY <1>12, <1>13

LEMMA ReadScalarText ==
    ASSUME MaxNesting \in Nat, NEW n \in 0..MaxNesting, NEW v \in D!Values[n],
           v.kind \in {"text", "uint", "sint", "real", "bool", "blob"},
           NEW w \in Seq(Events), NEW p \in Nat, At(w, Read(n, v), p)
    PROVE  /\ Lies(w, p, D!Start("v", D!Plain(v.kind)), v.text, D!End("v"))
           /\ Len(Read(n, v)) = ElementLen(v.text)
<1>1. v.text \in Texts /\ v.kind \in Strings /\ "v" \in Strings
  BY Kinds DEF Strings
<1>2. D!ValueEvents[n][v] = D!Element(D!Start("v", D!Plain(v.kind)), v.text, "v")
  BY LiteralKinds, WrittenIs DEF D!Written
<1>3. Read(n, v) = D!Yielded(D!Element(D!Start("v", D!Plain(v.kind)), v.text, "v"))
  BY <1>2 DEF Read
<1>4. At(w, D!Yielded(D!Element(D!Start("v", D!Plain(v.kind)), v.text, "v")), p)
  BY <1>3
<1>5. QED
  BY <1>1, <1>3, <1>4, ElementAt

-----------------------------------------------------------------------------
(* What a value is once it has been through the codec.                     *)

LEMMA SettledIs ==
    ASSUME MaxNesting \in Nat, NEW n \in 0..MaxNesting, NEW v \in D!Values[n]
    PROVE  D!Settled[n][v] = D!SettledOver(v, InnerSettled(n))
BY SettledAre DEF InnerSettled

\* Its first k fields or items, and each of them.
GotOne(n, v, j) ==
    IF v.kind = "rec" THEN [name |-> D!Escape(v.fields[j].name), value |-> D!Settled[n - 1][Child(v, j)]]
    ELSE D!Settled[n - 1][Child(v, j)]
Got(n, v, k) == [j \in 1..k |-> GotOne(n, v, j)]

LEMMA GotStep ==
    ASSUME NEW n, NEW v, NEW k \in Nat
    PROVE  Got(n, v, k + 1) = Append(Got(n, v, k), GotOne(n, v, k + 1))
<1>1. PICK x, y, e : x = Got(n, v, k) /\ y = Got(n, v, k + 1) /\ e = GotOne(n, v, k + 1)
  OBVIOUS
<1>2. PICK S : S = {GotOne(n, v, j) : j \in 1..k + 1}
  OBVIOUS
<1>3. /\ x = [j \in 1..k |-> x[j]] /\ DOMAIN x = 1..k /\ \A j \in 1..k : x[j] = GotOne(n, v, j) /\ x[j] \in S
      /\ y = [j \in 1..k + 1 |-> y[j]] /\ DOMAIN y = 1..k + 1
      /\ \A j \in 1..k + 1 : y[j] = GotOne(n, v, j) /\ y[j] \in S
  BY <1>1, <1>2 DEF Got
<1>4. x \in Seq(S) /\ Len(x) = k
  BY <1>3, SeqOf
<1>5. y \in Seq(S) /\ Len(y) = k + 1
  BY <1>3, SeqOf
<1>6. e \in S /\ y[k + 1] = e /\ \A j \in 1..k : y[j] = x[j]
  BY <1>1, <1>3
<1>7. y = Append(x, e)
  BY <1>4, <1>5, <1>6
<1>8. QED
  BY <1>1, <1>7

LEMMA GotNone == ASSUME NEW n, NEW v PROVE Got(n, v, 0) = <<>>
BY DEF Got

LEMMA SettledHas ==
    ASSUME MaxNesting \in Nat, NEW n \in 0..MaxNesting, NEW v \in D!Values[n]
    PROVE  /\ v.kind = "rec" => D!Settled[n][v] = D!Rec(Got(n, v, Size(v)))
           /\ v.kind = "seq" => D!Settled[n][v] = D!Seqn(Got(n, v, Size(v)))
           /\ v.kind = "nil" => D!Settled[n][v] = D!Nil
           /\ v.kind \in {"text", "uint", "sint", "real", "bool", "blob"} =>
                D!Settled[n][v] = D!Scalar(v.kind, IF v.text.body = "" THEN D!Plain("") ELSE D!Trim(v.text))
<1>0. D!Settled[n][v] = D!SettledOver(v, InnerSettled(n))
  BY SettledIs
<1>1. CASE v.kind = "rec"
  <2>1. /\ DOMAIN v.fields = 1..Size(v)
        /\ \A j \in 1..Size(v) : InnerSettled(n) = D!Settled[n - 1] /\ Child(v, j) = v.fields[j].value
    BY <1>1, Children DEF InnerSettled, Child
  <2>2. [j \in DOMAIN v.fields |-> [name |-> D!Escape(v.fields[j].name), value |-> InnerSettled(n)[v.fields[j].value]]]
        = [j \in 1..Size(v) |-> GotOne(n, v, j)]
    BY <1>1, <2>1 DEF GotOne
  <2>3. QED
    BY <1>0, <1>1, <2>2, LiteralKinds DEF D!SettledOver, Got
<1>2. CASE v.kind = "seq"
  <2>1. /\ DOMAIN v.items = 1..Size(v)
        /\ \A j \in 1..Size(v) : InnerSettled(n) = D!Settled[n - 1] /\ Child(v, j) = v.items[j]
    BY <1>2, Children DEF InnerSettled, Child
  <2>2. [j \in DOMAIN v.items |-> InnerSettled(n)[v.items[j]]] = [j \in 1..Size(v) |-> GotOne(n, v, j)]
    BY <1>2, <2>1 DEF GotOne
  <2>3. QED
    BY <1>0, <1>2, <2>2, LiteralKinds DEF D!SettledOver, Got
<1>3. CASE v.kind = "nil"
  BY <1>0, <1>3, LiteralKinds DEF D!SettledOver
<1>4. CASE v.kind = "text"
  BY <1>0, <1>4, LiteralKinds DEF D!SettledOver
<1>5. CASE v.kind \in {"uint", "sint", "real", "bool", "blob"}
  <2>1. v.kind \in DOMAIN D!Literals /\ v = D!Scalar(v.kind, v.text)
    BY <1>5, Kinds
  <2>2. PICK b \in D!Literals[v.kind] : v.text = D!Plain(b)
    BY <1>5, Kinds
  <2>3. D!SettledOver(v, InnerSettled(n)) = v
    BY <1>5, <2>1, LiteralKinds DEF D!SettledOver
  <2>4. D!Trim(v.text) = v.text /\ v.text.body = b
    BY <2>1, <2>2, LiteralRead
  <2>5. v.text.body = "" => v.text = D!Plain("")
    BY <2>2, <2>4
  <2>6. QED
    BY <1>0, <1>5, <2>1, <2>3, <2>4, <2>5
<1>6. QED
  BY <1>1, <1>2, <1>3, <1>4, <1>5

-----------------------------------------------------------------------------
(* The document that is written of an envelope.                            *)

W(env) == D!Yielded(D!Encode(env))

\* The elements inside of its <meta>, where they begin, and where the value does.
MetaName(j) == IF j = 1 THEN "from" ELSE IF j = 2 THEN "to" ELSE IF j = 3 THEN "thread" ELSE "provenance"
MetaText(env, j) ==
    IF j = 1 THEN env.from ELSE IF j = 2 THEN env.to ELSE IF j = 3 THEN env.thread ELSE env.provenance
MetaRead(env, j) == D!Yielded(D!MetaElement(MetaName(j), MetaText(env, j)))
MetaAt(env, j) ==
    IF j = 1 THEN 3
    ELSE IF j = 2 THEN 3 + Len(MetaRead(env, 1))
    ELSE IF j = 3 THEN 3 + Len(MetaRead(env, 1)) + Len(MetaRead(env, 2))
    ELSE IF j = 4 THEN 3 + Len(MetaRead(env, 1)) + Len(MetaRead(env, 2)) + Len(MetaRead(env, 3))
    ELSE 3 + Len(MetaRead(env, 1)) + Len(MetaRead(env, 2)) + Len(MetaRead(env, 3)) + Len(MetaRead(env, 4))
ValueAt(env) == MetaAt(env, 5) + 2
ReadLen(env) == Len(Read(MaxNesting, env.value))

\* Address::parse and prov_from_hex have nothing against the text, unless it is blank.
Parsable(field, t) == (field \in {"from", "to"} => t.body # "]") /\ (field = "provenance" => t.body = "1")

LEMMA MetaTexts ==
    ASSUME D!CodecAssumption, NEW env \in D!EnvelopeType, NEW j \in 1..4
    PROVE  /\ MetaText(env, j) # None => MetaText(env, j) \in Texts
           /\ j \in {1, 3} => MetaText(env, j) # None
           /\ MetaName(j) \in Strings /\ MetaName(j) \in {"from", "to", "thread", "provenance"}
           /\ MetaText(env, j) # None => Parsable(MetaName(j), MetaText(env, j))
<1>1. /\ env.from \in D!Text /\ env.from.body # "]" /\ env.thread \in D!Text
      /\ env.to = None \/ (env.to \in D!Text /\ env.to.body # "]")
      /\ env.provenance = None \/ env.provenance = D!Plain("1")
  BY DEF D!EnvelopeType
<1>2. None \notin D!Text /\ D!Text \subseteq Texts /\ D!Plain("1") \in Texts
  BY TextsToo, PlainText DEF D!CodecAssumption, Strings
<1>3. D!Plain("1").body = "1"
  BY DEF D!Plain
<1>4. QED
  BY <1>1, <1>2, <1>3 DEF MetaText, MetaName, Strings, Parsable

LEMMA FewTyped ==
    ASSUME NEW X, NEW a \in X, NEW b \in X, NEW c \in X
    PROVE  <<a, b, c>> \in Seq(X) /\ <<a, b>> \in Seq(X) /\ <<a>> \in Seq(X) /\ Len(<<a>>) = 1 /\ <<a, b>> = <<a>> \o <<b>>
<1>1. <<a, b, c>> \in Seq(X)
  OBVIOUS
<1>2. <<a, b>> \in Seq(X) /\ <<a>> \in Seq(X) /\ Len(<<a>>) = 1
  OBVIOUS
<1>3. PICK x, y : x = <<a>> /\ y = <<b>>
  OBVIOUS
<1>4. x \in Seq(X) /\ y \in Seq(X) /\ Len(x) = 1 /\ Len(y) = 1 /\ x[1] = a /\ y[1] = b
  BY <1>3
<1>5. PICK u, t : u = x \o y /\ t = <<a, b>>
  OBVIOUS
<1>6. /\ u \in Seq(X) /\ Len(u) = Len(x) + Len(y)
      /\ \A j \in 1..Len(x) + Len(y) : u[j] = IF j <= Len(x) THEN x[j] ELSE y[j - Len(x)]
  BY <1>4, <1>5, ConcatProperties
<1>7. Len(u) = 2 /\ \A j \in 1..2 : u[j] = IF j <= 1 THEN x[j] ELSE y[j - 1]
  BY <1>4, <1>6
<1>8. u[1] = a /\ u[2] = b
  BY <1>4, <1>7
<1>9. t \in Seq(X) /\ Len(t) = 2 /\ t[1] = a /\ t[2] = b
  BY <1>5
<1>10. u = t
  BY <1>6, <1>7, <1>8, <1>9
<1>11. QED
  BY <1>1, <1>2, <1>3, <1>5, <1>10

LEMMA MetaTyped ==
    ASSUME D!CodecAssumption, NEW env \in D!EnvelopeType, NEW j \in 1..4
    PROVE  /\ D!MetaElement(MetaName(j), MetaText(env, j)) \in Seq(Events)
           /\ MetaRead(env, j) \in Seq(Events) /\ Len(MetaRead(env, j)) \in Nat
           /\ MetaAt(env, j) \in Nat /\ MetaAt(env, j + 1) = MetaAt(env, j) + Len(MetaRead(env, j))
<1>1. \A l \in 1..4 : D!MetaElement(MetaName(l), MetaText(env, l)) \in Seq(Events)
  <2> SUFFICES ASSUME NEW l \in 1..4 PROVE D!MetaElement(MetaName(l), MetaText(env, l)) \in Seq(Events)
    OBVIOUS
  <2>1. PICK nm, t : nm = MetaName(l) /\ t = MetaText(env, l)
    OBVIOUS
  <2>2. CASE t = None
    BY <2>1, <2>2 DEF D!MetaElement
  <2>3. CASE t # None
    <3>1. t \in Texts /\ nm \in Strings /\ "" \in Strings
      BY <2>1, <2>3, MetaTexts DEF Strings
    <3>2. D!Plain("") \in Texts /\ D!Escape(t) \in Texts
      BY <3>1, EventsTyped
    <3>3. D!Start(nm, D!Plain("")) \in Events /\ D!Chars(D!Escape(t)) \in Events /\ D!End(nm) \in Events
      BY <3>1, <3>2, EventsTyped
    <3>4. D!MetaElement(nm, t) = <<D!Start(nm, D!Plain("")), D!Chars(D!Escape(t)), D!End(nm)>>
      BY <2>3 DEF D!MetaElement, D!Element
    <3>5. PICK x, y, z : x = D!Start(nm, D!Plain("")) /\ y = D!Chars(D!Escape(t)) /\ z = D!End(nm)
      OBVIOUS
    <3>6. x \in Events /\ y \in Events /\ z \in Events
      BY <3>3, <3>5
    <3>8. <<x, y, z>> \in Seq(Events)
      BY <3>6, FewTyped, Zenon
    <3>7. QED
      BY <2>1, <3>4, <3>5, <3>8
  <2>4. QED
    BY <2>2, <2>3
<1>2. \A l \in 1..4 : MetaRead(env, l) \in Seq(Events) /\ Len(MetaRead(env, l)) \in Nat
  BY <1>1, YieldedTyped DEF MetaRead
<1>3. PICK a, b, c, d : a = Len(MetaRead(env, 1)) /\ b = Len(MetaRead(env, 2)) /\ c = Len(MetaRead(env, 3))
        /\ d = Len(MetaRead(env, 4))
  OBVIOUS
<1>4. a \in Nat /\ b \in Nat /\ c \in Nat /\ d \in Nat
  BY <1>2, <1>3
<1>5. j = 1 => MetaAt(env, j) = 3 /\ MetaAt(env, j + 1) = 3 + a
  BY <1>3 DEF MetaAt
<1>6. j = 2 => MetaAt(env, j) = 3 + a /\ MetaAt(env, j + 1) = 3 + a + b
  BY <1>3 DEF MetaAt
<1>7. j = 3 => MetaAt(env, j) = 3 + a + b /\ MetaAt(env, j + 1) = 3 + a + b + c
  BY <1>3 DEF MetaAt
<1>8. j = 4 => MetaAt(env, j) = 3 + a + b + c /\ MetaAt(env, j + 1) = 3 + a + b + c + d
  BY <1>3 DEF MetaAt
<1>9. MetaAt(env, j) \in Nat /\ MetaAt(env, j + 1) = MetaAt(env, j) + Len(MetaRead(env, j))
  <2>1. CASE j = 1
    BY <1>3, <1>4, <1>5, <2>1
  <2>2. CASE j = 2
    BY <1>3, <1>4, <1>6, <2>2, SMTT(30)
  <2>3. CASE j = 3
    BY <1>3, <1>4, <1>7, <2>3
  <2>4. CASE j = 4
    BY <1>3, <1>4, <1>8, <2>4
  <2>5. QED
    BY <2>1, <2>2, <2>3, <2>4
<1>10. QED
  BY <1>1, <1>2, <1>9

\* At the end of it.
LEMMA AtBoth ==
    ASSUME NEW w \in Seq(Events), NEW es \in Seq(Events), NEW fs \in Seq(Events), NEW p \in Nat,
           At(w, D!Yielded(es \o fs), p)
    PROVE  /\ At(w, D!Yielded(es), p) /\ At(w, D!Yielded(fs), p + Len(D!Yielded(es)))
<1>1. PICK x, y : x = D!Yielded(es) /\ y = D!Yielded(fs)
  OBVIOUS
<1>2. x \in Seq(Events) /\ y \in Seq(Events)
  BY <1>1, YieldedTyped
<1>3. D!Yielded(es \o fs) = x \o y
  BY <1>1, YieldedConcat
<1>4. At(w, x, p) /\ At(w, y, p + Len(x))
  BY <1>2, <1>3, AtConcat
<1>5. QED
  BY <1>1, <1>4

LEMMA YieldedLen ==
    ASSUME NEW es \in Seq(Events), NEW fs \in Seq(Events)
    PROVE  Len(D!Yielded(es \o fs)) = Len(D!Yielded(es)) + Len(D!Yielded(fs))
<1>1. PICK x, y : x = D!Yielded(es) /\ y = D!Yielded(fs)
  OBVIOUS
<1>2. x \in Seq(Events) /\ y \in Seq(Events) /\ D!Yielded(es \o fs) = x \o y
  BY <1>1, YieldedTyped, YieldedConcat
<1>3. Len(x \o y) = Len(x) + Len(y)
  BY <1>2
<1>4. QED
  BY <1>1, <1>2, <1>3

\* Two tags, one after the other.
LEMMA AtTwo ==
    ASSUME NEW w \in Seq(Events), NEW a \in Events, NEW c \in Events, a.ev # "text", c.ev # "text", NEW p \in Nat,
           At(w, D!Yielded(<<a, c>>), p)
    PROVE  w[p] = a /\ w[p + 1] = c /\ p + 1 <= Len(w) /\ p \in Nat \ {0} /\ Len(D!Yielded(<<a, c>>)) = 2
<1>1. PICK x, y : x = <<a>> /\ y = <<c>>
  OBVIOUS
<1>2. x \in Seq(Events) /\ y \in Seq(Events) /\ Len(x) = 1 /\ Len(y) = 1 /\ <<a, c>> = x \o y
  BY <1>1, FewTyped
<1>3. D!Yielded(x) = x /\ D!Yielded(y) = y
  BY <1>1, YieldedTag
<1>4. At(w, D!Yielded(x \o y), p)
  BY <1>2
<1>5. At(w, D!Yielded(x), p) /\ At(w, D!Yielded(y), p + Len(D!Yielded(x)))
  BY <1>2, <1>4, AtBoth, Zenon
<1>6. Len(D!Yielded(x \o y)) = Len(D!Yielded(x)) + Len(D!Yielded(y))
  BY <1>2, YieldedLen
<1>7. At(w, <<a>>, p)
  BY <1>1, <1>3, <1>5
<1>8. w[p] = a /\ p \in 1..Len(w)
  BY <1>7, AtOne
<1>9. PICK q : q = p + 1
  OBVIOUS
<1>10. q \in Nat /\ At(w, <<c>>, q)
  <2>1. q = p + Len(D!Yielded(x)) /\ q \in Nat
    BY <1>2, <1>3, <1>9
  <2>2. QED
    BY <1>1, <1>3, <1>5, <2>1
<1>11. w[q] = c /\ q \in 1..Len(w)
  BY <1>10, AtOne
<1>12. Len(D!Yielded(<<a, c>>)) = 2
  <2>1. Len(D!Yielded(x)) = 1 /\ Len(D!Yielded(y)) = 1
    BY <1>2, <1>3
  <2>2. Len(D!Yielded(x \o y)) = 2
    BY <1>6, <2>1
  <2>3. QED
    BY <1>2, <2>2
<1>13. QED
  BY <1>8, <1>9, <1>11, <1>12

LEMMA AtAll == ASSUME NEW w \in Seq(Events) PROVE At(w, w, 1)
<1>1. \A j \in 1..Len(w) : (1 - 1) + j = j
  OBVIOUS
<1>2. QED
  BY <1>1 DEF At

Header(env) == <<D!Start("message", D!Plain("")), D!Start("meta", D!Plain(""))>>
Middle(env) == <<D!End("meta"), D!Start("payload", D!Escape(env.tag))>>
Footer(env) == <<D!End("payload"), D!End("message")>>

LEMMA TagsTyped ==
    ASSUME D!CodecAssumption, NEW env \in D!EnvelopeType
    PROVE  /\ D!Start("message", D!Plain("")) \in Events /\ D!Start("meta", D!Plain("")) \in Events
           /\ D!End("meta") \in Events /\ D!Start("payload", D!Escape(env.tag)) \in Events
           /\ D!End("payload") \in Events /\ D!End("message") \in Events
           /\ env.tag \in Texts /\ env.value \in D!Values[MaxNesting]
           /\ MaxNesting \in Nat /\ MaxNesting \in 0..MaxNesting
           /\ D!ValueEvents[MaxNesting][env.value] \in Seq(Events)
<1>1. env.tag \in D!Text /\ env.value \in D!Values[MaxNesting]
  BY DEF D!EnvelopeType
<1>2. env.tag \in Texts /\ MaxNesting \in Nat /\ MaxNesting \in 0..MaxNesting
  BY <1>1, TextsToo DEF D!CodecAssumption
<1>3. /\ "message" \in Strings /\ "meta" \in Strings /\ "payload" \in Strings /\ "" \in Strings
  BY DEF Strings
<1>4. D!Plain("") \in Texts /\ D!Escape(env.tag) \in Texts
  BY <1>2, <1>3, EventsTyped
<1>5. D!ValueEvents[MaxNesting][env.value] \in Seq(Events)
  BY <1>1, <1>2, WrittenTyped
<1>6. D!Start("message", D!Plain("")) \in Events /\ D!End("message") \in Events
  BY <1>3, <1>4, EventsTyped
<1>7. D!Start("meta", D!Plain("")) \in Events /\ D!End("meta") \in Events
  BY <1>3, <1>4, EventsTyped
<1>8. D!Start("payload", D!Escape(env.tag)) \in Events /\ D!End("payload") \in Events
  BY <1>3, <1>4, EventsTyped
<1>9. QED
  BY <1>1, <1>2, <1>5, <1>6, <1>7, <1>8

LEMMA Layout ==
    ASSUME D!CodecAssumption, NEW env \in D!EnvelopeType
    PROVE  /\ W(env) \in Seq(Events)
           /\ W(env)[1] = D!Start("message", D!Plain("")) /\ W(env)[2] = D!Start("meta", D!Plain(""))
           /\ \A j \in 1..4 : At(W(env), MetaRead(env, j), MetaAt(env, j))
           /\ W(env)[MetaAt(env, 5)] = D!End("meta")
           /\ W(env)[MetaAt(env, 5) + 1] = D!Start("payload", D!Escape(env.tag))
           /\ At(W(env), Read(MaxNesting, env.value), ValueAt(env))
           /\ W(env)[ValueAt(env) + ReadLen(env)] = D!End("payload")
           /\ W(env)[ValueAt(env) + ReadLen(env) + 1] = D!End("message")
           /\ MetaAt(env, 5) \in Nat /\ ReadLen(env) \in Nat
<1>1. PICK h, m, c : h = Header(env) /\ m = Middle(env) /\ c = Footer(env)
  OBVIOUS
<1>2. PICK e1, e2, e3, e4, ve : /\ e1 = D!MetaElement("from", env.from) /\ e2 = D!MetaElement("to", env.to)
                                /\ e3 = D!MetaElement("thread", env.thread)
                                /\ e4 = D!MetaElement("provenance", env.provenance)
                                /\ ve = D!ValueEvents[MaxNesting][env.value]
  OBVIOUS
<1>3. e1 \in Seq(Events) /\ e2 \in Seq(Events) /\ e3 \in Seq(Events) /\ e4 \in Seq(Events)
  <2>1. \A j \in 1..4 : D!MetaElement(MetaName(j), MetaText(env, j)) \in Seq(Events)
    BY MetaTyped
  <2>2. 1 \in 1..4 /\ 2 \in 1..4 /\ 3 \in 1..4 /\ 4 \in 1..4
    OBVIOUS
  <2>3. /\ MetaName(1) = "from" /\ MetaName(2) = "to" /\ MetaName(3) = "thread" /\ MetaName(4) = "provenance"
        /\ MetaText(env, 1) = env.from /\ MetaText(env, 2) = env.to
        /\ MetaText(env, 3) = env.thread /\ MetaText(env, 4) = env.provenance
    BY DEF MetaName, MetaText
  <2>4. QED
    BY <1>2, <2>1, <2>2, <2>3
<1>4. h \in Seq(Events) /\ m \in Seq(Events) /\ c \in Seq(Events) /\ ve \in Seq(Events)
  <2>1. h \in Seq(Events)
    BY <1>1, TagsTyped, FewTyped, Zenon DEF Header
  <2>2. m \in Seq(Events)
    BY <1>1, TagsTyped, FewTyped, Zenon DEF Middle
  <2>3. c \in Seq(Events)
    BY <1>1, TagsTyped, FewTyped, Zenon DEF Footer
  <2>4. QED
    BY <1>2, <2>1, <2>2, <2>3, TagsTyped, Zenon
<1>5. D!Encode(env) = h \o e1 \o e2 \o e3 \o e4 \o m \o ve \o c
  BY <1>1, <1>2 DEF D!Encode, Header, Middle, Footer
<1>6. PICK s1, s2, s3, s4, s5, s6, s7 :
        /\ s1 = h \o e1 /\ s2 = s1 \o e2 /\ s3 = s2 \o e3 /\ s4 = s3 \o e4 /\ s5 = s4 \o m /\ s6 = s5 \o ve /\ s7 = s6 \o c
  OBVIOUS
<1>7. s1 \in Seq(Events) /\ s2 \in Seq(Events) /\ s3 \in Seq(Events) /\ s4 \in Seq(Events)
  BY <1>3, <1>4, <1>6
<1>8. s5 \in Seq(Events) /\ s6 \in Seq(Events) /\ s7 \in Seq(Events)
  BY <1>4, <1>6, <1>7
<1>9. PICK w : w = W(env)
  OBVIOUS
<1>10. w = D!Yielded(s7) /\ w \in Seq(Events) /\ At(w, D!Yielded(s7), 1)
  BY <1>5, <1>6, <1>8, <1>9, YieldedTyped, AtAll DEF W
<1>11. At(w, D!Yielded(s6), 1) /\ At(w, D!Yielded(c), 1 + Len(D!Yielded(s6)))
  BY <1>4, <1>6, <1>8, <1>10, AtBoth, Zenon
<1>12. At(w, D!Yielded(s5), 1) /\ At(w, D!Yielded(ve), 1 + Len(D!Yielded(s5)))
  BY <1>4, <1>6, <1>8, <1>10, <1>11, AtBoth, Zenon
<1>12a. Len(D!Yielded(s6)) = Len(D!Yielded(s5)) + Len(D!Yielded(ve))
  BY <1>3, <1>4, <1>6, <1>7, <1>8, YieldedLen
<1>13. At(w, D!Yielded(s4), 1) /\ At(w, D!Yielded(m), 1 + Len(D!Yielded(s4)))
  BY <1>4, <1>6, <1>7, <1>10, <1>12, AtBoth, Zenon
<1>13a. Len(D!Yielded(s5)) = Len(D!Yielded(s4)) + Len(D!Yielded(m))
  BY <1>3, <1>4, <1>6, <1>7, <1>8, YieldedLen
<1>14. At(w, D!Yielded(s3), 1) /\ At(w, D!Yielded(e4), 1 + Len(D!Yielded(s3)))
  BY <1>3, <1>6, <1>7, <1>10, <1>13, AtBoth, Zenon
<1>14a. Len(D!Yielded(s4)) = Len(D!Yielded(s3)) + Len(D!Yielded(e4))
  BY <1>3, <1>4, <1>6, <1>7, <1>8, YieldedLen
<1>15. At(w, D!Yielded(s2), 1) /\ At(w, D!Yielded(e3), 1 + Len(D!Yielded(s2)))
  BY <1>3, <1>6, <1>7, <1>10, <1>14, AtBoth, Zenon
<1>15a. Len(D!Yielded(s3)) = Len(D!Yielded(s2)) + Len(D!Yielded(e3))
  BY <1>3, <1>4, <1>6, <1>7, <1>8, YieldedLen
<1>16. At(w, D!Yielded(s1), 1) /\ At(w, D!Yielded(e2), 1 + Len(D!Yielded(s1)))
  BY <1>3, <1>6, <1>7, <1>10, <1>15, AtBoth, Zenon
<1>16a. Len(D!Yielded(s2)) = Len(D!Yielded(s1)) + Len(D!Yielded(e2))
  BY <1>3, <1>4, <1>6, <1>7, <1>8, YieldedLen
<1>17. At(w, D!Yielded(h), 1) /\ At(w, D!Yielded(e1), 1 + Len(D!Yielded(h)))
  BY <1>3, <1>4, <1>6, <1>10, <1>16, AtBoth, Zenon
<1>17a. Len(D!Yielded(s1)) = Len(D!Yielded(h)) + Len(D!Yielded(e1))
  BY <1>3, <1>4, <1>6, <1>7, <1>8, YieldedLen
<1>18. w[1] = D!Start("message", D!Plain("")) /\ w[2] = D!Start("meta", D!Plain("")) /\ Len(D!Yielded(h)) = 2
  <2>1. PICK a, b : a = D!Start("message", D!Plain("")) /\ b = D!Start("meta", D!Plain(""))
    OBVIOUS
  <2>2. a \in Events /\ b \in Events /\ a.ev # "text" /\ b.ev # "text" /\ h = <<a, b>>
    BY <1>1, <2>1, TagsTyped DEF Header, D!Start
  <2>3. w[1] = a /\ w[1 + 1] = b /\ Len(D!Yielded(<<a, b>>)) = 2
    BY <1>10, <1>17, <2>2, AtTwo
  <2>4. 1 + 1 = 2
    OBVIOUS
  <2>5. w[2] = b
    BY <2>3, <2>4
  <2>6. QED
    BY <2>1, <2>2, <2>3, <2>5
<1>19. PICK l1, l2, l3, l4, lv : /\ l1 = Len(D!Yielded(e1)) /\ l2 = Len(D!Yielded(e2)) /\ l3 = Len(D!Yielded(e3))
                                 /\ l4 = Len(D!Yielded(e4)) /\ lv = Len(D!Yielded(ve))
  OBVIOUS
<1>20. l1 \in Nat /\ l2 \in Nat /\ l3 \in Nat /\ l4 \in Nat /\ lv \in Nat
  <2>1. /\ D!Yielded(e1) \in Seq(Events) /\ D!Yielded(e2) \in Seq(Events) /\ D!Yielded(e3) \in Seq(Events)
        /\ D!Yielded(e4) \in Seq(Events) /\ D!Yielded(ve) \in Seq(Events)
    BY <1>3, <1>4, YieldedTyped
  <2>2. QED
    BY <1>19, <2>1
<1>21. /\ MetaRead(env, 1) = D!Yielded(e1) /\ MetaRead(env, 2) = D!Yielded(e2) /\ MetaRead(env, 3) = D!Yielded(e3)
       /\ MetaRead(env, 4) = D!Yielded(e4) /\ Read(MaxNesting, env.value) = D!Yielded(ve) /\ ReadLen(env) = lv
  BY <1>2, <1>19 DEF MetaRead, MetaName, MetaText, Read, ReadLen
<1>22. /\ MetaAt(env, 1) = 3 /\ MetaAt(env, 2) = 3 + l1 /\ MetaAt(env, 3) = 3 + l1 + l2
       /\ MetaAt(env, 4) = 3 + l1 + l2 + l3 /\ MetaAt(env, 5) = 3 + l1 + l2 + l3 + l4
  BY <1>19, <1>21 DEF MetaAt
<1>23. /\ 1 + Len(D!Yielded(h)) = 3 /\ 1 + Len(D!Yielded(s1)) = 3 + l1 /\ 1 + Len(D!Yielded(s2)) = 3 + l1 + l2
       /\ 1 + Len(D!Yielded(s3)) = 3 + l1 + l2 + l3 /\ 1 + Len(D!Yielded(s4)) = 3 + l1 + l2 + l3 + l4
  <2>1. PICK k0, k1, k2, k3, k4 : /\ k0 = Len(D!Yielded(h)) /\ k1 = Len(D!Yielded(s1)) /\ k2 = Len(D!Yielded(s2))
                                  /\ k3 = Len(D!Yielded(s3)) /\ k4 = Len(D!Yielded(s4))
    OBVIOUS
  <2>2. k0 = 2 /\ k1 = k0 + l1 /\ k2 = k1 + l2 /\ k3 = k2 + l3 /\ k4 = k3 + l4
    BY <1>14a, <1>15a, <1>16a, <1>17a, <1>18, <1>19, <2>1
  <2>3. 1 + k0 = 3 /\ 1 + k1 = 3 + l1 /\ 1 + k2 = 3 + l1 + l2
    BY <1>20, <2>2
  <2>4. 1 + k3 = 3 + l1 + l2 + l3 /\ 1 + k4 = 3 + l1 + l2 + l3 + l4
    BY <1>20, <2>2
  <2>5. QED
    BY <2>1, <2>3, <2>4
<1>24. \A j \in 1..4 : At(w, MetaRead(env, j), MetaAt(env, j))
  <2>1. At(w, MetaRead(env, 1), MetaAt(env, 1)) /\ At(w, MetaRead(env, 2), MetaAt(env, 2))
    BY <1>16, <1>17, <1>21, <1>22, <1>23
  <2>2. At(w, MetaRead(env, 3), MetaAt(env, 3)) /\ At(w, MetaRead(env, 4), MetaAt(env, 4))
    BY <1>14, <1>15, <1>21, <1>22, <1>23
  <2>3. QED
    BY <2>1, <2>2
<1>25. /\ w[MetaAt(env, 5)] = D!End("meta") /\ w[MetaAt(env, 5) + 1] = D!Start("payload", D!Escape(env.tag))
       /\ Len(D!Yielded(m)) = 2
  <2>1. PICK a, b : a = D!End("meta") /\ b = D!Start("payload", D!Escape(env.tag))
    OBVIOUS
  <2>2. a \in Events /\ b \in Events /\ a.ev # "text" /\ b.ev # "text" /\ m = <<a, b>>
    BY <1>1, <2>1, TagsTyped DEF Middle, D!Start, D!End
  <2>3. PICK q : q = 1 + Len(D!Yielded(s4))
    OBVIOUS
  <2>4. q = MetaAt(env, 5) /\ q \in Nat
    BY <1>20, <1>22, <1>23, <2>3
  <2>5. w[q] = a /\ w[q + 1] = b /\ Len(D!Yielded(<<a, b>>)) = 2
    BY <1>10, <1>13, <2>2, <2>3, <2>4, AtTwo
  <2>6. QED
    BY <2>1, <2>2, <2>4, <2>5
<1>26. 1 + Len(D!Yielded(s5)) = ValueAt(env) /\ 1 + Len(D!Yielded(s6)) = ValueAt(env) + lv /\ ValueAt(env) \in Nat
  <2>1. PICK x : x = 3 + l1 + l2 + l3 + l4
    OBVIOUS
  <2>2. x \in Nat /\ MetaAt(env, 5) = x /\ 1 + Len(D!Yielded(s4)) = x
    BY <1>20, <1>22, <1>23, <2>1
  <2>3. Len(D!Yielded(s4)) \in Nat
    BY <1>7, YieldedTyped, Zenon, LenProperties
  <2>4. PICK k4, k5, k6 : k4 = Len(D!Yielded(s4)) /\ k5 = Len(D!Yielded(s5)) /\ k6 = Len(D!Yielded(s6))
    OBVIOUS
  <2>5. k5 = k4 + 2 /\ k6 = k5 + lv /\ 1 + k4 = x /\ k4 \in Nat
    BY <1>12a, <1>13a, <1>19, <1>25, <2>2, <2>3, <2>4
  <2>6. 1 + k5 = x + 2 /\ 1 + k6 = x + 2 + lv /\ x + 2 \in Nat
    BY <1>20, <2>2, <2>5
  <2>7. QED
    BY <2>2, <2>4, <2>6 DEF ValueAt
<1>27. At(w, Read(MaxNesting, env.value), ValueAt(env))
  BY <1>12, <1>21, <1>26
<1>28. w[ValueAt(env) + lv] = D!End("payload") /\ w[ValueAt(env) + lv + 1] = D!End("message")
  <2>1. PICK a, b : a = D!End("payload") /\ b = D!End("message")
    OBVIOUS
  <2>2. a \in Events /\ b \in Events /\ a.ev # "text" /\ b.ev # "text" /\ c = <<a, b>>
    BY <1>1, <2>1, TagsTyped DEF Footer, D!End
  <2>3. PICK q : q = 1 + Len(D!Yielded(s6))
    OBVIOUS
  <2>4. q = ValueAt(env) + lv /\ q \in Nat
    BY <1>20, <1>26, <2>3
  <2>5. w[q] = a /\ w[q + 1] = b
    BY <1>10, <1>11, <2>2, <2>3, <2>4, AtTwo
  <2>6. QED
    BY <2>1, <2>4, <2>5
<1>29. MetaAt(env, 5) \in Nat /\ ReadLen(env) \in Nat
  BY <1>20, <1>21, <1>22
<1>30. QED
  BY <1>9, <1>10, <1>18, <1>21, <1>24, <1>25, <1>27, <1>28, <1>29

-----------------------------------------------------------------------------
(* The decoder's calls while it reads what is written of an envelope.      *)

\* Each call stands with what it reads, its part: a value v of level n, from p on,
\* of whose fields or items it has read k; op is what is open then.

\* Call b, with part hb, is to be given the value v, which is from p on.
Wants(b, hb, n, v, p) ==
    /\ b.fn \in {"labelled", "seq"}
    /\ b.fn = "labelled" => n = hb.n /\ v = hb.v /\ p = hb.p
    /\ b.fn = "seq" => /\ hb.k < Size(hb.v) /\ n = hb.n - 1 /\ v = Child(hb.v, hb.k + 1)
                       /\ p = hb.p + 1 + Off(hb.n, hb.v, hb.k)

\* Call c, with part h, is of an element that is the payload or a field of b's record.
Encloses(env, b, hb, c, h) ==
    /\ b.fn \in {"decode_envelope", "rec"}
    /\ b.fn = "decode_envelope" => /\ c.name = "payload" /\ c.label = D!Escape(env.tag)
                                   /\ h.n = MaxNesting /\ h.v = env.value /\ h.p = ValueAt(env)
                                   /\ h.op = <<"message", "payload">>
    /\ b.fn = "rec" => /\ hb.k < Size(hb.v) /\ c.name = "f"
                       /\ c.label = D!Escape(hb.v.fields[hb.k + 1].name)
                       /\ h.n = hb.n - 1 /\ h.v = Child(hb.v, hb.k + 1)
                       /\ h.p = hb.p + 2 + Off(hb.n, hb.v, hb.k)
                       /\ h.op = Append(hb.op, "f")

\* A part is a value of the document, and what has been read of it is in the call.
PartOf(env, h) ==
    h.n \in 0..MaxNesting /\ h.v \in D!Values[h.n] /\ h.p \in Nat /\ h.op \in Seq(Strings)
    /\ At(W(env), Read(h.n, h.v), h.p)

RecCall(got) == [fn |-> "rec", fields |-> got]
SeqCall(got) == [fn |-> "seq", items |-> got]
ScalarCall(kind, t) == [fn |-> "read_scalar", kind |-> kind, text |-> t]

Own(c, h) ==
    /\ c.fn = "rec" => h.v.kind = "rec" /\ h.k \in 0..Size(h.v) /\ c = RecCall(Got(h.n, h.v, h.k))
    /\ c.fn = "seq" => h.v.kind = "seq" /\ h.k \in 0..Size(h.v) /\ c = SeqCall(Got(h.n, h.v, h.k))
    /\ c.fn = "read_scalar" => h.v.kind \in {"text", "uint", "sint", "real", "bool", "blob"} /\ c = ScalarCall(h.v.kind, c.text)
    /\ c.fn = "expect_end" => c.value = D!Settled[h.n][h.v]

ValueCalls == {"rec", "seq", "read_scalar"}

\* Call c stands on call b.
Fits(env, b, hb, c, h) ==
    /\ c.fn = "read_meta" => b.fn = "decode_envelope"
    /\ c.fn # "read_meta" => /\ PartOf(env, h) /\ Own(c, h)
                             /\ c.fn \in {"labelled", "expect_end", "expect_value"} \cup ValueCalls
    /\ c.fn \in {"labelled", "expect_end"} => Encloses(env, b, hb, c, h)
    /\ c.fn = "expect_value" => b.fn = "labelled" /\ h.op = hb.op
    /\ c.fn \in ValueCalls => h.op = Append(hb.op, "v")
    /\ c.fn \in {"expect_value"} \cup ValueCalls => Wants(b, hb, h.n, h.v, h.p)

IsTuple(s) == s \in Seq({s[l] : l \in DOMAIN s})

Stack(env, cs, g) ==
    /\ IsTuple(cs) /\ cs # <<>> /\ cs[1].fn = "decode_envelope"
    /\ \A l \in 2..Len(cs) : Fits(env, cs[l - 1], g[l - 1], cs[l], g[l])

\* The elements of <meta> before the j-th have been read, and m is what is known then.
MetaUpTo(env, j, p) ==
    [message |-> TRUE,
     from |-> IF j > 1 THEN D!Present(env.from) ELSE None,
     to |-> IF j > 2 THEN D!Present(env.to) ELSE None,
     thread |-> IF j > 3 THEN D!Present(env.thread) ELSE None,
     provenance |-> IF j > 4 THEN D!Present(env.provenance) ELSE None,
     payload |-> p]
Fresh == [message |-> FALSE, from |-> None, to |-> None, thread |-> None, provenance |-> None, payload |-> None]
PayloadOf(env) == [tag |-> D!Escape(env.tag), value |-> D!Settled[MaxNesting][env.value]]

\* Where the innermost call is in the document, what is open, and what is known.
InEnvelope(env, q, op, m) ==
    \/ q = 1 /\ op = <<>> /\ m = Fresh
    \/ q = 2 /\ op = <<"message">> /\ m = MetaUpTo(env, 1, None)
    \/ q = MetaAt(env, 5) + 1 /\ op = <<"message">> /\ m = MetaUpTo(env, 5, None)
    \/ q = ValueAt(env) + ReadLen(env) + 1 /\ op = <<"message">> /\ m = MetaUpTo(env, 5, PayloadOf(env))

InMeta(env, c, q, op, m) ==
    \/ \E j \in 1..5 : /\ q = MetaAt(env, j) /\ (j = 5 \/ MetaText(env, j) # None)
                       /\ c = [fn |-> "read_meta", field |-> c.field]
                       /\ op = <<"message", "meta">> /\ m = MetaUpTo(env, j, None)
    \/ \E j \in 1..4 : /\ MetaText(env, j) # None /\ c = [fn |-> "read_meta", field |-> MetaName(j)]
                       /\ op = <<"message", "meta", MetaName(j)>>
                       /\ \/ q = MetaAt(env, j) + 1 /\ m = MetaUpTo(env, j, None)
                          \/ /\ MetaText(env, j).body # "" /\ q = MetaAt(env, j) + 2
                             /\ m = MetaUpTo(env, j + 1, None)

InValue(c, h, q) ==
    /\ c.fn # "labelled"
    /\ c.fn = "expect_value" => q = h.p
    /\ c.fn \in {"rec", "seq"} => q = h.p + 1 + Off(h.n, h.v, h.k)
    /\ c.fn = "read_scalar" => \/ c.text = D!Plain("") /\ q = h.p + 1
                               \/ h.v.text.body # "" /\ c.text = D!Trim(h.v.text) /\ q = h.p + 2
    /\ c.fn = "expect_end" => q = h.p + Len(Read(h.n, h.v))

IsAt(env, c, h, q, op, m) ==
    /\ c.fn = "decode_envelope" => InEnvelope(env, q, op, m)
    /\ c.fn = "read_meta" => InMeta(env, c, q, op, m)
    /\ c.fn \notin {"decode_envelope", "read_meta"} => InValue(c, h, q) /\ op = h.op /\ m = MetaUpTo(env, 5, None)

Reading(env, cs, q, op, m) == \E g : Stack(env, cs, g) /\ IsAt(env, cs[Len(cs)], g[Len(cs)], q, op, m)

\* A call stands on those below it whatever stood there.
Atop(env, cs, g, ds, m, h) ==
    /\ IsTuple(ds) /\ m \in 2..Len(cs) + 1 /\ Len(ds) = m /\ \A l \in 1..m - 1 : ds[l] = cs[l]
    /\ Fits(env, cs[m - 1], g[m - 1], ds[m], h)

LEMMA StackOn ==
    ASSUME NEW env, NEW cs, NEW g, NEW ds, NEW m, NEW h, Stack(env, cs, g), Atop(env, cs, g, ds, m, h)
    PROVE  \E f : Stack(env, ds, f) /\ f[m] = h
<1>1. /\ IsTuple(ds) /\ m \in 2..Len(cs) + 1 /\ Len(ds) = m /\ \A l \in 1..m - 1 : ds[l] = cs[l]
      /\ Fits(env, cs[m - 1], g[m - 1], ds[m], h)
  BY DEF Atop
<1>2. PICK f : f = [l \in 1..m |-> IF l = m THEN h ELSE g[l]]
  OBVIOUS
<1>3. Len(cs) \in Nat /\ m \in Nat \ {0, 1} /\ m <= Len(cs) + 1
  BY <1>1 DEF Stack, IsTuple
<1>4. f[m] = h /\ \A l \in 1..m - 1 : f[l] = g[l]
  BY <1>2, <1>3
<1>5. ds # <<>> /\ ds[1].fn = "decode_envelope"
  BY <1>1, <1>3 DEF Stack, IsTuple
<1>6. ASSUME NEW l \in 2..m PROVE Fits(env, ds[l - 1], f[l - 1], ds[l], f[l])
  <2>1. l - 1 \in 1..m - 1 /\ ds[l - 1] = cs[l - 1] /\ f[l - 1] = g[l - 1]
    BY <1>1, <1>3, <1>4
  <2>2. CASE l = m
    BY <1>1, <1>4, <2>1, <2>2
  <2>3. CASE l # m
    <3>1. l \in 1..m - 1 /\ l \in 2..Len(cs)
      BY <1>1, <1>3, <2>3
    <3>2. ds[l] = cs[l] /\ f[l] = g[l]
      BY <1>1, <1>4, <3>1
    <3>3. Fits(env, cs[l - 1], g[l - 1], cs[l], g[l])
      BY <3>1 DEF Stack
    <3>4. QED
      BY <2>1, <3>2, <3>3
  <2>4. QED
    BY <2>2, <2>3
<1>7. Stack(env, ds, f)
  BY <1>1, <1>5, <1>6 DEF Stack
<1>8. QED
  BY <1>1, <1>4, <1>7

LEMMA StackBelow ==
    ASSUME NEW env, NEW cs, NEW g, Stack(env, cs, g), NEW ds, IsTuple(ds),
           Len(ds) \in 1..Len(cs), \A l \in 1..Len(ds) : ds[l] = cs[l]
    PROVE  Stack(env, ds, g)
<1>1. PICK m : m = Len(ds)
  OBVIOUS
<1>3. Len(cs) \in Nat /\ m \in Nat \ {0} /\ m <= Len(cs)
  BY <1>1 DEF Stack
<1>5. ds # <<>> /\ ds[1].fn = "decode_envelope"
  BY <1>1, <1>3 DEF Stack, IsTuple
<1>6. ASSUME NEW l \in 2..m PROVE Fits(env, ds[l - 1], g[l - 1], ds[l], g[l])
  <2>1. l - 1 \in 1..m /\ l \in 1..m /\ ds[l - 1] = cs[l - 1] /\ ds[l] = cs[l] /\ l \in 2..Len(cs)
    BY <1>1, <1>3
  <2>2. QED
    BY <2>1 DEF Stack
<1>7. QED
  BY <1>1, <1>5, <1>6 DEF Stack

\* The shapes of stacks, with a call more and a call less.
LEMMA MoreShape ==
    ASSUME NEW T, NEW s \in Seq(T), NEW c
    PROVE  /\ IsTuple(Append(s, c))
           /\ Len(Append(s, c)) = Len(s) + 1 /\ Len(s) \in Nat
           /\ Append(s, c)[Len(s) + 1] = c /\ \A l \in 1..Len(s) : Append(s, c)[l] = s[l]
<1>1. PICK U : U = T \cup {c}
  OBVIOUS
<1>2. PICK ds : ds = Append(s, c)
  OBVIOUS
<1>3. s \in Seq(U) /\ c \in U
  BY <1>1
<1>4. ds \in Seq(U) /\ Len(ds) = Len(s) + 1 /\ Len(s) \in Nat /\ ds[Len(s) + 1] = c /\ \A l \in 1..Len(s) : ds[l] = s[l]
  BY <1>2, <1>3
<1>5. IsTuple(ds)
  BY <1>4, CallsSeq DEF IsTuple
<1>6. QED
  BY <1>2, <1>4, <1>5

LEMMA LessShape ==
    ASSUME NEW T, NEW s \in Seq(T), s # <<>>
    PROVE  /\ IsTuple(D!Front(s)) /\ D!Front(s) \in Seq(T)
           /\ Len(D!Front(s)) = Len(s) - 1 /\ Len(s) \in Nat \ {0}
           /\ \A l \in 1..Len(s) - 1 : D!Front(s)[l] = s[l]
<1>1. PICK ds : ds = D!Front(s)
  OBVIOUS
<1>0. Len(s) \in Nat \ {0}
  OBVIOUS
<1>2. ds \in Seq(T) /\ Len(ds) = Len(s) - 1 /\ \A l \in 1..Len(s) - 1 : ds[l] = s[l]
  <2>1. PICK n : n = Len(s) - 1
    OBVIOUS
  <2>2. n \in Nat /\ n <= Len(s) /\ ds = SubSeq(s, 1, n)
    BY <1>0, <1>1, <2>1 DEF D!Front
  <2>3. ds \in Seq(T)
    BY <2>2
  <2>4. Len(ds) = n
    BY <2>2
  <2>5. \A l \in 1..n : ds[l] = s[l]
    BY <2>2
  <2>6. QED
    BY <2>1, <2>3, <2>4, <2>5
<1>3. IsTuple(ds)
  BY <1>2, CallsSeq DEF IsTuple
<1>4. QED
  BY <1>0, <1>1, <1>2, <1>3

LEMMA TopFits ==
    ASSUME NEW env, NEW cs, NEW g, Stack(env, cs, g), cs[Len(cs)].fn # "decode_envelope"
    PROVE  Len(cs) \in Nat \ {0, 1} /\ Fits(env, cs[Len(cs) - 1], g[Len(cs) - 1], cs[Len(cs)], g[Len(cs)])
<1>1. cs \in Seq({cs[l] : l \in DOMAIN cs}) /\ cs # <<>> /\ cs[1].fn = "decode_envelope"
  BY DEF Stack, IsTuple
<1>2. PICK m : m = Len(cs)
  OBVIOUS
<1>3. m \in Nat \ {0}
  BY <1>1, <1>2
<1>4. m # 1
  BY <1>1, <1>2
<1>5. m \in 2..m
  BY <1>3, <1>4
<1>6. QED
  BY <1>2, <1>3, <1>4, <1>5 DEF Stack

\* The value that is wanted has been read: it is with the call that wanted it.
LEMMA GivesItem ==
    ASSUME D!CodecAssumption, NEW env \in D!EnvelopeType, NEW cs, NEW g, Stack(env, cs, g),
           cs[Len(cs)].fn = "seq", NEW n, NEW v, NEW p, Wants(cs[Len(cs)], g[Len(cs)], n, v, p)
    PROVE  Reading(env, D!Deliver(cs, D!Settled[n][v]), p + Len(Read(n, v)), g[Len(cs)].op, MetaUpTo(env, 5, None))
<1>1. PICK m, b, hb, a, ha, x : /\ m = Len(cs) /\ b = cs[m] /\ hb = g[m] /\ a = cs[m - 1] /\ ha = g[m - 1]
                                /\ x = D!Settled[n][v]
  OBVIOUS
<1>2. m \in Nat \ {0, 1} /\ Fits(env, a, ha, b, hb)
  BY <1>1, TopFits
<1>3. b.fn = "seq" /\ PartOf(env, hb) /\ Own(b, hb) /\ hb.op = Append(ha.op, "v") /\ Wants(a, ha, hb.n, hb.v, hb.p)
  BY <1>1, <1>2 DEF Fits, ValueCalls
<1>4. /\ hb.v.kind = "seq" /\ hb.k \in 0..Size(hb.v) /\ b = SeqCall(Got(hb.n, hb.v, hb.k))
  BY <1>3 DEF Own
<1>5. /\ hb.k < Size(hb.v) /\ n = hb.n - 1 /\ v = Child(hb.v, hb.k + 1) /\ p = hb.p + 1 + Off(hb.n, hb.v, hb.k)
  BY <1>1, <1>3 DEF Wants
<1>6. /\ hb.n \in 0..MaxNesting /\ hb.v \in D!Values[hb.n] /\ hb.p \in Nat /\ hb.op \in Seq(Strings)
      /\ At(W(env), Read(hb.n, hb.v), hb.p) /\ MaxNesting \in Nat /\ W(env) \in Seq(Events)
  BY <1>3, Layout DEF PartOf, D!CodecAssumption
<1>7. Size(hb.v) \in Nat /\ hb.k \in Nat /\ hb.k + 1 \in 1..Size(hb.v) /\ hb.k + 1 \in 0..Size(hb.v) /\ hb.k \in 0..Size(hb.v)
  <2>1. Size(hb.v) \in Nat
    BY <1>4, <1>6, Children
  <2>2. QED
    BY <1>4, <1>5, <2>1
<1>8. PICK h : h = [n |-> hb.n, v |-> hb.v, p |-> hb.p, k |-> hb.k + 1, op |-> hb.op]
  OBVIOUS
<1>9. h.n = hb.n /\ h.v = hb.v /\ h.p = hb.p /\ h.k = hb.k + 1 /\ h.op = hb.op
  BY <1>8
<1>10. PICK c : c = SeqCall(Got(hb.n, hb.v, hb.k + 1))
  OBVIOUS
<1>11. Append(Got(hb.n, hb.v, hb.k), x) = Got(hb.n, hb.v, hb.k + 1)
  <2>1. GotOne(hb.n, hb.v, hb.k + 1) = x
    BY <1>1, <1>4, <1>5 DEF GotOne
  <2>2. QED
    BY <1>7, <2>1, GotStep
<1>12. PICK ds : ds = D!Deliver(cs, x)
  OBVIOUS
<1>13. cs \in Seq({cs[l] : l \in DOMAIN cs})
  BY DEF Stack, IsTuple
<1>14. ds = [cs EXCEPT ![m] = c]
  <2>1. D!Last(cs).fn = "seq"
    BY <1>1 DEF D!Last
  <2>2. ds = [cs EXCEPT ![m].items = Append(@, x)]
    BY <1>1, <1>12, <2>1 DEF D!Deliver
  <2>3. [b EXCEPT !.items = Append(@, x)] = c
    BY <1>4, <1>10, <1>11, SMTT(30) DEF SeqCall
  <2>4. QED
    BY <1>1, <2>2, <2>3
<1>15. /\ IsTuple(ds) /\ Len(ds) = m /\ ds[m] = c /\ \A l \in 1..m - 1 : ds[l] = cs[l]
  <2>1. PICK U : U = {cs[l] : l \in DOMAIN cs} \cup {c}
    OBVIOUS
  <2>2. cs \in Seq(U) /\ c \in U /\ m \in 1..Len(cs)
    BY <1>1, <1>2, <1>13, <2>1
  <2>3. ds \in Seq(U) /\ Len(ds) = m /\ ds[m] = c /\ \A l \in 1..m - 1 : ds[l] = cs[l]
    BY <1>1, <1>14, <2>2
  <2>4. QED
    BY <2>3, CallsSeq DEF IsTuple
<1>16. Fits(env, a, ha, c, h)
  <2>1. c.fn = "seq" /\ Own(c, h)
    BY <1>4, <1>7, <1>9, <1>10 DEF Own, SeqCall
  <2>2. PartOf(env, h)
    BY <1>3, <1>9 DEF PartOf
  <2>3. QED
    BY <1>3, <1>9, <2>1, <2>2 DEF Fits, ValueCalls
<1>17. PICK f : Stack(env, ds, f) /\ f[m] = h
  <2>1. m \in 2..Len(cs) + 1
    BY <1>1, <1>2
  <2>2. Fits(env, cs[m - 1], g[m - 1], ds[m], h)
    BY <1>1, <1>15, <1>16
  <2>3. Atop(env, cs, g, ds, m, h)
    BY <1>15, <2>1, <2>2 DEF Atop
  <2>4. QED
    BY <2>3, StackOn
<1>18. p + Len(Read(n, v)) = hb.p + 1 + Off(hb.n, hb.v, hb.k + 1)
  <2>1. PICK kk : kk = hb.k + 1
    OBVIOUS
  <2>2. kk \in 1..Size(hb.v) /\ kk - 1 = hb.k
    BY <1>7, <2>1
  <2>3. /\ Len(Read(hb.n - 1, Child(hb.v, kk))) \in Nat
        /\ Off(hb.n, hb.v, kk) = Off(hb.n, hb.v, kk - 1) + Len(Read(hb.n - 1, Child(hb.v, kk)))
    BY <1>4, <1>6, <2>2, NestedItem
  <2>4. Off(hb.n, hb.v, hb.k) \in Nat
    BY <1>4, <1>6, <1>7, Nested
  <2>5. PICK o, l : o = Off(hb.n, hb.v, hb.k) /\ l = Len(Read(n, v))
    OBVIOUS
  <2>6. o \in Nat /\ l \in Nat /\ Off(hb.n, hb.v, hb.k + 1) = o + l /\ p = hb.p + 1 + o /\ hb.p \in Nat
    BY <1>5, <1>6, <2>1, <2>2, <2>3, <2>4, <2>5
  <2>7. p + l = hb.p + 1 + (o + l)
    BY <2>6
  <2>8. QED
    BY <2>5, <2>6, <2>7
<1>19. IsAt(env, c, h, p + Len(Read(n, v)), hb.op, MetaUpTo(env, 5, None))
  <2>1. c.fn = "seq"
    BY <1>10 DEF SeqCall
  <2>2. InValue(c, h, p + Len(Read(n, v)))
    BY <1>9, <1>18, <2>1 DEF InValue
  <2>3. QED
    BY <1>9, <2>1, <2>2 DEF IsAt
<1>20. QED
  BY <1>1, <1>12, <1>15, <1>17, <1>19 DEF Reading

LEMMA GivesElement ==
    ASSUME D!CodecAssumption, NEW env \in D!EnvelopeType, NEW cs, NEW g, Stack(env, cs, g),
           cs[Len(cs)].fn = "labelled", NEW n, NEW v, NEW p, Wants(cs[Len(cs)], g[Len(cs)], n, v, p)
    PROVE  Reading(env, D!Deliver(cs, D!Settled[n][v]), p + Len(Read(n, v)), g[Len(cs)].op, MetaUpTo(env, 5, None))
<1>1. PICK m, b, hb, a, ha, x : /\ m = Len(cs) /\ b = cs[m] /\ hb = g[m] /\ a = cs[m - 1] /\ ha = g[m - 1]
                                /\ x = D!Settled[n][v]
  OBVIOUS
<1>2. m \in Nat \ {0, 1} /\ Fits(env, a, ha, b, hb)
  BY <1>1, TopFits
<1>3. b.fn = "labelled" /\ PartOf(env, hb) /\ Encloses(env, a, ha, b, hb)
  BY <1>1, <1>2 DEF Fits
<1>4. n = hb.n /\ v = hb.v /\ p = hb.p
  BY <1>1, <1>3 DEF Wants
<1>5. PICK c : c = [fn |-> "expect_end", name |-> b.name, label |-> b.label, value |-> x]
  OBVIOUS
<1>6. c.fn = "expect_end" /\ c.name = b.name /\ c.label = b.label /\ c.value = x
  BY <1>5
<1>7. PICK ds : ds = D!Deliver(cs, x)
  OBVIOUS
<1>8. ds = Append(D!Front(cs), c)
  BY <1>1, <1>3, <1>5, <1>7 DEF D!Deliver, D!Last
<1>9. /\ IsTuple(ds) /\ Len(ds) = m /\ ds[m] = c /\ \A l \in 1..m - 1 : ds[l] = cs[l]
  <2>1. PICK T : T = {cs[l] : l \in DOMAIN cs}
    OBVIOUS
  <2>2. cs \in Seq(T) /\ cs # <<>>
    BY <2>1 DEF Stack, IsTuple
  <2>3. PICK fr : fr = D!Front(cs)
    OBVIOUS
  <2>4. fr \in Seq(T) /\ Len(fr) = m - 1 /\ \A l \in 1..m - 1 : fr[l] = cs[l]
    BY <1>1, <2>2, <2>3, LessShape
  <2>5. /\ IsTuple(ds) /\ Len(ds) = Len(fr) + 1
        /\ ds[Len(fr) + 1] = c /\ \A l \in 1..Len(fr) : ds[l] = fr[l]
    BY <1>8, <2>3, <2>4, MoreShape
  <2>6. QED
    BY <1>2, <2>4, <2>5
<1>10. Fits(env, a, ha, c, hb)
  <2>1. Own(c, hb)
    BY <1>1, <1>4, <1>6 DEF Own
  <2>2. Encloses(env, a, ha, c, hb)
    BY <1>3, <1>6 DEF Encloses
  <2>3. QED
    BY <1>3, <1>6, <2>1, <2>2 DEF Fits, ValueCalls
<1>11. PICK f : Stack(env, ds, f) /\ f[m] = hb
  <2>1. m \in 2..Len(cs) + 1
    BY <1>1, <1>2
  <2>2. Fits(env, cs[m - 1], g[m - 1], ds[m], hb)
    BY <1>1, <1>9, <1>10
  <2>3. Atop(env, cs, g, ds, m, hb)
    BY <1>9, <2>1, <2>2 DEF Atop
  <2>4. QED
    BY <2>3, StackOn
<1>12. IsAt(env, c, hb, p + Len(Read(n, v)), hb.op, MetaUpTo(env, 5, None))
  <2>1. InValue(c, hb, p + Len(Read(n, v)))
    BY <1>4, <1>6 DEF InValue
  <2>2. QED
    BY <1>6, <2>1 DEF IsAt
<1>13. QED
  BY <1>1, <1>7, <1>9, <1>11, <1>12 DEF Reading

LEMMA Gives ==
    ASSUME D!CodecAssumption, NEW env \in D!EnvelopeType, NEW cs, NEW g, Stack(env, cs, g),
           NEW n, NEW v, NEW p, Wants(cs[Len(cs)], g[Len(cs)], n, v, p)
    PROVE  Reading(env, D!Deliver(cs, D!Settled[n][v]), p + Len(Read(n, v)), g[Len(cs)].op, MetaUpTo(env, 5, None))
BY GivesItem, GivesElement DEF Wants

\* What is wanted is part of the document, and so is a call that wants it.
LEMMA WantedPart ==
    ASSUME D!CodecAssumption, NEW env \in D!EnvelopeType, NEW cs, NEW g, Stack(env, cs, g),
           NEW n, NEW v, NEW p, Wants(cs[Len(cs)], g[Len(cs)], n, v, p)
    PROVE  /\ n \in 0..MaxNesting /\ v \in D!Values[n] /\ p \in Nat /\ At(W(env), Read(n, v), p)
           /\ g[Len(cs)].op \in Seq(Strings) /\ Len(cs) \in Nat \ {0, 1}
<1>1. PICK m, b, hb, a, ha : m = Len(cs) /\ b = cs[m] /\ hb = g[m] /\ a = cs[m - 1] /\ ha = g[m - 1]
  OBVIOUS
<1>2. b.fn \in {"labelled", "seq"}
  BY <1>1 DEF Wants
<1>3. m \in Nat \ {0, 1} /\ Fits(env, a, ha, b, hb)
  BY <1>1, <1>2, TopFits
<1>4. PartOf(env, hb) /\ Own(b, hb)
  BY <1>2, <1>3 DEF Fits
<1>5. /\ hb.n \in 0..MaxNesting /\ hb.v \in D!Values[hb.n] /\ hb.p \in Nat /\ hb.op \in Seq(Strings)
      /\ At(W(env), Read(hb.n, hb.v), hb.p) /\ MaxNesting \in Nat /\ W(env) \in Seq(Events)
  BY <1>4, Layout DEF PartOf, D!CodecAssumption
<1>6. CASE b.fn = "labelled"
  BY <1>1, <1>3, <1>5, <1>6 DEF Wants
<1>7. CASE b.fn = "seq"
  <2>1. /\ hb.k < Size(hb.v) /\ n = hb.n - 1 /\ v = Child(hb.v, hb.k + 1) /\ p = hb.p + 1 + Off(hb.n, hb.v, hb.k)
        /\ hb.v.kind = "seq" /\ hb.k \in 0..Size(hb.v)
    BY <1>1, <1>4, <1>7 DEF Wants, Own
  <2>2. Size(hb.v) \in Nat
    BY <1>5, <2>1, Children
  <2>3. PICK kk : kk = hb.k + 1
    OBVIOUS
  <2>4. kk \in 1..Size(hb.v) /\ kk - 1 = hb.k
    BY <2>1, <2>2, <2>3
  <2>5. n \in 0..MaxNesting /\ v \in D!Values[n]
    BY <1>5, <2>1, <2>3, <2>4, Children
  <2>6. At(W(env), Read(hb.n - 1, Child(hb.v, kk)), hb.p + 1 + Off(hb.n, hb.v, kk - 1))
    BY <1>5, <2>1, <2>4, NestedItem
  <2>7. At(W(env), Read(n, v), p)
    BY <2>1, <2>3, <2>4, <2>6
  <2>8. p \in Nat
    BY <2>7 DEF At
  <2>9. QED
    BY <1>1, <1>3, <1>5, <2>5, <2>7, <2>8
<1>8. QED
  BY <1>2, <1>6, <1>7

\* A value that is wanted, and is not nil, is begun.
CallFor(kind) ==
    IF kind = "rec" THEN RecCall(<<>>) ELSE IF kind = "seq" THEN SeqCall(<<>>) ELSE ScalarCall(kind, D!Plain(""))

LEMMA Begins ==
    ASSUME D!CodecAssumption, NEW env \in D!EnvelopeType, NEW cs, NEW g, Stack(env, cs, g),
           NEW n, NEW v, NEW p, Wants(cs[Len(cs)], g[Len(cs)], n, v, p), v.kind # "nil"
    PROVE  Reading(env, Append(cs, CallFor(v.kind)), p + 1, Append(g[Len(cs)].op, "v"), MetaUpTo(env, 5, None))
<1>1. PICK m, b, hb, c : m = Len(cs) /\ b = cs[m] /\ hb = g[m] /\ c = CallFor(v.kind)
  OBVIOUS
<1>2. /\ n \in 0..MaxNesting /\ v \in D!Values[n] /\ p \in Nat /\ At(W(env), Read(n, v), p)
      /\ hb.op \in Seq(Strings) /\ m \in Nat \ {0, 1}
  BY <1>1, WantedPart
<1>3. MaxNesting \in Nat /\ W(env) \in Seq(Events)
  BY Layout DEF D!CodecAssumption
<1>4. v.kind \in {"text", "uint", "sint", "real", "bool", "blob", "rec", "seq"}
  BY <1>2, <1>3, Kinds
<1>5. PICK h : h = [n |-> n, v |-> v, p |-> p, k |-> 0, op |-> Append(hb.op, "v")]
  OBVIOUS
<1>6. h.n = n /\ h.v = v /\ h.p = p /\ h.k = 0 /\ h.op = Append(hb.op, "v")
  BY <1>5
<1>7. v.kind \in {"rec", "seq"} => 0 \in 0..Size(v) /\ Off(n, v, 0) = 0 /\ Got(n, v, 0) = <<>>
  <2>1. v.kind \in {"rec", "seq"} => Size(v) \in Nat
    BY <1>2, <1>3, Children
  <2>2. v.kind \in {"rec", "seq"} => Off(n, v, 0) = 0
    BY <1>2, <1>3, Nested
  <2>3. QED
    BY <2>1, <2>2, GotNone
<1>8. c.fn \in ValueCalls /\ Own(c, h) /\ InValue(c, h, p + 1)
  <2>1. CASE v.kind = "rec"
    <3>1. c = RecCall(<<>>) /\ c.fn = "rec"
      BY <1>1, <2>1 DEF CallFor, RecCall
    <3>2. Own(c, h)
      BY <1>6, <1>7, <2>1, <3>1 DEF Own
    <3>3. InValue(c, h, p + 1)
      <4>1. Off(h.n, h.v, h.k) = 0 /\ p + 1 = p + 1 + 0
        BY <1>2, <1>6, <1>7, <2>1
      <4>2. QED
        BY <1>6, <3>1, <4>1 DEF InValue
    <3>4. QED
      BY <3>1, <3>2, <3>3 DEF ValueCalls
  <2>2. CASE v.kind = "seq"
    <3>1. c = SeqCall(<<>>) /\ c.fn = "seq"
      BY <1>1, <2>2 DEF CallFor, SeqCall
    <3>2. Own(c, h)
      BY <1>6, <1>7, <2>2, <3>1 DEF Own
    <3>3. InValue(c, h, p + 1)
      <4>1. Off(h.n, h.v, h.k) = 0 /\ p + 1 = p + 1 + 0
        BY <1>2, <1>6, <1>7, <2>2
      <4>2. QED
        BY <1>6, <3>1, <4>1 DEF InValue
    <3>4. QED
      BY <3>1, <3>2, <3>3 DEF ValueCalls
  <2>3. CASE v.kind \in {"text", "uint", "sint", "real", "bool", "blob"}
    <3>1. c = ScalarCall(v.kind, D!Plain("")) /\ c.fn = "read_scalar" /\ c.text = D!Plain("")
      BY <1>1, <2>3 DEF CallFor, ScalarCall
    <3>2. Own(c, h)
      BY <1>6, <2>3, <3>1 DEF Own
    <3>3. InValue(c, h, p + 1)
      BY <1>2, <1>6, <2>3, <3>1 DEF InValue
    <3>4. QED
      BY <3>1, <3>2, <3>3 DEF ValueCalls
  <2>4. QED
    BY <1>4, <2>1, <2>2, <2>3
<1>9. Fits(env, b, hb, c, h)
  <2>1. "v" \in Strings
    BY DEF Strings
  <2>2. h.op \in Seq(Strings)
    BY <1>2, <1>6, <2>1
  <2>3. PartOf(env, h)
    BY <1>2, <1>6, <2>2 DEF PartOf
  <2>4. Wants(b, hb, h.n, h.v, h.p)
    BY <1>1, <1>6
  <2>5. QED
    BY <1>6, <1>8, <2>3, <2>4 DEF Fits, ValueCalls
<1>10. PICK ds : ds = Append(cs, c)
  OBVIOUS
<1>11. /\ IsTuple(ds) /\ Len(ds) = m + 1
       /\ ds[m + 1] = c /\ \A l \in 1..m : ds[l] = cs[l]
  BY <1>1, <1>10, MoreShape DEF Stack, IsTuple
<1>12. PICK f : Stack(env, ds, f) /\ f[m + 1] = h
  <2>1. PICK mm : mm = m + 1
    OBVIOUS
  <2>2. mm \in 2..Len(cs) + 1 /\ mm - 1 = m
    BY <1>1, <1>2, <2>1
  <2>3. Fits(env, cs[mm - 1], g[mm - 1], ds[mm], h) /\ Len(ds) = mm /\ \A l \in 1..mm - 1 : ds[l] = cs[l]
    BY <1>1, <1>9, <1>11, <2>1, <2>2
  <2>4. Atop(env, cs, g, ds, mm, h)
    BY <1>11, <2>1, <2>2, <2>3 DEF Atop
  <2>5. QED
    BY <2>1, <2>4, StackOn
<1>13. IsAt(env, c, h, p + 1, h.op, MetaUpTo(env, 5, None))
  BY <1>8 DEF IsAt, ValueCalls
<1>14. QED
  BY <1>1, <1>6, <1>10, <1>11, <1>12, <1>13 DEF Reading

-----------------------------------------------------------------------------
(* A step of the decoder.                                                  *)

LEMMA TagOf ==
    /\ D!Eof.ev = "eof" /\ D!End("message").ev = "end" /\ D!End("message").name = "message"
    /\ D!End("v").ev = "end" /\ D!End("v").name = "v" /\ D!End("f").ev = "end" /\ D!End("f").name = "f"
    /\ D!End("payload").ev = "end" /\ D!End("payload").name = "payload"
    /\ D!End("meta").ev = "end" /\ D!End("meta").name = "meta"
BY DEF D!Eof, D!End

LEMMA ReadsOn ==
    ASSUME NEW fn, D!Reads(fn), D!Event.ev # "eof"
    PROVE  /\ pos' = pos + 1
           /\ D!Event.ev = "start" => opened' = Append(opened, D!Event.name)
           /\ D!Event.ev = "end" => opened' = D!Front(opened)
           /\ D!Event.ev \notin {"start", "end"} => opened' = opened
<1>1. D!Event # D!Eof
  BY TagOf
<1>2. QED
  BY <1>1 DEF D!Reads

LEMMA Shut == ASSUME NEW s \in Seq(Strings), NEW x \in Strings
    PROVE D!Front(Append(s, x)) = s /\ D!Last(Append(s, x)) = x /\ Append(s, x) # <<>>
<1>1. PICK t : t = Append(s, x)
  OBVIOUS
<1>2. t \in Seq(Strings) /\ Len(t) = Len(s) + 1 /\ Len(s) \in Nat /\ t[Len(s) + 1] = x /\ \A l \in 1..Len(s) : t[l] = s[l]
  BY <1>1
<1>3. SubSeq(t, 1, Len(s)) = s
  BY <1>2
<1>4. D!Front(t) = s /\ D!Last(t) = x
  BY <1>2, <1>3 DEF D!Front, D!Last
<1>5. QED
  BY <1>1, <1>2, <1>4

\* A closing tag of what was opened last is no error.
LEMMA Nests ==
    ASSUME NEW s \in Seq(Strings), NEW x \in Strings, opened = Append(s, x), D!Event = D!End(x)
    PROVE  ~D!Misnested
<1>1. D!Event.name = x
  BY DEF D!End
<1>2. QED
  BY <1>1, Shut DEF D!Misnested

LEMMA Dispatch ==
    ASSUME D!Next, ~D!Misnested
    PROVE  /\ decoded = None
           /\ D!Top.fn = "decode_envelope" => D!DecodeEnvelope
           /\ D!Top.fn = "read_meta" => D!ReadMeta
           /\ D!Top.fn = "expect_value" => D!ExpectValue
           /\ D!Top.fn = "rec" => D!ParseRec
           /\ D!Top.fn = "seq" => D!ParseSeq
           /\ D!Top.fn = "read_scalar" => D!ReadScalar
           /\ D!Top.fn = "expect_end" => D!ExpectEnd
           /\ D!Top.fn # "labelled"
BY DEF D!Next, D!Malformed, D!DecodeEnvelope, D!ReadMeta, D!ExpectValue, D!ParseRec, D!ParseSeq, D!ReadScalar,
       D!ExpectEnd, D!Reads

\* The call below a value that is being read wants it.
LEMMA Beneath ==
    ASSUME NEW env, NEW cs, NEW g, Stack(env, cs, g), cs[Len(cs)].fn \in {"expect_value"} \cup ValueCalls
    PROVE  /\ Stack(env, D!Front(cs), g) /\ Len(D!Front(cs)) = Len(cs) - 1
           /\ Wants(D!Front(cs)[Len(cs) - 1], g[Len(cs) - 1], g[Len(cs)].n, g[Len(cs)].v, g[Len(cs)].p)
           /\ cs[Len(cs)].fn = "expect_value" => g[Len(cs)].op = g[Len(cs) - 1].op
           /\ cs[Len(cs)].fn \in ValueCalls => g[Len(cs)].op = Append(g[Len(cs) - 1].op, "v")
           /\ Own(cs[Len(cs)], g[Len(cs)]) /\ PartOf(env, g[Len(cs)])
<1>1. PICK m, c, h, b, hb, fr : /\ m = Len(cs) /\ c = cs[m] /\ h = g[m] /\ b = cs[m - 1] /\ hb = g[m - 1]
                                /\ fr = D!Front(cs)
  OBVIOUS
<1>2. m \in Nat \ {0, 1} /\ Fits(env, b, hb, c, h)
  BY <1>1, TopFits DEF ValueCalls
<1>3. IsTuple(fr) /\ Len(fr) = m - 1 /\ \A l \in 1..m - 1 : fr[l] = cs[l]
  <2>1. PICK T : T = {cs[l] : l \in DOMAIN cs}
    OBVIOUS
  <2>2. cs \in Seq(T) /\ cs # <<>>
    BY <2>1 DEF Stack, IsTuple
  <2>3. QED
    BY <1>1, <2>2, LessShape
<1>4. Stack(env, fr, g)
  <2>1. Len(fr) \in 1..Len(cs) /\ \A l \in 1..Len(fr) : fr[l] = cs[l]
    BY <1>1, <1>2, <1>3
  <2>2. QED
    BY <1>3, <2>1, StackBelow
<1>5. fr[m - 1] = b
  BY <1>1, <1>2, <1>3
<1>6. Wants(b, hb, h.n, h.v, h.p)
  BY <1>1, <1>2 DEF Fits
<1>7. c.fn = "expect_value" => h.op = hb.op
  BY <1>2 DEF Fits
<1>8. c.fn \in ValueCalls => h.op = Append(hb.op, "v")
  BY <1>2 DEF Fits
<1>9. Own(c, h) /\ PartOf(env, h)
  BY <1>1, <1>2 DEF Fits, ValueCalls
<1>10. QED
  BY <1>1, <1>3, <1>4, <1>5, <1>6, <1>7, <1>8, <1>9

\* How what is written of a value begins.
LEMMA Beginning ==
    ASSUME D!CodecAssumption, NEW env \in D!EnvelopeType, NEW n \in 0..MaxNesting, NEW v \in D!Values[n], NEW p \in Nat,
           At(W(env), Read(n, v), p)
    PROVE  /\ v.kind = "nil" => W(env)[p] = D!Empty("v", D!Plain("nil")) /\ Len(Read(n, v)) = 1
           /\ v.kind # "nil" => W(env)[p] = D!Start("v", D!Plain(v.kind))
                   /\ v.kind \in {"rec", "seq", "text", "uint", "sint", "real", "bool", "blob"}
<1>1. MaxNesting \in Nat /\ W(env) \in Seq(Events)
  BY Layout DEF D!CodecAssumption
<1>2. v.kind \in {"nil", "text", "uint", "sint", "real", "bool", "blob", "rec", "seq"}
  BY <1>1, Kinds
<1>3. CASE v.kind = "nil"
  BY <1>1, <1>3, ReadNil
<1>4. CASE v.kind \in {"rec", "seq"}
  <2>1. W(env)[p] = D!Start("v", D!Plain(v.kind))
    BY <1>1, <1>4, Nested
  <2>2. QED
    BY <1>4, <2>1
<1>5. CASE v.kind \in {"text", "uint", "sint", "real", "bool", "blob"}
  <2>1. Lies(W(env), p, D!Start("v", D!Plain(v.kind)), v.text, D!End("v"))
    BY <1>1, <1>5, ReadScalarText
  <2>2. QED
    BY <1>5, <2>1 DEF Lies
<1>6. QED
  BY <1>2, <1>3, <1>4, <1>5

LEMMA ParseFor ==
    ASSUME NEW cs, NEW kind \in {"rec", "seq", "text", "uint", "sint", "real", "bool", "blob"}, D!ParseValue(cs, kind)
    PROVE  calls' = Append(cs, CallFor(kind)) /\ meta' = meta /\ decoded' = decoded
<1>1. CASE kind = "rec"
  BY <1>1 DEF D!ParseValue, CallFor, RecCall
<1>2. CASE kind = "seq"
  BY <1>2 DEF D!ParseValue, CallFor, SeqCall
<1>3. CASE kind \in {"text", "uint", "sint", "real", "bool", "blob"}
  BY <1>3 DEF D!ParseValue, CallFor, ScalarCall
<1>4. QED
  BY <1>1, <1>2, <1>3

\* The innermost call has its value.
LEMMA Returns ==
    ASSUME D!CodecAssumption, NEW env \in D!EnvelopeType, NEW g, Stack(env, calls, g),
           calls[Len(calls)].fn \in ValueCalls, NEW x, x = D!Settled[g[Len(calls)].n][g[Len(calls)].v], D!Return(x),
           pos' = g[Len(calls)].p + Len(Read(g[Len(calls)].n, g[Len(calls)].v)),
           opened = g[Len(calls)].op, opened' = D!Front(opened), meta = MetaUpTo(env, 5, None)
    PROVE  Reading(env, calls', pos', opened', meta') /\ decoded' = decoded
<1>1. PICK m, c, h, fr, hb : /\ m = Len(calls) /\ c = calls[m] /\ h = g[m] /\ fr = D!Front(calls) /\ hb = g[m - 1]
  OBVIOUS
<1>2. /\ Stack(env, fr, g) /\ Len(fr) = m - 1 /\ Wants(fr[m - 1], hb, h.n, h.v, h.p)
      /\ h.op = Append(hb.op, "v")
  BY <1>1, Beneath
<1>3. Wants(fr[Len(fr)], g[Len(fr)], h.n, h.v, h.p)
  BY <1>1, <1>2
<1>4. g[Len(fr)].op \in Seq(Strings)
  BY <1>2, <1>3, WantedPart
<1>5. hb.op \in Seq(Strings) /\ "v" \in Strings
  BY <1>1, <1>2, <1>4 DEF Strings
<1>6. opened' = hb.op
  BY <1>1, <1>2, <1>5, Shut
<1>7. Reading(env, D!Deliver(fr, D!Settled[h.n][h.v]), h.p + Len(Read(h.n, h.v)), g[Len(fr)].op, MetaUpTo(env, 5, None))
  BY <1>2, <1>3, Gives
<1>8. calls' = D!Deliver(fr, D!Settled[h.n][h.v]) /\ meta' = meta /\ decoded' = decoded
  BY <1>1 DEF D!Return
<1>9. g[Len(fr)].op = opened' /\ pos' = h.p + Len(Read(h.n, h.v))
  BY <1>1, <1>2, <1>6
<1>10. QED
  BY <1>7, <1>8, <1>9

LEMMA ExpectValueR ==
    ASSUME D!CodecAssumption, NEW env \in D!EnvelopeType, NEW g, Stack(env, calls, g),
           IsAt(env, calls[Len(calls)], g[Len(calls)], pos, opened, meta),
           calls[Len(calls)].fn = "expect_value", D!Event = W(env)[pos], D!Next
    PROVE  Reading(env, calls', pos', opened', meta') /\ decoded' = None /\ D!Event # D!End("message")
<1>1. PICK m, c, h, fr, hb : /\ m = Len(calls) /\ c = calls[m] /\ h = g[m] /\ fr = D!Front(calls) /\ hb = g[m - 1]
  OBVIOUS
<1>2. /\ Stack(env, fr, g) /\ Len(fr) = m - 1 /\ Wants(fr[m - 1], hb, h.n, h.v, h.p)
      /\ h.op = hb.op /\ PartOf(env, h)
  BY <1>1, Beneath
<1>3. pos = h.p /\ opened = h.op /\ meta = MetaUpTo(env, 5, None)
  BY <1>1 DEF IsAt, InValue
<1>4. /\ h.v.kind = "nil" => D!Event = D!Empty("v", D!Plain("nil")) /\ Len(Read(h.n, h.v)) = 1
      /\ h.v.kind # "nil" => D!Event = D!Start("v", D!Plain(h.v.kind))
              /\ h.v.kind \in {"rec", "seq", "text", "uint", "sint", "real", "bool", "blob"}
  <2>1. h.n \in 0..MaxNesting /\ h.v \in D!Values[h.n] /\ h.p \in Nat /\ At(W(env), Read(h.n, h.v), h.p)
    BY <1>2 DEF PartOf
  <2>2. QED
    BY <1>3, <2>1, Beginning
<1>5. D!Event.ev \in {"start", "empty"} /\ D!Event.name = "v"
  BY <1>4 DEF D!Empty, D!Start
<1>0. D!Event # D!Eof
  BY <1>5, TagOf
<1>6. D!ExpectValue /\ decoded = None
  <2>1. ~D!Misnested
    BY <1>5 DEF D!Misnested
  <2>2. D!Top.fn = "expect_value"
    BY DEF D!Top, D!Last
  <2>3. QED
    BY <2>1, <2>2, Dispatch
<1>7. pos' = h.p + 1
  BY <1>3, <1>5, <1>6, ReadsOn DEF D!ExpectValue
<1>8. Wants(fr[Len(fr)], g[Len(fr)], h.n, h.v, h.p) /\ g[Len(fr)].op = h.op
  BY <1>1, <1>2
<1>9. D!Event # D!End("message")
  BY <1>5, TagOf
<1>10. CASE h.v.kind = "nil"
  <2>1. D!Event.ev = "empty" /\ D!Event.text = D!Plain("nil")
    BY <1>4, <1>10 DEF D!Empty
  <2>2. D!Return(D!EmptyValue("nil"))
    BY <1>0, <1>5, <1>6, <2>1 DEF D!ExpectValue, D!Is, D!Plain
  <2>3. D!EmptyValue("nil") = D!Settled[h.n][h.v]
    <3>1. D!Settled[h.n][h.v] = D!Nil
      BY <1>2, <1>10, SettledHas DEF PartOf, D!CodecAssumption
    <3>2. QED
      BY <3>1 DEF D!EmptyValue
  <2>4. calls' = D!Deliver(fr, D!Settled[h.n][h.v]) /\ meta' = meta /\ decoded' = decoded
    BY <1>1, <2>2, <2>3 DEF D!Return
  <2>5. opened' = opened
    BY <1>6, <2>1, ReadsOn DEF D!ExpectValue
  <2>6. Reading(env, D!Deliver(fr, D!Settled[h.n][h.v]), h.p + Len(Read(h.n, h.v)), g[Len(fr)].op, MetaUpTo(env, 5, None))
    BY <1>2, <1>8, Gives
  <2>7. QED
    BY <1>3, <1>4, <1>6, <1>7, <1>8, <1>9, <1>10, <2>4, <2>5, <2>6
<1>11. CASE h.v.kind # "nil"
  <2>1. D!Event.ev = "start" /\ D!Event.text.body = h.v.kind
          /\ h.v.kind \in {"rec", "seq", "text", "uint", "sint", "real", "bool", "blob"}
    BY <1>4, <1>11 DEF D!Start, D!Plain
  <2>2. D!ParseValue(fr, h.v.kind)
    BY <1>0, <1>1, <1>5, <1>6, <2>1 DEF D!ExpectValue, D!Is
  <2>3. calls' = Append(fr, CallFor(h.v.kind)) /\ meta' = meta /\ decoded' = decoded
    BY <2>1, <2>2, ParseFor
  <2>4. opened' = Append(opened, "v")
    BY <1>5, <1>6, <2>1, ReadsOn DEF D!ExpectValue
  <2>5. Reading(env, Append(fr, CallFor(h.v.kind)), h.p + 1, Append(g[Len(fr)].op, "v"), MetaUpTo(env, 5, None))
    BY <1>2, <1>8, <1>11, Begins
  <2>6. QED
    BY <1>3, <1>6, <1>7, <1>8, <1>9, <2>3, <2>4, <2>5
<1>12. QED
  BY <1>10, <1>11

\* A record's or a sequence's call is a part of the document with its body about it.
LEMMA InBody ==
    ASSUME D!CodecAssumption, NEW env \in D!EnvelopeType, NEW g, Stack(env, calls, g),
           IsAt(env, calls[Len(calls)], g[Len(calls)], pos, opened, meta),
           calls[Len(calls)].fn \in {"rec", "seq"}, D!Event = W(env)[pos], NEW h, h = g[Len(calls)]
    PROVE  /\ h.n \in 0..MaxNesting /\ h.v \in D!Values[h.n] /\ h.p \in Nat /\ h.op \in Seq(Strings)
           /\ At(W(env), Read(h.n, h.v), h.p) /\ MaxNesting \in Nat /\ W(env) \in Seq(Events)
           /\ h.v.kind = calls[Len(calls)].fn /\ Size(h.v) \in Nat /\ h.k \in 0..Size(h.v)
           /\ Off(h.n, h.v, h.k) \in Nat /\ pos = h.p + 1 + Off(h.n, h.v, h.k)
           /\ opened = h.op /\ meta = MetaUpTo(env, 5, None) /\ pos \in Nat
           /\ \E s \in Seq(Strings) : opened = Append(s, "v")
           /\ h.k = Size(h.v) => D!Event = D!End("v") /\ pos + 1 = h.p + Len(Read(h.n, h.v))
<1>1. PICK m, c : m = Len(calls) /\ c = calls[m]
  OBVIOUS
<1>2. Own(c, h) /\ PartOf(env, h) /\ h.op = Append(g[m - 1].op, "v")
  BY <1>1, Beneath DEF ValueCalls
<1>3. /\ h.n \in 0..MaxNesting /\ h.v \in D!Values[h.n] /\ h.p \in Nat /\ h.op \in Seq(Strings)
      /\ At(W(env), Read(h.n, h.v), h.p) /\ MaxNesting \in Nat /\ W(env) \in Seq(Events)
  BY <1>2, Layout DEF PartOf, D!CodecAssumption
<1>4. h.v.kind = c.fn /\ h.k \in 0..Size(h.v)
  BY <1>1, <1>2 DEF Own
<1>5. Size(h.v) \in Nat
  BY <1>1, <1>3, <1>4, Children
<1>6. pos = h.p + 1 + Off(h.n, h.v, h.k) /\ opened = h.op /\ meta = MetaUpTo(env, 5, None)
  BY <1>1 DEF IsAt, InValue
<1>7. h.v.kind \in {"rec", "seq"}
  BY <1>1, <1>4
<1>8. /\ W(env)[h.p + 1 + Off(h.n, h.v, Size(h.v))] = D!End("v")
      /\ Len(Read(h.n, h.v)) = Off(h.n, h.v, Size(h.v)) + 2
  BY <1>3, <1>7, Nested, SMTT(30)
<1>9. \A k \in 0..Size(h.v) : Off(h.n, h.v, k) \in Nat
  BY <1>3, <1>7, Nested
<1>10. Off(h.n, h.v, h.k) \in Nat
  BY <1>4, <1>9
<1>11. pos \in Nat
  BY <1>3, <1>6, <1>10, SMTT(40)
<1>12. ASSUME h.k = Size(h.v) PROVE D!Event = D!End("v") /\ pos + 1 = h.p + Len(Read(h.n, h.v))
  <2>1. D!Event = D!End("v")
    BY <1>6, <1>8, <1>12
  <2>2. PICK o : o = Off(h.n, h.v, h.k)
    OBVIOUS
  <2>3. pos = h.p + 1 + o /\ Len(Read(h.n, h.v)) = o + 2 /\ o \in Nat
    BY <1>6, <1>8, <1>10, <1>12, <2>2
  <2>4. pos + 1 = h.p + (o + 2)
    <3>1. PICK hp : hp = h.p
      OBVIOUS
    <3>2. hp \in Nat /\ pos = hp + 1 + o
      BY <1>3, <2>3, <3>1
    <3>3. hp + 1 + o + 1 = hp + (o + 2)
      BY <2>3, <3>2
    <3>4. QED
      BY <3>1, <3>2, <3>3
  <2>5. QED
    BY <2>1, <2>3, <2>4
<1>13. \E s \in Seq(Strings) : opened = Append(s, "v")
  <2>1. PICK fr : fr = D!Front(calls)
    OBVIOUS
  <2>2. Stack(env, fr, g) /\ Len(fr) = m - 1 /\ Wants(fr[m - 1], g[m - 1], h.n, h.v, h.p)
    BY <1>1, <2>1, Beneath DEF ValueCalls
  <2>3. Wants(fr[Len(fr)], g[Len(fr)], h.n, h.v, h.p)
    BY <2>2
  <2>4. g[Len(fr)].op \in Seq(Strings)
    BY <2>2, <2>3, WantedPart
  <2>5. g[m - 1].op \in Seq(Strings)
    BY <2>2, <2>4
  <2>6. QED
    BY <1>2, <1>6, <2>5
<1>14. QED
  BY <1>1, <1>3, <1>4, <1>5, <1>6, <1>10, <1>11, <1>12, <1>13

\* The end of a record or a sequence gives it to whom it is for.
LEMMA BodyEnds ==
    ASSUME D!CodecAssumption, NEW env \in D!EnvelopeType, NEW g, Stack(env, calls, g),
           IsAt(env, calls[Len(calls)], g[Len(calls)], pos, opened, meta),
           calls[Len(calls)].fn \in {"rec", "seq"}, D!Event = W(env)[pos], D!Next,
           NEW h, h = g[Len(calls)], h.k = Size(h.v)
    PROVE  Reading(env, calls', pos', opened', meta') /\ decoded' = None /\ D!Event # D!End("message")
<1>1. PICK m, c : m = Len(calls) /\ c = calls[m]
  OBVIOUS
<1>2. /\ h.n \in 0..MaxNesting /\ h.v \in D!Values[h.n] /\ h.v.kind = c.fn /\ MaxNesting \in Nat
      /\ D!Event = D!End("v") /\ pos + 1 = h.p + Len(Read(h.n, h.v)) /\ opened = h.op /\ meta = MetaUpTo(env, 5, None)
  BY <1>1, InBody
<1>3. ~D!Misnested
  <2>1. PICK s \in Seq(Strings) : opened = Append(s, "v")
    BY InBody
  <2>2. "v" \in Strings
    BY DEF Strings
  <2>3. QED
    BY <1>2, <2>1, <2>2, Nests
<1>4. D!Event.ev = "end" /\ D!Event.name = "v" /\ D!Event # D!Eof /\ D!Event # D!End("message")
  BY <1>2, TagOf
<1>5. Own(c, h)
  BY <1>1, Beneath DEF ValueCalls
<1>6. D!Top = c
  BY <1>1 DEF D!Top, D!Last
<1>7. CASE c.fn = "rec"
  <2>1. D!ParseRec /\ decoded = None
    BY <1>3, <1>6, <1>7, Dispatch
  <2>2. pos' = pos + 1 /\ opened' = D!Front(opened)
    BY <1>4, <2>1, ReadsOn DEF D!ParseRec
  <2>3. D!Return(D!Rec(c.fields))
    BY <1>4, <1>6, <2>1 DEF D!ParseRec, D!Is
  <2>4. c.fields = Got(h.n, h.v, h.k)
    BY <1>5, <1>7 DEF Own, RecCall
  <2>5. D!Settled[h.n][h.v] = D!Rec(Got(h.n, h.v, Size(h.v)))
    BY <1>2, <1>7, SettledHas, ZenonT(60)
  <2>6. D!Rec(c.fields) = D!Settled[h.n][h.v]
    BY <2>4, <2>5
  <2>7. pos' = h.p + Len(Read(h.n, h.v))
    BY <1>2, <2>2
  <2>8. Reading(env, calls', pos', opened', meta') /\ decoded' = decoded
    BY <1>1, <1>2, <1>7, <2>2, <2>3, <2>6, <2>7, Returns DEF ValueCalls
  <2>9. QED
    BY <1>4, <2>1, <2>8
<1>8. CASE c.fn = "seq"
  <2>1. D!ParseSeq /\ decoded = None
    BY <1>3, <1>6, <1>8, Dispatch
  <2>2. pos' = pos + 1 /\ opened' = D!Front(opened)
    BY <1>4, <2>1, ReadsOn DEF D!ParseSeq
  <2>3. D!Return(D!Seqn(c.items))
    BY <1>4, <1>6, <2>1 DEF D!ParseSeq, D!Is
  <2>4. c.items = Got(h.n, h.v, h.k)
    BY <1>5, <1>8 DEF Own, SeqCall
  <2>5. D!Settled[h.n][h.v] = D!Seqn(Got(h.n, h.v, Size(h.v)))
    BY <1>2, <1>8, SettledHas
  <2>6. D!Seqn(c.items) = D!Settled[h.n][h.v]
    BY <2>4, <2>5
  <2>7. pos' = h.p + Len(Read(h.n, h.v))
    BY <1>2, <2>2
  <2>8. Reading(env, calls', pos', opened', meta') /\ decoded' = decoded
    BY <1>1, <1>2, <1>8, <2>2, <2>3, <2>6, <2>7, Returns DEF ValueCalls
  <2>9. QED
    BY <1>4, <2>1, <2>8
<1>9. QED
  BY <1>1, <1>7, <1>8

\* A sequence's next item begins.
LEMMA ItemBegins ==
    ASSUME D!CodecAssumption, NEW env \in D!EnvelopeType, NEW g, Stack(env, calls, g),
           IsAt(env, calls[Len(calls)], g[Len(calls)], pos, opened, meta),
           calls[Len(calls)].fn = "seq", D!Event = W(env)[pos], D!Next,
           NEW h, h = g[Len(calls)], h.k # Size(h.v)
    PROVE  Reading(env, calls', pos', opened', meta') /\ decoded' = None /\ D!Event # D!End("message")
<1>1. PICK m, c, n, v : m = Len(calls) /\ c = calls[m] /\ n = h.n - 1 /\ v = Child(h.v, h.k + 1)
  OBVIOUS
<1>2. /\ Size(h.v) \in Nat /\ h.k \in 0..Size(h.v) /\ pos = h.p + 1 + Off(h.n, h.v, h.k)
      /\ opened = h.op /\ meta = MetaUpTo(env, 5, None)
  BY <1>1, InBody
<1>3. Wants(calls[Len(calls)], g[Len(calls)], n, v, pos)
  <2>1. h.k < Size(h.v)
    BY <1>2
  <2>2. QED
    BY <1>1, <1>2, <2>1 DEF Wants
<1>4. n \in 0..MaxNesting /\ v \in D!Values[n] /\ pos \in Nat /\ At(W(env), Read(n, v), pos)
  BY <1>3, WantedPart
<1>5. /\ v.kind = "nil" => D!Event = D!Empty("v", D!Plain("nil")) /\ Len(Read(n, v)) = 1
      /\ v.kind # "nil" => D!Event = D!Start("v", D!Plain(v.kind))
              /\ v.kind \in {"rec", "seq", "text", "uint", "sint", "real", "bool", "blob"}
  BY <1>4, Beginning
<1>6. D!Event.ev \in {"start", "empty"} /\ D!Event.name = "v"
  BY <1>5 DEF D!Empty, D!Start
<1>7. D!Event # D!Eof /\ D!Event # D!End("message")
  BY <1>6, TagOf
<1>8. D!ParseSeq /\ decoded = None
  <2>1. ~D!Misnested
    BY <1>6 DEF D!Misnested
  <2>2. D!Top.fn = "seq"
    BY DEF D!Top, D!Last
  <2>3. QED
    BY <2>1, <2>2, Dispatch
<1>9. pos' = pos + 1
  BY <1>6, <1>8, ReadsOn DEF D!ParseSeq
<1>10. CASE v.kind = "nil"
  <2>1. D!Event.ev = "empty" /\ D!Event.text.body = "nil"
    BY <1>5, <1>10 DEF D!Empty, D!Plain
  <2>2. calls' = D!Deliver(calls, D!EmptyValue("nil")) /\ meta' = meta /\ decoded' = decoded
    BY <1>6, <1>7, <1>8, <2>1 DEF D!ParseSeq, D!Is
  <2>3. D!EmptyValue("nil") = D!Settled[n][v]
    <3>1. D!Settled[n][v] = D!Nil
      BY <1>4, <1>10, SettledHas DEF D!CodecAssumption
    <3>2. QED
      BY <3>1 DEF D!EmptyValue
  <2>4. opened' = opened
    BY <1>8, <2>1, ReadsOn DEF D!ParseSeq
  <2>5. Reading(env, D!Deliver(calls, D!Settled[n][v]), pos + Len(Read(n, v)), g[Len(calls)].op, MetaUpTo(env, 5, None))
    BY <1>3, Gives
  <2>6. QED
    BY <1>2, <1>5, <1>7, <1>8, <1>9, <1>10, <2>2, <2>3, <2>4, <2>5
<1>11. CASE v.kind # "nil"
  <2>1. D!Event.ev = "start" /\ D!Event.text.body = v.kind
          /\ v.kind \in {"rec", "seq", "text", "uint", "sint", "real", "bool", "blob"}
    BY <1>5, <1>11 DEF D!Start, D!Plain
  <2>2. D!ParseValue(calls, v.kind)
    BY <1>6, <1>7, <1>8, <2>1 DEF D!ParseSeq, D!Is
  <2>3. calls' = Append(calls, CallFor(v.kind)) /\ meta' = meta /\ decoded' = decoded
    BY <2>1, <2>2, ParseFor
  <2>4. opened' = Append(opened, "v")
    BY <1>6, <1>8, <2>1, ReadsOn DEF D!ParseSeq
  <2>5. Reading(env, Append(calls, CallFor(v.kind)), pos + 1, Append(g[Len(calls)].op, "v"), MetaUpTo(env, 5, None))
    BY <1>3, <1>11, Begins
  <2>6. QED
    BY <1>2, <1>7, <1>8, <1>9, <2>3, <2>4, <2>5
<1>12. QED
  BY <1>10, <1>11

\* An element with a value in it has been opened.
LEMMA EntersElement ==
    ASSUME NEW env, NEW cs, NEW g, Stack(env, cs, g), NEW c, c.fn = "labelled", NEW e, e.fn = "expect_value",
           NEW h, PartOf(env, h), Encloses(env, cs[Len(cs)], g[Len(cs)], c, h)
    PROVE  Reading(env, cs \o <<c, e>>, h.p, h.op, MetaUpTo(env, 5, None))
<1>1. PICK m, T, ds, es : m = Len(cs) /\ T = {cs[l] : l \in DOMAIN cs} \cup {c, e} /\ ds = Append(cs, c) /\ es = Append(ds, e)
  OBVIOUS
<1>2. cs \in Seq(T) /\ c \in T /\ e \in T /\ cs # <<>>
  BY <1>1 DEF Stack, IsTuple
<1>3. es = cs \o <<c, e>>
  BY <1>1, <1>2, SMTT(40)
<1>4. m \in Nat \ {0} /\ ds \in Seq(T)
  BY <1>1, <1>2
<1>5. IsTuple(ds) /\ Len(ds) = m + 1 /\ ds[m + 1] = c /\ \A l \in 1..m : ds[l] = cs[l]
  BY <1>1, <1>2, MoreShape
<1>6. IsTuple(es) /\ Len(es) = Len(ds) + 1 /\ es[Len(ds) + 1] = e /\ \A l \in 1..Len(ds) : es[l] = ds[l]
  <2>1. es = Append(ds, e)
    BY <1>1
  <2>2. ds \in Seq(T)
    BY <1>4
  <2>3. QED
    BY <2>1, <2>2, MoreShape
<1>7. PICK mm, nn : mm = m + 1 /\ nn = m + 2
  OBVIOUS
<1>8. /\ mm \in 2..Len(cs) + 1 /\ mm - 1 = m /\ Len(ds) = mm /\ ds[mm] = c /\ nn \in 2..Len(ds) + 1 /\ nn - 1 = mm
      /\ Len(es) = nn /\ es[nn] = e
  BY <1>1, <1>4, <1>5, <1>6, <1>7
<1>9. Fits(env, cs[m], g[m], c, h)
  <2>1. Own(c, h)
    BY DEF Own
  <2>2. QED
    BY <1>1, <2>1 DEF Fits, ValueCalls
<1>10. PICK f : Stack(env, ds, f) /\ f[mm] = h
  <2>1. \A l \in 1..mm - 1 : ds[l] = cs[l]
    BY <1>5, <1>8
  <2>2. Atop(env, cs, g, ds, mm, h)
    BY <1>5, <1>8, <1>9, <2>1 DEF Atop
  <2>3. QED
    BY <2>2, StackOn
<1>11. Fits(env, ds[mm], f[mm], e, h)
  <2>1. Own(e, h)
    BY DEF Own
  <2>2. Wants(c, h, h.n, h.v, h.p)
    BY DEF Wants
  <2>3. QED
    BY <1>8, <1>10, <2>1, <2>2 DEF Fits, ValueCalls
<1>12. PICK k : Stack(env, es, k) /\ k[nn] = h
  <2>1. \A l \in 1..nn - 1 : es[l] = ds[l]
    BY <1>6, <1>8
  <2>2. Fits(env, ds[nn - 1], f[nn - 1], es[nn], h)
    BY <1>8, <1>11
  <2>3. Atop(env, ds, f, es, nn, h)
    BY <1>6, <1>8, <2>1, <2>2 DEF Atop
  <2>4. QED
    BY <1>10, <2>3, StackOn
<1>13. IsAt(env, e, h, h.p, h.op, MetaUpTo(env, 5, None))
  BY DEF IsAt, InValue
<1>14. QED
  BY <1>3, <1>8, <1>12, <1>13 DEF Reading

\* A record's next field begins.
LEMMA FieldBegins ==
    ASSUME D!CodecAssumption, NEW env \in D!EnvelopeType, NEW g, Stack(env, calls, g),
           IsAt(env, calls[Len(calls)], g[Len(calls)], pos, opened, meta),
           calls[Len(calls)].fn = "rec", D!Event = W(env)[pos], D!Next,
           NEW h, h = g[Len(calls)], h.k # Size(h.v)
    PROVE  Reading(env, calls', pos', opened', meta') /\ decoded' = None /\ D!Event # D!End("message")
<1>1. PICK m, b, kk, o : m = Len(calls) /\ b = calls[m] /\ kk = h.k + 1 /\ o = Off(h.n, h.v, h.k)
  OBVIOUS
<1>2. /\ h.n \in 0..MaxNesting /\ h.v \in D!Values[h.n] /\ h.p \in Nat /\ h.op \in Seq(Strings)
      /\ At(W(env), Read(h.n, h.v), h.p) /\ MaxNesting \in Nat /\ W(env) \in Seq(Events)
      /\ h.v.kind = "rec" /\ Size(h.v) \in Nat /\ h.k \in 0..Size(h.v)
      /\ o \in Nat /\ pos = h.p + 1 + o /\ opened = h.op /\ meta = MetaUpTo(env, 5, None)
  BY <1>1, InBody
<1>3. kk \in 1..Size(h.v) /\ kk - 1 = h.k /\ h.k < Size(h.v)
  BY <1>1, <1>2, SMTT(30)
<1>4. /\ W(env)[h.p + 1 + Off(h.n, h.v, kk - 1)] = D!Start("f", D!Escape(h.v.fields[kk].name))
      /\ At(W(env), Read(h.n - 1, Child(h.v, kk)), h.p + 2 + Off(h.n, h.v, kk - 1))
  <2>1. PICK n, v, p, w : n = h.n /\ v = h.v /\ p = h.p /\ w = W(env)
    OBVIOUS
  <2>2. /\ MaxNesting \in Nat /\ n \in 0..MaxNesting /\ v \in D!Values[n] /\ v.kind = "rec"
        /\ w \in Seq(Events) /\ p \in Nat /\ At(w, Read(n, v), p) /\ kk \in 1..Size(v)
    BY <1>2, <1>3, <2>1
  <2>3. /\ w[p + 1 + Off(n, v, kk - 1)] = D!Start("f", D!Escape(v.fields[kk].name))
        /\ At(w, Read(n - 1, Child(v, kk)), p + 2 + Off(n, v, kk - 1))
    BY <2>2, NestedField, Zenon
  <2>4. QED
    BY <2>1, <2>3
<1>5. PICK hp : hp = h.p
  OBVIOUS
<1>6. hp \in Nat /\ pos = hp + 1 + o /\ pos + 1 = hp + 2 + o /\ hp + 2 + o \in Nat
  <2>1. hp \in Nat /\ o \in Nat
    BY <1>2, <1>5
  <2>2. pos = hp + 1 + o
    BY <1>2, <1>5
  <2>3. hp + 1 + o + 1 = hp + 2 + o /\ hp + 2 + o \in Nat
    BY <2>1
  <2>4. QED
    BY <2>1, <2>2, <2>3
<1>7. D!Event = D!Start("f", D!Escape(h.v.fields[kk].name)) /\ At(W(env), Read(h.n - 1, Child(h.v, kk)), hp + 2 + o)
  BY <1>1, <1>3, <1>4, <1>5, <1>6
<1>8. D!Event.ev = "start" /\ D!Event.name = "f" /\ D!Event.text = D!Escape(h.v.fields[kk].name)
  BY <1>7 DEF D!Start
<1>9. D!Event # D!Eof /\ D!Event # D!End("message")
  BY <1>8, TagOf
<1>10. D!ParseRec /\ decoded = None
  <2>1. ~D!Misnested
    BY <1>8 DEF D!Misnested
  <2>2. D!Top.fn = "rec"
    BY DEF D!Top, D!Last
  <2>3. QED
    BY <2>1, <2>2, Dispatch
<1>11. pos' = pos + 1 /\ opened' = Append(opened, "f")
  BY <1>8, <1>10, ReadsOn, TagOf DEF D!ParseRec
<1>12. D!Enter(D!Labelled("f"))
  BY <1>8, <1>9, <1>10 DEF D!ParseRec, D!Is
<1>13. PICK c, e : /\ c = [fn |-> "labelled", name |-> "f", label |-> D!Escape(h.v.fields[kk].name)]
                   /\ e = [fn |-> "expect_value"]
  OBVIOUS
<1>14. calls' = calls \o <<c, e>> /\ meta' = meta /\ decoded' = decoded
  BY <1>8, <1>12, <1>13 DEF D!Enter, D!Labelled
<1>15. PICK n, v, p, op : n = h.n - 1 /\ v = Child(h.v, kk) /\ p = hp + 2 + o /\ op = Append(h.op, "f")
  OBVIOUS
<1>16. PICK hh : hh = [n |-> n, v |-> v, p |-> p, k |-> 0, op |-> op]
  OBVIOUS
<1>17. hh.n = n /\ hh.v = v /\ hh.p = p /\ hh.op = op
  BY <1>16
<1>18. PartOf(env, hh)
  <2>1. n \in 0..MaxNesting /\ v \in D!Values[n]
    BY <1>2, <1>3, <1>15, Children
  <2>2. "f" \in Strings
    BY DEF Strings
  <2>3. op \in Seq(Strings)
    BY <1>2, <1>15, <2>2
  <2>4. p \in Nat /\ At(W(env), Read(n, v), p)
    BY <1>6, <1>7, <1>15
  <2>5. QED
    BY <1>17, <2>1, <2>3, <2>4 DEF PartOf
<1>19. Encloses(env, b, h, c, hh)
  <2>1. b.fn = "rec" /\ c.name = "f" /\ c.label = D!Escape(h.v.fields[h.k + 1].name)
    BY <1>1, <1>13
  <2>2. hh.n = h.n - 1 /\ hh.v = Child(h.v, h.k + 1) /\ hh.p = h.p + 2 + Off(h.n, h.v, h.k) /\ hh.op = Append(h.op, "f")
    BY <1>1, <1>5, <1>15, <1>17
  <2>3. QED
    BY <1>3, <2>1, <2>2 DEF Encloses
<1>20. Reading(env, calls \o <<c, e>>, hh.p, hh.op, MetaUpTo(env, 5, None))
  <2>1. c.fn = "labelled"
    BY <1>13
  <2>2. Encloses(env, calls[Len(calls)], g[Len(calls)], c, hh)
    BY <1>1, <1>19
  <2>3. QED
    BY <1>13, <1>18, <2>1, <2>2, EntersElement
<1>21. hh.p = pos' /\ hh.op = opened' /\ meta' = MetaUpTo(env, 5, None)
  BY <1>2, <1>6, <1>11, <1>14, <1>15, <1>17
<1>22. QED
  BY <1>9, <1>10, <1>14, <1>20, <1>21

LEMMA TextFields ==
    ASSUME NEW a, NEW b, NEW c, NEW d
    PROVE  /\ [[body |-> a, pad |-> b, markup |-> c] EXCEPT !.pad = d] = [body |-> a, pad |-> d, markup |-> c]
           /\ [[body |-> a, pad |-> b, markup |-> c] EXCEPT !.markup = d] = [body |-> a, pad |-> b, markup |-> d]
OBVIOUS

\* A text comes back from the document without the white space around it.
LEMMA Comes ==
    ASSUME NEW t \in Texts
    PROVE  /\ D!Unescape(D!Trim(D!Escape(t))) = D!Trim(t) /\ D!Trim(D!Trim(D!Escape(t))) = D!Trim(D!Escape(t))
           /\ D!Trim(D!Unescape(D!Trim(D!Escape(t)))) = D!Trim(t)
           /\ D!Chars(D!Trim(D!Escape(t))).ev = "text" /\ D!Chars(D!Trim(D!Escape(t))).text = D!Trim(D!Escape(t))
           /\ D!Trim(D!Escape(t)).body = t.body
           /\ D!Joined(D!Plain(""), D!Trim(t)) = D!Trim(t)
<1>1. PICK b, p, m : t = [body |-> b, pad |-> p, markup |-> m] /\ m \in Nat
  BY DEF Texts
<1>2. PICK k : k = IF m = 0 THEN 0 ELSE m + 1
  OBVIOUS
<1>3. PICK u, x, y, F : u = D!Escape(t) /\ x = D!Trim(u) /\ y = D!Trim(t) /\ F = FALSE
  OBVIOUS
<1>4. u = [body |-> b, pad |-> p, markup |-> k]
  BY <1>1, <1>2, <1>3, TextFields DEF D!Escape
<1>5. x = [body |-> b, pad |-> F, markup |-> k]
  <2>1. x = [u EXCEPT !.pad = F]
    BY <1>3, Zenon DEF D!Trim
  <2>2. QED
    BY <1>4, <2>1, TextFields
<1>6. y = [body |-> b, pad |-> F, markup |-> m]
  <2>1. y = [t EXCEPT !.pad = F]
    BY <1>3, Zenon DEF D!Trim
  <2>2. QED
    BY <1>1, <2>1, TextFields
<1>7. D!Unescape(x) = y
  <2>1. D!Unescape(x) = [x EXCEPT !.markup = IF x.markup < 2 THEN x.markup ELSE x.markup - 1]
    BY DEF D!Unescape
  <2>2. x.markup = k
    BY <1>5
  <2>3. (IF k < 2 THEN k ELSE k - 1) = m
    BY <1>1, <1>2
  <2>4. D!Unescape(x) = [x EXCEPT !.markup = m]
    BY <2>1, <2>2, <2>3
  <2>5. QED
    BY <1>5, <1>6, <2>4, TextFields
<1>8. D!Trim(x) = x /\ D!Trim(y) = y
  <2>1. D!Trim(x) = [x EXCEPT !.pad = F] /\ D!Trim(y) = [y EXCEPT !.pad = F]
    BY <1>3, Zenon DEF D!Trim
  <2>2. [x EXCEPT !.pad = F] = x /\ [y EXCEPT !.pad = F] = y
    BY <1>5, <1>6, TextFields
  <2>3. QED
    BY <2>1, <2>2
<1>9. D!Chars(D!Trim(D!Escape(t))).ev = "text" /\ D!Chars(D!Trim(D!Escape(t))).text = D!Trim(D!Escape(t))
  BY DEF D!Chars
<1>10. x.body = t.body
  BY <1>1, <1>5
<1>11. D!Joined(D!Plain(""), D!Trim(t)) = D!Trim(t)
  BY DEF D!Joined, D!Plain
<1>12. QED
  BY <1>3, <1>7, <1>8, <1>9, <1>10, <1>11

\* A scalar that is no text has one of the texts that are read as they are written.
Literally(v) == v.kind # "text" => v.kind \in DOMAIN D!Literals /\ \E b \in D!Literals[v.kind] : v.text = D!Plain(b)

\* A scalar's text is read, and then its end.
LEMMA InScalar ==
    ASSUME D!CodecAssumption, NEW env \in D!EnvelopeType, NEW g, Stack(env, calls, g),
           IsAt(env, calls[Len(calls)], g[Len(calls)], pos, opened, meta),
           calls[Len(calls)].fn = "read_scalar", D!Event = W(env)[pos], NEW h, h = g[Len(calls)]
    PROVE  /\ h.n \in 0..MaxNesting /\ h.v \in D!Values[h.n] /\ h.p \in Nat /\ MaxNesting \in Nat
           /\ h.v.kind \in {"text", "uint", "sint", "real", "bool", "blob"} /\ h.v.text \in Texts /\ Literally(h.v)
           /\ calls[Len(calls)] = ScalarCall(h.v.kind, calls[Len(calls)].text)
           /\ Lies(W(env), h.p, D!Start("v", D!Plain(h.v.kind)), h.v.text, D!End("v"))
           /\ Len(Read(h.n, h.v)) = ElementLen(h.v.text)
           /\ opened = h.op /\ meta = MetaUpTo(env, 5, None)
           /\ \E s \in Seq(Strings) : opened = Append(s, "v")
           /\ \/ calls[Len(calls)].text = D!Plain("") /\ pos = h.p + 1
              \/ h.v.text.body # "" /\ calls[Len(calls)].text = D!Trim(h.v.text) /\ pos = h.p + 2
<1>1. PICK m, c : m = Len(calls) /\ c = calls[m]
  OBVIOUS
<1>2. Own(c, h) /\ PartOf(env, h) /\ h.op = Append(g[m - 1].op, "v")
  BY <1>1, Beneath DEF ValueCalls
<1>3. /\ h.n \in 0..MaxNesting /\ h.v \in D!Values[h.n] /\ h.p \in Nat
      /\ At(W(env), Read(h.n, h.v), h.p) /\ MaxNesting \in Nat /\ W(env) \in Seq(Events)
  BY <1>2, Layout DEF PartOf, D!CodecAssumption
<1>4. h.v.kind \in {"text", "uint", "sint", "real", "bool", "blob"} /\ c = ScalarCall(h.v.kind, c.text)
  BY <1>1, <1>2 DEF Own
<1>5. h.v.text \in Texts /\ Literally(h.v)
  BY <1>3, <1>4, Kinds DEF Literally
<1>6. /\ Lies(W(env), h.p, D!Start("v", D!Plain(h.v.kind)), h.v.text, D!End("v"))
      /\ Len(Read(h.n, h.v)) = ElementLen(h.v.text)
  BY <1>3, <1>4, ReadScalarText
<1>7. InValue(c, h, pos) /\ opened = h.op /\ meta = MetaUpTo(env, 5, None)
  BY <1>1 DEF IsAt
<1>8. \E s \in Seq(Strings) : opened = Append(s, "v")
  <2>1. PICK fr : fr = D!Front(calls)
    OBVIOUS
  <2>2. Stack(env, fr, g) /\ Len(fr) = m - 1 /\ Wants(fr[m - 1], g[m - 1], h.n, h.v, h.p)
    BY <1>1, <2>1, Beneath DEF ValueCalls
  <2>3. Wants(fr[Len(fr)], g[Len(fr)], h.n, h.v, h.p)
    BY <2>2
  <2>4. g[Len(fr)].op \in Seq(Strings)
    BY <2>2, <2>3, WantedPart
  <2>5. g[m - 1].op \in Seq(Strings)
    BY <2>2, <2>4
  <2>6. QED
    BY <1>2, <1>7, <2>5
<1>9. \/ c.text = D!Plain("") /\ pos = h.p + 1
      \/ h.v.text.body # "" /\ c.text = D!Trim(h.v.text) /\ pos = h.p + 2
  BY <1>1, <1>7 DEF InValue
<1>10. QED
  BY <1>1, <1>3, <1>4, <1>5, <1>6, <1>7, <1>8, <1>9

\* Another call takes the place of the innermost.
Replacing(env, cs, g, c, h) == Len(cs) \in Nat \ {0, 1} /\ Fits(env, cs[Len(cs) - 1], g[Len(cs) - 1], c, h)

LEMMA ReplacedShape ==
    ASSUME NEW env, NEW cs, NEW g, Stack(env, cs, g), NEW c, NEW h, Replacing(env, cs, g, c, h)
    PROVE  /\ \E f : Stack(env, Append(D!Front(cs), c), f) /\ f[Len(cs)] = h
           /\ Len(Append(D!Front(cs), c)) = Len(cs) /\ Append(D!Front(cs), c)[Len(cs)] = c
<1>1. PICK T, m, fr, ds : T = {cs[l] : l \in DOMAIN cs} /\ m = Len(cs) /\ fr = D!Front(cs) /\ ds = Append(fr, c)
  OBVIOUS
<1>2. cs \in Seq(T) /\ cs # <<>> /\ m \in Nat \ {0, 1}
  BY <1>1 DEF Stack, IsTuple, Replacing
<1>3. fr \in Seq(T) /\ Len(fr) = m - 1 /\ \A l \in 1..m - 1 : fr[l] = cs[l]
  BY <1>1, <1>2, LessShape
<1>4. IsTuple(ds) /\ Len(ds) = Len(fr) + 1 /\ ds[Len(fr) + 1] = c /\ \A l \in 1..Len(fr) : ds[l] = fr[l]
  <2>1. ds = Append(fr, c)
    BY <1>1
  <2>2. QED
    BY <1>3, <2>1, MoreShape
<1>5. Len(ds) = m /\ ds[m] = c /\ \A l \in 1..m - 1 : ds[l] = cs[l]
  BY <1>2, <1>3, <1>4
<1>6. m \in 2..Len(cs) + 1 /\ Fits(env, cs[m - 1], g[m - 1], ds[m], h)
  BY <1>1, <1>2, <1>5 DEF Replacing
<1>7. Atop(env, cs, g, ds, m, h)
  BY <1>4, <1>5, <1>6 DEF Atop
<1>8. \E f : Stack(env, ds, f) /\ f[m] = h
  BY <1>7, StackOn
<1>9. QED
  BY <1>1, <1>5, <1>8

\* What is written escaped stands for what was meant; and no field of the meta has a fault in it.
LEMMA EscapedText ==
    ASSUME NEW t \in Texts
    PROVE  D!Trim(D!Escape(t)).body = t.body /\ ~D!Garbled(D!Trim(D!Escape(t)))
BY DEF D!Trim, D!Escape, D!Garbled, Texts

LEMMA Faultless ==
    ASSUME NEW field \in {"from", "to", "thread", "provenance"}, NEW t, t.body # "", ~D!Garbled(t), Parsable(field, t)
    PROVE  D!MetaFaults(field, t) = {}
<1>1. field = "provenance" => t.body = "1" /\ t.body # D!Astride
  BY DEF Parsable, D!Astride
<1>2. field \in {"from", "to"} => t.body \notin {"", "]"}
  BY DEF Parsable
<1>3. QED
  BY <1>1, <1>2 DEF D!MetaFaults

LEMMA CharsText == ASSUME NEW t PROVE D!Chars(t).text = t
BY DEF D!Chars

LEMMA ReadScalarR ==
    ASSUME D!CodecAssumption, NEW env \in D!EnvelopeType, NEW g, Stack(env, calls, g),
           IsAt(env, calls[Len(calls)], g[Len(calls)], pos, opened, meta),
           calls[Len(calls)].fn = "read_scalar", D!Event = W(env)[pos], D!Next
    PROVE  Reading(env, calls', pos', opened', meta') /\ decoded' = None /\ D!Event # D!End("message")
<1>1. PICK m, c, h, t, hp : m = Len(calls) /\ c = calls[m] /\ h = g[m] /\ t = h.v.text /\ hp = h.p
  OBVIOUS
<1>2. /\ h.n \in 0..MaxNesting /\ h.v \in D!Values[h.n] /\ hp \in Nat /\ MaxNesting \in Nat
      /\ h.v.kind \in {"text", "uint", "sint", "real", "bool", "blob"} /\ t \in Texts /\ Literally(h.v)
      /\ c = ScalarCall(h.v.kind, c.text)
      /\ Lies(W(env), hp, D!Start("v", D!Plain(h.v.kind)), t, D!End("v"))
      /\ Len(Read(h.n, h.v)) = ElementLen(t)
      /\ opened = h.op /\ meta = MetaUpTo(env, 5, None)
      /\ \E s \in Seq(Strings) : opened = Append(s, "v")
      /\ \/ c.text = D!Plain("") /\ pos = hp + 1
         \/ t.body # "" /\ c.text = D!Trim(t) /\ pos = hp + 2
  BY <1>1, InScalar, ZenonT(60)
<1>0. hp \in Nat
  BY <1>2
<1>3. D!Top = c /\ c.kind = h.v.kind
  <2>1. D!Top = c
    BY <1>1 DEF D!Top, D!Last
  <2>2. PICK u : u = c.text
    OBVIOUS
  <2>3. c = ScalarCall(h.v.kind, u)
    BY <1>2, <2>2
  <2>4. c.kind = h.v.kind
    BY <2>3 DEF ScalarCall
  <2>5. QED
    BY <2>1, <2>4
<1>4. CASE pos = hp + 1 /\ t.body # "" /\ c.text = D!Plain("")
  <2>1. D!Event = D!Chars(D!Trim(D!Escape(t)))
    BY <1>2, <1>4 DEF Lies
  <2>2. D!Event.ev = "text" /\ D!Unescape(D!Event.text) = D!Trim(t) /\ D!Joined(c.text, D!Trim(t)) = D!Trim(t)
    BY <1>2, <1>4, <2>1, Comes
  <2>3. D!Event # D!Eof /\ D!Event # D!End("message") /\ D!Event # D!End("v") /\ D!Event.ev # "end"
    BY <2>2, TagOf
  <2>4. D!ReadScalar /\ decoded = None
    <3>1. ~D!Misnested
      BY <2>2 DEF D!Misnested
    <3>2. QED
      BY <1>1, <1>3, <3>1, Dispatch
  <2>5. pos' = pos + 1 /\ opened' = opened
    BY <2>2, <2>4, ReadsOn DEF D!ReadScalar
  <2>20. ~D!Garbled(D!Event.text)
    <3>1. D!Event.text = D!Trim(D!Escape(t))
      BY <2>1, CharsText
    <3>2. QED
      BY <1>2, <3>1, EscapedText
  <2>6. D!Become([c EXCEPT !.text = D!Joined(@, D!Unescape(D!Event.text))])
    BY <1>3, <2>2, <2>3, <2>4, <2>20 DEF D!ReadScalar, D!Is
  <2>7. PICK d : d = ScalarCall(h.v.kind, D!Trim(t))
    OBVIOUS
  <2>8. [c EXCEPT !.text = D!Joined(@, D!Unescape(D!Event.text))] = d
    <3>1. [c EXCEPT !.text = D!Joined(@, D!Unescape(D!Event.text))] = [c EXCEPT !.text = D!Trim(t)]
      BY <2>2
    <3>2. PICK u, y, k : u = c.text /\ y = D!Trim(t) /\ k = h.v.kind
      OBVIOUS
    <3>3. c = [fn |-> "read_scalar", kind |-> k, text |-> u] /\ d = [fn |-> "read_scalar", kind |-> k, text |-> y]
      BY <1>2, <2>7, <3>2 DEF ScalarCall
    <3>4. [c EXCEPT !.text = y] = d
      BY <3>3
    <3>5. QED
      BY <3>1, <3>2, <3>4
  <2>9. calls' = Append(D!Front(calls), d) /\ meta' = meta /\ decoded' = decoded
    BY <2>6, <2>8 DEF D!Become
  <2>10. m \in Nat \ {0, 1} /\ Fits(env, calls[m - 1], g[m - 1], c, h)
    BY <1>1, TopFits
  <2>11. Fits(env, calls[m - 1], g[m - 1], d, h)
    <3>1. d.fn = "read_scalar" /\ c.fn = "read_scalar" /\ d.text = D!Trim(t)
      BY <1>1, <2>7 DEF ScalarCall
    <3>2. Own(d, h)
      BY <1>2, <2>7, <3>1 DEF Own
    <3>3. QED
      BY <2>10, <3>1, <3>2 DEF Fits, ValueCalls
  <2>16. Replacing(env, calls, g, d, h)
    BY <1>1, <2>10, <2>11 DEF Replacing
  <2>17. PICK ds : ds = Append(D!Front(calls), d)
    OBVIOUS
  <2>18. (\E f : Stack(env, ds, f) /\ f[Len(calls)] = h) /\ Len(ds) = Len(calls) /\ ds[Len(calls)] = d
    <3>1. /\ \E f : Stack(env, Append(D!Front(calls), d), f) /\ f[Len(calls)] = h
          /\ Len(Append(D!Front(calls), d)) = Len(calls) /\ Append(D!Front(calls), d)[Len(calls)] = d
      BY <2>16, ReplacedShape
    <3>2. QED
      BY <2>17, <3>1, Zenon
  <2>12. PICK f : Stack(env, calls', f) /\ f[m] = h
    BY <1>1, <2>9, <2>17, <2>18
  <2>13. Len(calls') = m /\ calls'[m] = d
    BY <1>1, <2>9, <2>17, <2>18
  <2>14. IsAt(env, d, h, pos', opened', meta')
    <3>1. d.fn = "read_scalar" /\ d.text = D!Trim(t)
      BY <2>7 DEF ScalarCall
    <3>2. pos' = h.p + 2
      <4>1. hp + 1 + 1 = hp + 2
        BY <1>0
      <4>2. QED
        BY <1>1, <1>4, <2>5, <4>1
    <3>3. InValue(d, h, pos')
      BY <1>1, <1>4, <3>1, <3>2 DEF InValue
    <3>4. QED
      BY <1>2, <2>5, <2>9, <3>1, <3>3 DEF IsAt
  <2>15. QED
    BY <2>3, <2>4, <2>9, <2>12, <2>13, <2>14 DEF Reading
<1>5. PICK x : x = IF t.body = "" THEN D!Plain("") ELSE D!Trim(t)
  OBVIOUS
<1>6. CASE c.text = x /\ D!Event = D!End("v") /\ pos + 1 = hp + ElementLen(t)
  <2>1. ~D!Misnested
    <3>1. PICK s \in Seq(Strings) : opened = Append(s, "v")
      BY <1>2
    <3>2. "v" \in Strings
      BY DEF Strings
    <3>3. QED
      BY <1>6, <3>1, <3>2, Nests
  <2>2. D!Event.ev = "end" /\ D!Event.name = "v" /\ D!Event # D!Eof /\ D!Event # D!End("message")
    BY <1>6, TagOf
  <2>3. D!ReadScalar /\ decoded = None
    BY <1>1, <1>3, <2>1, Dispatch
  <2>4. pos' = pos + 1 /\ opened' = D!Front(opened)
    BY <2>2, <2>3, ReadsOn DEF D!ReadScalar
  <2>5. D!ScalarFaults(c.kind, c.text) = {} /\ D!ScalarValue(c.kind, c.text) = D!Scalar(h.v.kind, x)
    <3>1. CASE h.v.kind = "text"
      <4>1. D!ScalarFaults("text", x) = {} /\ D!ScalarValue("text", x) = D!Scalar("text", x)
        BY DEF D!ScalarFaults, D!ScalarValue
      <4>2. QED
        BY <1>3, <1>6, <3>1, <4>1
    <3>2. CASE h.v.kind # "text"
      <4>1. PICK b \in D!Literals[h.v.kind] : t = D!Plain(b) /\ h.v.kind \in DOMAIN D!Literals
        BY <1>1, <1>2, <3>2 DEF Literally
      <4>2. D!Trim(t) = t /\ t.body = b
        BY <4>1, LiteralRead
      <4>3. x = D!Plain(b)
        BY <1>5, <4>1, <4>2
      <4>4. D!ScalarFaults(h.v.kind, D!Plain(b)) = {} /\ D!ScalarValue(h.v.kind, D!Plain(b)) = D!Scalar(h.v.kind, D!Plain(b))
        BY <4>1, LiteralRead
      <4>5. QED
        BY <1>3, <1>6, <4>3, <4>4
    <3>3. QED
      BY <3>1, <3>2
  <2>6. D!Return(D!ScalarValue(c.kind, c.text))
    BY <1>3, <2>2, <2>3, <2>5 DEF D!ReadScalar, D!Is
  <2>7. D!ScalarValue(c.kind, c.text) = D!Settled[h.n][h.v]
    <3>1. D!ScalarValue(c.kind, c.text) = D!Scalar(h.v.kind, x)
      BY <2>5
    <3>2. D!Settled[h.n][h.v] = D!Scalar(h.v.kind, IF t.body = "" THEN D!Plain("") ELSE D!Trim(t))
      BY <1>1, <1>2, SettledHas
    <3>3. QED
      BY <1>5, <3>1, <3>2
  <2>8. pos' = h.p + Len(Read(h.n, h.v))
    BY <1>1, <1>2, <1>6, <2>4, ZenonT(60)
  <2>9. Reading(env, calls', pos', opened', meta') /\ decoded' = decoded
    BY <1>1, <1>2, <2>4, <2>6, <2>7, <2>8, Returns DEF ValueCalls
  <2>10. QED
    BY <2>2, <2>3, <2>9
<1>7. CASE pos = hp + 1 /\ t.body = "" /\ c.text = D!Plain("")
  <2>1. D!Event = D!End("v")
    BY <1>2, <1>7 DEF Lies
  <2>2. pos + 1 = hp + ElementLen(t)
    <3>1. ElementLen(t) = 2
      BY <1>7 DEF ElementLen
    <3>2. hp + 1 + 1 = hp + 2
      BY <1>0
    <3>3. QED
      BY <1>7, <3>1, <3>2
  <2>3. QED
    BY <1>5, <1>6, <1>7, <2>1, <2>2
<1>8. CASE pos = hp + 2 /\ t.body # "" /\ c.text = D!Trim(t)
  <2>1. D!Event = D!End("v")
    BY <1>2, <1>8 DEF Lies
  <2>2. pos + 1 = hp + ElementLen(t)
    <3>1. ElementLen(t) = 3
      BY <1>8 DEF ElementLen
    <3>2. hp + 2 + 1 = hp + 3
      BY <1>0
    <3>3. QED
      BY <1>8, <3>1, <3>2
  <2>3. QED
    BY <1>5, <1>6, <1>8, <2>1, <2>2
<1>9. QED
  BY <1>2, <1>4, <1>7, <1>8

\* The payload is read to its end.
LEMMA PayloadEnds ==
    ASSUME D!CodecAssumption, NEW env \in D!EnvelopeType, NEW g, Stack(env, calls, g),
           IsAt(env, calls[Len(calls)], g[Len(calls)], pos, opened, meta),
           calls[Len(calls)].fn = "expect_end", D!Event = W(env)[pos], D!Next,
           calls[Len(calls) - 1].fn = "decode_envelope"
    PROVE  Reading(env, calls', pos', opened', meta') /\ decoded' = None /\ D!Event # D!End("message")
<1>1. PICK m, c, h, b, hb, fr : /\ m = Len(calls) /\ c = calls[m] /\ h = g[m] /\ b = calls[m - 1] /\ hb = g[m - 1]
                                /\ fr = D!Front(calls)
  OBVIOUS
<1>2. m \in Nat \ {0, 1} /\ Fits(env, b, hb, c, h)
  BY <1>1, TopFits
<1>3. c.fn = "expect_end" /\ b.fn = "decode_envelope"
  BY <1>1
<1>4. Own(c, h) /\ Encloses(env, b, hb, c, h)
  BY <1>2, <1>3 DEF Fits
<1>5. /\ c.name = "payload" /\ c.label = D!Escape(env.tag) /\ c.value = D!Settled[MaxNesting][env.value]
      /\ h.n = MaxNesting /\ h.v = env.value /\ h.p = ValueAt(env) /\ h.op = <<"message", "payload">>
  BY <1>3, <1>4 DEF Own, Encloses
<1>6. pos = ValueAt(env) + ReadLen(env) /\ opened = <<"message", "payload">> /\ meta = MetaUpTo(env, 5, None)
  BY <1>1, <1>3, <1>5 DEF IsAt, InValue, ReadLen
<1>7. D!Event = D!End("payload")
  BY <1>6, Layout
<1>8. D!Event.ev = "end" /\ D!Event.name = "payload" /\ D!Event # D!Eof /\ D!Event # D!End("message")
  BY <1>7, TagOf
<1>9. <<"message">> \in Seq(Strings) /\ "payload" \in Strings /\ opened = Append(<<"message">>, "payload")
  <2>1. "message" \in Strings /\ "payload" \in Strings
    BY DEF Strings
  <2>2. QED
    BY <1>6, <2>1
<1>10. D!Top = c
  BY <1>1 DEF D!Top, D!Last
<1>11. D!ExpectEnd /\ decoded = None
  <2>1. ~D!Misnested
    BY <1>7, <1>9, Nests
  <2>2. QED
    BY <1>3, <1>10, <2>1, Dispatch
<1>12. pos' = pos + 1 /\ opened' = D!Front(opened)
  BY <1>8, <1>11, ReadsOn DEF D!ExpectEnd
<1>13. opened' = <<"message">>
  BY <1>9, <1>12, Shut
<1>14. meta' = [meta EXCEPT !.payload = [tag |-> c.label, value |-> c.value]] /\ calls' = fr /\ decoded' = decoded
  BY <1>1, <1>5, <1>8, <1>10, <1>11 DEF D!ExpectEnd, D!Is
<1>15. meta' = MetaUpTo(env, 5, PayloadOf(env))
  <2>1. [tag |-> c.label, value |-> c.value] = PayloadOf(env)
    BY <1>5 DEF PayloadOf
  <2>2. meta' = [meta EXCEPT !.payload = PayloadOf(env)]
    BY <1>14, <2>1
  <2>3. QED
    BY <1>6, <2>2 DEF MetaUpTo
<1>16. IsTuple(fr) /\ Len(fr) = m - 1 /\ \A l \in 1..m - 1 : fr[l] = calls[l]
  <2>1. PICK T : T = {calls[l] : l \in DOMAIN calls}
    OBVIOUS
  <2>2. calls \in Seq(T) /\ calls # <<>>
    BY <2>1 DEF Stack, IsTuple
  <2>3. QED
    BY <1>1, <2>2, LessShape
<1>17. Stack(env, fr, g) /\ fr[Len(fr)] = b
  <2>1. Len(fr) \in 1..Len(calls) /\ \A l \in 1..Len(fr) : fr[l] = calls[l]
    BY <1>1, <1>2, <1>16
  <2>2. QED
    BY <1>1, <1>2, <1>16, <2>1, StackBelow, SMTT(30)
<1>18. IsAt(env, b, g[Len(fr)], pos', opened', meta')
  <2>1. pos' = ValueAt(env) + ReadLen(env) + 1
    BY <1>6, <1>12
  <2>2. InEnvelope(env, pos', opened', meta')
    BY <1>13, <1>15, <2>1 DEF InEnvelope
  <2>3. QED
    BY <1>3, <2>2 DEF IsAt
<1>19. QED
  BY <1>8, <1>11, <1>14, <1>17, <1>18 DEF Reading

\* A field is read to its end, and is with its record.
LEMMA FieldEnds ==
    ASSUME D!CodecAssumption, NEW env \in D!EnvelopeType, NEW g, Stack(env, calls, g),
           IsAt(env, calls[Len(calls)], g[Len(calls)], pos, opened, meta),
           calls[Len(calls)].fn = "expect_end", D!Event = W(env)[pos], D!Next,
           calls[Len(calls) - 1].fn = "rec"
    PROVE  Reading(env, calls', pos', opened', meta') /\ decoded' = None /\ D!Event # D!End("message")
<1>1. PICK m, c, h, b, hb, fr : /\ m = Len(calls) /\ c = calls[m] /\ h = g[m] /\ b = calls[m - 1] /\ hb = g[m - 1]
                                /\ fr = D!Front(calls)
  OBVIOUS
<1>2. m \in Nat \ {0, 1} /\ Fits(env, b, hb, c, h)
  BY <1>1, TopFits
<1>3. c.fn = "expect_end" /\ b.fn = "rec"
  BY <1>1
<1>4. Own(c, h) /\ Encloses(env, b, hb, c, h)
  BY <1>2, <1>3 DEF Fits
<1>5. /\ c.name = "f" /\ c.label = D!Escape(hb.v.fields[hb.k + 1].name) /\ c.value = D!Settled[h.n][h.v]
      /\ hb.k < Size(hb.v) /\ h.n = hb.n - 1 /\ h.v = Child(hb.v, hb.k + 1)
      /\ h.p = hb.p + 2 + Off(hb.n, hb.v, hb.k) /\ h.op = Append(hb.op, "f")
  BY <1>3, <1>4 DEF Own, Encloses
<1>6. IsTuple(fr) /\ Len(fr) = m - 1 /\ \A l \in 1..m - 1 : fr[l] = calls[l]
  <2>1. PICK T : T = {calls[l] : l \in DOMAIN calls}
    OBVIOUS
  <2>2. calls \in Seq(T) /\ calls # <<>>
    BY <2>1 DEF Stack, IsTuple
  <2>3. QED
    BY <1>1, <2>2, LessShape
<1>7. Stack(env, fr, g) /\ fr[Len(fr)] = b /\ fr[m - 1] = b
  <2>1. Len(fr) \in 1..Len(calls) /\ \A l \in 1..Len(fr) : fr[l] = calls[l]
    BY <1>1, <1>2, <1>6
  <2>2. QED
    BY <1>1, <1>2, <1>6, <2>1, StackBelow, SMTT(30)
<1>8. PICK k, a, ha : k = m - 1 /\ a = fr[k - 1] /\ ha = g[k - 1]
  OBVIOUS
<1>9. k \in Nat \ {0, 1} /\ Len(fr) = k /\ Fits(env, a, ha, b, hb)
  <2>1. Len(fr) = k /\ fr[k] = b /\ g[k] = hb
    BY <1>1, <1>6, <1>7, <1>8
  <2>2. QED
    BY <1>3, <1>7, <1>8, <2>1, TopFits
<1>10. PartOf(env, hb) /\ Own(b, hb) /\ hb.op = Append(ha.op, "v") /\ Wants(a, ha, hb.n, hb.v, hb.p)
  BY <1>3, <1>9 DEF Fits, ValueCalls
<1>11. /\ hb.n \in 0..MaxNesting /\ hb.v \in D!Values[hb.n] /\ hb.p \in Nat /\ hb.op \in Seq(Strings)
       /\ At(W(env), Read(hb.n, hb.v), hb.p) /\ MaxNesting \in Nat /\ W(env) \in Seq(Events)
       /\ hb.v.kind = "rec" /\ hb.k \in 0..Size(hb.v) /\ b = RecCall(Got(hb.n, hb.v, hb.k))
  BY <1>3, <1>10, Layout DEF PartOf, Own, D!CodecAssumption
<1>12. PICK kk, o, l, p, x : /\ kk = hb.k + 1 /\ o = Off(hb.n, hb.v, hb.k) /\ l = Len(Read(h.n, h.v)) /\ p = hb.p
                             /\ x = [name |-> c.label, value |-> c.value]
  OBVIOUS
<1>13. Size(hb.v) \in Nat
  BY <1>11, Children
<1>14. kk \in 1..Size(hb.v) /\ kk - 1 = hb.k /\ hb.k \in Nat /\ kk \in 0..Size(hb.v)
  <2>1. PICK s, j : s = Size(hb.v) /\ j = hb.k
    OBVIOUS
  <2>2. s \in Nat /\ j \in 0..s /\ j < s /\ kk = j + 1
    BY <1>5, <1>11, <1>12, <1>13, <2>1
  <2>3. kk \in 1..s /\ kk - 1 = j /\ j \in Nat /\ kk \in 0..s
    BY <2>2
  <2>4. QED
    BY <2>1, <2>3
<1>15. o \in Nat
  BY <1>11, <1>12, Nested
<1>16. /\ W(env)[hb.p + 2 + Off(hb.n, hb.v, kk - 1) + Len(Read(hb.n - 1, Child(hb.v, kk)))] = D!End("f")
       /\ Len(Read(hb.n - 1, Child(hb.v, kk))) \in Nat
       /\ Off(hb.n, hb.v, kk) = Off(hb.n, hb.v, kk - 1) + Len(Read(hb.n - 1, Child(hb.v, kk))) + 2
  <2>1. /\ MaxNesting \in Nat /\ hb.n \in 0..MaxNesting /\ hb.v \in D!Values[hb.n] /\ hb.v.kind = "rec"
        /\ W(env) \in Seq(Events) /\ hb.p \in Nat /\ At(W(env), Read(hb.n, hb.v), hb.p) /\ kk \in 1..Size(hb.v)
    BY <1>11, <1>14
  <2>2. QED
    BY <2>1, NestedField, ZenonT(60)
<1>17. l \in Nat /\ W(env)[p + 2 + o + l] = D!End("f") /\ Off(hb.n, hb.v, kk) = o + l + 2
  <2>1. h.n = hb.n - 1 /\ h.v = Child(hb.v, kk) /\ Off(hb.n, hb.v, kk - 1) = o
    BY <1>5, <1>12, <1>14
  <2>2. Len(Read(hb.n - 1, Child(hb.v, kk))) = l
    BY <1>12, <2>1
  <2>3. QED
    BY <1>12, <1>16, <2>1, <2>2
<1>18. pos = p + 2 + o + l /\ opened = h.op /\ meta = MetaUpTo(env, 5, None)
  <2>1. pos = h.p + Len(Read(h.n, h.v)) /\ opened = h.op /\ meta = MetaUpTo(env, 5, None)
    BY <1>1, <1>3 DEF IsAt, InValue
  <2>2. h.p = p + 2 + o
    BY <1>5, <1>12
  <2>3. QED
    BY <1>12, <2>1, <2>2
<1>19. D!Event = D!End("f")
  BY <1>17, <1>18
<1>20. D!Event.ev = "end" /\ D!Event.name = "f" /\ D!Event # D!Eof /\ D!Event # D!End("message")
  BY <1>19, TagOf
<1>21. D!Top = c
  BY <1>1 DEF D!Top, D!Last
<1>22. "f" \in Strings
  BY DEF Strings
<1>23. D!ExpectEnd /\ decoded = None
  <2>1. ~D!Misnested
    BY <1>5, <1>11, <1>18, <1>19, <1>22, Nests
  <2>2. QED
    BY <1>3, <1>21, <2>1, Dispatch
<1>24. pos' = pos + 1 /\ opened' = D!Front(opened)
  BY <1>20, <1>23, ReadsOn DEF D!ExpectEnd
<1>25. opened' = hb.op
  BY <1>5, <1>11, <1>18, <1>22, <1>24, Shut
<1>26. calls' = [fr EXCEPT ![k].fields = Append(@, x)] /\ meta' = meta /\ decoded' = decoded
  BY <1>1, <1>5, <1>8, <1>12, <1>20, <1>21, <1>23 DEF D!ExpectEnd, D!Is
<1>27. PICK d : d = RecCall(Got(hb.n, hb.v, kk))
  OBVIOUS
<1>28. Append(Got(hb.n, hb.v, hb.k), x) = Got(hb.n, hb.v, kk)
  <2>1. GotOne(hb.n, hb.v, kk) = x
    BY <1>5, <1>11, <1>12 DEF GotOne
  <2>2. Got(hb.n, hb.v, hb.k + 1) = Append(Got(hb.n, hb.v, hb.k), GotOne(hb.n, hb.v, hb.k + 1))
    BY <1>14, GotStep
  <2>3. QED
    BY <1>12, <2>1, <2>2
<1>29. PICK ds : ds = [fr EXCEPT ![k] = d]
  OBVIOUS
<1>30. calls' = ds
  <2>1. [b EXCEPT !.fields = Append(@, x)] = d
    <3>1. PICK y, z : y = Got(hb.n, hb.v, hb.k) /\ z = Got(hb.n, hb.v, kk)
      OBVIOUS
    <3>2. b = [fn |-> "rec", fields |-> y] /\ d = [fn |-> "rec", fields |-> z] /\ Append(y, x) = z
      BY <1>11, <1>27, <1>28, <3>1 DEF RecCall
    <3>3. QED
      BY <3>2, SMTT(40)
  <2>2. fr[k] = b
    BY <1>7, <1>8
  <2>3. QED
    BY <1>26, <1>29, <2>1, <2>2
<1>31. /\ IsTuple(ds) /\ Len(ds) = k /\ ds[k] = d /\ \A j \in 1..k - 1 : ds[j] = fr[j]
  <2>1. PICK U : U = {fr[j] : j \in DOMAIN fr} \cup {d}
    OBVIOUS
  <2>2. fr \in Seq(U) /\ d \in U /\ k \in 1..Len(fr)
    BY <1>6, <1>9, <2>1 DEF IsTuple
  <2>3. ds \in Seq(U) /\ Len(ds) = k /\ ds[k] = d /\ \A j \in 1..k - 1 : ds[j] = fr[j]
    BY <1>9, <1>29, <2>2
  <2>4. QED
    BY <2>3, CallsSeq DEF IsTuple
<1>32. PICK hh : hh = [n |-> hb.n, v |-> hb.v, p |-> hb.p, k |-> kk, op |-> hb.op]
  OBVIOUS
<1>33. hh.n = hb.n /\ hh.v = hb.v /\ hh.p = hb.p /\ hh.k = kk /\ hh.op = hb.op
  BY <1>32
<1>34. d.fn = "rec"
  BY <1>27 DEF RecCall
<1>35. Fits(env, a, ha, d, hh)
  <2>1. Own(d, hh)
    BY <1>11, <1>14, <1>27, <1>33, <1>34 DEF Own
  <2>2. PartOf(env, hh)
    BY <1>10, <1>33 DEF PartOf
  <2>3. QED
    BY <1>10, <1>33, <1>34, <2>1, <2>2 DEF Fits, ValueCalls
<1>36. PICK f : Stack(env, ds, f) /\ f[k] = hh
  <2>1. k \in 2..Len(fr) + 1
    BY <1>9
  <2>2. Fits(env, fr[k - 1], g[k - 1], ds[k], hh)
    BY <1>8, <1>31, <1>35
  <2>3. Atop(env, fr, g, ds, k, hh)
    BY <1>31, <2>1, <2>2 DEF Atop
  <2>4. QED
    BY <1>7, <2>3, StackOn
<1>37. pos' = p + 1 + (o + l + 2)
  <2>1. p \in Nat
    BY <1>11, <1>12
  <2>2. p + 2 + o + l + 1 = p + 1 + (o + l + 2)
    BY <1>15, <1>17, <2>1
  <2>3. QED
    BY <1>18, <1>24, <2>2
<1>38. IsAt(env, d, hh, pos', opened', meta')
  <2>1. pos' = hh.p + 1 + Off(hh.n, hh.v, hh.k)
    BY <1>12, <1>17, <1>33, <1>37
  <2>2. InValue(d, hh, pos')
    BY <1>34, <2>1 DEF InValue
  <2>3. QED
    BY <1>18, <1>25, <1>26, <1>33, <1>34, <2>2 DEF IsAt
<1>39. QED
  BY <1>20, <1>23, <1>26, <1>30, <1>31, <1>36, <1>38 DEF Reading

LEMMA ExpectEndR ==
    ASSUME D!CodecAssumption, NEW env \in D!EnvelopeType, NEW g, Stack(env, calls, g),
           IsAt(env, calls[Len(calls)], g[Len(calls)], pos, opened, meta),
           calls[Len(calls)].fn = "expect_end", D!Event = W(env)[pos], D!Next
    PROVE  Reading(env, calls', pos', opened', meta') /\ decoded' = None /\ D!Event # D!End("message")
<1>1. Fits(env, calls[Len(calls) - 1], g[Len(calls) - 1], calls[Len(calls)], g[Len(calls)])
  BY TopFits
<1>2. calls[Len(calls) - 1].fn \in {"decode_envelope", "rec"}
  BY <1>1 DEF Fits, Encloses
<1>3. QED
  BY <1>2, PayloadEnds, FieldEnds

MetaOf(w, a, b, c, d, p) ==
    [message |-> w, from |-> a, to |-> b, thread |-> c, provenance |-> d, payload |-> p]

\* What is known of <meta>, one of its elements further.
LEMMA MetaFurther ==
    ASSUME NEW env, NEW j \in 1..4
    PROVE  /\ MetaUpTo(env, j + 1, None) = [MetaUpTo(env, j, None) EXCEPT ![MetaName(j)] = D!Present(MetaText(env, j))]
           /\ D!Present(MetaText(env, j)) = None => MetaUpTo(env, j + 1, None) = MetaUpTo(env, j, None)
<1>0. PICK T, a, b, c, d : /\ T = TRUE /\ a = D!Present(env.from) /\ b = D!Present(env.to)
                            /\ c = D!Present(env.thread) /\ d = D!Present(env.provenance)
  OBVIOUS
<1>1. \A k : MetaUpTo(env, k, None) =
        MetaOf(T, IF k > 1 THEN a ELSE None, IF k > 2 THEN b ELSE None, IF k > 3 THEN c ELSE None,
               IF k > 4 THEN d ELSE None, None)
  BY <1>0, Zenon DEF MetaUpTo, MetaOf
<1>2. CASE j = 1
  <2>1. j + 1 = 2 /\ MetaName(j) = "from" /\ D!Present(MetaText(env, j)) = a
    BY <1>0, <1>2 DEF MetaName, MetaText
  <2>2. MetaUpTo(env, 1, None) = MetaOf(T, None, None, None, None, None)
    BY <1>1
  <2>3. MetaUpTo(env, 2, None) = MetaOf(T, a, None, None, None, None)
    BY <1>1
  <2>4. [MetaOf(T, None, None, None, None, None) EXCEPT !["from"] = a] = MetaOf(T, a, None, None, None, None)
    BY DEF MetaOf
  <2>5. MetaUpTo(env, j, None) = MetaOf(T, None, None, None, None, None)
          /\ MetaUpTo(env, j + 1, None) = MetaOf(T, a, None, None, None, None)
    BY <1>2, <2>1, <2>2, <2>3
  <2>6. QED
    BY <2>1, <2>4, <2>5
<1>3. CASE j = 2
  <2>1. j + 1 = 3 /\ MetaName(j) = "to" /\ D!Present(MetaText(env, j)) = b
    BY <1>0, <1>3 DEF MetaName, MetaText
  <2>2. MetaUpTo(env, 2, None) = MetaOf(T, a, None, None, None, None)
    BY <1>1
  <2>3. MetaUpTo(env, 3, None) = MetaOf(T, a, b, None, None, None)
    BY <1>1
  <2>4. [MetaOf(T, a, None, None, None, None) EXCEPT !["to"] = b] = MetaOf(T, a, b, None, None, None)
    BY DEF MetaOf
  <2>5. MetaUpTo(env, j, None) = MetaOf(T, a, None, None, None, None)
          /\ MetaUpTo(env, j + 1, None) = MetaOf(T, a, b, None, None, None)
    BY <1>3, <2>1, <2>2, <2>3
  <2>6. QED
    BY <2>1, <2>4, <2>5
<1>4. CASE j = 3
  <2>1. j + 1 = 4 /\ MetaName(j) = "thread" /\ D!Present(MetaText(env, j)) = c
    BY <1>0, <1>4 DEF MetaName, MetaText
  <2>2. MetaUpTo(env, 3, None) = MetaOf(T, a, b, None, None, None)
    BY <1>1
  <2>3. MetaUpTo(env, 4, None) = MetaOf(T, a, b, c, None, None)
    BY <1>1
  <2>4. [MetaOf(T, a, b, None, None, None) EXCEPT !["thread"] = c] = MetaOf(T, a, b, c, None, None)
    BY DEF MetaOf
  <2>5. MetaUpTo(env, j, None) = MetaOf(T, a, b, None, None, None) /\ MetaUpTo(env, j + 1, None) = MetaOf(T, a, b, c, None, None)
    BY <1>4, <2>1, <2>2, <2>3
  <2>6. QED
    BY <2>1, <2>4, <2>5
<1>5. CASE j = 4
  <2>1. j + 1 = 5 /\ MetaName(j) = "provenance" /\ D!Present(MetaText(env, j)) = d
    BY <1>0, <1>5 DEF MetaName, MetaText
  <2>2. MetaUpTo(env, 4, None) = MetaOf(T, a, b, c, None, None)
    BY <1>1
  <2>3. MetaUpTo(env, 5, None) = MetaOf(T, a, b, c, d, None)
    BY <1>1
  <2>4. [MetaOf(T, a, b, c, None, None) EXCEPT !["provenance"] = d] = MetaOf(T, a, b, c, d, None)
    BY DEF MetaOf
  <2>5. MetaUpTo(env, j, None) = MetaOf(T, a, b, c, None, None) /\ MetaUpTo(env, j + 1, None) = MetaOf(T, a, b, c, d, None)
    BY <1>5, <2>1, <2>2, <2>3
  <2>6. QED
    BY <2>1, <2>4, <2>5
<1>6. QED
  BY <1>2, <1>3, <1>4, <1>5

\* Between the elements of <meta>: the j-th is next, or its end.
Between(env, j, q, m) ==
    j \in 1..5 /\ q = MetaAt(env, j) /\ (j = 5 \/ MetaText(env, j) # None) /\ m = MetaUpTo(env, j, None)

LEMMA NextMeta ==
    ASSUME D!CodecAssumption, NEW env \in D!EnvelopeType, NEW j \in 1..4
    PROVE  \E n : Between(env, n, MetaAt(env, j + 1), MetaUpTo(env, j + 1, None))
<1>1. CASE j = 4 \/ MetaText(env, j + 1) # None
  <2>1. j + 1 \in 1..5 /\ (j = 4 => j + 1 = 5)
    OBVIOUS
  <2>2. Between(env, j + 1, MetaAt(env, j + 1), MetaUpTo(env, j + 1, None))
    BY <1>1, <2>1 DEF Between
  <2>3. QED
    BY <2>2
<1>2. CASE j # 4 /\ MetaText(env, j + 1) = None
  <2>1. PICK k, n : k = j + 1 /\ n = j + 2
    OBVIOUS
  <2>2. k \in 1..4 /\ k + 1 = n /\ n \in 1..5
    BY <1>2, <2>1
  <2>3. k \notin {1, 3}
    BY <1>2, <2>1, <2>2, MetaTexts
  <2>4. n = 3 \/ n = 5
    BY <2>2, <2>3
  <2>5. MetaRead(env, k) = <<>>
    BY <1>2, <2>1, YieldedEmpty DEF MetaRead, D!MetaElement
  <2>6. MetaAt(env, n) = MetaAt(env, k)
    <3>1. MetaAt(env, k + 1) = MetaAt(env, k) + Len(MetaRead(env, k)) /\ MetaAt(env, k) \in Nat
      BY <2>2, MetaTyped
    <3>2. Len(MetaRead(env, k)) = 0
      BY <2>5
    <3>3. QED
      BY <2>2, <3>1, <3>2
  <2>7. MetaUpTo(env, n, None) = MetaUpTo(env, k, None)
    <3>1. D!Present(MetaText(env, k)) = None
      BY <1>2, <2>1 DEF D!Present
    <3>2. QED
      BY <2>2, <3>1, MetaFurther
  <2>8. n = 3 => MetaText(env, n) # None
    BY MetaTexts
  <2>9. Between(env, n, MetaAt(env, k), MetaUpTo(env, k, None))
    BY <2>2, <2>4, <2>6, <2>7, <2>8 DEF Between
  <2>10. QED
    BY <2>1, <2>9
<1>3. QED
  BY <1>1, <1>2

\* Where the j-th element of <meta> is in the document, if it is there.
LEMMA MetaLies ==
    ASSUME D!CodecAssumption, NEW env \in D!EnvelopeType, NEW j \in 1..4, MetaText(env, j) # None
    PROVE  /\ Lies(W(env), MetaAt(env, j), D!Start(MetaName(j), D!Plain("")), MetaText(env, j), D!End(MetaName(j)))
           /\ MetaAt(env, j + 1) = MetaAt(env, j) + ElementLen(MetaText(env, j)) /\ MetaAt(env, j) \in Nat
           /\ MetaText(env, j) \in Texts /\ MetaName(j) \in Strings
           /\ MetaName(j) \in {"from", "to", "thread", "provenance"}
           /\ Parsable(MetaName(j), MetaText(env, j))
<1>1. /\ MetaText(env, j) \in Texts /\ MetaName(j) \in Strings /\ MetaName(j) \in {"from", "to", "thread", "provenance"}
      /\ Parsable(MetaName(j), MetaText(env, j))
  BY MetaTexts
<1>2. MetaAt(env, j) \in Nat /\ MetaAt(env, j + 1) = MetaAt(env, j) + Len(MetaRead(env, j))
  BY MetaTyped
<1>3. "" \in Strings
  BY DEF Strings
<1>4. MetaRead(env, j) = D!Yielded(D!Element(D!Start(MetaName(j), D!Plain("")), MetaText(env, j), MetaName(j)))
  BY DEF MetaRead, D!MetaElement
<1>5. W(env) \in Seq(Events) /\ At(W(env), MetaRead(env, j), MetaAt(env, j))
  BY Layout
<1>6. /\ Lies(W(env), MetaAt(env, j), D!Start(MetaName(j), D!Plain("")), MetaText(env, j), D!End(MetaName(j)))
      /\ Len(MetaRead(env, j)) = ElementLen(MetaText(env, j))
  BY <1>1, <1>2, <1>3, <1>4, <1>5, ElementAt, ZenonT(60)
<1>7. QED
  BY <1>1, <1>2, <1>6

LEMMA Tagged == ASSUME NEW name, NEW t PROVE
    /\ D!Start(name, t).ev = "start" /\ D!Start(name, t).name = name /\ D!Start(name, t).text = t
    /\ D!End(name).ev = "end" /\ D!End(name).name = name
BY DEF D!Start, D!End

\* read_meta, on the decoder's.
LEMMA InsideMeta ==
    ASSUME NEW env, NEW g, Stack(env, calls, g), calls[Len(calls)].fn = "read_meta"
    PROVE  /\ Len(calls) \in Nat \ {0, 1} /\ calls[Len(calls) - 1].fn = "decode_envelope"
           /\ \A c, h : c.fn = "read_meta" => Replacing(env, calls, g, c, h)
<1>1. /\ Len(calls) \in Nat \ {0, 1}
      /\ Fits(env, calls[Len(calls) - 1], g[Len(calls) - 1], calls[Len(calls)], g[Len(calls)])
  BY TopFits
<1>2. calls[Len(calls) - 1].fn = "decode_envelope"
  BY <1>1 DEF Fits
<1>3. ASSUME NEW c, NEW h, c.fn = "read_meta" PROVE Replacing(env, calls, g, c, h)
  <2>1. Fits(env, calls[Len(calls) - 1], g[Len(calls) - 1], c, h)
    BY <1>2, <1>3 DEF Fits, ValueCalls
  <2>2. QED
    BY <1>1, <2>1 DEF Replacing
<1>4. QED
  BY <1>1, <1>2, <1>3

\* It goes on with another field.
LEMMA MetaGoesOn ==
    ASSUME NEW env, NEW g, Stack(env, calls, g), calls[Len(calls)].fn = "read_meta", NEW f,
           calls' = Append(D!Front(calls), [fn |-> "read_meta", field |-> f]),
           InMeta(env, [fn |-> "read_meta", field |-> f], pos', opened', meta')
    PROVE  Reading(env, calls', pos', opened', meta')
<1>1. PICK c, h, m, ds : /\ c = [fn |-> "read_meta", field |-> f] /\ h = g[Len(calls)] /\ m = Len(calls)
                         /\ ds = Append(D!Front(calls), c)
  OBVIOUS
<1>2. c.fn = "read_meta"
  BY <1>1
<1>3. Replacing(env, calls, g, c, h)
  BY <1>2, InsideMeta
<1>4. /\ \E k : Stack(env, Append(D!Front(calls), c), k) /\ k[Len(calls)] = h
      /\ Len(Append(D!Front(calls), c)) = Len(calls) /\ Append(D!Front(calls), c)[Len(calls)] = c
  BY <1>3, ReplacedShape
<1>5. PICK k : Stack(env, ds, k)
  BY <1>1, <1>4
<1>6. ds[Len(ds)] = c /\ calls' = ds
  BY <1>1, <1>4
<1>7. IsAt(env, c, k[Len(ds)], pos', opened', meta')
  BY <1>1, <1>2 DEF IsAt
<1>8. QED
  BY <1>5, <1>6, <1>7 DEF Reading

LEMMA MetaCalls ==
    ASSUME NEW f, NEW x, calls[Len(calls)] = [fn |-> "read_meta", field |-> f]
    PROVE  D!Top.fn = "read_meta" /\ D!Top.field = f /\ [D!Top EXCEPT !.field = x] = [fn |-> "read_meta", field |-> x]
<1>1. D!Top = [fn |-> "read_meta", field |-> f]
  BY DEF D!Top, D!Last
<1>2. QED
  BY <1>1

LEMMA Sums == ASSUME NEW q \in Nat PROVE q + 1 + 1 = q + 2 /\ q + 2 + 1 = q + 3 /\ q + 2 \in Nat
OBVIOUS

LEMMA OneMore ==
    ASSUME NEW a, NEW b, NEW c
    PROVE  <<a, b>> = Append(<<a>>, b) /\ <<a, b, c>> = Append(<<a, b>>, c)
<1>1. PICK x, y : x = <<a, b>> /\ y = <<a, b, c>>
  OBVIOUS
<1>2. x = Append(<<a>>, b)
  BY <1>1
<1>3. y = Append(<<a, b>>, c)
  BY <1>1
<1>4. QED
  BY <1>1, <1>2, <1>3

LEMMA StartsAre ==
    ASSUME D!CodecAssumption, NEW env \in D!EnvelopeType
    PROVE  /\ W(env)[1].ev = "start" /\ W(env)[1].name = "message"
           /\ W(env)[2].ev = "start" /\ W(env)[2].name = "meta"
           /\ \A j \in 1..4 : MetaText(env, j) # None =>
                W(env)[MetaAt(env, j)].ev = "start" /\ W(env)[MetaAt(env, j)].name = MetaName(j)
<1>0. PICK u : u = D!Plain("")
  OBVIOUS
<1>1. W(env)[1] = D!Start("message", u) /\ W(env)[2] = D!Start("meta", u)
  BY <1>0, Layout
<1>2. W(env)[1].ev = "start" /\ W(env)[1].name = "message"
  BY <1>1 DEF D!Start
<1>3. W(env)[2].ev = "start" /\ W(env)[2].name = "meta"
  BY <1>1 DEF D!Start
<1>4. ASSUME NEW j \in 1..4, MetaText(env, j) # None
      PROVE  W(env)[MetaAt(env, j)].ev = "start" /\ W(env)[MetaAt(env, j)].name = MetaName(j)
  <2>1. W(env)[MetaAt(env, j)] = D!Start(MetaName(j), u)
    BY <1>0, <1>4, MetaLies DEF Lies
  <2>2. PICK name : name = MetaName(j)
    OBVIOUS
  <2>3. W(env)[MetaAt(env, j)] = D!Start(name, u)
    BY <2>1, <2>2
  <2>4. W(env)[MetaAt(env, j)].ev = "start" /\ W(env)[MetaAt(env, j)].name = name
    BY <2>3 DEF D!Start
  <2>5. QED
    BY <2>2, <2>4
<1>5. QED
  BY <1>2, <1>3, <1>4

\* The step's event is a tag that may stand where it does: read_meta reads it.
LEMMA MetaStep ==
    ASSUME NEW env, NEW g, Stack(env, calls, g), NEW f, calls[Len(calls)] = [fn |-> "read_meta", field |-> f],
           D!Next, ~D!Misnested
    PROVE  D!ReadMeta /\ decoded = None /\ D!Top.field = f
<1>1. D!Top.fn = "read_meta" /\ D!Top.field = f
  BY MetaCalls
<1>2. QED
  BY <1>1, Dispatch

\* An element of <meta> begins.
LEMMA MetaBegins ==
    ASSUME D!CodecAssumption, NEW env \in D!EnvelopeType, NEW g, Stack(env, calls, g), NEW f,
           calls[Len(calls)] = [fn |-> "read_meta", field |-> f], NEW j \in 1..4, MetaText(env, j) # None,
           pos = MetaAt(env, j), opened = <<"message", "meta">>, meta = MetaUpTo(env, j, None),
           D!Event = W(env)[pos], D!Next
    PROVE  Reading(env, calls', pos', opened', meta') /\ decoded' = None /\ D!Event # D!End("message")
<1>1. PICK name, t, q : name = MetaName(j) /\ t = MetaText(env, j) /\ q = MetaAt(env, j)
  OBVIOUS
<1>2. /\ Lies(W(env), q, D!Start(name, D!Plain("")), t, D!End(name))
      /\ q \in Nat /\ t \in Texts /\ name \in Strings /\ name \in {"from", "to", "thread", "provenance"}
  BY <1>1, MetaLies
<1>4. D!Event.ev = "start" /\ D!Event.name = name
  BY <1>1, StartsAre
<1>5. D!Event # D!Eof /\ D!Event # D!End("message")
  BY <1>4, TagOf
<1>6. D!ReadMeta /\ decoded = None
  <2>1. ~D!Misnested
    BY <1>4 DEF D!Misnested
  <2>2. QED
    BY <2>1, MetaStep
<1>7. pos' = pos + 1 /\ opened' = Append(opened, name)
  BY <1>4, <1>6, ReadsOn, TagOf DEF D!ReadMeta
<1>8. calls' = Append(D!Front(calls), [D!Top EXCEPT !.field = name]) /\ meta' = meta /\ decoded' = decoded
  BY <1>4, <1>5, <1>6 DEF D!ReadMeta, D!Is
<1>9. calls' = Append(D!Front(calls), [fn |-> "read_meta", field |-> name])
  BY <1>8, MetaCalls
<1>10. opened' = <<"message", "meta", name>>
  <2>0. PICK z : z = <<"message", "meta", name>>
    OBVIOUS
  <2>1. z = Append(<<"message", "meta">>, name)
    BY <2>0
  <2>2. opened' = z
    BY <1>7, <2>1
  <2>3. QED
    BY <2>0, <2>2
<1>11. PICK c : c = [fn |-> "read_meta", field |-> name]
  OBVIOUS
<1>12. InMeta(env, c, pos', opened', meta')
  <2>1. pos' = MetaAt(env, j) + 1 /\ meta' = MetaUpTo(env, j, None)
    BY <1>7, <1>8
  <2>2. QED
    BY <1>1, <1>10, <1>11, <2>1 DEF InMeta
<1>13. calls[Len(calls)].fn = "read_meta"
  OBVIOUS
<1>14. Reading(env, calls', pos', opened', meta')
  BY <1>9, <1>11, <1>12, <1>13, MetaGoesOn
<1>15. QED
  BY <1>5, <1>6, <1>8, <1>14

\* Its text, if there is one, is noted.
LEMMA MetaNotes ==
    ASSUME D!CodecAssumption, NEW env \in D!EnvelopeType, NEW g, Stack(env, calls, g), NEW j \in 1..4,
           MetaText(env, j) # None, calls[Len(calls)] = [fn |-> "read_meta", field |-> MetaName(j)],
           MetaText(env, j).body # "", pos = MetaAt(env, j) + 1,
           opened = <<"message", "meta", MetaName(j)>>, meta = MetaUpTo(env, j, None),
           D!Event = W(env)[pos], D!Next
    PROVE  Reading(env, calls', pos', opened', meta') /\ decoded' = None /\ D!Event # D!End("message")
<1>1. PICK name, t, q : name = MetaName(j) /\ t = MetaText(env, j) /\ q = MetaAt(env, j)
  OBVIOUS
<1>2. /\ Lies(W(env), q, D!Start(name, D!Plain("")), t, D!End(name))
      /\ q \in Nat /\ t \in Texts /\ name \in Strings /\ name \in {"from", "to", "thread", "provenance"}
      /\ Parsable(name, t)
  BY <1>1, MetaLies
<1>3. D!Event = D!Chars(D!Trim(D!Escape(t)))
  <2>1. t.body # "" /\ pos = q + 1
    BY <1>1
  <2>2. QED
    BY <1>2, <2>1 DEF Lies
<1>4. /\ D!Event.ev = "text" /\ D!Event.text = D!Trim(D!Escape(t))
      /\ D!Trim(D!Unescape(D!Event.text)) = D!Trim(t) /\ D!Event.text.body = t.body
  BY <1>2, <1>3, Comes
<1>5. D!Event # D!Eof /\ D!Event # D!End("message")
  BY <1>4, TagOf
<1>6. D!ReadMeta /\ decoded = None /\ D!Top.field = name
  <2>1. ~D!Misnested
    BY <1>4 DEF D!Misnested
  <2>2. QED
    BY <1>1, <2>1, MetaStep
<1>7. pos' = pos + 1 /\ opened' = opened
  BY <1>4, <1>6, ReadsOn DEF D!ReadMeta
<1>8. D!MetaFaults(name, D!Event.text) = {}
  <2>1. ~D!Garbled(D!Event.text) /\ D!Event.text.body # ""
    BY <1>1, <1>2, <1>4, EscapedText
  <2>2. Parsable(name, D!Event.text)
    BY <1>2, <1>4 DEF Parsable
  <2>3. QED
    BY <1>2, <2>1, <2>2, Faultless
<1>9. meta' = [meta EXCEPT ![name] = D!Trim(D!Unescape(D!Event.text))] /\ calls' = calls /\ decoded' = decoded
  BY <1>2, <1>4, <1>5, <1>6, <1>8 DEF D!ReadMeta, D!Is
<1>10. meta' = MetaUpTo(env, j + 1, None)
  <2>1. D!Present(t) = D!Trim(t)
    BY <1>1 DEF D!Present
  <2>2. MetaUpTo(env, j + 1, None) = [MetaUpTo(env, j, None) EXCEPT ![MetaName(j)] = D!Present(MetaText(env, j))]
    BY MetaFurther
  <2>3. QED
    BY <1>1, <1>4, <1>9, <2>1, <2>2
<1>11. pos' = MetaAt(env, j) + 2
  <2>1. pos' = q + 1 + 1
    BY <1>1, <1>7
  <2>2. q \in Nat
    BY <1>2
  <2>3. q + 1 + 1 = q + 2
    BY <2>2, Sums, Zenon
  <2>4. QED
    BY <1>1, <2>1, <2>3
<1>12. PICK c : c = [fn |-> "read_meta", field |-> name]
  OBVIOUS
<1>13. InMeta(env, c, pos', opened', meta')
  BY <1>1, <1>7, <1>10, <1>11, <1>12 DEF InMeta
<1>14. IsAt(env, c, g[Len(calls)], pos', opened', meta')
  BY <1>12, <1>13 DEF IsAt
<1>15. calls'[Len(calls')] = c
  BY <1>1, <1>9, <1>12
<1>16. Reading(env, calls', pos', opened', meta')
  BY <1>9, <1>14, <1>15 DEF Reading
<1>17. QED
  BY <1>5, <1>6, <1>9, <1>16

\* It ends, and the next one is awaited.
LEMMA MetaEnds ==
    ASSUME D!CodecAssumption, NEW env \in D!EnvelopeType, NEW g, Stack(env, calls, g), NEW j \in 1..4,
           MetaText(env, j) # None, calls[Len(calls)] = [fn |-> "read_meta", field |-> MetaName(j)],
           D!Event = D!End(MetaName(j)), pos + 1 = MetaAt(env, j + 1),
           opened = <<"message", "meta", MetaName(j)>>, meta = MetaUpTo(env, j + 1, None), D!Next
    PROVE  Reading(env, calls', pos', opened', meta') /\ decoded' = None /\ D!Event # D!End("message")
<1>1. PICK name : name = MetaName(j)
  OBVIOUS
<1>2. name \in Strings /\ name \in {"from", "to", "thread", "provenance"}
  BY <1>1, MetaLies
<1>3. D!Event.ev = "end" /\ D!Event.name = name
  BY <1>1, Tagged
<1>4. D!Event # D!Eof /\ D!Event # D!End("message")
  BY <1>2, <1>3, TagOf
<1>5. <<"message", "meta">> \in Seq(Strings) /\ opened = Append(<<"message", "meta">>, name)
  <2>1. "message" \in Strings /\ "meta" \in Strings
    BY DEF Strings
  <2>2. QED
    BY <1>1, <2>1
<1>6. D!ReadMeta /\ decoded = None
  <2>1. ~D!Misnested
    BY <1>1, <1>2, <1>5, Nests
  <2>2. QED
    BY <2>1, MetaStep
<1>7. pos' = pos + 1 /\ opened' = D!Front(opened)
  BY <1>3, <1>4, <1>6, ReadsOn DEF D!ReadMeta
<1>8. opened' = <<"message", "meta">>
  BY <1>2, <1>5, <1>7, Shut
<1>9. D!Become([D!Top EXCEPT !.field = None])
  BY <1>2, <1>3, <1>4, <1>6 DEF D!ReadMeta, D!Is
<1>10. calls' = Append(D!Front(calls), [fn |-> "read_meta", field |-> None]) /\ meta' = meta /\ decoded' = decoded
  BY <1>9, MetaCalls DEF D!Become
<1>11. PICK c : c = [fn |-> "read_meta", field |-> None]
  OBVIOUS
<1>12. InMeta(env, c, pos', opened', meta')
  <2>1. PICK n : Between(env, n, MetaAt(env, j + 1), MetaUpTo(env, j + 1, None))
    BY NextMeta
  <2>2. n \in 1..5 /\ pos' = MetaAt(env, n) /\ (n = 5 \/ MetaText(env, n) # None) /\ meta' = MetaUpTo(env, n, None)
    BY <1>7, <1>10, <2>1 DEF Between
  <2>3. c = [fn |-> "read_meta", field |-> c.field]
    BY <1>11
  <2>4. QED
    BY <1>8, <2>2, <2>3 DEF InMeta
<1>13. calls[Len(calls)].fn = "read_meta"
  OBVIOUS
<1>14. Reading(env, calls', pos', opened', meta')
  BY <1>10, <1>11, <1>12, <1>13, MetaGoesOn
<1>15. QED
  BY <1>4, <1>6, <1>10, <1>14

\* <meta> ends.
LEMMA MetaCloses ==
    ASSUME D!CodecAssumption, NEW env \in D!EnvelopeType, NEW g, Stack(env, calls, g), NEW f,
           calls[Len(calls)] = [fn |-> "read_meta", field |-> f],
           pos = MetaAt(env, 5), opened = <<"message", "meta">>, meta = MetaUpTo(env, 5, None),
           D!Event = W(env)[pos], D!Next
    PROVE  Reading(env, calls', pos', opened', meta') /\ decoded' = None /\ D!Event # D!End("message")
<1>1. D!Event = D!End("meta")
  BY Layout
<1>2. D!Event.ev = "end" /\ D!Event.name = "meta" /\ D!Event # D!Eof /\ D!Event # D!End("message")
  BY <1>1, TagOf
<1>3. <<"message">> \in Seq(Strings) /\ "meta" \in Strings /\ opened = Append(<<"message">>, "meta")
  <2>1. "message" \in Strings /\ "meta" \in Strings
    BY DEF Strings
  <2>2. QED
    BY <2>1
<1>4. D!ReadMeta /\ decoded = None
  <2>1. ~D!Misnested
    BY <1>1, <1>3, Nests
  <2>2. QED
    BY <2>1, MetaStep
<1>5. pos' = pos + 1 /\ opened' = D!Front(opened)
  BY <1>2, <1>4, ReadsOn DEF D!ReadMeta
<1>6. opened' = <<"message">>
  BY <1>3, <1>5, Shut
<1>7. PICK fr, m, b : fr = D!Front(calls) /\ m = Len(calls) /\ b = calls[m - 1]
  OBVIOUS
<1>8. calls' = fr /\ meta' = meta /\ decoded' = decoded
  BY <1>2, <1>4, <1>7 DEF D!ReadMeta, D!Is
<1>9. calls[Len(calls)].fn = "read_meta"
  OBVIOUS
<1>10. m \in Nat \ {0, 1} /\ b.fn = "decode_envelope"
  BY <1>7, <1>9, InsideMeta
<1>11. IsTuple(fr) /\ Len(fr) = m - 1 /\ \A l \in 1..m - 1 : fr[l] = calls[l]
  <2>1. PICK T : T = {calls[l] : l \in DOMAIN calls}
    OBVIOUS
  <2>2. calls \in Seq(T) /\ calls # <<>>
    BY <2>1 DEF Stack, IsTuple
  <2>3. QED
    BY <1>7, <2>2, LessShape
<1>12. Stack(env, fr, g) /\ fr[Len(fr)] = b
  <2>1. Len(fr) \in 1..Len(calls) /\ \A l \in 1..Len(fr) : fr[l] = calls[l]
    BY <1>7, <1>10, <1>11
  <2>2. QED
    BY <1>7, <1>10, <1>11, <2>1, StackBelow
<1>13. IsAt(env, b, g[Len(fr)], pos', opened', meta')
  <2>1. InEnvelope(env, pos', opened', meta')
    BY <1>5, <1>6, <1>8 DEF InEnvelope
  <2>2. QED
    BY <1>10, <2>1 DEF IsAt
<1>14. QED
  BY <1>2, <1>4, <1>8, <1>12, <1>13 DEF Reading

LEMMA ReadMetaR ==
    ASSUME D!CodecAssumption, NEW env \in D!EnvelopeType, NEW g, Stack(env, calls, g),
           IsAt(env, calls[Len(calls)], g[Len(calls)], pos, opened, meta),
           calls[Len(calls)].fn = "read_meta", D!Event = W(env)[pos], D!Next
    PROVE  Reading(env, calls', pos', opened', meta') /\ decoded' = None /\ D!Event # D!End("message")
<1>1. PICK c : c = calls[Len(calls)]
  OBVIOUS
<1>2. InMeta(env, c, pos, opened, meta)
  BY <1>1 DEF IsAt
<1>3. CASE \E j \in 1..5 : /\ pos = MetaAt(env, j) /\ (j = 5 \/ MetaText(env, j) # None)
                           /\ c = [fn |-> "read_meta", field |-> c.field]
                           /\ opened = <<"message", "meta">> /\ meta = MetaUpTo(env, j, None)
  <2>1. PICK j \in 1..5 : /\ pos = MetaAt(env, j) /\ (j = 5 \/ MetaText(env, j) # None)
                          /\ c = [fn |-> "read_meta", field |-> c.field]
                          /\ opened = <<"message", "meta">> /\ meta = MetaUpTo(env, j, None)
    BY <1>3
  <2>2. PICK f : f = c.field
    OBVIOUS
  <2>3. calls[Len(calls)] = [fn |-> "read_meta", field |-> f]
    BY <1>1, <2>1, <2>2
  <2>4. CASE j = 5
    BY <2>1, <2>3, <2>4, MetaCloses
  <2>5. CASE j # 5
    <3>1. j \in 1..4
      BY <2>5
    <3>2. QED
      BY <2>1, <2>3, <2>5, <3>1, MetaBegins
  <2>6. QED
    BY <2>4, <2>5
<1>4. CASE \E j \in 1..4 : /\ MetaText(env, j) # None /\ c = [fn |-> "read_meta", field |-> MetaName(j)]
                           /\ opened = <<"message", "meta", MetaName(j)>>
                           /\ \/ pos = MetaAt(env, j) + 1 /\ meta = MetaUpTo(env, j, None)
                              \/ /\ MetaText(env, j).body # "" /\ pos = MetaAt(env, j) + 2
                                 /\ meta = MetaUpTo(env, j + 1, None)
  <2>1. PICK j \in 1..4 : /\ MetaText(env, j) # None /\ c = [fn |-> "read_meta", field |-> MetaName(j)]
                          /\ opened = <<"message", "meta", MetaName(j)>>
                          /\ \/ pos = MetaAt(env, j) + 1 /\ meta = MetaUpTo(env, j, None)
                             \/ /\ MetaText(env, j).body # "" /\ pos = MetaAt(env, j) + 2
                                /\ meta = MetaUpTo(env, j + 1, None)
    BY <1>4
  <2>2. PICK name, t, q : name = MetaName(j) /\ t = MetaText(env, j) /\ q = MetaAt(env, j)
    OBVIOUS
  <2>3. /\ Lies(W(env), q, D!Start(name, D!Plain("")), t, D!End(name))
        /\ MetaAt(env, j + 1) = q + ElementLen(t) /\ q \in Nat
    BY <2>1, <2>2, MetaLies
  <2>8. q \in Nat
    BY <2>3
  <2>4. CASE t.body # "" /\ pos = q + 1 /\ meta = MetaUpTo(env, j, None)
    BY <1>1, <2>1, <2>2, <2>4, MetaNotes
  <2>5. CASE t.body = "" /\ pos = q + 1 /\ meta = MetaUpTo(env, j, None)
    <3>1. D!Event = D!End(name)
      BY <2>3, <2>5 DEF Lies
    <3>2. ElementLen(t) = 2
      BY <2>5 DEF ElementLen
    <3>3. q + 1 + 1 = q + 2
      BY <2>8
    <3>4. pos + 1 = MetaAt(env, j + 1)
      BY <2>3, <2>5, <3>2, <3>3
    <3>5. D!Present(t) = None
      BY <2>5 DEF D!Present
    <3>6. meta = MetaUpTo(env, j + 1, None)
      BY <2>2, <2>5, <3>5, MetaFurther
    <3>7. QED
      BY <1>1, <2>1, <2>2, <3>1, <3>4, <3>6, MetaEnds
  <2>6. CASE t.body # "" /\ pos = q + 2 /\ meta = MetaUpTo(env, j + 1, None)
    <3>1. D!Event = D!End(name)
      BY <2>3, <2>6 DEF Lies
    <3>2. ElementLen(t) = 3
      BY <2>6 DEF ElementLen
    <3>3. q + 2 + 1 = q + 3
      BY <2>8
    <3>4. pos + 1 = MetaAt(env, j + 1)
      BY <2>3, <2>6, <3>2, <3>3
    <3>5. QED
      BY <1>1, <2>1, <2>2, <2>6, <3>1, <3>4, MetaEnds
  <2>7. QED
    BY <2>1, <2>2, <2>4, <2>5, <2>6
<1>5. QED
  BY <1>2, <1>3, <1>4 DEF InMeta

\* decode_envelope's own loop.
LEMMA MessageBegins ==
    ASSUME D!CodecAssumption, NEW env \in D!EnvelopeType, NEW g, Stack(env, calls, g),
           calls[Len(calls)].fn = "decode_envelope", pos = 1, opened = <<>>, meta = Fresh, D!Event = W(env)[pos], D!Next
    PROVE  Reading(env, calls', pos', opened', meta') /\ decoded' = None /\ D!Event # D!End("message")
<1>2. D!Event.ev = "start" /\ D!Event.name = "message"
  BY StartsAre
<1>3. D!Event # D!Eof /\ D!Event # D!End("message")
  BY <1>2, TagOf
<1>4. D!DecodeEnvelope /\ decoded = None
  <2>1. ~D!Misnested
    BY <1>2 DEF D!Misnested
  <2>2. D!Top.fn = "decode_envelope"
    BY DEF D!Top, D!Last
  <2>3. QED
    BY <2>1, <2>2, Dispatch
<1>5. pos' = pos + 1 /\ opened' = Append(opened, "message")
  BY <1>2, <1>4, ReadsOn, TagOf DEF D!DecodeEnvelope
<1>6. meta' = [meta EXCEPT !.message = TRUE] /\ calls' = calls /\ decoded' = decoded
  BY <1>2, <1>3, <1>4 DEF D!DecodeEnvelope, D!Is
<1>7. meta' = MetaUpTo(env, 1, None)
  <2>1. PICK T, F : T = TRUE /\ F = FALSE
    OBVIOUS
  <2>2. MetaUpTo(env, 1, None) = MetaOf(T, IF 1 > 1 THEN D!Present(env.from) ELSE None,
                                        IF 1 > 2 THEN D!Present(env.to) ELSE None,
                                        IF 1 > 3 THEN D!Present(env.thread) ELSE None,
                                        IF 1 > 4 THEN D!Present(env.provenance) ELSE None, None)
    BY <2>1, Zenon DEF MetaUpTo, MetaOf
  <2>3. MetaUpTo(env, 1, None) = MetaOf(T, None, None, None, None, None)
    BY <2>2
  <2>4. Fresh = MetaOf(F, None, None, None, None, None)
    BY <2>1, Zenon DEF Fresh, MetaOf
  <2>5. [MetaOf(F, None, None, None, None, None) EXCEPT !.message = T] = MetaOf(T, None, None, None, None, None)
    BY DEF MetaOf
  <2>6. meta' = [meta EXCEPT !.message = T]
    BY <1>6, <2>1, Zenon
  <2>7. QED
    BY <2>3, <2>4, <2>5, <2>6
<1>8. opened' = <<"message">> /\ pos' = 2
  BY <1>5
<1>9. IsAt(env, calls[Len(calls)], g[Len(calls)], pos', opened', meta')
  BY <1>7, <1>8 DEF IsAt, InEnvelope
<1>10. Reading(env, calls', pos', opened', meta')
  BY <1>6, <1>9 DEF Reading
<1>11. QED
  BY <1>3, <1>4, <1>6, <1>10

LEMMA MetaOpens ==
    ASSUME D!CodecAssumption, NEW env \in D!EnvelopeType, NEW g, Stack(env, calls, g),
           calls[Len(calls)].fn = "decode_envelope", pos = 2, opened = <<"message">>, meta = MetaUpTo(env, 1, None),
           D!Event = W(env)[pos], D!Next
    PROVE  Reading(env, calls', pos', opened', meta') /\ decoded' = None /\ D!Event # D!End("message")
<1>2. D!Event.ev = "start" /\ D!Event.name = "meta"
  BY StartsAre
<1>3. D!Event # D!Eof /\ D!Event # D!End("message")
  BY <1>2, TagOf
<1>4. D!DecodeEnvelope /\ decoded = None
  <2>1. ~D!Misnested
    BY <1>2, SMTT(40) DEF D!Misnested
  <2>2. D!Top.fn = "decode_envelope"
    BY DEF D!Top, D!Last
  <2>3. QED
    BY <2>1, <2>2, Dispatch
<1>5. pos' = pos + 1 /\ opened' = Append(opened, "meta")
  BY <1>2, <1>4, ReadsOn, TagOf DEF D!DecodeEnvelope
<1>6. D!Enter(<<[fn |-> "read_meta", field |-> None]>>)
  BY <1>2, <1>3, <1>4 DEF D!DecodeEnvelope, D!Is
<1>7. PICK c, T, m, ds : /\ c = [fn |-> "read_meta", field |-> None] /\ T = {calls[l] : l \in DOMAIN calls} \cup {c}
                         /\ m = Len(calls) /\ ds = Append(calls, c)
  OBVIOUS
<1>8. calls \in Seq(T) /\ c \in T /\ calls # <<>>
  BY <1>7 DEF Stack, IsTuple
<1>9. calls' = ds /\ meta' = meta /\ decoded' = decoded
  <2>1. calls' = calls \o <<c>> /\ meta' = meta /\ decoded' = decoded
    BY <1>6, <1>7 DEF D!Enter
  <2>2. calls \o <<c>> = Append(calls, c)
    BY <1>8
  <2>3. QED
    BY <1>7, <2>1, <2>2
<1>10. opened' = <<"message", "meta">> /\ pos' = 3
  <2>1. PICK z : z = <<"message", "meta">>
    OBVIOUS
  <2>2. z = Append(<<"message">>, "meta")
    BY <2>1
  <2>3. opened' = z
    BY <1>5, <2>2
  <2>4. pos' = 3
    BY <1>5
  <2>5. QED
    BY <2>1, <2>3, <2>4
<1>11. m \in Nat \ {0}
  BY <1>7, <1>8
<1>12. IsTuple(ds) /\ Len(ds) = m + 1 /\ ds[m + 1] = c /\ \A l \in 1..m : ds[l] = calls[l]
  BY <1>7, <1>8, MoreShape, SMTT(40)
<1>13. PICK mm : mm = m + 1
  OBVIOUS
<1>14. mm \in 2..Len(calls) + 1 /\ mm - 1 = m /\ Len(ds) = mm /\ ds[mm] = c /\ \A l \in 1..mm - 1 : ds[l] = calls[l]
  BY <1>7, <1>11, <1>12, <1>13
<1>15. c.fn = "read_meta" /\ c = [fn |-> "read_meta", field |-> c.field]
  BY <1>7
<1>16. Fits(env, calls[m], g[m], c, 0)
  BY <1>7, <1>15 DEF Fits, ValueCalls
<1>17. PICK f : Stack(env, ds, f)
  <2>1. Atop(env, calls, g, ds, mm, 0)
    BY <1>12, <1>14, <1>16 DEF Atop
  <2>2. QED
    BY <2>1, StackOn
<1>18. InMeta(env, c, pos', opened', meta')
  <2>1. MetaAt(env, 1) = 3 /\ 1 \in 1..5
    BY DEF MetaAt
  <2>2. MetaText(env, 1) # None
    BY MetaTexts
  <2>3. QED
    BY <1>9, <1>10, <1>15, <2>1, <2>2 DEF InMeta
<1>19. IsAt(env, c, f[Len(ds)], pos', opened', meta')
  BY <1>15, <1>18 DEF IsAt
<1>20. Reading(env, calls', pos', opened', meta')
  BY <1>9, <1>14, <1>17, <1>19 DEF Reading
<1>21. QED
  BY <1>3, <1>4, <1>9, <1>20

LEMMA PayloadBegins ==
    ASSUME D!CodecAssumption, NEW env \in D!EnvelopeType, NEW g, Stack(env, calls, g),
           calls[Len(calls)].fn = "decode_envelope", pos = MetaAt(env, 5) + 1, opened = <<"message">>,
           meta = MetaUpTo(env, 5, None), D!Event = W(env)[pos], D!Next
    PROVE  Reading(env, calls', pos', opened', meta') /\ decoded' = None /\ D!Event # D!End("message")
<1>1. D!Event = D!Start("payload", D!Escape(env.tag))
  BY Layout
<1>2. D!Event.ev = "start" /\ D!Event.name = "payload" /\ D!Event.text = D!Escape(env.tag)
  BY <1>1 DEF D!Start
<1>3. D!Event # D!Eof /\ D!Event # D!End("message")
  BY <1>2, TagOf
<1>4. D!DecodeEnvelope /\ decoded = None
  <2>1. ~D!Misnested
    BY <1>2 DEF D!Misnested
  <2>2. D!Top.fn = "decode_envelope"
    BY DEF D!Top, D!Last
  <2>3. QED
    BY <2>1, <2>2, Dispatch
<1>5. pos' = pos + 1 /\ opened' = Append(opened, "payload")
  BY <1>2, <1>4, ReadsOn, TagOf DEF D!DecodeEnvelope
<1>6. D!Enter(D!Labelled("payload"))
  BY <1>2, <1>3, <1>4 DEF D!DecodeEnvelope, D!Is
<1>7. PICK c, e : /\ c = [fn |-> "labelled", name |-> "payload", label |-> D!Escape(env.tag)]
                  /\ e = [fn |-> "expect_value"]
  OBVIOUS
<1>8. calls' = calls \o <<c, e>> /\ meta' = meta /\ decoded' = decoded
  BY <1>2, <1>6, <1>7 DEF D!Enter, D!Labelled
<1>9. PICK q : q = MetaAt(env, 5)
  OBVIOUS
<1>10. q \in Nat /\ At(W(env), Read(MaxNesting, env.value), ValueAt(env))
  BY <1>9, Layout
<1>11. ValueAt(env) = q + 2 /\ pos = q + 1
  BY <1>9 DEF ValueAt
<1>12. pos' = ValueAt(env) /\ ValueAt(env) \in Nat
  <2>1. q \in Nat
    BY <1>10
  <2>2. q + 1 + 1 = q + 2 /\ q + 2 \in Nat
    BY <2>1
  <2>3. QED
    BY <1>5, <1>11, <2>2
<1>13. opened' = <<"message", "payload">> /\ <<"message", "payload">> \in Seq(Strings)
  <2>1. "message" \in Strings /\ "payload" \in Strings
    BY DEF Strings
  <2>2. <<"message", "payload">> = Append(<<"message">>, "payload")
    BY OneMore, Zenon
  <2>3. <<"message", "payload">> \in Seq(Strings)
    BY <2>1, FewTyped, Zenon
  <2>4. QED
    BY <1>5, <2>2, <2>3
<1>14. PICK op : op = <<"message", "payload">>
  OBVIOUS
<1>15. PICK h : h = [n |-> MaxNesting, v |-> env.value, p |-> ValueAt(env), k |-> 0, op |-> op]
  OBVIOUS
<1>16. h.n = MaxNesting /\ h.v = env.value /\ h.p = ValueAt(env) /\ h.op = <<"message", "payload">>
  BY <1>14, <1>15
<1>17. PartOf(env, h)
  <2>1. MaxNesting \in 0..MaxNesting /\ env.value \in D!Values[MaxNesting]
    BY TagsTyped
  <2>2. QED
    BY <1>10, <1>12, <1>13, <1>16, <2>1 DEF PartOf
<1>18. Encloses(env, calls[Len(calls)], g[Len(calls)], c, h)
  BY <1>7, <1>16 DEF Encloses
<1>19. Reading(env, calls \o <<c, e>>, h.p, h.op, MetaUpTo(env, 5, None))
  <2>1. c.fn = "labelled" /\ e.fn = "expect_value"
    BY <1>7
  <2>2. QED
    BY <1>17, <1>18, <2>1, EntersElement
<1>20. QED
  BY <1>3, <1>4, <1>8, <1>12, <1>13, <1>16, <1>19

\* The message ends: decode_envelope makes of it what it has read.
Finished(env) ==
    IF D!Present(env.from) # None /\ D!Present(env.thread) # None THEN D!SettledEnvelope(env) ELSE [error |-> "missing"]

LEMMA WhenComplete ==
    ASSUME D!CodecAssumption, NEW env \in Envelopes, meta = MetaUpTo(env, 5, PayloadOf(env))
    PROVE  D!Complete = Finished(env)
<1>1. PICK p, a, b, c, d : /\ p = PayloadOf(env) /\ a = D!Present(env.from) /\ b = D!Present(env.to)
                           /\ c = D!Present(env.thread) /\ d = D!Present(env.provenance)
  OBVIOUS
<1>2. p # None /\ p.tag = D!Escape(env.tag) /\ p.value = D!Settled[MaxNesting][env.value]
  <2>1. PICK e : e = D!SettledEnvelope(env)
    OBVIOUS
  <2>2. e.tag = D!Escape(env.tag) /\ e.value = D!Settled[MaxNesting][env.value]
    BY <2>1 DEF D!SettledEnvelope
  <2>3. [tag |-> e.tag, value |-> e.value] # None
    BY <2>1 DEF D!CodecAssumption
  <2>4. p = [tag |-> e.tag, value |-> e.value]
    BY <1>1, <2>2 DEF PayloadOf
  <2>5. QED
    BY <2>2, <2>3, <2>4
<1>3. /\ meta.message /\ meta.from = a /\ meta.to = b /\ meta.thread = c /\ meta.provenance = d /\ meta.payload = p
  BY <1>1 DEF MetaUpTo
<1>4. CASE a # None /\ c # None
  <2>1. D!Complete = [from |-> a, to |-> b, thread |-> c, provenance |-> d, tag |-> p.tag, value |-> p.value]
    BY <1>2, <1>3, <1>4 DEF D!Complete
  <2>2. D!SettledEnvelope(env) = [from |-> a, to |-> b, thread |-> c, provenance |-> d, tag |-> p.tag, value |-> p.value]
    BY <1>1, <1>2 DEF D!SettledEnvelope
  <2>3. QED
    BY <1>1, <1>4, <2>1, <2>2 DEF Finished
<1>5. CASE ~(a # None /\ c # None)
  BY <1>1, <1>3, <1>5 DEF D!Complete, Finished
<1>6. QED
  BY <1>4, <1>5

LEMMA MessageEnds ==
    ASSUME D!CodecAssumption, NEW env \in Envelopes, NEW g, Stack(env, calls, g),
           calls[Len(calls)].fn = "decode_envelope", pos = ValueAt(env) + ReadLen(env) + 1, opened = <<"message">>,
           meta = MetaUpTo(env, 5, PayloadOf(env)), D!Event = W(env)[pos], D!Next
    PROVE  decoded' = Finished(env) /\ decoded = None /\ pos' = pos + 1
<1>0. env \in D!EnvelopeType
  BY DEF D!CodecAssumption
<1>1. D!Event = D!End("message")
  BY <1>0, Layout
<1>2. D!Event.ev = "end" /\ D!Event.name = "message" /\ D!Event # D!Eof
  BY <1>1, TagOf
<1>3. ~D!Misnested
  <2>1. <<>> \in Seq(Strings) /\ "message" \in Strings /\ opened = Append(<<>>, "message")
    BY DEF Strings
  <2>2. QED
    BY <1>1, <2>1, Nests
<1>4. D!DecodeEnvelope /\ decoded = None
  <2>1. D!Top.fn = "decode_envelope"
    BY DEF D!Top, D!Last
  <2>2. QED
    BY <1>3, <2>1, Dispatch
<1>5. pos' = pos + 1
  BY <1>2, <1>4, ReadsOn, TagOf DEF D!DecodeEnvelope
<1>6. decoded' = D!Complete
  BY <1>2, <1>4 DEF D!DecodeEnvelope, D!Is
<1>7. QED
  BY <1>4, <1>5, <1>6, WhenComplete

\* One event of an envelope's document is read.
LEMMA EventRead ==
    ASSUME D!CodecAssumption, NEW env \in Envelopes, Reading(env, calls, pos, opened, meta), D!Event = W(env)[pos], D!Next
    PROVE  \/ Reading(env, calls', pos', opened', meta') /\ decoded' = None /\ D!Event # D!End("message")
           \/ decoded' = Finished(env)
<1>0. env \in D!EnvelopeType
  BY DEF D!CodecAssumption
<1>1. PICK g : Stack(env, calls, g) /\ IsAt(env, calls[Len(calls)], g[Len(calls)], pos, opened, meta)
  BY DEF Reading
<1>2. PICK fn : fn = calls[Len(calls)].fn
  OBVIOUS
<1>3. CASE fn = "decode_envelope"
  <2>1. InEnvelope(env, pos, opened, meta)
    BY <1>1, <1>2, <1>3 DEF IsAt
  <2>2. CASE pos = 1 /\ opened = <<>> /\ meta = Fresh
    BY <1>0, <1>1, <1>2, <1>3, <2>2, MessageBegins
  <2>3. CASE pos = 2 /\ opened = <<"message">> /\ meta = MetaUpTo(env, 1, None)
    BY <1>0, <1>1, <1>2, <1>3, <2>3, MetaOpens
  <2>4. CASE pos = MetaAt(env, 5) + 1 /\ opened = <<"message">> /\ meta = MetaUpTo(env, 5, None)
    BY <1>0, <1>1, <1>2, <1>3, <2>4, PayloadBegins
  <2>5. CASE pos = ValueAt(env) + ReadLen(env) + 1 /\ opened = <<"message">> /\ meta = MetaUpTo(env, 5, PayloadOf(env))
    BY <1>0, <1>1, <1>2, <1>3, <2>5, MessageEnds
  <2>6. QED
    BY <2>1, <2>2, <2>3, <2>4, <2>5 DEF InEnvelope
<1>4. CASE fn = "read_meta"
  BY <1>0, <1>1, <1>2, <1>4, ReadMetaR
<1>5. CASE fn = "expect_value"
  BY <1>0, <1>1, <1>2, <1>5, ExpectValueR
<1>6. CASE fn = "rec"
  <2>1. CASE g[Len(calls)].k = Size(g[Len(calls)].v)
    BY <1>0, <1>1, <1>2, <1>6, <2>1, BodyEnds
  <2>2. CASE g[Len(calls)].k # Size(g[Len(calls)].v)
    BY <1>0, <1>1, <1>2, <1>6, <2>2, FieldBegins
  <2>3. QED
    BY <2>1, <2>2
<1>7. CASE fn = "seq"
  <2>1. CASE g[Len(calls)].k = Size(g[Len(calls)].v)
    BY <1>0, <1>1, <1>2, <1>7, <2>1, BodyEnds
  <2>2. CASE g[Len(calls)].k # Size(g[Len(calls)].v)
    BY <1>0, <1>1, <1>2, <1>7, <2>2, ItemBegins
  <2>3. QED
    BY <2>1, <2>2
<1>8. CASE fn = "read_scalar"
  BY <1>0, <1>1, <1>2, <1>8, ReadScalarR
<1>9. CASE fn = "expect_end"
  BY <1>0, <1>1, <1>2, <1>9, ExpectEndR
<1>10. fn \in {"decode_envelope", "read_meta", "expect_value", "rec", "seq", "read_scalar", "expect_end"}
  <2>1. CASE fn # "decode_envelope" /\ fn # "read_meta"
    <3>1. Fits(env, calls[Len(calls) - 1], g[Len(calls) - 1], calls[Len(calls)], g[Len(calls)])
      BY <1>1, <1>2, <2>1, TopFits
    <3>2. calls[Len(calls)].fn \in {"labelled", "expect_end", "expect_value"} \cup ValueCalls
      BY <1>2, <2>1, <3>1 DEF Fits
    <3>3. fn # "labelled"
      BY <1>1, <1>2, <2>1 DEF IsAt, InValue
    <3>4. QED
      BY <1>2, <3>2, <3>3 DEF ValueCalls
  <2>2. QED
    BY <2>1
<1>11. QED
  BY <1>3, <1>4, <1>5, <1>6, <1>7, <1>8, <1>9, <1>10

LEMMA FinishedIs ==
    ASSUME D!CodecAssumption, NEW env \in Envelopes
    PROVE  /\ Finished(env) # None
           /\ "error" \notin DOMAIN Finished(env) <=> D!Present(env.from) # None /\ D!Present(env.thread) # None
           /\ "error" \notin DOMAIN Finished(env) => Finished(env) = D!SettledEnvelope(env)
<1>1. CASE D!Present(env.from) # None /\ D!Present(env.thread) # None
  <2>1. Finished(env) = D!SettledEnvelope(env)
    BY <1>1 DEF Finished
  <2>2. D!SettledEnvelope(env) # None
    BY DEF D!CodecAssumption
  <2>3. "error" \notin DOMAIN D!SettledEnvelope(env)
    BY DEF D!SettledEnvelope
  <2>4. QED
    BY <1>1, <2>1, <2>2, <2>3
<1>2. CASE ~(D!Present(env.from) # None /\ D!Present(env.thread) # None)
  <2>1. Finished(env) = [error |-> "missing"]
    BY <1>2 DEF Finished
  <2>2. [error |-> "missing"] # None
    BY DEF D!CodecAssumption, D!DecoderAssumption, D!Reasons
  <2>3. "error" \in DOMAIN [error |-> "missing"]
    OBVIOUS
  <2>4. QED
    BY <1>2, <2>1, <2>2, <2>3
<1>3. QED
  BY <1>1, <1>2

\* At the end of what there is of the document, an error is returned, or what
\* decode_envelope makes of what it has read.
LEMMA AtEof ==
    ASSUME D!Event = D!Eof, D!Next
    PROVE  /\ decoded = None /\ pos' = pos
           /\ \/ \E e \in D!Reasons : decoded' = [error |-> e]
              \/ D!Top.fn = "decode_envelope" /\ decoded' = D!Complete
<1>1. D!Event.ev = "eof" /\ D!Event.name = ""
  BY DEF D!Eof
<1>2. ~D!Misnested
  BY <1>1 DEF D!Misnested
<1>3. decoded = None /\ pos' = pos
  BY <1>2 DEF D!Next, D!Malformed, D!DecodeEnvelope, D!ReadMeta, D!ExpectValue, D!ParseRec, D!ParseSeq, D!ReadScalar,
              D!ExpectEnd, D!Reads
<1>4. CASE D!DecodeEnvelope
  BY <1>1, <1>3, <1>4 DEF D!DecodeEnvelope, D!Reads, D!Is, D!Stop, D!Reasons
<1>5. CASE D!ReadMeta
  BY <1>1, <1>3, <1>5 DEF D!ReadMeta, D!Reads, D!Is, D!Stop, D!Reasons
<1>6. CASE D!ExpectValue
  BY <1>1, <1>3, <1>6 DEF D!ExpectValue, D!Reads, D!Is, D!Stop, D!Reasons
<1>7. CASE D!ParseRec
  BY <1>1, <1>3, <1>7 DEF D!ParseRec, D!Reads, D!Is, D!Stop, D!Reasons
<1>8. CASE D!ParseSeq
  BY <1>1, <1>3, <1>8 DEF D!ParseSeq, D!Reads, D!Is, D!Stop, D!Reasons
<1>9. CASE D!ReadScalar
  BY <1>1, <1>3, <1>9 DEF D!ReadScalar, D!Reads, D!Is, D!Stop, D!Reasons
<1>10. CASE D!ExpectEnd
  BY <1>1, <1>3, <1>10 DEF D!ExpectEnd, D!Reads, D!Is, D!Stop, D!Reasons
<1>11. QED
  BY <1>2, <1>3, <1>4, <1>5, <1>6, <1>7, <1>8, <1>9, <1>10 DEF D!Next, D!Malformed

\* What is cut short is accepted only when nothing but the end of the message is missing.
LEMMA CutShort ==
    ASSUME D!CodecAssumption, NEW env \in Envelopes, Reading(env, calls, pos, opened, meta),
           D!Top.fn = "decode_envelope"
    PROVE  D!Complete = Finished(env) \/ D!Complete = [error |-> "missing"]
<1>1. PICK g : Stack(env, calls, g) /\ IsAt(env, calls[Len(calls)], g[Len(calls)], pos, opened, meta)
  BY DEF Reading
<1>2. InEnvelope(env, pos, opened, meta)
  BY <1>1 DEF IsAt, D!Top, D!Last
<1>3. CASE meta = MetaUpTo(env, 5, PayloadOf(env))
  BY <1>3, WhenComplete
<1>4. CASE meta.payload = None
  BY <1>4 DEF D!Complete
<1>5. meta = MetaUpTo(env, 5, PayloadOf(env)) \/ meta.payload = None
  BY <1>2 DEF InEnvelope, Fresh, MetaUpTo
<1>6. QED
  BY <1>3, <1>4, <1>5

\* The decoder is where the document says, until it returns; then RoundTrips holds.
RInv ==
    envelope # None =>
        /\ envelope \in Envelopes
        /\ \E cut \in 0..Len(W(envelope)) : document = SubSeq(W(envelope), 1, cut)
        /\ pos \in 1..Len(document) + 1
        /\ decoded = None => /\ Reading(envelope, calls, pos, opened, meta)
                             /\ pos = 1 \/ document[pos - 1] # D!End("message")
        /\ decoded # None => RoundTrips

LEMMA RoundTripsSoFar == RInv => RoundTrips
<1>1. CASE envelope = None
  BY <1>1 DEF RoundTrips, D!AcceptedIsWhole, D!WholeIsAccepted
<1>2. CASE decoded = None
  BY <1>2 DEF RoundTrips, D!AcceptedIsWhole, D!WholeIsAccepted, D!Accepted
<1>3. QED
  BY <1>1, <1>2 DEF RInv

\* What there is of a document.
LEMMA Prefix ==
    ASSUME NEW w \in Seq(Events), NEW cut \in 0..Len(w), NEW d, d = SubSeq(w, 1, cut)
    PROVE  d \in Seq(Events) /\ Len(d) = cut /\ cut \in Nat /\ \A p \in DOMAIN d : p \in 1..cut /\ d[p] = w[p]
OBVIOUS

LEMMA InitR == ASSUME D!CodecAssumption PROVE D!CodecInit => RInv
<1>1. SUFFICES ASSUME D!CodecInit, envelope # None PROVE RInv
  BY DEF RInv
<1>2. envelope \in Envelopes /\ envelope \in D!EnvelopeType
  BY <1>1 DEF D!CodecInit, D!CodecAssumption
<1>3. PICK cut \in 0..Len(W(envelope)) : document = SubSeq(W(envelope), 1, cut)
  BY <1>1 DEF D!CodecInit, W
<1>4. pos = 1 /\ opened = <<>> /\ calls = <<[fn |-> "decode_envelope"]>> /\ meta = Fresh /\ decoded = None
  BY <1>1 DEF D!CodecInit, D!Ready, Fresh
<1>5. W(envelope) \in Seq(Events)
  BY <1>2, Layout
<1>6. Len(document) \in Nat
  BY <1>3, <1>5, Prefix
<1>7. Reading(envelope, calls, pos, opened, meta)
  <2>1. PICK c, cs : c = [fn |-> "decode_envelope"] /\ cs = <<c>>
    OBVIOUS
  <2>2. cs \in Seq({c}) /\ Len(cs) = 1 /\ cs[1] = c /\ cs # <<>>
    BY <2>1
  <2>3. IsTuple(cs)
    BY <2>2, CallsSeq DEF IsTuple
  <2>4. c.fn = "decode_envelope"
    BY <2>1
  <2>5. Stack(envelope, cs, cs)
    <3>1. 2..Len(cs) = {}
      BY <2>2
    <3>2. QED
      BY <2>2, <2>3, <2>4, <3>1 DEF Stack
  <2>6. IsAt(envelope, cs[Len(cs)], cs[Len(cs)], pos, opened, meta)
    BY <1>4, <2>2, <2>4 DEF IsAt, InEnvelope
  <2>7. calls = cs
    BY <1>4, <2>1
  <2>8. QED
    BY <2>5, <2>6, <2>7 DEF Reading
<1>8. pos \in 1..Len(document) + 1
  BY <1>4, <1>6
<1>9. QED
  BY <1>2, <1>3, <1>4, <1>7, <1>8 DEF RInv

LEMMA Untouched == D!Next => document' = document
BY DEF D!Next, D!Malformed, D!DecodeEnvelope, D!ReadMeta, D!ExpectValue, D!ParseRec, D!ParseSeq, D!ReadScalar,
       D!ExpectEnd, D!Reads

\* RoundTrips, of what is returned.
LEMMA RoundTripsThen ==
    ASSUME envelope' # None,
           "error" \notin DOMAIN decoded' => decoded' = D!SettledEnvelope(envelope'),
           document' # <<>> /\ D!Last(document') = D!End("message") =>
               (decoded' # None /\ "error" \notin DOMAIN decoded'
                    <=> D!Present(envelope'.from) # None /\ D!Present(envelope'.thread) # None)
    PROVE  RoundTrips'
BY DEF RoundTrips, D!AcceptedIsWhole, D!WholeIsAccepted, D!Accepted

LEMMA StepR == ASSUME D!CodecAssumption, RInv, D!CodecNext PROVE RInv'
<1>1. SUFFICES ASSUME envelope' # None PROVE RInv'
  BY DEF RInv
<1>2. envelope' = envelope /\ document' = document /\ D!Next
  BY Untouched DEF D!CodecNext
<1>3. PICK env, d : env = envelope /\ d = document
  OBVIOUS
<1>4. envelope # None /\ env \in Envelopes /\ env \in D!EnvelopeType /\ pos \in 1..Len(d) + 1
  BY <1>1, <1>2, <1>3 DEF RInv, D!CodecAssumption
<1>5. PICK cut \in 0..Len(W(env)) : d = SubSeq(W(env), 1, cut)
  BY <1>3, <1>4 DEF RInv
<1>6. W(env) \in Seq(Events)
  BY <1>4, Layout
<1>7. d \in Seq(Events) /\ Len(d) = cut /\ cut \in Nat /\ \A p \in DOMAIN d : p \in 1..cut /\ d[p] = W(env)[p]
  BY <1>5, <1>6, Prefix, SMTT(40)
<1>8. decoded = None
  BY <1>2 DEF D!Next, D!Malformed, D!DecodeEnvelope, D!ReadMeta, D!ExpectValue, D!ParseRec, D!ParseSeq, D!ReadScalar,
              D!ExpectEnd, D!Reads
<1>9. Reading(env, calls, pos, opened, meta) /\ (pos = 1 \/ d[pos - 1] # D!End("message"))
  BY <1>3, <1>4, <1>8 DEF RInv
<1>10. CASE D!Event = D!Eof
  <2>1. pos = cut + 1
    <3>1. pos \notin DOMAIN d
      <4>1. ASSUME pos \in DOMAIN d PROVE FALSE
        <5>1. D!Event = d[pos] /\ d[pos] \in Events
          BY <1>3, <1>7, <4>1 DEF D!Event
        <5>2. D!Event.ev \in {"start", "empty", "text", "end"}
          BY <5>1 DEF Events
        <5>3. QED
          BY <1>10, <5>2, TagOf
      <4>2. QED
        BY <4>1
    <3>2. DOMAIN d = 1..cut
      BY <1>7
    <3>3. QED
      BY <1>4, <1>7, <3>1, <3>2
  <2>2. pos' = pos /\ ((\E e \in D!Reasons : decoded' = [error |-> e]) \/ (D!Top.fn = "decode_envelope" /\ decoded' = D!Complete))
    BY <1>2, <1>10, AtEof
  <2>3. (\E e \in D!Reasons : decoded' = [error |-> e]) \/ decoded' = Finished(env)
    BY <1>4, <1>9, <2>2, CutShort DEF D!Reasons
  <2>4. ~(d # <<>> /\ D!Last(d) = D!End("message"))
    <3>1. CASE cut = 0
      BY <1>7, <3>1
    <3>2. CASE cut # 0
      <4>1. pos # 1 /\ pos - 1 = cut
        BY <1>7, <2>1, <3>2
      <4>2. d[cut] # D!End("message")
        BY <1>9, <4>1
      <4>3. QED
        BY <1>7, <4>2 DEF D!Last
    <3>3. QED
      BY <3>1, <3>2
  <2>5. "error" \notin DOMAIN decoded' => decoded' = D!SettledEnvelope(env)
    <3>1. CASE \E e \in D!Reasons : decoded' = [error |-> e]
      BY <3>1
    <3>2. CASE decoded' = Finished(env)
      BY <1>4, <3>2, FinishedIs
    <3>3. QED
      BY <2>3, <3>1, <3>2
  <2>6. RoundTrips'
    BY <1>1, <1>2, <1>3, <2>4, <2>5, RoundTripsThen
  <2>7. decoded' # None
    <3>1. decoded' = Finished(env) => decoded' # None
      BY <1>4, FinishedIs
    <3>2. \A e \in D!Reasons : [error |-> e] # None
      BY DEF D!CodecAssumption, D!DecoderAssumption
    <3>3. QED
      BY <2>3, <3>1, <3>2
  <2>8. QED
    BY <1>2, <1>3, <1>4, <1>5, <2>2, <2>6, <2>7 DEF RInv
<1>11. CASE D!Event # D!Eof
  <2>1. pos \in DOMAIN d /\ D!Event = d[pos]
    BY <1>3, <1>11 DEF D!Event
  <2>2. pos \in 1..cut /\ D!Event = W(env)[pos]
    BY <1>7, <2>1
  <2>3. \/ Reading(env, calls', pos', opened', meta') /\ decoded' = None /\ D!Event # D!End("message")
        \/ decoded' = Finished(env)
    BY <1>2, <1>4, <1>9, <2>2, EventRead, SMTT(40)
  <2>4. pos' \in {pos, pos + 1}
    BY <1>2 DEF D!Next, D!Malformed, D!DecodeEnvelope, D!ReadMeta, D!ExpectValue, D!ParseRec, D!ParseSeq, D!ReadScalar,
                D!ExpectEnd, D!Reads
  <2>5. pos' \in 1..Len(d) + 1
    BY <1>7, <2>2, <2>4
  <2>6. CASE decoded' = Finished(env)
    <3>1. decoded' # None
      BY <1>4, <2>6, FinishedIs
    <3>2. RoundTrips'
      BY <1>1, <1>2, <1>3, <1>4, <2>6, FinishedIs, RoundTripsThen
    <3>3. QED
      BY <1>2, <1>3, <1>4, <1>5, <2>5, <3>1, <3>2 DEF RInv
  <2>7. CASE Reading(env, calls', pos', opened', meta') /\ decoded' = None /\ D!Event # D!End("message")
    <3>1. pos' = 1 \/ d[pos' - 1] # D!End("message")
      <4>1. CASE pos' = pos
        BY <1>9, <4>1
      <4>2. CASE pos' = pos + 1
        <5>1. pos' - 1 = pos
          BY <2>2, <4>2
        <5>2. QED
          BY <2>1, <2>7, <5>1
      <4>3. QED
        BY <2>4, <4>1, <4>2
    <3>2. QED
      BY <1>2, <1>3, <1>4, <1>5, <2>5, <2>7, <3>1 DEF RInv
  <2>8. QED
    BY <2>3, <2>6, <2>7
<1>12. QED
  BY <1>10, <1>11

LEMMA StillR == ASSUME RInv, UNCHANGED <<D!vars, envelope>> PROVE RInv'
<1>1. /\ document' = document /\ pos' = pos /\ opened' = opened /\ calls' = calls /\ meta' = meta
      /\ decoded' = decoded /\ envelope' = envelope
  BY DEF D!vars
<1>2. RoundTrips => RoundTrips'
  BY <1>1 DEF RoundTrips, D!AcceptedIsWhole, D!WholeIsAccepted, D!Accepted
<1>3. QED
  BY <1>1, <1>2 DEF RInv

\* Of every envelope, with values nested to any depth, scalars of every kind and
\* texts of any sort, however much of its document arrives: what decode_envelope accepts of what
\* encode_envelope writes is the whole envelope, and it does accept a whole
\* document that has a sender and a thread (codec.rs:38-172).
THEOREM EnvelopesRoundTrip == ASSUME D!CodecAssumption PROVE D!CodecSpec => []RoundTrips
<1>1. D!CodecInit => RInv
  BY InitR
<1>2. RInv /\ [D!CodecNext]_<<D!vars, envelope>> => RInv'
  BY StepR, StillR
<1>3. RInv => RoundTrips
  BY RoundTripsSoFar
<1>4. QED
  BY <1>1, <1>2, <1>3, PTL DEF D!CodecSpec
=============================================================================
