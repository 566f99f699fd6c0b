----------------------------- MODULE MCInstances -----------------------------
(* Two callers of one instance and one of another; and, beside a call that  *)
(* goes well, those that the switchboard fails and those whose envelopes a  *)
(* gate stops.                                                              *)
EXTENDS Instances

CONSTANTS bob, amy, alice, carol, web, peer, ids1, ids2, ids3, ids4, ids5, ids6, ids7, ids8

At(name, key) == [name |-> name, key |-> key]
Entry(from, thread, to, form) == [from |-> from, thread |-> thread, to |-> to, form |-> form]

ForAlice == Entry(web, ids1, At(bob, alice), "good")
ForCarol == Entry(web, ids1, At(amy, carol), "good")
AlsoForAlice == Entry(peer, ids2, At(bob, alice), "good")
Failing ==
    {Entry(peer, ids2, Absent, "good"), Entry(peer, ids2, At(bob, carol), "good"),
     Entry(web, ids1, At(amy, carol), "unwritable")}
Stopped ==
    {Entry(peer, ids2, At(amy, carol), "refused"), Entry(web, ids1, At(web, carol), "good"),
     Entry(amy, ids2, At(bob, alice), "good")}

FewEntries == {ForAlice, ForCarol}
SomeEntries == {ForAlice, ForCarol, AlsoForAlice} \cup Failing \cup Stopped
FewCalls == {FewEntries}
SomeCalls ==
    {{}, {ForAlice, ForCarol, AlsoForAlice}, {ForAlice} \cup Failing} \cup {{ForAlice, e} : e \in Stopped}
\* amy is an agent without peers.
OfAmy == {amy} \X Names
NotThere == {At(bob, carol)}
ToListeners == {At(bob, NoKey)}
ToInstances == {At(bob, alice)}
=============================================================================
