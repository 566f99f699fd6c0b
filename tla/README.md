# rust-pipeline specifications

TLA+ specifications of rust-pipeline: a message pipeline for agents in which
every message passes three trust gates and is handled by one worker per thread
(`src/src/pipeline.rs`), a registry that gives conversations opaque thread ids
(`thread.rs`), and a federation server that carries messages between nodes
(`federation.rs`). The specifications follow the source; `PROJECT.json` maps
every definition to the lines it stands for.

## The system

    host --inject--> ingress --> parse --> validate --> route --> dispatch --> worker(thread)
                        ^      (bounded channels, one task each)  |   (unbounded queue each)
                        |                                         |              |
                        |                                         v              |  handler call
                        |                              federation egress         |
                        |                                         |              |
                        |                              server ... peers          |
                        +----- reinject: replies, ACKs, Sends, Spawns -----------+

A message enters through `inject`, `Switchboard::route` or a handler's response,
always at ingress and so always through every gate. The parse stage decodes it,
the validate stage checks its payload against the schema of its tag, the route
stage sends it to the federation egress channel if it is addressed to a peer
node, resolves its listener otherwise, enforces the sender's declared peers and
registers its thread. The dispatcher hands it to the worker of its thread, which
calls the handler and puts what the handler returns back into ingress.

### Components

| component | source | state | operations | here |
|---|---|---|---|---|
| dispatch stage and workers | `pipeline.rs` 98-117, 440-530 | WorkerMap under a tokio mutex, one unbounded queue and one task per active thread | enqueue with lookup, spawn and retry; recv, idle timeout, recheck, reap; panic | `Dispatch`, `SerialDelivery` |
| stages, ingress, shutdown | `pipeline.rs` 252-386 | four tasks, bounded channels (`CHANNEL_BUFFER`), shutdown watch | inject, pass on, drop, reinject, shutdown | `Stages`, `Conduit` |
| thread registry | `thread.rs` | two maps, thread id to chain and back; root id | initialize_root, register_thread, start_chain, extend_chain, prune_for_response, cleanup, clear | `CallChains`, `ThreadRegistry` |
| message processing | `pipeline.rs` 360-438, 534-810 | the registry, the host's DispatchObserver | route, handle, respond, Send, Spawn, acknowledge, report edges | `Conversation` |
| routing table | `routing.rs` | routes by `name.tag`, entries by name | register, resolve, enforce_peers | `Listeners`; over a fixed table in `Conversation` |
| listener registry | `registry.rs` | handlers, schemas and metadata by name, filled before `run()` | register, look up | `Listeners` |
| validation | `validation.rs` | schemas by tag | register, validate a value, validate a document | `Validation`; `Listeners`; a message's fate, in `Stages` |
| middleware | `middleware.rs`, `pipeline.rs` 566-622 | a list | pre in order, short-circuit, handler, post in reverse | `Middleware`; its outcome as one of the handler's, in `Conversation` |
| switchboard | `switchboard.rs` | none of its own; the host's Materializer | route: resolve the instance, stamp its thread, inject | `Instances`; in `Federation` and the `sender` run |
| federation | `federation.rs` | peer directory, keys, marks, authorizer, egress channel | send, seal, open, re-root, stamp, authorize, strip, deliver, run_egress | `Federation`; its frames in `Frames`, its egress channel in `Stages` |
| addresses, provenance | `wire.rs` | none | parse, print, flat, organism, namespace, node, buffer, instance, cache keys; mark, unite, test | `Addresses`, `Provenance`; their use in `Federation` |
| handler trait | `handler.rs` | the host's | handle; checkpoint, restore | its responses, in `Conversation` |
| codec | `codec.rs` | none | encode, decode with its nested readers | `Codec` |
| configuration, errors, aliases | `config.rs`, `error.rs`, `envelope.rs`, `lib.rs` | none | YAML parsing, types, re-exports | not modelled: no behaviour |
| Python mirror, interop example | `python/`, `examples/` | none | the address and frame formats again | its address parser in `Addresses`; the rest is not modelled |

### What is hard about it, and what has to hold

- **Workers come and go under the dispatcher's feet.** A worker that has been
  idle reaps itself while the dispatcher may be looking it up; a handler panic
  leaves a dead worker's sender in the map. Correct means: one live worker per
  thread and the map leads to it, handler calls of a thread never overlap, its
  messages are handled in arrival order and none is lost but to a panic, every
  message is handled in the end, idle workers go.
- **The loop feeds itself through bounded channels.** Correct means: it never
  jams, gates neither reorder nor duplicate, shutdown ends the stages one after
  the other with nothing left behind, and it returns.
- **Responses find their way by chain alone.** No handler knows its caller. The
  registry's maps must stay inverse, ids must not change their meaning, and a
  response must reach the very caller, on its thread, through any nesting,
  recursion and interleaving. A caller must not hang because the callee has
  nothing to say.
- **Tables are keyed differently.** Routes fold names and tags to lower case and
  keep every registration; handlers, peers, metadata and schemas are kept by the
  spelling and keep the last one. What is called, checked and enforced for a
  message must nevertheless belong together.
- **Middleware is an onion.** A hook may short-circuit, transform, replace or
  fail. No handler may be called past a gate that did not let the payload
  through, no response may get out unseen by a layer.
- **The host watches edges.** `on_open` and `on_close` come from different
  workers, after awaits.
- **Nodes do not trust each other's claims.** Frames are lost, repeated and
  overtaken. What a peer sends appears under that peer's namespace, carries the
  mark of every peer link it crossed however it was relayed or answered, and is
  handled where its author addressed it.
- **Frames and documents come damaged.** A frame opens as the node that sealed it
  or not at all, with a length of two bytes at its head. A document may end or
  nest anywhere: no piece of it may be taken for the whole, no reader may spin at
  its end.
- **Instances are threads.** A handler must not be called for an instance that is
  busy, and an envelope for one that cannot be materialized must not run anywhere.
- **The grammar is written more than once.** Two parsers of addresses, two
  validators of payloads, several walks over one address: they have to agree.

`PROJECT.json` lists these one by one under `hazards`, with the line where each
bites and the properties that would notice.

## Modules

**`SerialDelivery`** says what the dispatch stage promises: per thread, one
backlog in arrival order and at most one handler call; a panic takes the backlog
behind it along. It knows no map, lock, worker or timeout.

**`Dispatch`** is `dispatch_stage` and `serial_worker`. `map` is the WorkerMap (a
key maps to the worker whose queue its sender leads to), `lock` its mutex;
`dpc`, `pending` and `tx` are the dispatcher's program counter, the message it
holds and the sender it cloned; `wpc`, `wkey`, `queue` and `cur` belong to the
workers. Acquiring the lock, looking up, sending, and each branch of the worker's
loop are actions of their own, so that the exclusion is shown and not assumed:

| code | action |
|---|---|
| `rx.recv()` yields a message, or nothing | `DRecv`, `DEnd` |
| `workers.lock().await` (dispatcher) | `DLock` |
| `map.get(&key)` hits; misses, `spawn`, `insert` | `DFound`; `DSpawn` |
| `tx.send(m)` succeeds; fails, `map.remove`, loop | `DSend`; `DSendError` |
| `timeout(recv)` yields a message; elapses | `WRecv`; `WExpire` |
| `process_message` returns; panics | `WFinish`; `WPanic` |
| `workers.lock().await` (worker) | `WLock` |
| `try_recv` empty: `map.remove`, break; finds one | `WReap`; `WRescue` |
| the task ends and drops its receiver | `WExit` |

`arrived`, `disposed` and `lost` are histories for the properties.

**`Conduit`** says what the three gates amount to: one line, first in first out,
out of which a gate takes only what is not bound for a local handler, and whose
end is cut off by closing. **`Stages`** is the four tasks, their bounded channels
(`chan`), the one message each gate has in hand (`hold`), shutdown (`signal`,
`alive`), the egress channel and its receiver, and the workers as far as they
feed ingress again. A message carries its *fate*: where it is refused, leaves or
is handled. `fuel` bounds how many generations of responses it calls forth.

**`CallChains`** is `thread.rs` as operators on a registry value, with what a
registry holds (`IsRegistry`) and that its maps agree (`Inverses`);
**`ThreadRegistry`** a state machine that applies them in any order, with the
calls made as a history. Every operation runs under the pipeline's mutex on the
registry and is one step. A chain is the sequence of its segments, so no name
contains a dot; a fresh UUID is one that has never been used.

**`Listeners`** is what a host registers before `run()` and what the pipeline then
makes of it: `handlers`, `routes`, `byName`, `schemas` and `listeners` are the
maps of `ListenerRegistry`, `RoutingTable` and `SchemaRegistry`, `Register` is
`ListenerRegistry::register`, and `Validates`, `Resolves`, `Target` and
`EnforcePeers` are the look-ups of the validate and the route stage for a message.
A handler is known by the number of its registration, a value by the names of
the fields present in it. `log` is the history the properties speak of: each says
which registration governs what, without the tables. The second spelling of a
name is what `Lower` folds.

**`Middleware`** is one handler call with the hooks around it: `at` and `i` are
where `process_message`'s two loops are, `payload` and `result` who made the
payload and the response in hand, and every verdict and error of a hook is an
action. `trace` records the calls and what each was given.

**`Conversation`** joins the registry, the route stage's decisions and
`process_message`. The pipeline before the dispatcher is one line (what `Stages`
implements), the dispatcher and a worker one queue per thread (what `Dispatch`
implements). A handler returns anything it likes: `RespondNone`, `Reply`, `Send`,
`Spawn`, an error (`Fail`), to any target. What a worker still has to do after an
await (`Reinject`, `Open`) is in `steps`, in the order of the code, and
interleaves with everything else. `ledger` is what the observer has told the
host; `calls`, `awaiting`, `refused` and `failed` are histories, and `re` in an
envelope is a ghost: which thread it responds to.

**`Federation`** is several nodes at once: each has a line up to its route stage,
envelopes pending for its handlers in any order, and an egress channel; `network`
is the set of all frames ever sent, so that a frame may be delivered any number
of times, late, or never. `Transmit` is `run_egress` and `send`; `Receive` is
`open`, `reroot_origin`, the edge stamp, the authorizer, the strip and the local
delivery. `Handle` lets a listener answer, call on, spawn or say nothing, as the
pipeline would address it. `via`, `crossed`, `dest` and `route` are ghosts. That
a frame opens only as its sender's is what `Frames` shows.

**`Frames`** is `seal` and `open`, byte by byte but for the ciphertext: the header
with its two-byte length, the nonce, the directory's key. The cipher is ideal:
it opens with the key, nonce and associated data it was made with. What it opens to
has to be decoded still, and may be refused there (`decodes`; what `decode_envelope`
refuses is `Decoder`'s): a blank thread or sender is sealed without an error. `Damage` and
`LoseEnd` are the transport, for a byte anywhere and a cut of any length; `cipher` is
what the ciphertext was made with.

**`Instances`** is the switchboard with the pipeline behind it. A call of `route`
is resolved (`Resolve`, an await), stamped and injected, or fails (`RouteFails`):
no destination, an address the host refuses, an envelope that cannot be encoded, a
closed ingress. Once ingress has the bytes `route` returns Ok, and its caller hears
no more of them: `RouteStage` lets an envelope through that the first gates pass
(its `form`), whose name has a route and whose sender may message it (`Barred` is
what `enforce_peers` refuses), and drops any other without a word. What passes is
handled one at a time per thread, while handlers answer, send on by the registry
of `CallChains`, or fail. A handler call takes time (`Begin`, then `Respond`, `Send`
or `Fail`). `Shutdown` closes ingress at any time and may lose what the parse stage
has not taken. The host's materializer gives an instance a thread of its own at
the first access.

**`Decoder`** is `decode_envelope`, which reads documents event by event: `calls`
is the stack of its nested readers with what each has read so far, and every step
is one turn of the innermost loop. `opened` are the elements the XML reader has
open; it checks that end tags match (`Malformed`). `passed` are the names of the
start tags that no call was made for, for the property to tell them from those
that carry something. A text is its body, the white space around it and how often
it has been escaped. A number, a truth value or a blob is one of the few `Literals`
it is written as, and every text that is none of them, but for two, does not parse
(or is false, as a truth value):
`+7`, which numbers and pairs of hex digits take for 7, and `Astride`, a text that
`prov_from_hex` and `from_hex` slice inside of a character, where they panic. A
panic is an outcome of its own, beside the errors (`Reasons`): in the program it ends
the parse stage's task. Comments, CDATA and declarations are events (`Other`) that
each reader passes over or refuses. The readers call each other as deep as the
document is nested, and the stack is unbounded here, which it is not in the
program. **`Codec`** is `encode_envelope`, which writes an envelope as
the sequence of XML events of its document for `Decoder` to read. A document may
be cut after any event, or be another writer's. Values are nested `MaxNesting` deep
at most, and what is written of them is a function on the values of a depth, given
the one for the values of the depth below.

**`Addresses`** is `Address::parse` character by character, with the accessors as
operators on what it returns, and the Python mirror's parser next to it. **`Wire`**
has it by INSTANCE and states its properties for the runs and the theorems.
**`Provenance`** is the two words of bits and their operations, with the hex form
that carries them between nodes; `marks` is the history it is compared with.

**`Validation`** reads a document as `validate_payload` does, by its depth counter
and its list of seen fields, and keeps beside it the fields of the same value,
which `validate_payload_value` judges.

**`Gates`** puts `Middleware`, `Validation`, `Listeners` and `Decoder` side by side,
for the properties and the theorems to be about the same definitions; they share
nothing.

The `MC` modules give the constants values; `*_proofs` modules hold the theorems.
Where several machines are checked in one run they do not interact: the MC module
extends some, has the others by INSTANCE, and every behaviour is one of `part`, in
which one machine moves and the others stay as they began, so that their states
add up and do not multiply. `MCDispatch` has the workers and, behind the
switchboard, the instances (what is serial per thread and what per instance; the
definitions of `Instances` that `Dispatch` has too bear its name);
`MCFederation` the nodes and what goes between them, frames, addresses and label
sets; `MCGates` what a message has to pass around its handler, codec, validator,
tables and middleware. The fairness of a part is conditioned on being it.
`MCCodec`, `MCListeners` and `MCInstances` hold the inputs.

## Runs

| run | shows |
|---|---|
| `dispatch` | one worker per thread, serial calls, arrival order, loss only behind a panic; `Dispatch` implements `SerialDelivery!FairSpec`; every message is handled, every worker reaped. Instances: serial calls for each, nothing injected where nothing was materialized, nothing handled past a gate or after a failure; every call of `route` returns, and what it injected and the gates pass is handled unless the pipeline is shut down |
| `registry` | inverse maps, stable ids, responses that retrace calls |
| `stages` | bounded channels, ends in order and empty; the gates implement `Conduit`; the ring never jams and shutdown returns |
| `conversation` | chains end with the handler, responses reach the caller, every call is answered |
| `federation` | origins are stamped by the edge, marks accumulate, handlers are called where the author addressed. Frames open as their sender's or not at all, and if intact just when sender, key, length and envelope allow; the parser takes the grammar, printing inverts it, flat names survive, the accessors agree, the mirror reads what a node writes; marks are kept, at the word boundary and in hex, and the mask test is exact |
| `gates` | whole documents are accepted as what was encoded, cut ones never, and decoding always ends, with no panic over what was encoded; the two validators accept the same; which registration routes a message, and which governs its handler, peers and schema; agents reach their peers only; no handler is called past a middleware's gate, no response gets out past a layer |
| `values`, `sender`, `replies_gated`, `ledger`, `unchecked`, `instance_sends` | each refutes a sentence of the repository, see below |

### Bounds

- `dispatch`: two threads; three messages, two of them of one thread, of which
  the first panics; three workers, as many as messages, so that the supply of
  workers is never what stops a run (a worker is spawned for a message in hand);
  routed capacity 2. That is enough for a stale map entry, a retry, an enqueue in
  every window of the reaping and a respawn after each. Safety is proved for all
  values besides.
- `registry`: one external and three generated ids, two names, chains of up to
  five segments (a root of two, and three calls): a recursion through both names,
  whose responses differ in nothing but their depth. Ids are symmetric.
- `stages`: capacity 2, two injections, four kinds of message, one generation of
  responses: a full channel, a refusal in the middle of a line, a departure to a
  peer and shutdown with all of them under way. Its ring: capacity 1 and
  four injections with a response each, more than the ring's channels and hands
  take together.
- `conversation`: one client request, two agents that call each other and, one
  of them, itself, all five outcomes, two calls in all: nesting, recursion, two
  outstanding calls on one thread. Seven ids suffice: a step that needed one
  more would be disabled, and `EveryCallAnswered` would notice.
- `federation`: three nodes in a row, a request to the neighbour's instance and
  one relayed through it, two handler calls, four frame deliveries: a relay and
  an answer's way back, or one frame opened again while another is on its way.

The parts of `gates`, `federation` and `dispatch` that are machines of their own:

- `listeners`: four registrations out of eight kinds, with two spellings of one
  name and of one tag, two schemas for one tag, an agent with peers in either
  spelling and one without: a name registered again as something else, for
  another tag, or in another spelling, in every order. All messages over these
  names, tags and fields are asked about in every state.
- `middleware`: chains of up to three, so that there is an outermost, an innermost
  and one in between.
- `codec`: values of every kind, nested twice, with texts that are empty, blank,
  padded or marked up in every place a text can be, and numbers of either sign, a
  fraction, both truth values, an empty and a filled blob; each document whole and
  cut after every event. And some eighty documents that encoding never makes, with
  unknown elements, comments, stray text, missing and repeated parts at every
  level, every kind of scalar with texts that are not for it or are for it but for
  white space, a sign or a lone `&`, and texts that make the hex readers panic; cut
  likewise. `values` has the same inputs.
- `addresses`: all texts of up to six characters over one letter and the four
  that mean something: two keyed segments, or three plain ones.
- `provenance`: two words of four bits, hex digits of two, and the bits at either
  side of every boundary; two messages that pass marks to each other.
- `frames`: bytes of two values, so that a length field of two bytes holds 3 and
  names of up to 5 overflow it; an envelope
  that decodes or not; two keys, and a directory of one peer or none, since `open`
  looks one up. The theorem is for bytes and nonces of any size.
- `instances`: two callers of one instance with one of another; one of an instance
  with one of an address the host refuses, one of none and one whose envelope
  cannot be written; one of an instance with one whose envelope a gate stops: a
  payload that is refused, a name without a listener, an agent without peers. One
  message sent on by a handler, and shutdown at any time.
- `validation`: documents of up to six events over four tags, against every
  schema over two fields.

A type invariant is a property of a run where it stands by itself (`Stages`,
`Conversation`) or as a conjunct of the property a composing module states
(`AddressesAreRead`, `MarksAreKept`, `RoundTrips`, `ValidatorsAgree`,
`LastRegistrationGoverns`); those of `ThreadRegistry`, `Dispatch`, `Instances`,
`Federation` and `Middleware` are theorems and no run repeats them.

### Fairness

- `Dispatch`: weak fairness of the dispatcher and of every worker (tokio polls
  ready tasks, timers elapse, handler calls end) and strong fairness of acquiring
  the map lock, because tokio's mutex queues its waiters first come first served.
  Nothing is assumed of the route stage.
- `Stages`: weak fairness of every task and worker, and of the transport: a
  transport whose `send` never returns would stop the egress loop, then the route
  stage, then the whole loop. Strong fairness of a worker's reinjection,
  which competes with the host for room in ingress: tokio's channels serve their
  waiting senders in turn.
- `Conversation`: weak fairness of the route stage and of every thread's worker,
  which is what the two modules above provide, and that handler calls end.
- `Instances`: the same, and weak fairness of every call of `route`, whose awaits
  are the host's `resolve` and the room in ingress.
- `Codec`: weak fairness of its next step: a call that nothing suspends runs on.
- The other modules have no liveness property: the transport promises nothing,
  the tables do nothing of their own accord, and the loops run over finite lists.

Deadlock is checked except where the system may stop: when the bounded number of
messages, calls or registrations has been used up, when shutdown has ended, or
when a call is done.

### Where documentation and code differ

Six sentences of the repository are refuted by what the code does; each has a
run that finds a counterexample and an entry under `findings` with the quotation.

- The second sender on a thread id gets no reply; it goes to the first
  (`sender`). All senders to one instance behind a switchboard share an id.
- Replies are not "ungated": an agent with no peers cannot reply (`replies_gated`).
- `on_open` may reach the host after the `on_close` of the same edge, which then
  stays open in its ledger (`ledger`).
- What a handler gets is not always "schema-checked": a tag spelled with other
  capitals is routed alike and has no schema (`unchecked`).
- Not "any [`PayloadValue`] round-trips": a text loses the white space around it, and
  a field name with markup comes back escaped (`values`; `RoundTrips` says exactly
  what comes back).
- "Serial per thread" is not "per instance" for what handlers send: it comes on a
  thread of the call chain's, not on the instance's (`instance_sends`).

Sentences that do not hold as they stand, but whose intent is arguable, so that
no run is made of them: a panicking handler takes the messages queued behind it
along, though the WorkerMap comment (`pipeline.rs` 101-103) speaks of no lost
message (`LostOnlyBehindPanic` says exactly which are lost); a slow handler does
not slow the pipeline (`src/README.md` 120), because worker queues are unbounded,
and have to be, or the loop could jam (the mutant of `RingDrains` bounds them);
a Spawn to a name that no listener has is acknowledged as accepted (`pipeline.rs`
710-711); a `Send` does not suspend its conversation (`handler.rs` 76-77), the
next message of the thread is handled meanwhile; `namespace`
is the first segment and not "the segment before the organism" (`wire.rs` 141)
where there are more than two; the Python mirror, which "mirrors wire::Address",
takes for addresses what Rust refuses, a name with a dot behind it for one
(`MirrorReadsAddresses` is about what a node writes).

Seen on the way, and contradicting nothing that is written: an envelope that a gate
stops is lost although `Switchboard::route` returned Ok; `prov_from_hex` and
`from_hex` panic over a text of the right length with a character of several bytes
in it, which ends the parse stage, and the nested readers have no limit of depth;
the SpawnAck can be
overtaken by the spawned work's result; two outstanding calls of one callee
from one thread share their thread id, and the first to be answered takes the edge
out of the host's ledger; a second thread id
between the same two parties is never registered, so that replies on it are
dropped; the map entry of
a worker that panicked stays until the next message for its thread; a reply to a
caller on another node is addressed to a bare name; of two listeners with schemas
for one tag the last registered decides for both; a payload that middleware
transformed is not validated again; after a short-circuit the post-dispatch hooks
also of the layers run whose pre-dispatch hook did not, and after an error none;
the `max_concurrent` settings of `config.rs` are parsed and used nowhere; no one
calls `Materializer::evict`.

## Proofs

Thirty-seven theorems, for every value of the constants under the modules'
assumptions (capacities are positive, special values are none of the ordinary
ones, the functions have their types). Each is an invariant argument; a bound in
a guard (`MaxDepth`, `MaxFuel`, `MaxInjected`, `MaxCalls`, `MaxReceived`,
`MaxChain`, `MaxName`, `MaxSends`, `MaxEvents`, `MaxRegistered`, `MaxLen`,
`MaxNesting`) is a
constant and any natural number. Every safety property the passing runs check is a
theorem's, except `MarksAreKept`; the properties, and the inductive invariants that
can be evaluated, were first checked by TLC on the runs' instances.

- **`Dispatch_proofs`**: `TypeCorrect`, `ExactlyOneWorker`, `SerialCalls`,
  `ArrivalOrder`, `ReapingLosesNothing` and `ImplementsSerialDelivery` (its
  safety part). One worker per thread is not inductive by itself: it needs who
  holds the lock when (`LockInv`), that the dispatcher's cloned sender is the
  map's entry for the message in hand (`HandInv`), that map entries lead to
  workers spawned for that key (`MapInv`) and what a worker's state says about
  its queue and call (`WorkerInv`). For the refinement `CallInv` adds that a call
  under way is a call of the mapped worker.
- **`CallChains_proofs`** has one lemma per operation of the registry: that it
  keeps the two maps inverse (`Good`), which ids it adds, and that no id that
  stays changes its chain (`Keeps`). The three modules that use a registry rest
  on them.
- **`ThreadRegistry_proofs`**: `TypeCorrect`, `BothDirectionsAgree`,
  `ResponsesFindTheirCaller`, `IdsAreStable`. The invariant is the two maps being
  inverse, every id being external or generated, and every recorded call's chain
  being its caller's and one hop.
- **`Conversation_proofs`**: `TypeCorrect`, for any host; `ChainsCorrect` and
  `ResponsesCorrect`, for an orderly one (below). Every registered thread is a
  request's, its client's or a call's (`ThreadsHold`); a call's chain is its
  caller's, which ends with the caller, and the callee (`CallsHold`); every
  message is at the end of the chain of its thread (`Addressed`), or a request
  that may be the first on it (`Asked`); and a response goes where its call came
  from (`Answers`). The last three are said of the envelopes among a worker's
  remaining `steps` too, which will be sent only after other workers have changed
  the registry.
- **`Stages_proofs`**: `TypeCorrect` and `OrderlyShutdown`, from types and the
  order of the stages' ends; `ImplementsConduit`, that every step of the three
  gates and four channels is one of the line's, or none: the line is the
  concatenation of what channels and gates hold, from the route stage back to
  ingress, and what is behind a gate contains only what that gate lets pass
  (`Sifted`), so that what the route stage takes out for a peer is not one of
  those that are bound for a local handler.
- **`Federation_proofs`**: `TypeCorrect`, `OriginStamped`, `TaintIsKept`,
  `AddressedHandled`. Channels and network hold only *good* envelopes (typed, led
  by the edge they came in by, marked by every link crossed), and the egress
  channel only ones addressed to a node. Injecting, responding, stamping and
  stripping each yield good ones. For the fourth, `RouteInv`: the nodes an
  envelope has come to and the segments that are left are together what its
  author wrote (`Accounted`), and it has come to this node last (`Here`); but for
  an envelope that is addressed to the node and nothing else, whose segment is
  not taken off, and which no route stage passes on to a handler (`NodeOnly`).
- Frames, in the same module: `Frames_Opens` and `Frames_IntactOpen`, whether the
  envelope in the frame decodes or not. The invariant is that the ciphertext was
  made with the sender's own header and some key and nonce, and that the frame is
  damaged just if it is not the sealed one (`CipherOK`); its first four symbols,
  where there are any, are bytes (`FrameOK`). The lemmas say what the header's parts
  are, and that a frame whose header and nonce are those the ciphertext was made
  with is the sealed frame, so that a header that parses to another name does not
  decrypt. It holds for names that overflow the length too: such a frame opens
  nowhere.
- Instances, in `Dispatch_proofs`, as both are of one run: `InstancesTyped`,
  `FailsClosed` and `InstancesSerial`. The invariant is that instances have threads
  of their own, that whatever came by
  the switchboard is on the thread of the instance it is for (`Stamp`) from
  `Resolve`'s await to the handler, and that a worker has nothing of another
  thread (`Routed`).
- **`Gates_proofs`**. Of the middleware, `TypeCorrect`, `GatesHold` and
  `LayersSeeResponses`: the invariant says where each loop is (`PlaceInv`), that
  the calls so far are the layers' in order and the payload in hand is the last
  changer's (`GateInv`), and that the last calls are the inner layers', with the
  response in hand what the last returned (`LayerInv`). Of the validator,
  `ValidatorAgrees`: while it reads it has seen nothing it would refuse, what it
  has counted is what there was, and inside of an element it has found a root
  (`VInv`). Of the tables, `RoutesToFirst`, `GovernedByLast` and `PeersOnly`:
  each entry belongs to one registration, the first for a key (`Leads`), the last
  for a name (`Governs`) or for a tag (`Checks`), and every registration has its
  entries (`TInv`). Of the decoder, `DecoderCloses`, for any document at all: the
  calls that hold an element (`labelled`, a record, a sequence, a scalar) are
  found, in order, among the elements that are open, and every other open element
  is the message or has been passed over (`DInv`). So a document that ends early
  finds a call on the stack that refuses it, or nothing open that means anything.
- The codec, in the same module: `EnvelopesRoundTrip`, for any set of envelopes,
  texts and depth of nesting, with every kind of scalar; the scalars that are no
  texts are the literals of `Decoder`, of which `LiteralRead` says that they are
  read as written. An envelope lays out its document: what is before
  each field of the metadata is settled by the fields before it, and what is
  before each part of a record or a sequence by the parts before it (`Off`). The
  invariant (`RInv`, with `Reading`) gives every call on the decoder's stack its
  part of the envelope: the one at the bottom all of it, and every one above that the
  metadata, or a value that is the payload or a part of the value of the call below
  (`Stack`) and stands in the document from a place on (`At`); what a call holds
  so far is what its value settles to as far as has been read, and the decoder is
  at the place, and in the elements, that this says (`IsAt`). So each event is
  the one the call on top asks for next (`EventRead`): nothing of such a document is
  passed over or refused, and a document cut short ends with a call on the stack
  that has not had what it asks for.
- **`Wire_proofs`**, of texts of any length over any characters. `ParserReads`: the
  parser has the depth of the text so far, the segments so far are, when written,
  that part of the text, and each of its parts between the dots outside of
  brackets is well formed (`Scan`); a result accepts just the grammar's texts and
  is written as the text (`Faithful`). `InstancesAreKept`: what is after the
  organism does not move it, a beginning of an address is written as a beginning
  of its text, and splitting a key takes out nothing but pluses. `MirrorAgrees`:
  turn by turn, as long as no key has a bracket of its own, the mirror is outside
  of a key or in it just as the parser's depth says, and holds the segments, name
  and key that the parser would make of what it has read (`Follows`).

Two theorems have hypotheses beyond the constants' types, because without them
they are false. *An orderly host* (`OrderlyHost`; `ChainsCorrect`,
`ResponsesCorrect`) uses one thread id for each sender and addressee, and its
clients are no listeners, as the runs' host does: of two senders that share an id
the second is answered in the first's stead (`sender`), and a second id between
the same two parties is never registered. *Bare Sends* (`BareSends`;
`InstancesSerial`) are messages of handlers to listeners and not to instances:
`instance_sends` is the counterexample to anything more.

No induction rule of the library can be used, because each has an operator as a
parameter. Where an argument runs along a sequence (what flattening, folding,
splitting and printing yield, and that the recursive functions these are defined
by exist at all) it uses `SetInduction`, which says of a *set* of numbers that it
is all of them and is proved by counting, and what follows from it for sequences
(`SeqInduction`) and for least elements (`LeastExists`).

Left to TLC: liveness (`EveryMessageHandled`, `WorkersEventuallyReaped`, `RingDrains`,
`RingShutsDown`, `EveryCallAnswered`, `CallersAreServed`, `DecoderEnds`, the
liveness part of `DeliversSerially`) and `ENABLED`; and `MarksAreKept`, since
`Provenance` uses Bitwise, which no module with a theorem may. No theorem reaches
that module.

## Not modelled

- `config.rs`, `error.rs`, `envelope.rs`, `lib.rs`: YAML parsing, types and
  re-exports, with no state and no behaviour.
- `Materializer::evict` and the handler trait's `checkpoint` and `restore`, which
  nothing in the repository calls: what they do is the host's.
- A host's recovery after its deadline (`pipeline.rs` 128-131), which is a sentence
  of a comment; the code only reports edges. A failure it injects is another
  injected message, and the late reply comes as well.
- Peers added while frames are on their way: the directory is built before it is
  shared, and nothing changes it then.
- The conversions of numbers and hex, which are the standard library's: `Decoder`
  has a few literals of every kind and what is wrong with others. The stack, which
  a document nested deeply enough overflows.
- What a panic of the parse stage's task leaves behind: `DecoderEnds` shows which
  documents can cause it, and `Stages` has no task that dies.
- The Python mirror's frames and codec, which do what the Rust ones do with
  another library; threads of execution below tokio's tasks; XML as characters.

## Plan

The order was: dispatch with its abstract specification and proofs; the thread
registry with its proofs; the stages and their abstract line; conversations,
which compose registry, routing and workers; federation, which composes nodes;
the tables that are filled before a run, and the middleware around a call; then
what crosses the boundary: codec, addresses, provenance, frames, validation of
documents, and instances behind the switchboard. What is left, most important
first:

1. `Conversation` with clients that are listeners, and a thread whose chain is
   cleaned up while a message for it is in flight.
2. The registry's growth: what ordinary operation never removes.

Theorems to come: that marks are kept (`MarksAreKept`), for which label sets would
have to be sets of bits and the hex form a function of them; and the round trip for
documents of another writer that mean an envelope, with text and elements in between
that the decoder passes over.
