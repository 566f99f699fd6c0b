------------------------------ MODULE Listeners ------------------------------
(***************************************************************************)
(* Who can be called, with what and by whom (registry.rs, routing.rs and   *)
(* validation.rs): the tables a host fills by registering listeners, and   *)
(* how the validate and the route stage and the dispatch consult them for  *)
(* a message.  A listener may be registered for several tags, by several   *)
(* registrations; names and tags come in several spellings, which routes   *)
(* fold to lower case and the other tables tell apart.                     *)
(***************************************************************************)
EXTENDS Naturals, Sequences

CONSTANTS
    Names,          \* spellings of names
    Tags,           \* spellings of payload tags
    Lower,          \* [Names \cup Tags -> Names \cup Tags]: to_lowercase
    Fields,         \* names of the fields of records
    Registrations,  \* what the host may register
    NoSchema,       \* schema: None
    MaxRegistered   \* bound: how many registrations there are

\* PayloadSchema: the fields it names, those it requires, and its mode.
Schema == [root : Tags, fields : SUBSET Fields, required : SUBSET Fields, strict : BOOLEAN]

Registration ==
    [name : Names, tag : Tags, isAgent : BOOLEAN, peers : SUBSET Names,
     schema : Schema \cup {NoSchema}]

ListenersAssumption ==
    /\ Lower \in [Names \cup Tags -> Names \cup Tags]
    /\ \A s \in Names \cup Tags : Lower[Lower[s]] = Lower[s]
    /\ Registrations \subseteq Registration
    /\ \A q \in Registrations : q.schema # NoSchema => q.schema.required \subseteq q.schema.fields
    /\ MaxRegistered \in Nat

VARIABLES
    handlers,   \* name -> handler, known by the number of its registration
    routes,     \* folded name and tag -> the entries registered for them
    byName,     \* name -> entry
    schemas,    \* tag -> schema
    listeners,  \* name -> ListenerMeta
    log         \* history: the registrations, the oldest first

vars == <<handlers, routes, byName, schemas, listeners, log>>

Entry == [name : Names, isAgent : BOOLEAN, peers : SUBSET Names]

RouteKey(name, tag) == <<Lower[name], Lower[tag]>>

TypeOK ==
    /\ handlers \in [DOMAIN handlers -> 1..Len(log)] /\ DOMAIN handlers \subseteq Names
    /\ routes \in [DOMAIN routes -> Seq(Entry) \ {<<>>}]
    /\ DOMAIN routes \subseteq {RouteKey(n, t) : n \in Names, t \in Tags}
    /\ byName \in [DOMAIN handlers -> Entry]
    /\ schemas \in [DOMAIN schemas -> Schema] /\ DOMAIN schemas \subseteq Tags
    /\ listeners \in [DOMAIN handlers -> [tag : Tags, isAgent : BOOLEAN, peers : SUBSET Names]]
    /\ log \in Seq(Registrations) /\ Len(log) <= MaxRegistered

EmptyMap == [x \in {} |-> x]

Init ==
    /\ handlers = EmptyMap /\ routes = EmptyMap /\ byName = EmptyMap
    /\ schemas = EmptyMap /\ listeners = EmptyMap
    /\ log = <<>>
-----------------------------------------------------------------------------
(* Registration, before run().                                             *)

\* Mutant of Put: what is there already stays (HashMap::entry, or_insert).
PutIfAbsent(f, k, v) == [x \in DOMAIN f \cup {k} |-> IF x \in DOMAIN f THEN f[x] ELSE v]

\* HashMap::insert.
Put(f, k, v) == [x \in DOMAIN f \cup {k} |-> IF x = k THEN v ELSE f[x]]

\* Mutant of Push: the newest entry comes first.
PushFront(f, k, v) == Put(f, k, IF k \in DOMAIN f THEN <<v>> \o f[k] ELSE <<v>>)

\* entry(k).or_default().push(v)
Push(f, k, v) == Put(f, k, IF k \in DOMAIN f THEN Append(f[k], v) ELSE <<v>>)

\* register: handler, route, schema if any, metadata.
Register(q) ==
    LET entry == [name |-> q.name, isAgent |-> q.isAgent, peers |-> q.peers]
    IN  /\ Len(log) < MaxRegistered
        /\ handlers' = Put(handlers, q.name, Len(log) + 1)
        /\ routes' = Push(routes, RouteKey(q.name, q.tag), entry)
        /\ byName' = Put(byName, q.name, entry)
        /\ schemas' = IF q.schema = NoSchema THEN schemas ELSE Put(schemas, q.schema.root, q.schema)
        /\ listeners' = Put(listeners, q.name,
             [tag |-> q.tag, isAgent |-> q.isAgent, peers |-> q.peers])
        /\ log' = Append(log, q)

Next == \E q \in Registrations : Register(q)

Spec == Init /\ [][Next]_vars
-----------------------------------------------------------------------------
(* What becomes of a message: its sender, addressee, tag and the fields of *)
(* its value (a value that is no record has none).                         *)

Message == [from : Names, to : Names, tag : Tags, present : SUBSET Fields]

\* validate_payload_value
Conforms(present, schema) ==
    /\ schema.strict => present \subseteq schema.fields
    /\ schema.required \subseteq present

\* validate_value: a tag without a schema is not checked.
Validates(m) == m.tag \in DOMAIN schemas => Conforms(m.present, schemas[m.tag])

Resolves(m) == RouteKey(m.to, m.tag) \in DOMAIN routes

\* resolve, and the first match.
Target(m) == Head(routes[RouteKey(m.to, m.tag)]).name

\* Mutant of EnforcePeers: the addressee's spelling is compared.
EnforcePeersOnAddress(m) ==
    m.from \in DOMAIN byName /\ byName[m.from].isAgent => m.to \in byName[m.from].peers

\* enforce_peers, of the sender and the target.
EnforcePeers(m) ==
    m.from \in DOMAIN byName /\ byName[m.from].isAgent => Target(m) \in byName[m.from].peers

\* The message reaches a worker.
Routed(m) == Validates(m) /\ Resolves(m) /\ EnforcePeers(m)
-----------------------------------------------------------------------------
(* Properties, in terms of what has been registered.                       *)

\* The registrations that a message's name and tag lead to, in whatever spelling.
Matching(m) ==
    {i \in DOMAIN log : RouteKey(log[i].name, log[i].tag) = RouteKey(m.to, m.tag)}

\* The registrations under a name, in this spelling.
Under(name) == {i \in DOMAIN log : log[i].name = name}

Last(S) == CHOOSE i \in S : \A j \in S : j <= i
First(S) == CHOOSE i \in S : \A j \in S : i <= j

\* A message goes to the listener that was registered first for its name and
\* tag (route_stage: "take the first match", pipeline.rs:404-405), so that no
\* later registration diverts it; and it has a handler to be called
\* (process_message: "registry inconsistency", pipeline.rs:541-547).
FirstRegistrationRoutes ==
    \A m \in Message :
        /\ Resolves(m) <=> Matching(m) # {}
        /\ Resolves(m) => Target(m) = log[First(Matching(m))].name
        /\ Resolves(m) => Target(m) \in DOMAIN handlers

\* The tables kept by name speak of one and the same registration, the last
\* under that name: the handler called, the peers enforced and the metadata
\* reported belong together (ListenerRegistry::register, registry.rs:66-103).
LastRegistrationGoverns ==
    \A n \in Names :
        /\ n \in DOMAIN handlers <=> Under(n) # {}
        /\ Under(n) # {} =>
             LET q == log[Last(Under(n))]
             IN  /\ handlers[n] = Last(Under(n))
                 /\ byName[n] = [name |-> n, isAgent |-> q.isAgent, peers |-> q.peers]
                 /\ listeners[n] = [tag |-> q.tag, isAgent |-> q.isAgent, peers |-> q.peers]

\* An agent reaches its declared peers and nobody else, however it spells the
\* addressee and whoever else has been registered for it (routing.rs:1-5: "even
\* if a handler tries to forge a target, the pipeline catches it").
AgentsReachPeersOnly ==
    \A m \in Message :
        Routed(m) /\ Under(m.from) # {} /\ log[Last(Under(m.from))].isAgent =>
            Target(m) \in log[Last(Under(m.from))].peers

\* The schemas registered for a tag in this spelling.
SchemasFor(tag) == {i \in DOMAIN log : log[i].schema # NoSchema /\ log[i].schema.root = tag}

\* What a handler is given has passed the schema of its tag, the last one
\* registered for it (validation.rs:8-9, registry.rs:94-96).
TaggedPayloadsConform ==
    \A m \in Message :
        Routed(m) /\ SchemasFor(m.tag) # {} =>
            Conforms(m.present, log[Last(SchemasFor(m.tag))].schema)

\* "By the time a handler gets this, the pipeline has ... schema-checked the
\* value" (handler.rs:19-21): what is routed conforms to the schema that is the
\* only one registered for its tag, spelled as routing spells it.
HandlersGetCheckedPayloads ==
    \A m \in Message :
        Routed(m) =>
            \A i \in DOMAIN log :
                {j \in DOMAIN log : log[j].schema # NoSchema /\ Lower[log[j].schema.root] = Lower[m.tag]} = {i}
                    => Conforms(m.present, log[i].schema)
=============================================================================
