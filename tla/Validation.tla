------------------------------ MODULE Validation ------------------------------
(***************************************************************************)
(* The validator of XML payloads (validation.rs: validate_payload), which  *)
(* counts its way through the events of any document, next to the one for  *)
(* decoded values (validate_payload_value), which looks at a record's      *)
(* fields.  The document is produced as it is read: well-formed, but it    *)
(* may end before its elements do and have several roots.                  *)
(***************************************************************************)
EXTENDS Integers, Sequences

CONSTANTS
    Tags,       \* element names, without their prefixes
    Schemas,    \* schemas: root, fields, required fields, strict or not
    MaxEvents,  \* bound: the events of a document
    None

ValidationAssumption ==
    /\ Schemas \subseteq [root : Tags, fields : SUBSET Tags, required : SUBSET Tags, strict : BOOLEAN]
    /\ \A s \in Schemas : s.required \subseteq s.fields
    /\ MaxEvents \in Nat /\ None \notin {"ok", "error"}

VARIABLES
    schema,
    depth,      \* open elements, by the validator's count
    foundRoot,
    foundFields,
    result,     \* None while it reads
    path,       \* the open elements of the document
    roots,      \* history: its roots so far
    children,   \* history: their direct children
    events      \* events so far

doc == <<path, roots, children, events>>
vars == <<schema, depth, foundRoot, foundFields, result, doc>>

TypeOK ==
    /\ schema \in Schemas
    /\ depth = Len(path) \/ result # None
    /\ foundRoot \in BOOLEAN /\ foundFields \subseteq Tags
    /\ result \in {None, "ok", "error"}

Init ==
    /\ schema \in Schemas
    /\ depth = 0 /\ foundRoot = FALSE /\ foundFields = {} /\ result = None
    /\ path = <<>> /\ roots = {} /\ children = {} /\ events = 0
-----------------------------------------------------------------------------
(* The document.                                                           *)

Appears(tag) ==
    /\ events < MaxEvents /\ events' = events + 1
    /\ roots' = IF path = <<>> THEN roots \cup {tag} ELSE roots
    /\ children' = IF Len(path) = 1 THEN children \cup {tag} ELSE children
-----------------------------------------------------------------------------
(* validate_payload.                                                       *)

\* Mutant of Tagged: whatever is inside of the root is a field of it.
TaggedDeep(tag, d) ==
    LET refused == IF d = 1 THEN tag # schema.root ELSE schema.strict /\ tag \notin schema.fields
    IN  /\ result' = IF refused THEN "error" ELSE None
        /\ foundRoot' = (foundRoot \/ (d = 1 /\ ~refused))
        /\ foundFields' = IF d > 1 /\ ~refused THEN foundFields \cup {tag} ELSE foundFields

\* A start tag at depth d: the root, one of its children, or deeper and let be.
Tagged(tag, d) ==
    LET child == d = 2 /\ foundRoot
        refused == \/ d = 1 /\ tag # schema.root
                   \/ child /\ schema.strict /\ tag \notin schema.fields
    IN  /\ result' = IF refused THEN "error" ELSE None
        /\ foundRoot' = (foundRoot \/ (d = 1 /\ ~refused))
        /\ foundFields' = IF child /\ ~refused THEN foundFields \cup {tag} ELSE foundFields

Start(tag) ==
    /\ result = None /\ Appears(tag) /\ path' = Append(path, tag)
    /\ depth' = depth + 1
    /\ Tagged(tag, depth')
    /\ UNCHANGED schema

\* A self-closing element is counted in and out.
Empty(tag) ==
    /\ result = None /\ Appears(tag) /\ UNCHANGED path
    /\ Tagged(tag, depth + 1)
    /\ UNCHANGED <<schema, depth>>

End ==
    /\ result = None /\ path # <<>> /\ path' = SubSeq(path, 1, Len(path) - 1)
    /\ events < MaxEvents /\ events' = events + 1
    /\ depth' = depth - 1
    /\ UNCHANGED <<schema, foundRoot, foundFields, result, roots, children>>

Eof ==
    /\ result = None
    /\ result' = IF foundRoot /\ schema.required \subseteq foundFields THEN "ok" ELSE "error"
    /\ UNCHANGED <<schema, depth, foundRoot, foundFields, doc>>

Next == End \/ Eof \/ \E tag \in Tags : Start(tag) \/ Empty(tag)

Spec == Init /\ [][Next]_vars
-----------------------------------------------------------------------------
(* Properties.                                                             *)

\* validate_payload_value, of a record with these fields.
ValueConforms(present) ==
    /\ schema.strict => present \subseteq schema.fields
    /\ schema.required \subseteq present

\* Both validators accept the same payloads: a document passes just if every
\* root of it is the schema's and a record of the roots' direct children would
\* pass as a value, however deep or empty its elements are ("the encapsulated
\* counterpart", validation.rs:163-198); and it does not matter whether the
\* document has been read to its end.
ValidatorsAgree ==
    result # None => (result = "ok" <=> roots = {schema.root} /\ ValueConforms(children))
=============================================================================
