------------------------------- MODULE Storer -------------------------------
(***************************************************************************)
(* What a storage.Storer promises, as the in-memory storage                *)
(* (storage/memory/storage.go) keeps it: objects, references, shallow      *)
(* commits, and the two files kept whole, the index and the config.  call  *)
(* is the last call that returned and out its outcome.                     *)
(***************************************************************************)
CONSTANTS
    Name,    \* reference names
    Object,  \* objects, and so the values of references
    Cell,    \* the whole files: index, config
    Value,   \* their contents
    None     \* no reference

VARIABLES objects, refs, shallow, cells, call, out

contents == <<objects, refs, shallow, cells>>
vars == <<objects, refs, shallow, cells, call, out>>

\* A storage with anything in it; NewStorage makes an empty one.
Init ==
    /\ objects \in SUBSET Object
    /\ refs \in [Name -> Object \cup {None}]
    /\ shallow \in SUBSET Object
    /\ cells \in [Cell -> Value]
    /\ call = <<"none">> /\ out = "ok"

\* The call, named with its arguments, and how it ends.
Ends(name, outcome) == call' = name /\ out' = outcome

SetEncodedObject(o) ==
    /\ objects' = objects \cup {o}
    /\ Ends(<<"object", o>>, "ok")
    /\ UNCHANGED <<refs, shallow, cells>>

SetReference(n, o) ==
    /\ refs' = [refs EXCEPT ![n] = o]
    /\ Ends(<<"set", n, o>>, "ok")
    /\ UNCHANGED <<objects, shallow, cells>>

\* Only a reference that has the old value gets the new one.
CheckAndSetReference(n, old, o) ==
    /\ Ends(<<"check", n, old, o>>,
            CASE refs[n] = None -> "missing"
              [] refs[n] \notin {None, old} -> "changed"
              [] OTHER -> "ok")
    /\ refs' = IF refs[n] = old THEN [refs EXCEPT ![n] = o] ELSE refs
    /\ UNCHANGED <<objects, shallow, cells>>

\* A removal that fails may have been carried out.
RemoveReference(n, outcome) ==
    /\ refs' = [refs EXCEPT ![n] = None]
    /\ Ends(<<"remove", n>>, outcome)
    /\ UNCHANGED <<objects, shallow, cells>>

SetShallow(s) ==
    /\ shallow' = s
    /\ Ends(<<"shallow", s>>, "ok")
    /\ UNCHANGED <<objects, refs, cells>>

\* SetIndex, SetConfig
SetCell(c, v) ==
    /\ cells' = [cells EXCEPT ![c] = v]
    /\ Ends(<<"cell", c, v>>, "ok")
    /\ UNCHANGED <<objects, refs, shallow>>

\* A call that fails, as SetConfig of an invalid config does, changes nothing.
Fails == out' = "error" /\ UNCHANGED contents

\* A call that does not concern this content: the reflog, Commit.
Other ==
    /\ call'[1] \in {"reflog", "commit"} /\ out' \in {"ok", "committed"}
    /\ UNCHANGED contents

Next ==
    \/ \E o \in Object : SetEncodedObject(o)
    \/ \E n \in Name, o \in Object : SetReference(n, o)
    \/ \E n \in Name, old, o \in Object : CheckAndSetReference(n, old, o)
    \/ \E n \in Name, outcome \in {"ok", "error"} : RemoveReference(n, outcome)
    \/ \E s \in SUBSET Object : SetShallow(s)
    \/ \E c \in Cell, v \in Value : SetCell(c, v)
    \/ Fails \/ Other

Spec == Init /\ [][Next]_vars
=============================================================================
