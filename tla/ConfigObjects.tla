---------------------------- MODULE ConfigObjects ----------------------------
(***************************************************************************)
(* createObjects: the agent and the server are made from a configuration   *)
(* file whose parts refer to each other by JSON pointer ($ref), name       *)
(* modules to construct ($require) and environment variables ($env).       *)
(* objectFromPointer keeps what it made in a tree indexed by pointer, so   *)
(* that parts referred to twice (a database connection) are made once.     *)
(*                                                                         *)
(* A pointer is a path of at most two names.  The configuration below a    *)
(* path is a sequence of items in the order resolveRefs meets them: a $ref *)
(* to a path, or the configuration of a child path, made in place.  A made *)
(* object is a number, its index in `made`; 0 is undefined.                *)
(***************************************************************************)
EXTENDS Naturals, Sequences, SequencesExt

CONSTANTS
    Paths,       \* paths of the configuration that pointers may name
    Parent,      \* path -> the path above it, or None
    Configs,     \* configurations: path -> [kind, items], and the pointers asked for
    None

VARIABLES
    config,
    made,      \* the objects made so far: the path each was made for, whole or in part
    memo,      \* `objects`: path -> what was set there
    stack,     \* the calls of objectFromPointer and resolveRefs in progress
    got,       \* history: <<path, object>> for every pointer that was resolved
    outcome    \* running, done, error for a rejected promise, endless for a pending one

vars == <<config, made, memo, stack, got, outcome>>

Children(p) == {q \in Paths : Parent[q] = p}
Items == [ref : BOOLEAN, path : Paths]
RefsIn(items) == {items[i].path : i \in {j \in DOMAIN items : items[j].ref}}
Parts(items) == {items[i].path : i \in {j \in DOMAIN items : ~items[j].ref}}

\* Below a path the parts of it are met in place; createObjects itself meets pointers.
WellFormed(c) ==
    /\ DOMAIN c = Paths \cup {None}
    /\ \A p \in DOMAIN c : c[p].items \in Seq(Items)
    /\ \A p \in Paths : Parts(c[p].items) = Children(p)
    /\ Parts(c[None].items) = {}

Ref(p) == [ref |-> TRUE, path |-> p]
InPlace(p) == [ref |-> FALSE, path |-> p]
Frame(item, items) ==
    [path |-> item.path, ref |-> item.ref, todo |-> items, kids |-> [q \in Paths |-> None]]

\* get(objects, pointer): an object set there; below an object without that property,
\* nothing; above parts that were set on their own, the object that holds just those.
HasParts(p) == memo[p] = None /\ \E q \in Children(p) : memo[q] # None

Found(p) == memo[p] \notin {None, 0} \/ HasParts(p)

\* set(objects, pointer, object).  The parts of a plain object are found below it, those
\* of a constructed one are not.
Set(p, v, kids) ==
    [q \in Paths |->
        CASE q = p -> v
          [] Parent[q] = p -> IF config[p].kind = "plain" THEN kids[q] ELSE None
          [] OTHER -> memo[q]]

Top == Last(stack)
Item == Head(Top.todo)
Advance(frames, kids) ==
    Append(Front(frames), [Last(frames) EXCEPT !.todo = Tail(@), !.kids = kids])

-----------------------------------------------------------------------------
\* objectFromPointer finds an object, or the holder of some parts, and returns it.
Reuse ==
    /\ outcome = "running" /\ Top.todo # <<>> /\ Item.ref
    /\ Found(Item.path)
    /\ IF HasParts(Item.path)
       THEN /\ made' = Append(made, [of |-> Item.path, whole |-> FALSE])
            /\ got' = got \cup {<<Item.path, Len(made')>>}
       ELSE /\ got' = got \cup {<<Item.path, memo[Item.path]>>}
            /\ UNCHANGED made
    /\ stack' = Advance(stack, Top.kids)
    /\ UNCHANGED <<config, memo, outcome>>

\* Mutant: nothing is ever missing.
MissingNever(p) == p = None

Missing(p) == config[p].kind = "falsy"

\* 'Pointer not found', for a missing or falsy part of the configuration.
Reject ==
    /\ outcome = "running" /\ Top.todo # <<>> /\ Item.ref
    /\ ~Found(Item.path) /\ Missing(Item.path)
    /\ outcome' = "error"
    /\ UNCHANGED <<config, made, memo, stack, got>>

\* The part is being made already: nothing is kept for it yet, so it is made once more.
InProgress(p) == \E i \in DOMAIN stack : stack[i].ref /\ stack[i].path = p

\* From there on every call is at the first item it meets, none has resolved one before.
AtFirstItems(p) ==
    \A i, j \in DOMAIN stack :
        stack[i].ref /\ stack[i].path = p /\ i <= j
        => Len(stack[j].todo) = Len(config[stack[j].path].items)

\* The calls repeat for ever.  Past an awaited item each round runs in a microtask of its
\* own: createObjects never settles.  Where nothing is awaited they are nested in one
\* another until the call stack is exhausted, which the try blocks turn into an error.
\* Constants among the items are awaited too, and are not modelled: either may be the case
\* where no item came before.
Recurse ==
    /\ outcome = "running" /\ Top.todo # <<>> /\ Item.ref
    /\ ~Found(Item.path) /\ ~Missing(Item.path) /\ InProgress(Item.path)
    /\ outcome' \in {"endless"} \cup (IF AtFirstItems(Item.path) THEN {"error"} ELSE {})
    /\ UNCHANGED <<config, made, memo, stack, got>>

\* Mutant: an object is set before its parts are there.
EnterEarly ==
    /\ outcome = "running" /\ Top.todo # <<>>
    /\ Item.ref => ~Found(Item.path) /\ ~Missing(Item.path)
    /\ stack' = Append(stack, Frame(Item, config[Item.path].items))
    /\ made' = Append(made, [of |-> Item.path, whole |-> FALSE])
    /\ memo' = IF Item.ref THEN [memo EXCEPT ![Item.path] = Len(made')] ELSE memo
    /\ UNCHANGED <<config, got, outcome>>

\* objectFromPointer makes the object; resolveRefs goes into a part of a part.
Enter ==
    /\ outcome = "running" /\ Top.todo # <<>>
    /\ Item.ref => ~Found(Item.path) /\ ~Missing(Item.path) /\ ~InProgress(Item.path)
    /\ stack' = Append(stack, Frame(Item, config[Item.path].items))
    /\ UNCHANGED <<config, made, memo, got, outcome>>

\* An unset environment variable, and a falsy constant met in place.
Undefined(p) == config[p].kind \in {"unset", "falsy"}

\* All of an object's parts are there: it is constructed, set if a pointer named it, and
\* handed to the part that asked for it.
Make ==
    LET p == Top.path
        v == IF Undefined(p) THEN 0 ELSE Len(made) + 1
    IN
    /\ outcome = "running" /\ Len(stack) > 1 /\ Top.todo = <<>>
    /\ made' = IF Undefined(p) THEN made ELSE Append(made, [of |-> p, whole |-> TRUE])
    /\ IF Top.ref
       THEN /\ memo' = Set(p, v, Top.kids)
            /\ got' = got \cup {<<p, v>>}
            /\ stack' = Advance(Front(stack), Last(Front(stack)).kids)
       ELSE /\ stack' = Advance(Front(stack), [Last(Front(stack)).kids EXCEPT ![p] = v])
            /\ UNCHANGED <<memo, got>>
    /\ UNCHANGED <<config, outcome>>

Return ==
    /\ outcome = "running" /\ Len(stack) = 1 /\ Top.todo = <<>>
    /\ outcome' = "done"
    /\ UNCHANGED <<config, made, memo, stack, got>>

Init ==
    /\ config \in Configs
    /\ made = <<>>
    /\ memo = [p \in Paths |-> None]
    /\ stack = <<Frame([ref |-> FALSE, path |-> None], config[None].items)>>
    /\ got = {}
    /\ outcome = "running"

Next == Reuse \/ Reject \/ Recurse \/ Enter \/ Make \/ Return

Spec == Init /\ [][Next]_vars

-----------------------------------------------------------------------------
(* Properties.                                                             *)

\* Everything resolving p meets, by a $ref or in place.
Needs(p) == RefsIn(config[p].items) \cup Parts(config[p].items)
Closed(S) == \A p \in S : Needs(p) \subseteq S
Reached(p) == {q \in Paths : \A S \in SUBSET Paths : Needs(p) \subseteq S /\ Closed(S) => q \in S}
Named == UNION {RefsIn(config[p].items) : p \in Reached(None) \cup {None}}

\* The shape of the shipped configurations: no pointer names a part of what another names.
Separate == \A p, q \in Named : q \notin Reached(p) \/ Parent[q] # p

\* A part is made once, every pointer to it gets that one object, and gets the whole of it:
\* the plugins that refer to one database connection share it, however deep they are and in
\* whatever order they are met.
PointersShareWholes ==
    Separate =>
        \A a \in got :
            /\ \A b \in got : a[1] = b[1] => a[2] = b[2]
            /\ a[2] # 0 => made[a[2]].of = a[1] /\ made[a[2]].whole

\* createObjects completes exactly when nothing that is asked for needs itself or a missing
\* part, in whatever order the parts are met; else it throws, and it can do without an end
\* or an error only where a part needs itself.
Fails == \E p \in Named : config[p].kind = "falsy" \/ p \in Reached(p)
FailsIffBroken ==
    Separate /\ outcome # "running" =>
        /\ outcome = "done" <=> ~Fails
        /\ outcome = "endless" => \E p \in Named : p \in Reached(p)
=============================================================================
