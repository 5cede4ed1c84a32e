---------------------------- MODULE AttributeMap ----------------------------
(***************************************************************************)
(* AttributeValue and AttributeMap, model/pcommon/common.go.               *)
(*                                                                         *)
(* Both are wrappers of a pointer: an AttributeValue of a pointer to an    *)
(* AnyValue, an AttributeMap of a pointer to a list of key-value entries.  *)
(* An AnyValue of map type holds a pointer to a list of its own, so lists  *)
(* nest, and what a copy must not do is hand that pointer on.              *)
(*                                                                         *)
(* Every method of common.go hands its arguments to the embedded type of   *)
(* model/internal/pdata.  What a method does is taken from its comment in  *)
(* common.go and from common_test.go: Insert leaves an existing key alone  *)
(* and Update a missing one, Get returns a reference into the map, Insert  *)
(* "should perform a deep copy" (TestAttributeValueMap), the order of the  *)
(* entries of NewAttributeMapFromMap is that of a Go map and Sort makes    *)
(* it comparable (TestAttributeMap_InitFromMap).  The setters and Delete   *)
(* are methods of the embedded type only; of the setters the module has    *)
(* what Get's comment says of them.                                        *)
(***************************************************************************)
EXTENDS Naturals, Sequences, FiniteSets, SequencesExt

CONSTANTS
    Keys,       \* attribute keys: numbers, ordered as the strings are
    Scalars,    \* the AnyValues that hold no list, [type, data]
    ValueVars,  \* the AttributeValues the caller holds
    MapVars,    \* the AttributeMaps the caller holds
    MaxLists    \* bound on the key-value lists alive at the same time

Lists    == 1..MaxLists
MapOf(l) == [type |-> "map", data |-> l]
Contents == Scalars \cup {MapOf(l) : l \in Lists}

AttributeValueTypes ==
    {"empty", "string", "int", "double", "bool", "map", "array", "bytes"}

ASSUME /\ Keys \subseteq Nat \ {0}
       /\ \A s \in Scalars : s.type \in AttributeValueTypes \ {"map", "array"}
       /\ \E s \in Scalars : s.type = "empty"
       /\ Cardinality(MapVars) <= MaxLists

VARIABLES
    kvs,  \* kvs[l]: the entries [key, val] of list l, in their order
    av,   \* av[a]: the AnyValue a wraps
    am    \* am[x]: the list x wraps

vars == <<kvs, av, am>>

-----------------------------------------------------------------------------
(* The lists a value or a map holds. *)

Type(c)  == c.type
IsMap(c) == Type(c) = "map"

\* The list of a value of map type; there is none to reach otherwise.
MapVal(c) == IF IsMap(c) THEN <<c.data>> ELSE <<>>

\* The lists in the entries of l, in the order of the entries.
Kids(h, l) == FlattenSeq([i \in DOMAIN h[l] |-> MapVal(h[l][i].val)])

\* The live lists in the order a walk from the caller's variables meets
\* them; todo are the lists still to visit.
RECURSIVE Walk(_, _, _)
Walk(h, todo, seen) ==
    IF todo = <<>> THEN seen
    ELSE IF Head(todo) \in ToSet(seen) THEN Walk(h, Tail(todo), seen)
    ELSE Walk(h, Kids(h, Head(todo)) \o Tail(todo), Append(seen, Head(todo)))

MapSeq   == SetToSeq(MapVars)
ValueSeq == SetToSeq(ValueVars)

FromVars(h, v, m) ==
    Walk(h, [i \in DOMAIN MapSeq |-> m[MapSeq[i]]]
            \o FlattenSeq([i \in DOMAIN ValueSeq |-> MapVal(v[ValueSeq[i]])]),
         <<>>)

Below(h, l) == ToSet(Walk(h, <<l>>, <<>>))
Held(h, c)  == ToSet(Walk(h, MapVal(c), <<>>))
\* The maps a call can be made on: the caller's, and those MapVal returns.
Maps == ToSet(FromVars(kvs, av, am))
Free == Lists \ Maps

\* The value c when list walk[i] has become list i.
Renumbered(c, walk) ==
    IF IsMap(c) THEN MapOf(CHOOSE i \in DOMAIN walk : walk[i] = c.data) ELSE c

\* The step ends with heap h, values v and maps m.  What nothing holds any
\* more is garbage, and which list has which number is not part of the
\* state: the live lists are numbered in the order of the walk.
Numbered(h, v, m, walk) ==
    /\ av' = [a \in ValueVars |-> Renumbered(v[a], walk)]
    /\ am' = [x \in MapVars |-> Renumbered(MapOf(m[x]), walk).data]
    /\ kvs' = [l \in Lists |->
                 IF l \in DOMAIN walk
                 THEN [i \in DOMAIN h[walk[l]] |->
                          [h[walk[l]][i] EXCEPT !.val = Renumbered(@, walk)]]
                 ELSE <<>>]

Becomes(h, v, m) == Numbered(h, v, m, FromVars(h, v, m))

-----------------------------------------------------------------------------
(* Copies *)

\* New lists for the lists of S, one each.
CanCopy(S) == Cardinality(S) <= Cardinality(Free)
Fresh(S)   == CHOOSE g \in [S -> Free] : IsInjective(g)

\* Faulty variant: the copy of a value of map type holds the source's list.
SharedValue(c, g) == c

\* AttributeValue.CopyTo, for one AnyValue: a list is copied, never shared.
CopiedValue(c, g) == IF IsMap(c) THEN MapOf(g[c.data]) ELSE c

CopiedEntries(s, g) == [i \in DOMAIN s |-> [s[i] EXCEPT !.val = CopiedValue(@, g)]]

\* The heap with the lists of DOMAIN g copied to the lists g gives them.
Cloned(g) ==
    [l \in Lists |-> IF l \in Range(g)
                     THEN CopiedEntries(kvs[AntiFunction(g)[l]], g)
                     ELSE kvs[l]]

-----------------------------------------------------------------------------
(* AttributeValue *)

\* NewAttributeValueEmpty, String, Int, Double and Bool.
NewAttributeValue(a, s) ==
    Becomes(kvs, [av EXCEPT ![a] = s], am)

NewAttributeValueMap(a) ==
    /\ Free # {}
    /\ Becomes(kvs, [av EXCEPT ![a] = MapOf(Min(Free))], am)

-----------------------------------------------------------------------------
(* AttributeMap *)

NewAttributeMap(x) ==
    /\ Free # {}
    /\ Becomes(kvs, av, [am EXCEPT ![x] = Min(Free)])

\* The entries come in the order the Go map gives its keys, which is any.
\* Modelled for values that are no maps: what becomes of a list here is
\* decided in the internal package.
NewAttributeMapFromMap(x, attrMap, order) ==
    /\ Free # {}
    /\ ToSet(order) = DOMAIN attrMap /\ Len(order) = Cardinality(DOMAIN attrMap)
    /\ \A k \in DOMAIN attrMap : ~ IsMap(av[attrMap[k]])
    /\ Becomes([kvs EXCEPT ![Min(Free)] =
                    [i \in DOMAIN order |->
                        [key |-> order[i], val |-> av[attrMap[order[i]]]]]],
               av, [am EXCEPT ![x] = Min(Free)])

\* Range with an f that returns false for the keys of stop: the entries f
\* is called with.
Ranged(l, stop) ==
    LET halt == SelectInSeq(kvs[l], LAMBDA e : e.key \in stop)
    IN  IF halt = 0 THEN kvs[l] ELSE SubSeq(kvs[l], 1, halt)

\* Get: the place of the key in the list, 0 for "false".
Get(l, k) == SelectInSeq(kvs[l], LAMBDA e : e.key = k)

\* CopyTo called on what Get returned, to a value of the caller.
ValueCopiedTo(c, dest, g) ==
    Becomes(Cloned(g), [av EXCEPT ![dest] = CopiedValue(c, g)], am)

ValueCopyTo(l, k, dest) ==
    /\ Get(l, k) # 0
    /\ CanCopy(Held(kvs, kvs[l][Get(l, k)].val))
    /\ ValueCopiedTo(kvs[l][Get(l, k)].val, dest,
                     Fresh(Held(kvs, kvs[l][Get(l, k)].val)))

\* A setter called on what Get returned: the value in the map is changed.
SetThroughGet(l, k, s) ==
    /\ Get(l, k) # 0
    /\ Becomes([kvs EXCEPT ![l][Get(l, k)].val = s], av, am)

\* Faulty variant: Insert does not look for the key.
InsertedAlways(l, k, c) == Append(kvs[l], [key |-> k, val |-> c])

Inserted(l, k, c) ==
    IF Get(l, k) = 0 THEN Append(kvs[l], [key |-> k, val |-> c]) ELSE kvs[l]

\* Faulty variant: the entry is written anew, and its key is the empty one.
UpdatedWithoutKey(l, k, c) ==
    IF Get(l, k) # 0 THEN [kvs[l] EXCEPT ![Get(l, k)] = [key |-> 0, val |-> c]]
    ELSE kvs[l]

Updated(l, k, c) ==
    IF Get(l, k) # 0 THEN [kvs[l] EXCEPT ![Get(l, k)].val = c] ELSE kvs[l]

Upserted(l, k, c) ==
    IF Get(l, k) = 0 THEN Inserted(l, k, c) ELSE Updated(l, k, c)

\* Insert, Update and Upsert store a copy of the value they are given, made
\* with the new lists g; entries is the list of the map with the copy in it.
Stored(l, g, entries) ==
    Becomes([Cloned(g) EXCEPT ![l] = entries], av, am)

Stores(l, a) == CanCopy(Held(kvs, av[a]))
NewLists(a)  == Fresh(Held(kvs, av[a]))
Copy(a)      == CopiedValue(av[a], NewLists(a))

Insert(l, k, a) == Stores(l, a) /\ Stored(l, NewLists(a), Inserted(l, k, Copy(a)))
Update(l, k, a) == Stores(l, a) /\ Stored(l, NewLists(a), Updated(l, k, Copy(a)))
Upsert(l, k, a) == Stores(l, a) /\ Stored(l, NewLists(a), Upserted(l, k, Copy(a)))

ByKey(e1, e2) == e1.key < e2.key

Sorted(s) == SortSeq(s, ByKey)

Sort(l) == Becomes([kvs EXCEPT ![l] = Sorted(@)], av, am)

\* CopyTo, for two maps of which none is inside the other.
Apart(l, dest) == dest \notin Below(kvs, l) /\ l \notin Below(kvs, dest)

\* The destination has the entries of the source and no other.
CopiedTo(l, dest, g) ==
    [Cloned(g) EXCEPT ![dest] = CopiedEntries(kvs[l], g)]

CopyTo(l, dest) ==
    /\ Apart(l, dest)
    /\ CanCopy(Below(kvs, l) \ {l})
    /\ Becomes(CopiedTo(l, dest, Fresh(Below(kvs, l) \ {l})), av, am)

-----------------------------------------------------------------------------
Init ==
    /\ kvs = [l \in Lists |-> <<>>]
    /\ av = [a \in ValueVars |-> CHOOSE s \in Scalars : Type(s) = "empty"]
    /\ am = CHOOSE m \in [MapVars -> Lists] : IsInjective(m)

Next ==
    \/ \E a \in ValueVars, s \in Scalars : NewAttributeValue(a, s)
    \/ \E a \in ValueVars : NewAttributeValueMap(a)
    \/ \E x \in MapVars : NewAttributeMap(x)
    \/ \E x \in MapVars, K \in SUBSET Keys :
          \E attrMap \in [K -> ValueVars], order \in SetToSeqs(K) :
              NewAttributeMapFromMap(x, attrMap, order)
    \/ \E l \in Maps, k \in Keys, s \in Scalars : SetThroughGet(l, k, s)
    \/ \E l \in Maps, k \in Keys, a \in ValueVars :
          \/ Insert(l, k, a) \/ Update(l, k, a) \/ Upsert(l, k, a)
          \/ ValueCopyTo(l, k, a)
    \/ \E l \in Maps : Sort(l)
    \/ \E l, dest \in Maps : CopyTo(l, dest)

Spec == Init /\ [][Next]_vars

-----------------------------------------------------------------------------
TypeOK ==
    /\ kvs \in [Lists -> Seq([key : Keys, val : Contents])]
    /\ av \in [ValueVars -> Contents]
    /\ am \in [MapVars -> Lists]

\* What a value is to a reader who follows every list it holds in heap h:
\* its type, its data, and for a map the entries with what they are in turn.
RECURSIVE Deep(_, _, _)
Deep(h, c, fuel) ==
    IF IsMap(c)
    THEN [type |-> "map", data |-> 0,
          kv |-> IF fuel = 0 THEN <<>>
                 ELSE [i \in DOMAIN h[c.data] |->
                          [h[c.data][i] EXCEPT !.val = Deep(h, @, fuel - 1)]]]
    ELSE [type |-> c.type, data |-> c.data, kv |-> <<>>]

Value(c)      == Deep(kvs, c, MaxLists)
EntriesIn(h, l) == Deep(h, MapOf(l), MaxLists).kv
Entries(l)    == EntriesIn(kvs, l)

\* Range is never given a key twice: Insert leaves a key that is there
\* alone, Upsert updates it, and a Go map has every key once.
KeysUnique ==
    \A l \in Lists :
        IsInjective([i \in DOMAIN Ranged(l, {}) |-> Ranged(l, {})[i].key])

\* What the caller holds in one variable changes only by a call on that
\* variable or on a map inside it: Insert, Update, Upsert and both CopyTo
\* copy the lists of a value of map type, so that a later write through
\* Get or MapVal on one side is not seen on the other
\* (TestAttributeValueMap).
WritesStayLocal ==
    [][Cardinality({a \in ValueVars : Value(av[a])' # Value(av[a])})
       + Cardinality({x \in MapVars : Entries(am[x])' # Entries(am[x])}) <= 1]_vars

=============================================================================
