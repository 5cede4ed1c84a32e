--------------------------- MODULE EntitiesSlice ---------------------------
(***************************************************************************)
(* ScopeEntitiesSlice, pdata/pentity/generated_scopeentitiesslice.go.      *)
(*                                                                         *)
(* A ScopeEntitiesSlice wraps a pointer to a Go slice of pointers to       *)
(* elements, and a pointer to a state word it shares with its parent.  A   *)
(* Go slice is a backing array, a length and a capacity: the slots between *)
(* the length and the capacity are out of sight but keep what was last     *)
(* written to them.  The module keeps exactly that: the array with its     *)
(* hidden slots, the identity of every element, and one value per element  *)
(* standing for its content.                                               *)
(*                                                                         *)
(* The program is sequential: every operation is one step.  A panic is an  *)
(* outcome of a step; the caller recovers and goes on, as the tests do.    *)
(***************************************************************************)
EXTENDS Naturals, Sequences, FiniteSets, SequencesExt

CONSTANTS
    Slices,      \* the ScopeEntitiesSlice instances, each with its own orig
    MaxObjects,  \* bound on the elements alive at the same time
    Values,      \* what an element may hold; 0 is the empty element
    MaxLen,      \* bound on len(*es.orig)
    MaxCap       \* bound on the argument of EnsureCapacity

ASSUME /\ MaxObjects \in Nat \ {0}
       /\ Values \subseteq Nat /\ 0 \in Values
       /\ MaxLen \in Nat \ {0} /\ MaxCap \in Nat \ {0}

Ptrs == 1..MaxObjects     \* addresses of otlpentities.ScopeEntities
Nil  == 0                 \* the nil pointer
Zero == 0                 \* otlpentities.ScopeEntities{}

VARIABLES
    orig,    \* orig[s]: *s.orig as [nil, arr, len]; cap is Len(arr)
    state,   \* state[s]: *s.state, "mutable" or "readonly"
    val,     \* val[p]: the content of the element at address p
    panic    \* how the last call ended: "none", "readonly", "nil"

vars == <<orig, state, val, panic>>

NilSlice   == [nil |-> TRUE, arr |-> <<>>, len |-> 0]    \* []*T(nil)
EmptySlice == [nil |-> FALSE, arr |-> <<>>, len |-> 0]   \* []*T{}

Cap(sl)     == Len(sl.arr)
Visible(sl) == SubSeq(sl.arr, 1, sl.len)
Slots(sl)   == Range(sl.arr) \ {Nil}
At(s, i)    == orig[s].arr[i]
Contents(o, v, s) == [i \in 1..o[s].len |-> v[o[s].arr[i]]]

Mutable(s) == state[s] = "mutable"

-----------------------------------------------------------------------------
(* The Go runtime: allocation, make and append. *)

Referenced(o) == UNION {Slots(o[s]) : s \in Slices}
Free          == Ptrs \ Referenced(orig)
CanAllocate(n) == Cardinality(Free) >= n
Fresh(n)       == SubSeq(SetToSortSeq(Free, <), 1, n)

\* Elements nothing points to are gone.
Collected(o, v) == [p \in Ptrs |-> IF p \in Referenced(o) THEN v[p] ELSE Zero]

Padded(seq, c) == seq \o [i \in 1..(c - Len(seq)) |-> Nil]

\* growslice for slices of pointers: twice the old capacity or what is
\* needed, rounded up to an allocation size class.
SizeClasses == {1, 2, 3, 4, 6, 8}
GrownCap(old, needed) ==
    Min({c \in SizeClasses :
            c >= (IF needed > 2 * old THEN needed ELSE 2 * old)})

\* Faulty variants: what is appended replaces what was there; the array is
\* taken to have room for one element more than it has.
AppendedReplacing(sl, ps) == [nil |-> FALSE, len |-> Len(ps), arr |-> ps]
AppendedPastCap(sl, ps) ==
    [sl EXCEPT !.len = sl.len + Len(ps),
               !.arr = [i \in 1..Cap(sl) |->
                          IF i > sl.len THEN ps[1] ELSE sl.arr[i]]]

\* append(sl, ps...)
Appended(sl, ps) ==
    LET n == sl.len + Len(ps)
    IN  IF n <= Cap(sl)
        THEN [sl EXCEPT !.len = n,
                        !.arr = [i \in 1..Cap(sl) |->
                                   IF i \in (sl.len + 1)..n
                                   THEN ps[i - sl.len] ELSE sl.arr[i]]]
        ELSE [nil |-> FALSE, len |-> n,
              arr |-> Padded(Visible(sl) \o ps, GrownCap(Cap(sl), n))]

-----------------------------------------------------------------------------
(* How a call ends. *)

Returns(o, v) ==
    /\ orig' = o
    /\ val' = Collected(o, v)
    /\ panic' = "none"
    /\ UNCHANGED state

\* state.AssertMutable() of a read-only slice.
AssertMutableFails(ss) ==
    /\ \E s \in ss : ~ Mutable(s)
    /\ panic' = "readonly"
    /\ UNCHANGED <<orig, state, val>>

\* A nil pointer is dereferenced after the call has got as far as o, v.
NilDereference(o, v) ==
    /\ orig' = o
    /\ val' = Collected(o, v)
    /\ panic' = "nil"
    /\ UNCHANGED state

-----------------------------------------------------------------------------
(* NewScopeEntitiesSlice, and newScopeEntitiesSlice over an empty slice of *)
(* the parent.                                                             *)
Init ==
    /\ orig \in [Slices -> {NilSlice, EmptySlice}]
    /\ state = [s \in Slices |-> "mutable"]
    /\ val = [p \in Ptrs |-> Zero]
    /\ panic = "none"

EnsureCapacity(s, newCap) ==
    \/ AssertMutableFails({s})
    \/ /\ Mutable(s)
       /\ Returns(IF newCap <= Cap(orig[s])
                  THEN orig
                  ELSE [orig EXCEPT ![s] =
                          [nil |-> FALSE, len |-> @.len,
                           arr |-> Padded(Visible(@), newCap)]],
                  val)

AppendEmpty(s) ==
    \/ AssertMutableFails({s})
    \/ /\ Mutable(s)
       /\ orig[s].len < MaxLen
       /\ CanAllocate(1)
       /\ LET p == Fresh(1)[1]
          IN  Returns([orig EXCEPT ![s] = Appended(@, <<p>>)],
                      [val EXCEPT ![p] = Zero])

\* Faulty variants: the source is not cleared; only dest is asserted.
NotCleared(sl)          == sl
DestMustBeMutable(es, dest) == {dest}

Cleared(sl)                 == NilSlice
BothMustBeMutable(es, dest) == {es, dest}

MoveAndAppendTo(es, dest) ==
    \/ AssertMutableFails(BothMustBeMutable(es, dest))
    \/ /\ \A s \in BothMustBeMutable(es, dest) : Mutable(s)
       /\ orig[dest].len + orig[es].len <= MaxLen
       /\ LET moved == IF orig[dest].nil
                       THEN orig[es]
                       ELSE Appended(orig[dest], Visible(orig[es]))
          IN  Returns([orig EXCEPT ![dest] = moved, ![es] = Cleared(@)], val)

\* Faulty variant: the survivors are counted but not moved down.
CompactedWithoutMove(sl, R) ==
    [sl EXCEPT !.len = Cardinality(1..sl.len \ R)]

\* The loop of RemoveIf, where R are the indices f says true for: every
\* other element is written to slot newLen, and the slice is cut there.
Compacted(sl, R) ==
    LET keep(acc, i) ==
            IF i \in R THEN acc
            ELSE [acc EXCEPT !.arr[acc.len + 1] = acc.arr[i], !.len = @ + 1]
    IN  FoldLeftDomain(keep, [sl EXCEPT !.len = 0], Visible(sl))

RemoveIf(s, R) ==
    \/ AssertMutableFails({s})
    \/ /\ Mutable(s)
       /\ Returns([orig EXCEPT ![s] = Compacted(@, R)], val)

\* Faulty variant: the last element is not copied.
CopiedButLast(v, src, dst, n) ==
    FoldLeft(LAMBDA w, i : [w EXCEPT ![dst[i]] = w[src[i]]], v,
             [i \in 1..(IF n > 0 THEN n - 1 ELSE 0) |-> i])

FitsDest(es, dest) == orig[es].len <= Cap(orig[dest])

\* The element-wise CopyTo of the first n elements of src into those of dst,
\* one after the other.
Copied(v, src, dst, n) ==
    FoldLeft(LAMBDA w, i : [w EXCEPT ![dst[i]] = w[src[i]]], v,
             [i \in 1..n |-> i])

CopyTo(es, dest) ==
    LET srcLen == orig[es].len
        src    == orig[es].arr
        \* line 131, or lines 137 to 140
        fast   == [orig[dest] EXCEPT !.len = srcLen]
        slow   == [nil |-> FALSE, len |-> srcLen, arr |-> Fresh(srcLen)]
        dst    == IF FitsDest(es, dest) THEN fast.arr ELSE slow.arr
        nilAt  == {i \in 1..srcLen : src[i] = Nil \/ dst[i] = Nil}
        resliced == [orig EXCEPT ![dest] = fast]
    IN  \/ AssertMutableFails({dest})
        \/ /\ Mutable(dest)
           /\ FitsDest(es, dest)
           /\ IF nilAt = {}
              THEN Returns(resliced, Copied(val, src, dst, srcLen))
              ELSE NilDereference(resliced,
                                  Copied(val, src, dst, Min(nilAt) - 1))
        \/ /\ Mutable(dest)
           /\ ~ FitsDest(es, dest)
           /\ CanAllocate(srcLen)
           /\ IF nilAt = {}
              THEN Returns([orig EXCEPT ![dest] = slow],
                           Copied(val, src, dst, srcLen))
              ELSE NilDereference(orig, val)

\* Faulty variant: a sort that is not stable.
SortedUnstable(sl) ==
    LET before(i, j) == \/ val[sl.arr[i]] < val[sl.arr[j]]
                        \/ val[sl.arr[i]] = val[sl.arr[j]] /\ i > j
        order == SetToSortSeq(1..sl.len, before)
    IN  [sl EXCEPT !.arr = [i \in 1..Cap(sl) |->
                              IF i <= sl.len THEN sl.arr[order[i]] ELSE @[i]]]

\* sort.SliceStable with a less that compares the contents.
Sorted(sl) ==
    LET before(i, j) == \/ val[sl.arr[i]] < val[sl.arr[j]]
                        \/ val[sl.arr[i]] = val[sl.arr[j]] /\ i < j
        order == SetToSortSeq(1..sl.len, before)
    IN  [sl EXCEPT !.arr = [i \in 1..Cap(sl) |->
                              IF i <= sl.len THEN sl.arr[order[i]] ELSE @[i]]]

Sort(s) ==
    \/ AssertMutableFails({s})
    \/ /\ Mutable(s)
       /\ IF orig[s].len >= 2 /\ Nil \in Range(Visible(orig[s]))
          THEN NilDereference(orig, val)
          ELSE Returns([orig EXCEPT ![s] = Sorted(@)], val)

-----------------------------------------------------------------------------
(* The callers. *)

\* es.At(i) and a setter of the element.
SetElement(s, i, v) ==
    /\ Mutable(s)
    /\ i \in 1..orig[s].len
    /\ At(s, i) # Nil
    /\ Returns(orig, [val EXCEPT ![At(s, i)] = v])

\* The owner of the state word makes the data read-only.
MarkReadOnly(s) ==
    /\ Mutable(s)
    /\ state' = [state EXCEPT ![s] = "readonly"]
    /\ UNCHANGED <<orig, val, panic>>

Next ==
    \/ \E s \in Slices, newCap \in 0..MaxCap : EnsureCapacity(s, newCap)
    \/ \E s \in Slices : AppendEmpty(s)
    \/ \E es, dest \in Slices : MoveAndAppendTo(es, dest)
    \/ \E s \in Slices : \E R \in SUBSET (1..orig[s].len) : RemoveIf(s, R)
    \/ \E es, dest \in Slices : CopyTo(es, dest)
    \/ \E s \in Slices : Sort(s)
    \/ \E s \in Slices, i \in 1..MaxLen, v \in Values : SetElement(s, i, v)
    \/ \E s \in Slices : MarkReadOnly(s)

Spec == Init /\ [][Next]_vars

-----------------------------------------------------------------------------
TypeOK ==
    /\ \A s \in Slices :
          /\ orig[s].nil \in BOOLEAN
          /\ orig[s].arr \in Seq(Ptrs \cup {Nil})
          /\ orig[s].len \in 0..Cap(orig[s])
          /\ orig[s].nil => orig[s].arr = <<>>
    /\ state \in [Slices -> {"mutable", "readonly"}]
    /\ val \in [Ptrs -> Values]
    /\ panic \in {"none", "readonly", "nil"}

\* No element belongs to two slices, not even through a slot that is out of
\* sight: MoveAndAppendTo hands the elements over and clears the source,
\* CopyTo allocates or writes through the destination's own elements.  So
\* writing to an element of one slice never changes another slice.
ElementsOwnedOnce ==
    \A s, t \in Slices : s # t => Slots(orig[s]) \cap Slots(orig[t]) = {}

\* Nothing a caller does changes a read-only slice or the content of its
\* elements: every operation that writes asserts the state of each slice it
\* writes to before it writes anything.
ReadOnlyUntouched ==
    [][\A s \in Slices :
          ~ Mutable(s) =>
              /\ orig'[s] = orig[s]
              /\ \A p \in Slots(orig[s]) : val'[p] = val[p]]_vars

\* RemoveIf leaves exactly the elements f said false for, in the order they
\* had: the loop that moves survivors down over the removed ones loses and
\* duplicates nothing within the new length.
RemoveIfKeepsSurvivors ==
    [][\A s \in Slices : \A R \in SUBSET (1..orig[s].len) :
          RemoveIf(s, R) /\ Mutable(s) =>
              LET kept == SetToSortSeq(1..orig[s].len \ R, <)
              IN  Visible(orig'[s]) = [k \in DOMAIN kept |-> At(s, kept[k])]]_vars

\* MoveAndAppendTo to another slice appends the elements themselves, in
\* order, after those of the destination, whether append had room or grew
\* the array, and leaves the source empty.
MoveAppendsToOther ==
    [][\A es, dest \in Slices :
          MoveAndAppendTo(es, dest) /\ panic' = "none" /\ es # dest =>
              /\ Visible(orig'[dest]) =
                     Visible(orig[dest]) \o Visible(orig[es])
              /\ orig'[es].len = 0]_vars

DistinctSlots(sl, n) ==
    \A i, j \in 1..n : sl.arr[i] # Nil /\ (i # j => sl.arr[i] # sl.arr[j])

\* What CopyTo guarantees: when the slots of the destination it writes
\* through hold distinct elements, or the destination is too small and gets
\* new ones, the destination ends with the contents of the source.
CopyToEqualOnDistinct ==
    [][\A es, dest \in Slices :
          /\ CopyTo(es, dest)
          /\ panic' = "none"
          /\ FitsDest(es, dest) => DistinctSlots(orig[dest], orig[es].len)
          => Contents(orig', val', dest) = Contents(orig, val, es)]_vars

\* The comment of CopyTo, "copies all elements from the current slice
\* overriding the destination", for every destination: when CopyTo returns,
\* the destination has the contents of the source.
CopyToYieldsEqual ==
    [][\A es, dest \in Slices :
          CopyTo(es, dest) /\ panic' = "none" =>
              Contents(orig', val', dest) = Contents(orig, val, es)]_vars

\* No sequence of calls on mutable slices ends in a nil pointer
\* dereference: EnsureCapacity is documented as the way to prepare a slice,
\* and CopyTo as overriding whatever the destination holds.
NoNilDereference == panic # "nil"

\* Sort puts the elements in the order of less and keeps the order of
\* those less does not tell apart, as sort.SliceStable promises.
SortIsStable ==
    [][\A s \in Slices :
          Sort(s) /\ panic' = "none" =>
              \A i, j \in 1..orig'[s].len :
                  i < j =>
                    /\ val[orig'[s].arr[i]] <= val[orig'[s].arr[j]]
                    /\ val[orig'[s].arr[i]] = val[orig'[s].arr[j]] =>
                          \E a, b \in 1..orig[s].len :
                              /\ a < b
                              /\ At(s, a) = orig'[s].arr[i]
                              /\ At(s, b) = orig'[s].arr[j]]_vars

\* The comment of MoveAndAppendTo, "moves all elements from the current
\* slice and appends them to the dest", for every destination: the elements
\* the source had are in the destination afterwards.
MoveKeepsElements ==
    [][\A es, dest \in Slices :
          MoveAndAppendTo(es, dest) /\ panic' = "none" =>
              Range(Visible(orig[es])) \subseteq Range(Visible(orig'[dest]))]_vars
=============================================================================
