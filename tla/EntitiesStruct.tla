--------------------------- MODULE EntitiesStruct ---------------------------
(***************************************************************************)
(* ResourceEntities, pdata/pentity/generated_resourceentities.go.          *)
(*                                                                         *)
(* A ResourceEntities wraps a pointer to a struct of three fields, the     *)
(* resource, the schema URL and the slice of scope entities, and the state *)
(* word it hands on to the wrappers of its fields.  ScopeEntities()        *)
(* returns a ScopeEntitiesSlice over the third field, so every instance r  *)
(* of Slices is at the same time a ResourceEntities and the slice inside   *)
(* it: orig[r] and state[r] are those of EntitiesSlice.                    *)
(***************************************************************************)
EXTENDS EntitiesSlice

CONSTANTS
    Urls,       \* schema URLs
    EmptyUrl,   \* the string ""
    Resources   \* what a resource may hold; 0 is the empty resource

ASSUME EmptyUrl \in Urls /\ Zero \in Resources

VARIABLES
    schemaUrl,  \* schemaUrl[r]: r.orig.SchemaUrl
    resource    \* resource[r]: the content of r.orig.Resource

fieldVars  == <<schemaUrl, resource>>
structVars == <<vars, fieldVars>>

InitStruct ==
    /\ Init
    /\ schemaUrl = [r \in Slices |-> EmptyUrl]
    /\ resource = [r \in Slices |-> Zero]

\* Faulty variants: the source is reset before it is read; it is not reset.
MovedAfterReset(f, ms, dest, zero) == [f EXCEPT ![ms] = zero, ![dest] = zero]
MovedWithoutReset(f, ms, dest, zero) == [f EXCEPT ![dest] = f[ms]]

\* *dest.orig = *ms.orig, then *ms.orig = the zero value, for one field.
Moved(f, ms, dest, zero) == [f EXCEPT ![dest] = f[ms], ![ms] = zero]

\* Faulty variant: only the source is asserted.
MoveAssertsSource(ms, dest) == {ms}

MoveAsserts(ms, dest) == {ms, dest}

MoveTo(ms, dest) ==
    \/ AssertMutableFails(MoveAsserts(ms, dest)) /\ UNCHANGED fieldVars
    \/ /\ \A r \in MoveAsserts(ms, dest) : Mutable(r)
       /\ resource' = Moved(resource, ms, dest, Zero)
       /\ schemaUrl' = Moved(schemaUrl, ms, dest, EmptyUrl)
       /\ Returns(Moved(orig, ms, dest, NilSlice), val)

SchemaUrl(ms) == schemaUrl[ms]

SetSchemaUrl(ms, v) ==
    \/ AssertMutableFails({ms}) /\ UNCHANGED fieldVars
    \/ /\ Mutable(ms)
       /\ schemaUrl' = [schemaUrl EXCEPT ![ms] = v]
       /\ Returns(orig, val)
       /\ UNCHANGED resource

\* Resource() and a setter of what it returns.
SetResource(ms, v) ==
    /\ Mutable(ms)
    /\ resource' = [resource EXCEPT ![ms] = v]
    /\ Returns(orig, val)
    /\ UNCHANGED schemaUrl

\* ScopeEntities() and any operation of the slice it returns.
ScopeEntities == Next /\ UNCHANGED fieldVars

\* The resource and the schema URL are copied before the slice is: when the
\* slice's CopyTo panics, they stay copied.
CopyStructTo(ms, dest) ==
    \/ AssertMutableFails({dest}) /\ UNCHANGED fieldVars
    \/ /\ Mutable(dest)
       /\ resource' = [resource EXCEPT ![dest] = resource[ms]]
       /\ schemaUrl' = [schemaUrl EXCEPT ![dest] = SchemaUrl(ms)]
       /\ CopyTo(ms, dest)

NextStruct ==
    \/ \E ms, dest \in Slices : MoveTo(ms, dest)
    \/ \E ms \in Slices, v \in Urls : SetSchemaUrl(ms, v)
    \/ \E ms \in Slices, v \in Resources : SetResource(ms, v)
    \/ \E ms, dest \in Slices : CopyStructTo(ms, dest)
    \/ ScopeEntities

SpecStruct == InitStruct /\ [][NextStruct]_structVars

-----------------------------------------------------------------------------
\* The scope entities of two ResourceEntities never share an element or a
\* backing array: MoveTo copies the slice header to the destination and
\* must take it from the source in the same call.
StructsShareNothing ==
    \A r, t \in Slices : r # t => Slots(orig[r]) \cap Slots(orig[t]) = {}

\* Nothing changes a read-only ResourceEntities: not its fields, not its
\* slice, not the content of its elements, whichever wrapper the write goes
\* through, all of them carrying the same state word.
ReadOnlyStructUntouched ==
    [][\A r \in Slices :
          ~ Mutable(r) =>
              /\ schemaUrl'[r] = schemaUrl[r]
              /\ resource'[r] = resource[r]
              /\ orig'[r] = orig[r]
              /\ \A p \in Slots(orig[r]) : val'[p] = val[p]]_structVars

\* MoveTo to another struct gives it every field the source had, the slice
\* with its elements included, and leaves the source as a new one, as
\* TestResourceEntities_MoveTo expects.
MoveToOtherMoves ==
    [][\A ms, dest \in Slices :
          MoveTo(ms, dest) /\ panic' = "none" /\ ms # dest =>
              /\ schemaUrl'[dest] = schemaUrl[ms] /\ schemaUrl'[ms] = EmptyUrl
              /\ resource'[dest] = resource[ms] /\ resource'[ms] = Zero
              /\ orig'[dest] = orig[ms] /\ orig'[ms] = NilSlice]_structVars
=============================================================================
