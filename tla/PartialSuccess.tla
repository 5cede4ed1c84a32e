--------------------------- MODULE PartialSuccess ---------------------------
(***************************************************************************)
(* ExportPartialSuccess,                                                   *)
(* pdata/pentity/pentityotlp/generated_exportpartialsuccess.go.            *)
(*                                                                         *)
(* A wrapper of a pointer to a struct of two fields, the number of         *)
(* rejected entities and an error message, and of a pointer to the state   *)
(* word that says whether the data may be written.  Wrappers are values:   *)
(* what the operations change is the struct they point to.                 *)
(***************************************************************************)
EXTENDS Integers

CONSTANTS
    Structs,   \* the ExportEntitiesPartialSuccess structs wrappers point to
    Counts,    \* values of RejectedEntities, 0 among them
    Messages,  \* values of ErrorMessage
    NoMessage  \* the string ""

ASSUME 0 \in Counts /\ Counts \subseteq Int /\ NoMessage \in Messages

VARIABLES
    orig,    \* orig[ms]: the struct, [rejected, message]
    state,   \* state[ms]: "mutable" or "readonly"
    panic    \* whether the last call panicked in AssertMutable

vars == <<orig, state, panic>>

\* otlpcollectorentity.ExportEntitiesPartialSuccess{}
ZeroStruct == [rejected |-> 0, message |-> NoMessage]

Mutable(ms) == state[ms] = "mutable"

\* NewExportPartialSuccess
Init ==
    /\ orig = [ms \in Structs |-> ZeroStruct]
    /\ state = [ms \in Structs |-> "mutable"]
    /\ panic = FALSE

AssertMutableFails(ss) ==
    /\ \E ms \in ss : ~ Mutable(ms)
    /\ panic' = TRUE
    /\ UNCHANGED <<orig, state>>

Returns(o) ==
    /\ orig' = o
    /\ panic' = FALSE
    /\ UNCHANGED state

\* Faulty variants: the source is not reset; only the source is asserted.
MovedWithoutReset(ms, dest) == [orig EXCEPT ![dest] = orig[ms]]
MoveAssertsSource(ms, dest) == {ms}

\* *dest.orig = *ms.orig, then *ms.orig = the zero value.
Moved(ms, dest) == [orig EXCEPT ![dest] = orig[ms], ![ms] = ZeroStruct]
MoveAsserts(ms, dest) == {ms, dest}

MoveTo(ms, dest) ==
    \/ AssertMutableFails(MoveAsserts(ms, dest))
    \/ /\ \A s \in MoveAsserts(ms, dest) : Mutable(s)
       /\ Returns(Moved(ms, dest))

RejectedEntities(ms) == orig[ms].rejected

ErrorMessage(ms) == orig[ms].message

SetRejectedEntities(ms, v) ==
    \/ AssertMutableFails({ms})
    \/ Mutable(ms) /\ Returns([orig EXCEPT ![ms].rejected = v])

SetErrorMessage(ms, v) ==
    \/ AssertMutableFails({ms})
    \/ Mutable(ms) /\ Returns([orig EXCEPT ![ms].message = v])

\* dest.SetRejectedEntities(ms.RejectedEntities()), then
\* dest.SetErrorMessage(ms.ErrorMessage()).
Copied(ms, dest) ==
    [orig EXCEPT ![dest].rejected = RejectedEntities(ms),
                 ![dest].message = ErrorMessage(ms)]

CopyTo(ms, dest) ==
    \/ AssertMutableFails({dest})
    \/ Mutable(dest) /\ Returns(Copied(ms, dest))

\* The owner of the state word makes the data read-only.
MarkReadOnly(ms) ==
    /\ Mutable(ms)
    /\ state' = [state EXCEPT ![ms] = "readonly"]
    /\ UNCHANGED <<orig, panic>>

Next ==
    \/ \E ms, dest \in Structs : MoveTo(ms, dest) \/ CopyTo(ms, dest)
    \/ \E ms \in Structs, v \in Counts : SetRejectedEntities(ms, v)
    \/ \E ms \in Structs, v \in Messages : SetErrorMessage(ms, v)
    \/ \E ms \in Structs : MarkReadOnly(ms)

Spec == Init /\ [][Next]_vars

-----------------------------------------------------------------------------
\* A struct whose state word says read-only keeps its value through every
\* call, as source or as destination, and the call that would have written
\* it panics before it changes anything else.
ReadOnlyUntouched ==
    [][\A ms \in Structs : ~ Mutable(ms) => orig'[ms] = orig[ms]]_vars

\* MoveTo to another struct gives it the value of the source and leaves the
\* source as a new one, as TestExportPartialSuccess_MoveTo expects.
MoveToOtherMoves ==
    [][\A ms, dest \in Structs :
          MoveTo(ms, dest) /\ ~ panic' /\ ms # dest =>
              orig'[dest] = orig[ms] /\ orig'[ms] = ZeroStruct]_vars
=============================================================================
