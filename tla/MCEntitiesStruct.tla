-------------------------- MODULE MCEntitiesStruct --------------------------
(***************************************************************************)
(* The two generated wrappers of a struct for TLC, ResourceEntities        *)
(* (EntitiesStruct) and ExportPartialSuccess (PartialSuccess).  They have  *)
(* no state in common, so a behaviour is a sequence of calls on the one or *)
(* on the other, and which one is fixed in its first state.                *)
(*                                                                         *)
(* Two ResourceEntities, two schema URLs, two resources, elements that are *)
(* all alike; two ExportPartialSuccess, the counts and messages of the     *)
(* tests.                                                                  *)
(***************************************************************************)
EXTENDS EntitiesStruct, Integers, TLC

CONSTANTS m1, m2, url, p1, p2, msg, NoMessage

TwoStructs     == {m1, m2}
OneValue       == {0}
TwoUrls        == {EmptyUrl, url}
TwoResources   == {0, 1}
StructSymmetry == Permutations(TwoStructs)

VARIABLES
    wrapper,                   \* the type the calls of this behaviour are on
    psOrig, psState, psPanic   \* orig, state and panic of PartialSuccess

psVars   == <<psOrig, psState, psPanic>>
bothVars == <<structVars, psVars, wrapper>>

PS == INSTANCE PartialSuccess
          WITH Structs <- {p1, p2}, Counts <- {0, 13, -1},
               Messages <- {NoMessage, msg},
               orig <- psOrig, state <- psState, panic <- psPanic

BothInit ==
    /\ wrapper \in {"ResourceEntities", "ExportPartialSuccess"}
    /\ InitStruct
    /\ PS!Init

BothNext ==
    \/ wrapper = "ResourceEntities" /\ NextStruct /\ UNCHANGED <<psVars, wrapper>>
    \/ wrapper = "ExportPartialSuccess" /\ PS!Next /\ UNCHANGED <<structVars, wrapper>>

BothSpec == BothInit /\ [][BothNext]_bothVars

-----------------------------------------------------------------------------
(* The properties of PartialSuccess, under the names of this module. *)

\* An ExportPartialSuccess whose state word says read-only keeps its value
\* through every call, as source or as destination: AssertMutable panics
\* before anything is written.
PartialReadOnlyUntouched == PS!ReadOnlyUntouched

\* ExportPartialSuccess.MoveTo to another struct gives it the value of the
\* source and leaves the source as a new one.
PartialMoveToOtherMoves == PS!MoveToOtherMoves
=============================================================================
