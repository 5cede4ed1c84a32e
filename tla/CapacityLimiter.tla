-------------------------- MODULE CapacityLimiter --------------------------
(***************************************************************************)
(* The admission gate of the exporter queue,                               *)
(* exporter/exporterhelper/internal/queue_capacity.go.                     *)
(*                                                                         *)
(* A limiter holds a constant cap and an atomic counter used, both uint64. *)
(* claim is a Load, a comparison and, when the comparison allows it, an    *)
(* Add: two atomic operations with nothing between them to keep other      *)
(* goroutines out.  release is one Add of the two's complement.  The       *)
(* module keeps both the two-step shape of claim and the wrapping          *)
(* arithmetic; the goroutines that call Claim and Release are the          *)
(* environment.                                                            *)
(***************************************************************************)
EXTENDS Integers, FiniteSets, FiniteSetsExt

CONSTANTS
    Claimers,    \* goroutines that may be inside Claim at the same time
    Elements,    \* the requests offered to the queue
    ItemsCount,  \* ItemsCount[e] is what e.ItemsCount() returns
    Unit,        \* QueueCapacityUnit: "item" or "request"
    Capacity,    \* the int given to New{Items,Requests}CapacityLimiter
    WordBits,    \* width of uint64 and int in the build (64), small in models
    NoElement    \* "this goroutine is not inside claim"

Modulus == 2 ^ WordBits
MaxInt  == 2 ^ (WordBits - 1) - 1

ASSUME /\ WordBits \in Nat \ {0}
       /\ Capacity \in 1..MaxInt            \* QueueConfig.Validate: positive
       /\ ItemsCount \in [Elements -> 0..MaxInt]
       /\ Unit \in {"item", "request"}
       /\ NoElement \notin Elements

VARIABLES
    used,     \* baseCapacityLimiter.used
    inClaim,  \* inClaim[t]: the element whose check passed and whose Add is due
    queued,   \* elements claimed and not yet released (what the callers hold)
    ret       \* ret[t]: what the last Claim of t returned

vars == <<used, inClaim, queued, ret>>

-----------------------------------------------------------------------------
(* Conversions and uint64 arithmetic, by what they do. *)

ToUint(i) == i % Modulus                              \* uint64(i)
ToInt(u)  == IF u > MaxInt THEN u - Modulus ELSE u    \* int(u)

\* Faulty variants: an Add that does not wrap, a subtraction that stops at 0.
PlusNoWrap(a, b)      == a + b
MinusSaturating(a, b) == IF a >= b THEN a - b ELSE 0

Plus(a, b)    == (a + b) % Modulus                    \* a + b and Uint64.Add
Minus(a, b)   == (a - b) % Modulus                    \* a - b
Complement(a) == Modulus - 1 - a                      \* ^a

cap == ToUint(Capacity)

GetCapacity == ToInt(cap)
Size        == ToInt(used)

ItemsSizeOf(e)    == ToUint(ItemsCount[e])
RequestsSizeOf(e) == 1
SizeOf(e) == IF Unit = "item" THEN ItemsSizeOf(e) ELSE RequestsSizeOf(e)

Idle(t) == inClaim[t] = NoElement
Offered == queued \cup {inClaim[t] : t \in Claimers}

-----------------------------------------------------------------------------
(* claim: the Load and the comparison are one step, the Add another. *)

\* Faulty variant: the check forgets what is being claimed.
FitsIgnoringClaim(claimed) == ~ (used > cap)

Fits(claimed) == ~ (Plus(used, claimed) > cap)

ClaimCheck(t, e) ==
    /\ Idle(t)
    /\ e \notin Offered
    /\ Fits(SizeOf(e))
    /\ inClaim' = [inClaim EXCEPT ![t] = e]
    /\ UNCHANGED <<used, queued, ret>>

ClaimReject(t, e) ==
    /\ Idle(t)
    /\ e \notin Offered
    /\ ~ Fits(SizeOf(e))
    /\ ret' = [ret EXCEPT ![t] = FALSE]
    /\ UNCHANGED <<used, inClaim, queued>>

ClaimAdd(t) ==
    /\ ~ Idle(t)
    /\ used' = Plus(used, SizeOf(inClaim[t]))
    /\ queued' = queued \cup {inClaim[t]}
    /\ inClaim' = [inClaim EXCEPT ![t] = NoElement]
    /\ ret' = [ret EXCEPT ![t] = TRUE]

\* Faulty variant: the complement without the "- 1", which is -capacity - 1.
ReleasedOffByOne(capacity) == Plus(used, Complement(capacity))

(* release: a single Add of ^(capacity - 1), which is -capacity mod 2^64. *)
Released(capacity) == Plus(used, Complement(Minus(capacity, 1)))

Release(e) ==
    /\ e \in queued
    /\ used' = Released(SizeOf(e))
    /\ queued' = queued \ {e}
    /\ UNCHANGED <<inClaim, ret>>

-----------------------------------------------------------------------------
Init ==
    /\ used = 0
    /\ inClaim = [t \in Claimers |-> NoElement]
    /\ queued = {}
    /\ ret = [t \in Claimers |-> TRUE]

Next ==
    \/ \E t \in Claimers, e \in Elements : ClaimCheck(t, e) \/ ClaimReject(t, e)
    \/ \E t \in Claimers : ClaimAdd(t)
    \/ \E e \in Elements : Release(e)

Spec == Init /\ [][Next]_vars

-----------------------------------------------------------------------------
TypeOK ==
    /\ used \in 0..(Modulus - 1)
    /\ inClaim \in [Claimers -> Elements \cup {NoElement}]
    /\ queued \subseteq Elements
    /\ ret \in [Claimers -> BOOLEAN]

QueuedUnits == MapThenSumSet(SizeOf, queued)
MaxUnits    == Max({SizeOf(e) : e \in Elements})

\* Size() is the number of units of the elements that were claimed and not
\* released: the two's-complement Add of release takes back exactly what
\* the Add of claim put in, whatever the interleaving and for elements of
\* zero items too.
AccountingExact == Size = QueuedUnits

\* What section 4.1 and the limiter's interface promise: "used never exceeds
\* capacity", that is Size() <= Capacity() whenever it is observed.
CapacityRespected == Size <= GetCapacity

\* What claim's Load-then-Add really guarantees with n goroutines inside
\* Claim: each of the other n-1 may add what it checked against an older
\* value of used, so the overshoot is at most n-1 elements of maximal size.
\* With one claimer this is CapacityRespected.
BoundedOvershoot ==
    Size <= GetCapacity + (Cardinality(Claimers) - 1) * MaxUnits
=============================================================================
