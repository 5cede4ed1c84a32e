--------------------------- MODULE ExporterQueue ---------------------------
(***************************************************************************)
(* The queue in front of an exporter, built the way the code builds it:    *)
(* a QueueConfig is validated (exporter/exporterhelper/queue.go), a        *)
(* factory picks the memory or the persistent queue from the storage ID    *)
(* (the same file and exporter/exporterqueue/queue.go), and the queue      *)
(* admits requests through the limiter of CapacityLimiter, whose Claimers  *)
(* are the producers calling Offer.                                        *)
(*                                                                         *)
(* The queues themselves are not among the files of src/: their actions    *)
(* follow sections 4.2 and 4.3 of spec.md.  The persistent queue keeps its *)
(* entries and its two index markers in a storage that survives a crash;   *)
(* every Set and Delete is a step of its own, so that the process may stop *)
(* between any two of them.  The pipeline stops its producers before it    *)
(* shuts the queue down.                                                   *)
(***************************************************************************)
EXTENDS CapacityLimiter, Sequences, Functions, TLC

CONSTANTS
    DefaultNumConsumers,  \* NumConsumers of the default config, 10 in the build
    StorageIDs,           \* the values of storageID the factories are given
    NoStorage,            \* a nil *component.ID
    MaxCrashes            \* bound on the crashes of the process

ASSUME DefaultNumConsumers \in Nat \ {0} /\ MaxCrashes \in Nat

Consumers == 1..DefaultNumConsumers

VARIABLES
    cfg,        \* the PersistentQueueConfig the exporter was given
    kind,       \* what the factory returned: "memory" or "persistent"
    phase,      \* "configured", then "invalid", "disabled", or "running",
                \* "stopping", "closed"
    todo,       \* requests the producers have not offered with success yet
    buffer,     \* memory queue: the requests waiting, oldest first
    disk,       \* persistent queue: [items, wi, ri] in the storage
    cursor,     \* persistent queue: index of the next entry to hand out
    writing,    \* persistent queue: [req, written] of the Offer under way
    consumer,   \* consumer[c]: [pc, req] of consumer goroutine c
    accepted,   \* requests whose Offer returned nil
    done,       \* requests whose completion callback was called
    dropped,    \* requests whose entry could not be deserialized
    crashes     \* crashes so far

built     == <<cfg, kind>>
ledger    == <<accepted, done, dropped>>
queueVars == <<built, phase, todo, buffer, disk, cursor, writing, consumer,
               ledger, crashes>>
allVars   == <<vars, queueVars>>

-----------------------------------------------------------------------------
(* QueueConfig *)

\* 100_000 items in the build, Capacity in models.
NewDefaultQueueConfig ==
    [Enabled |-> TRUE, NumConsumers |-> DefaultNumConsumers,
     QueueItemsSize |-> Capacity]

\* What a user can make of the default: each field kept, zero or negative.
QueueConfigs ==
    [Enabled : BOOLEAN,
     NumConsumers : {-1, 0, NewDefaultQueueConfig.NumConsumers},
     QueueItemsSize : {-1, 0, NewDefaultQueueConfig.QueueItemsSize}]

\* A QueueConfig, squashed, and the storage ID.
PersistentQueueConfigs ==
    {q @@ [StorageID |-> id] : q \in QueueConfigs, id \in StorageIDs}

QueueCapacityUnits == {"request", "item"}

ASSUME Unit \in QueueCapacityUnits

NoError == "nil"

\* Faulty variant: the number of consumers is not looked at.
ValidateIgnoringConsumers(qCfg) ==
    IF qCfg.Enabled /\ qCfg.QueueItemsSize <= 0 THEN "queue size" ELSE NoError

Validate(qCfg) ==
    IF ~ qCfg.Enabled THEN NoError
    ELSE IF qCfg.NumConsumers <= 0 THEN "number of consumers"
    ELSE IF qCfg.QueueItemsSize <= 0 THEN "queue size"
    ELSE NoError

(* The factories of exporterqueue and, after them, those of exporterhelper. *)

\* Faulty variant: the storage ID is ignored.
AlwaysMemoryQueue(id) == "memory"

NewMemoryQueueFactory == "memory"
NewPersistentQueueFactory(id) ==
    IF id = NoStorage THEN NewMemoryQueueFactory ELSE "persistent"

HelperMemoryQueueFactory == "memory"
HelperPersistentQueueFactory(id) ==
    IF id = NoStorage THEN HelperMemoryQueueFactory ELSE "persistent"

-----------------------------------------------------------------------------
Memory     == kind = "memory"
Persistent == kind = "persistent"
Open       == phase \in {"running", "stopping"}

IdleConsumer == [pc |-> "idle", req |-> NoElement]
NotWriting   == [req |-> NoElement, written |-> FALSE]

Active      == {c \in Consumers : c <= cfg.NumConsumers}
Free(c)     == c \in Active /\ consumer[c] = IdleConsumer
Handed(c)   == consumer[c].req
InFlight    == {Handed(c) : c \in Consumers} \ {NoElement}
Without(e)  == Restrict(disk.items, {i \in DOMAIN disk.items : disk.items[i] # e})

\* The entries between an index and the write index marker.
Pending(from) == {disk.items[i] : i \in DOMAIN disk.items \cap from..(disk.wi - 1)}

\* What the queue holds a claim for.
Held == Range(buffer) \cup InFlight \cup ({writing.req} \ {NoElement})
            \cup Pending(cursor)

QueueInit ==
    /\ Init
    /\ cfg \in PersistentQueueConfigs
    /\ kind \in {NewPersistentQueueFactory(cfg.StorageID),
                 HelperPersistentQueueFactory(cfg.StorageID)}
    /\ phase = "configured"
    /\ todo = Elements
    /\ buffer = <<>>
    /\ disk = [items |-> <<>>, wi |-> 1, ri |-> 1]
    /\ cursor = 1
    /\ writing = NotWriting
    /\ consumer = [c \in Consumers |-> IdleConsumer]
    /\ accepted = {} /\ done = {} /\ dropped = {}
    /\ crashes = 0

\* The host validates the configuration and starts the queue, or runs
\* without one.
Start ==
    /\ phase = "configured"
    /\ phase' = IF Validate(cfg) # NoError THEN "invalid"
                ELSE IF cfg.Enabled THEN "running" ELSE "disabled"
    /\ UNCHANGED <<vars, built, todo, buffer, disk, cursor, writing, consumer,
                   ledger, crashes>>

-----------------------------------------------------------------------------
(* Offer *)

OfferClaim(t, e) ==
    /\ phase = "running" /\ e \in todo
    /\ ClaimCheck(t, e)
    /\ todo' = todo \ {e}
    /\ UNCHANGED <<built, phase, buffer, disk, cursor, writing, consumer,
                   ledger, crashes>>

\* CapacityExceeded; the producer may offer the request again.
OfferFull(t, e) ==
    /\ phase = "running" /\ e \in todo
    /\ ClaimReject(t, e)
    /\ UNCHANGED queueVars

\* QueueClosed: after Shutdown no request is taken, whatever its size.
OfferClosed(t) ==
    /\ phase \in {"stopping", "closed"} /\ Idle(t)
    /\ UNCHANGED allVars

\* Memory queue: the claim is taken and the request is in the buffer.
Enqueue(t) ==
    /\ Memory
    /\ ClaimAdd(t)
    /\ buffer' = Append(buffer, inClaim[t])
    /\ accepted' = accepted \cup {inClaim[t]}
    /\ UNCHANGED <<built, phase, todo, disk, cursor, writing, consumer, done,
                   dropped, crashes>>

\* Persistent queue: the claim is taken, the write is next; one Offer at a
\* time writes to the storage.
BeginWrite(t) ==
    /\ Persistent /\ writing = NotWriting
    /\ ClaimAdd(t)
    /\ writing' = [req |-> inClaim[t], written |-> FALSE]
    /\ UNCHANGED <<built, phase, todo, buffer, disk, cursor, consumer, ledger,
                   crashes>>

\* Set of the entry under the next sequence index.
WriteEntry ==
    /\ writing.req # NoElement /\ ~ writing.written
    /\ disk' = [disk EXCEPT !.items = (disk.wi :> writing.req) @@ @]
    /\ writing' = [writing EXCEPT !.written = TRUE]
    /\ UNCHANGED <<vars, built, phase, todo, buffer, cursor, consumer, ledger,
                   crashes>>

\* The marshal function or the Set fails: Offer fails and gives the
\* claimed capacity back.
WriteFails ==
    /\ writing.req # NoElement /\ ~ writing.written
    /\ Release(writing.req)
    /\ writing' = NotWriting
    /\ todo' = todo \cup {writing.req}
    /\ UNCHANGED <<built, phase, buffer, disk, cursor, consumer, ledger,
                   crashes>>

\* Set of the write index marker; Offer returns nil.
AdvanceWrite ==
    /\ writing.written
    /\ disk' = [disk EXCEPT !.wi = @ + 1]
    /\ accepted' = accepted \cup {writing.req}
    /\ writing' = NotWriting
    /\ UNCHANGED <<vars, built, phase, todo, buffer, cursor, consumer, done,
                   dropped, crashes>>

-----------------------------------------------------------------------------
(* Consume and the completion callback *)

Dequeue(c) ==
    /\ Memory /\ Open /\ Free(c)
    /\ buffer # <<>>
    /\ consumer' = [consumer EXCEPT ![c] = [pc |-> "busy", req |-> Head(buffer)]]
    /\ buffer' = Tail(buffer)
    /\ UNCHANGED <<vars, built, phase, todo, disk, cursor, writing, ledger,
                   crashes>>

\* The send returned, with or without an error: the capacity is released.
Completed(c) ==
    /\ Memory /\ consumer[c].pc = "busy"
    /\ Release(Handed(c))
    /\ done' = done \cup {Handed(c)}
    /\ consumer' = [consumer EXCEPT ![c] = IdleConsumer]
    /\ UNCHANGED <<built, phase, todo, buffer, disk, cursor, writing,
                   accepted, dropped, crashes>>

\* The oldest unread entry is read and stays in the storage; an index
\* whose entry is gone is passed over.
ReadEntry(c) ==
    /\ Persistent /\ Open /\ Free(c)
    /\ cursor < disk.wi
    /\ cursor' = cursor + 1
    /\ consumer' = IF cursor \in DOMAIN disk.items
                   THEN [consumer EXCEPT ![c] = [pc |-> "busy",
                                                 req |-> disk.items[cursor]]]
                   ELSE consumer
    /\ UNCHANGED <<vars, built, phase, todo, buffer, disk, writing, ledger,
                   crashes>>

\* The unmarshal function fails on the oldest unread entry: the entry is
\* deleted and its capacity released, and the queue goes on.
DropCorrupt(c) ==
    /\ Persistent /\ Open /\ Free(c)
    /\ cursor < disk.wi /\ cursor \in DOMAIN disk.items
    /\ cursor' = cursor + 1
    /\ disk' = [disk EXCEPT !.items = Without(disk.items[cursor])]
    /\ Release(disk.items[cursor])
    /\ dropped' = dropped \cup {disk.items[cursor]}
    /\ UNCHANGED <<built, phase, todo, buffer, writing, consumer, accepted,
                   done, crashes>>

\* The send returned: the completion callback, and Delete of the entry.
DeleteEntry(c) ==
    /\ Persistent /\ consumer[c].pc = "busy"
    /\ disk' = [disk EXCEPT !.items = Without(Handed(c))]
    /\ done' = done \cup {Handed(c)}
    /\ consumer' = [consumer EXCEPT ![c].pc = "deleted"]
    /\ UNCHANGED <<vars, built, phase, todo, buffer, cursor, writing,
                   accepted, dropped, crashes>>

\* Set of the read index marker, to the oldest entry not yet deleted, and
\* the release of the capacity.
AdvanceRead(c) ==
    /\ consumer[c].pc = "deleted"
    /\ disk' = [disk EXCEPT !.ri =
                   Min({i \in @..disk.wi : i \in DOMAIN disk.items \cup {disk.wi}})]
    /\ Release(Handed(c))
    /\ consumer' = [consumer EXCEPT ![c] = IdleConsumer]
    /\ UNCHANGED <<built, phase, todo, buffer, cursor, writing, ledger,
                   crashes>>

-----------------------------------------------------------------------------
(* Shutdown, crash and recovery *)

Shutdown ==
    /\ phase = "running"
    /\ \A t \in Claimers : Idle(t)
    /\ writing = NotWriting
    /\ phase' = "stopping"
    /\ UNCHANGED <<vars, built, todo, buffer, disk, cursor, writing, consumer,
                   ledger, crashes>>

\* The queue is drained and the consumers have returned.
Closed ==
    /\ phase = "stopping"
    /\ buffer = <<>> /\ cursor = disk.wi
    /\ \A c \in Consumers : consumer[c] = IdleConsumer
    /\ phase' = "closed"
    /\ UNCHANGED <<vars, built, todo, buffer, disk, cursor, writing, consumer,
                   ledger, crashes>>

\* The process stops and starts again: what was in memory is gone, the
\* markers are reloaded, the entries between them are pending again and
\* the limiter is set to what they take.
CrashAndRecover ==
    /\ Persistent /\ Open
    /\ crashes < MaxCrashes
    /\ crashes' = crashes + 1
    /\ phase' = "running"
    /\ cursor' = disk.ri
    /\ writing' = NotWriting
    /\ consumer' = [c \in Consumers |-> IdleConsumer]
    /\ queued' = Pending(disk.ri)
    /\ used' = ToUint(MapThenSumSet(SizeOf, queued'))
    /\ inClaim' = [t \in Claimers |-> NoElement]
    /\ UNCHANGED <<built, todo, buffer, disk, ledger, ret>>

\* A queue that was not started does nothing.
Stopped ==
    /\ phase \in {"invalid", "disabled"}
    /\ UNCHANGED allVars

QueueNext ==
    \/ Start
    \/ \E t \in Claimers, e \in Elements : OfferClaim(t, e) \/ OfferFull(t, e)
    \/ \E t \in Claimers : OfferClosed(t) \/ Enqueue(t) \/ BeginWrite(t)
    \/ WriteEntry \/ WriteFails \/ AdvanceWrite
    \/ \E c \in Consumers : Dequeue(c) \/ Completed(c)
    \/ \E c \in Consumers : ReadEntry(c) \/ DropCorrupt(c)
    \/ \E c \in Consumers : DeleteEntry(c) \/ AdvanceRead(c)
    \/ Shutdown \/ Closed
    \/ CrashAndRecover
    \/ Stopped

\* Consumer goroutines run and sends return.  Nothing obliges producers to
\* offer or the host to shut down, and the storage may fail any write.
QueueFairness ==
    /\ WF_allVars(\E c \in Consumers : Dequeue(c) \/ ReadEntry(c))
    /\ \A c \in Consumers :
          WF_allVars(Completed(c) \/ DeleteEntry(c) \/ AdvanceRead(c))

QueueSpec     == QueueInit /\ [][QueueNext]_allVars
FairQueueSpec == QueueSpec /\ QueueFairness

-----------------------------------------------------------------------------
QueueTypeOK ==
    /\ TypeOK
    /\ cfg \in PersistentQueueConfigs
    /\ kind \in {"memory", "persistent"}
    /\ phase \in {"configured", "invalid", "disabled", "running", "stopping",
                  "closed"}
    /\ todo \subseteq Elements
    /\ buffer \in Seq(Elements)
    /\ disk.items \in [DOMAIN disk.items -> Elements]
    /\ disk.ri \in 1..disk.wi /\ cursor \in 1..disk.wi
    /\ writing \in [req : Elements \cup {NoElement}, written : BOOLEAN]
    /\ consumer \in [Consumers -> [pc : {"idle", "busy", "deleted"},
                                   req : Elements \cup {NoElement}]]
    /\ accepted \subseteq Elements /\ done \cup dropped \subseteq accepted
    /\ crashes \in 0..MaxCrashes

\* Section 8, capacity release on completion, for the whole life of a
\* queue: Size() is what the requests the queue holds take, in the buffer
\* or the storage, with a consumer or with a writer.  The two's-complement
\* Add of release gives back exactly what claim took on every path: the
\* completion callback, a failed write, a corrupt entry, and the recount
\* after a restart.
SizeIsHeld == Size = MapThenSumSet(SizeOf, Held)

\* With a storage ID the factory returns the persistent queue: a request
\* whose Offer returned nil is in the storage until its completion callback
\* ran or its entry proved corrupt, whatever crashes in between.  Only a
\* nil storage ID falls back to the memory queue.
UnackedIsDurable ==
    cfg.StorageID # NoStorage =>
        accepted \ (done \cup dropped) \subseteq Range(disk.items)

\* Every request a running queue accepted reaches its completion callback,
\* unless its entry is corrupt: Validate lets no enabled queue run without
\* a consumer, and a restart hands out again what was not acknowledged.
AcceptedIsDone ==
    \A e \in Elements : (e \in accepted) ~> (e \in done \cup dropped)
=============================================================================
