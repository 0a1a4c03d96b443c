------------------------------- MODULE Outbox -------------------------------
(***************************************************************************)
(* The way of an event from the database of one service to the handler of  *)
(* another: the outbox table, the relays (one per replica of the service)  *)
(* that publish its rows to Kafka inside a transaction, the log of Kafka   *)
(* and the consumer with its inbox.                                        *)
(*                                                                         *)
(* A relay locks the oldest rows that are due, at most one per aggregate,  *)
(* sends them one after the other and marks each as published or failed;   *)
(* the marks count only when the transaction commits.  When it times out,  *)
(* its locks are gone while the relay still waits for the broker.  A send  *)
(* that was given up may reach the log later.                              *)
(*                                                                         *)
(* Event <<a, n>> is the n-th of aggregate a.  Messages are keyed by the   *)
(* aggregate, so log[a] is the part of a partition that belongs to a.      *)
(***************************************************************************)
EXTENDS Integers, FiniteSets, Sequences, SequencesExt

CONSTANTS
    Aggregates,
    MaxEvents,    \* bound on the events of an aggregate
    Relays,
    BatchSize,    \* OUTBOX_BATCH_SIZE
    Refused,      \* events the broker never takes, for their size for instance
    MaxFaults     \* bound on crashes, timeouts and failed sends

Events == UNION {{a} \X (1 .. MaxEvents[a]) : a \in Aggregates}

ASSUME OutboxAssumption ==
    /\ MaxEvents \in [Aggregates -> Nat] /\ MaxFaults \in Nat
    /\ BatchSize \in Nat \ {0}
    /\ Refused \subseteq Events

VARIABLES
    outbox,      \* the rows of outbox_events in the order of occurred_at
    published,   \* rows with published_at
    resting,     \* rows whose next_attempt_at is still to come
    relay,       \* what a relay is doing
    wire,        \* messages whose sender has given up, perhaps still on their way
    log,         \* Kafka: the messages of an aggregate
    offset,      \* the consumer's committed offset
    inbox,       \* inbox_events of the consumer
    handled,     \* the events that took effect, in that order
    faults       \* how many faults there were

outboxVars == <<outbox, published, resting, relay, wire, log, offset, inbox, handled, faults>>

Quiet == [open |-> FALSE, batch |-> {}, done |-> {}, failed |-> {}]

OutboxInit ==
    /\ outbox = <<>> /\ published = {} /\ resting = {}
    /\ relay = [r \in Relays |-> Quiet]
    /\ wire = {}
    /\ log = [a \in Aggregates |-> <<>>]
    /\ offset = [a \in Aggregates |-> 0]
    /\ inbox = {}
    /\ handled = [a \in Aggregates |-> <<>>]
    /\ faults = 0

Written(a) == Cardinality({e \in ToSet(outbox) : e[1] = a})

\* A transaction of the service writes its event with its own changes.
WriteEvent(a) ==
    /\ Written(a) < MaxEvents[a]
    /\ outbox' = Append(outbox, <<a, Written(a) + 1>>)
    /\ UNCHANGED <<published, resting, relay, wire, log, offset, inbox, handled, faults>>

-----------------------------------------------------------------------------
(* withLockedBatch *)

\* Rows that belong to a transaction that is still open.
Locked == {e \in Events : \E r \in Relays :
             /\ relay[r].open
             /\ e \in relay[r].batch \cup relay[r].done \cup relay[r].failed}

\* Mutant: a row does not wait for the earlier ones of its aggregate.
ReadyAnyway(e) == e \notin published /\ e \notin resting

\* The conditions of the query: unpublished, due, and no earlier row of the
\* aggregate is unpublished.
Ready(e) ==
    /\ e \notin published /\ e \notin resting
    /\ \A n \in 1 .. (e[2] - 1) : <<e[1], n>> \in published

\* ORDER BY occurred_at LIMIT batchSize FOR UPDATE SKIP LOCKED.
LockedBatch ==
    LET due == {i \in DOMAIN outbox : Ready(outbox[i]) /\ outbox[i] \notin Locked} IN
    {outbox[i] : i \in {j \in due : Cardinality({k \in due : k < j}) < BatchSize}}

Flush(r) ==
    /\ relay[r] = Quiet
    /\ LockedBatch # {}
    /\ relay' = [relay EXCEPT ![r] = [Quiet EXCEPT !.open = TRUE, !.batch = LockedBatch]]
    /\ UNCHANGED <<outbox, published, resting, wire, log, offset, inbox, handled, faults>>

-----------------------------------------------------------------------------
(* flush: one record after the other, in the order of occurred_at *)

Sending(r) == relay[r].batch # {}

Before(e, f) == \E i, j \in DOMAIN outbox : i <= j /\ outbox[i] = e /\ outbox[j] = f

Record(r, e) == e \in relay[r].batch /\ \A f \in relay[r].batch : Before(e, f)

\* The mark is made under the open transaction; it throws when that has timed
\* out, and the flush ends.
Mark(r, e, done, failed) ==
    relay' = [relay EXCEPT ![r] =
                IF ~@.open THEN Quiet
                ELSE [open |-> TRUE, batch |-> @.batch \ {e},
                      done |-> @.done \cup done, failed |-> @.failed \cup failed]]

PublishRaw(r) ==
    /\ \E e \in relay[r].batch \ Refused :
          /\ Record(r, e)
          /\ log' = [log EXCEPT ![e[1]] = Append(@, e)]
          /\ Mark(r, e, {e}, {})
    /\ UNCHANGED <<outbox, published, resting, wire, offset, inbox, handled, faults>>

Faulty == faults < MaxFaults /\ faults' = faults + 1

\* The broker refuses the message.
PublishRefused(r) ==
    /\ \E e \in relay[r].batch \cap Refused : Record(r, e) /\ Mark(r, e, {}, {e})
    /\ UNCHANGED <<outbox, published, resting, wire, log, offset, inbox, handled, faults>>

\* The producer gives up; the message may be in the log all the same.
PublishFails(r) ==
    /\ Faulty
    /\ \E e \in relay[r].batch \ Refused :
          /\ Record(r, e)
          /\ wire' = wire \cup {e}
          /\ Mark(r, e, {}, {e})
    /\ UNCHANGED <<outbox, published, resting, log, offset, inbox, handled>>

\* The end of the transaction, which fails when it has timed out.
CommitBatch(r) ==
    /\ relay[r] # Quiet /\ ~Sending(r)
    /\ IF relay[r].open
       THEN /\ published' = published \cup relay[r].done
            /\ resting' = resting \cup relay[r].failed
       ELSE UNCHANGED <<published, resting>>
    /\ relay' = [relay EXCEPT ![r] = Quiet]
    /\ UNCHANGED <<outbox, wire, log, offset, inbox, handled, faults>>

\* The database rolls the transaction back, the relay does not know it yet.
TransactionTimeout(r) ==
    /\ relay[r].open
    /\ Faulty
    /\ relay' = [relay EXCEPT ![r].open = FALSE, ![r].done = {}, ![r].failed = {}]
    /\ UNCHANGED <<outbox, published, resting, wire, log, offset, inbox, handled>>

CrashRelay(r) ==
    /\ relay[r] # Quiet
    /\ Faulty
    /\ wire' = wire \cup {e \in relay[r].batch \ Refused : Record(r, e)}
    /\ relay' = [relay EXCEPT ![r] = Quiet]
    /\ UNCHANGED <<outbox, published, resting, log, offset, inbox, handled>>

\* next_attempt_at has come.
DueAgain(e) ==
    /\ e \in resting
    /\ resting' = resting \ {e}
    /\ UNCHANGED <<outbox, published, relay, wire, log, offset, inbox, handled, faults>>

\* A message that was given up reaches the log, or is lost for good.
Straggle(e) ==
    /\ e \in wire
    /\ wire' = wire \ {e}
    /\ log' \in {log, [log EXCEPT ![e[1]] = Append(@, e)]}
    /\ UNCHANGED <<outbox, published, resting, relay, offset, inbox, handled, faults>>

-----------------------------------------------------------------------------
(* eachMessage: the handler's effect and its inbox row are one transaction *)

Apply(e) ==
    IF e \in inbox THEN UNCHANGED <<inbox, handled>>
    ELSE /\ inbox' = inbox \cup {e}
         /\ handled' = [handled EXCEPT ![e[1]] = Append(@, e[2])]

EachMessage(a) ==
    /\ offset[a] < Len(log[a])
    /\ Apply(log[a][offset[a] + 1])
    /\ offset' = [offset EXCEPT ![a] = @ + 1]
    /\ UNCHANGED <<outbox, published, resting, relay, wire, log, faults>>

\* The handler has committed, the consumer dies before its offset is stored.
CrashConsumer(a) ==
    /\ offset[a] < Len(log[a])
    /\ Apply(log[a][offset[a] + 1])
    /\ Faulty
    /\ UNCHANGED <<outbox, published, resting, relay, wire, log, offset>>

RelayStep(r) == PublishRaw(r) \/ PublishRefused(r) \/ CommitBatch(r)

OutboxNext ==
    \/ \E a \in Aggregates : WriteEvent(a) \/ EachMessage(a) \/ CrashConsumer(a)
    \/ \E r \in Relays : \/ Flush(r) \/ RelayStep(r)
                         \/ PublishFails(r) \/ TransactionTimeout(r) \/ CrashRelay(r)
    \/ \E e \in Events : DueAgain(e) \/ Straggle(e)

(***************************************************************************)
(* Fairness.  A relay flushes again after every interval and brings a      *)
(* flush to its end, and the consumer asks for the next message.  A row    *)
(* that failed rests for a delay that doubles up to retryMaxMs, much       *)
(* longer than the interval, so the rows behind it have their turn: a row  *)
(* that is selected again and again is flushed (strong fairness).          *)
(***************************************************************************)
OutboxSpec ==
    /\ OutboxInit /\ [][OutboxNext]_outboxVars
    /\ \A r \in Relays : WF_outboxVars(RelayStep(r))
    /\ \A e \in Events :
          /\ SF_outboxVars(\E r \in Relays : Flush(r) /\ e \in LockedBatch)
          /\ WF_outboxVars(DueAgain(e))
    /\ \A a \in Aggregates : WF_outboxVars(EachMessage(a))

-----------------------------------------------------------------------------
(***************************************************************************)
(* The outbox, the relays and the consumers keep the promise of module     *)
(* Delivery: every event takes effect once and in order, and in the end,   *)
(* although copies are sent twice, late and by relays that have lost their *)
(* locks, and although one aggregate is stuck with an event that cannot be *)
(* published.                                                              *)
(***************************************************************************)
Deliv == INSTANCE Delivery WITH sent <- [a \in Aggregates |-> Written(a)]

ImplementsDelivery == Deliv!DeliverySpec
=============================================================================
