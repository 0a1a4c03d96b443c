-------------------------------- MODULE Trip --------------------------------
(***************************************************************************)
(* The transport-service: delivery trips, the shipments on them, and the   *)
(* durable operations that claim and release those shipments at the        *)
(* fulfillment-service.                                                    *)
(*                                                                         *)
(* Commands lock the trip row and are one step.  They leave an operation   *)
(* behind, which a worker carries out: under a lease it reads the rows     *)
(* that wait, calls fulfillment for one after the other and stores each    *)
(* answer in a transaction of its own.  A worker may crash, a call may     *)
(* time out and be handled late, and the lease may run out while the       *)
(* worker is still busy.  The dispatch of a trip has no lease: any number  *)
(* of couriers resume it at once.                                          *)
(*                                                                         *)
(* The row <<i, s>> is the membership (trip_shipments) that operation i    *)
(* made for shipment s; it stands for the id of its claim request as well. *)
(* Weights, addresses and times are left out, and the totals of a trip,    *)
(* which are recomputed from the rows, with them.  The answers of          *)
(* fulfillment-service are inputs here: module TripFulfillment composes    *)
(* this module with the one that gives them.                               *)
(***************************************************************************)
EXTENDS Integers, FiniteSets, Sequences

CONSTANTS
    Trips,           \* trip ids
    Shipments,       \* shipment ids, in the order in which their rows are read
    Users,           \* planners
    Operations,      \* ids of trip_operations, in the order they are made
    Batches,         \* ids of trip_dispatches, request ids of the batches
    Workers,         \* processes that resume operations
    Couriers,        \* processes that resume dispatches
    ShipVersions,    \* shipment versions a planner may quote
    MaxTripVersion,  \* bound on the version at which a command is accepted
    LeaseExpires,    \* may a lease run out while its worker is busy?
    NoUser, NoTrip, NoOp, NoBatch, NoCall

Rows == Operations \X Shipments

ASSUME TripAssumption ==
    /\ Shipments \subseteq Nat /\ IsFiniteSet(Shipments)
    /\ Operations \subseteq Nat
    /\ ShipVersions \subseteq Nat \ {0}
    /\ MaxTripVersion \in Nat
    /\ LeaseExpires \in BOOLEAN
    /\ NoUser \notin Users /\ NoTrip \notin Trips /\ NoBatch \notin Batches
    /\ NoOp \notin Operations

VARIABLES
    trip,       \* delivery_trips
    op,         \* trip_operations
    member,     \* trip_shipments
    stop,       \* trip_stops
    td,         \* trip_dispatches
    worker,     \* what a process that resumes an operation is doing
    courier,    \* what a process that resumes a dispatch is doing
    late        \* calls whose caller has given up, still on their way

tripVars == <<trip, op, member, stop, td, worker, courier, late>>

TripRow == [status  : {"NONE", "DRAFT", "APPROVED", "IN_PROGRESS", "COMPLETED", "CANCELED"},
            version : Nat,
            plan    : Nat,                \* approvedRoutePlanId, 0 for none
            route   : Seq(Shipments)]     \* the approved sequence of the stops

OpRow == [kind   : {"NONE", "ADD", "REMOVE", "CANCEL", "SHIPMENT_CANCELED"},
          trip   : Trips \cup {NoTrip},
          actor  : Users \cup {NoUser},
          status : {"NONE", "PENDING", "COMPENSATING", "COMPLETED", "REJECTED"},
          lock   : BOOLEAN,               \* activeLock
          leased : BOOLEAN]               \* lockedUntil

ReleaseRequest == [try : Nat, actor : Users \cup {NoUser}, version : Nat]

MemberRow == [state   : {"NONE", "CLAIM_PENDING", "ACTIVE", "RELEASE_PENDING", "RELEASED"},
              removed : BOOLEAN,                 \* removedAt
              op      : Operations \cup {NoOp},  \* operationId
              asked   : Nat,                     \* expectedShipmentVersion of the claim
              version : Nat,                     \* shipmentVersion, 0 without a receipt
              rel     : ReleaseRequest]

DispatchRow == [trip    : Trips \cup {NoTrip},
                status  : {"NONE", "PENDING", "REJECTED", "COMPLETED"},
                stage   : {"NONE", "ACCEPTED", "SUBMITTED", "RECEIPTED", "COMPLETED",
                           "REJECTED"},
                version : Nat,                   \* expectedTripVersion
                plan    : Nat,                   \* approvedPlanId
                load    : [Shipments -> Nat]]    \* shipment versions, 0 if not aboard

\* A call for one row; the request of a release is the one the worker has read.
Call == [kind : {"claim"}, row : Rows]
        \cup [kind : {"release"}, row : Rows, rel : ReleaseRequest]

WorkerRow == [op     : Operations \cup {NoOp},
              phase  : {"idle", "claims", "claiming", "claimed",
                        "releases", "releasing", "released", "finish"},
              todo   : SUBSET Call,
              at     : Call \cup {NoCall},
              answer : {"none", "CLAIMED", "BAD_PLACE", "UNREADABLE", "RELEASED", "REFUSED",
                        "COMPLETED", "REJECTED"}]

CourierRow == [batch  : Batches \cup {NoBatch},
               phase  : {"idle", "select", "selected", "call", "answered", "commit",
                         "failed", "reject"},
               answer : {"none", "PENDING", "REJECTED", "COMPLETED"}]

LateCall == Call \cup [kind : {"batch"}, batch : Batches]

TripTypeOK ==
    /\ trip \in [Trips -> TripRow]
    /\ op \in [Operations -> OpRow]
    /\ member \in [Rows -> MemberRow]
    /\ stop \in [Trips -> [Shipments -> {"NONE", "PENDING", "DELIVERED", "FAILED"}]]
    /\ td \in [Batches -> DispatchRow]
    /\ worker \in [Workers -> WorkerRow]
    /\ courier \in [Couriers -> CourierRow]
    /\ late \subseteq LateCall

Idle == [op |-> NoOp, phase |-> "idle", todo |-> {}, at |-> NoCall, answer |-> "none"]
Off == [batch |-> NoBatch, phase |-> "idle", answer |-> "none"]

TripInit ==
    /\ trip = [t \in Trips |-> [status |-> "NONE", version |-> 0, plan |-> 0,
                                route |-> <<>>]]
    /\ op = [i \in Operations |-> [kind |-> "NONE", trip |-> NoTrip, actor |-> NoUser,
                                   status |-> "NONE", lock |-> FALSE, leased |-> FALSE]]
    /\ member = [r \in Rows |-> [state |-> "NONE", removed |-> FALSE, op |-> NoOp,
                                 asked |-> 0, version |-> 0,
                                 rel |-> [try |-> 0, actor |-> NoUser, version |-> 0]]]
    /\ stop = [t \in Trips |-> [s \in Shipments |-> "NONE"]]
    /\ td = [b \in Batches |-> [trip |-> NoTrip, status |-> "NONE", stage |-> "NONE",
                                version |-> 0, plan |-> 0,
                                load |-> [s \in Shipments |-> 0]]]
    /\ worker = [w \in Workers |-> Idle]
    /\ courier = [c \in Couriers |-> Off]
    /\ late = {}

-----------------------------------------------------------------------------
(* Reading the tables *)

TripOf(r) == op[r[1]].trip

\* Rows that are not removed; at most one per shipment by a unique index.
Live(r) == member[r].state # "NONE" /\ ~member[r].removed

Aboard(t) == {r \in Rows : TripOf(r) = t /\ Live(r)}

ActiveRows(t) == {r \in Aboard(t) : member[r].state = "ACTIVE"}

\* Rows that belong to operation i and are in the given state.
RowsOf(i, state) == {r \in Rows : member[r].op = i /\ member[r].state = state}

ClaimCalls(i) == {[kind |-> "claim", row |-> r] : r \in RowsOf(i, "CLAIM_PENDING")}

\* The releases of operation i that wait in table m.
ReleaseCalls(m, i) == {[kind |-> "release", row |-> r, rel |-> m[r].rel] :
                         r \in {q \in Rows : m[q].op = i /\ m[q].state = "RELEASE_PENDING"}}

Locked(t) == \E i \in Operations : op[i].trip = t /\ op[i].lock

\* assertNoPending: no active operation and no dispatch that is not rejected.
NoPending(t) ==
    /\ ~Locked(t)
    /\ \A b \in Batches : td[b].trip = t => td[b].status = "REJECTED"

\* Ids are made in order; the order has no other meaning.
Fresh(i) == \A j \in Operations : (op[j].status = "NONE") <=> (j >= i)

Before(r, q) == r[1] < q[1] \/ (r[1] = q[1] /\ r[2] <= q[2])

Accepted(t) == trip[t].version < MaxTripVersion

Bumped(row) == [row EXCEPT !.version = @ + 1]

Touch(t) == trip' = [trip EXCEPT ![t] = Bumped(@)]

NewOp(i, kind, t, u) ==
    op' = [op EXCEPT ![i] = [kind |-> kind, trip |-> t, actor |-> u, status |-> "PENDING",
                             lock |-> TRUE, leased |-> FALSE]]

\* releaseRequest: a new request in the name of user a, at the row's version.
Releasing(m, a, i) ==
    [m EXCEPT !.state = "RELEASE_PENDING", !.op = i,
              !.rel = [try |-> m.rel.try + 1, actor |-> a, version |-> m.version]]

-----------------------------------------------------------------------------
(* Commands of planners *)

CreateTrip(t) ==
    /\ trip[t].status = "NONE"
    /\ trip' = [trip EXCEPT ![t].status = "DRAFT", ![t].version = 1]
    /\ UNCHANGED <<op, member, stop, td, worker, courier, late>>

UpdateTrip(t) ==
    /\ trip[t].status = "DRAFT" /\ Accepted(t)
    /\ ~Locked(t)
    /\ Touch(t)
    /\ UNCHANGED <<op, member, stop, td, worker, courier, late>>

\* Mutant: shipments are added whatever the status of the trip.
AddAnytime(t, S, u, i, asked) ==
    /\ trip[t].status # "NONE" /\ Accepted(t)
    /\ ~Locked(t) /\ Fresh(i)
    /\ \A r \in Rows : r[2] \in S => ~Live(r)
    /\ NewOp(i, "ADD", t, u)
    /\ member' = [r \in Rows |->
                    IF r[1] = i /\ r[2] \in S
                    THEN [member[r] EXCEPT !.state = "CLAIM_PENDING", !.op = i,
                                           !.asked = asked[r[2]]]
                    ELSE member[r]]
    /\ Touch(t)
    /\ UNCHANGED <<stop, td, worker, courier, late>>

\* asked[s] is the version of s the planner saw in the pool.
Add(t, S, u, i, asked) ==
    /\ trip[t].status = "DRAFT" /\ Accepted(t)
    /\ ~Locked(t) /\ Fresh(i)
    /\ \A r \in Rows : r[2] \in S => ~Live(r)
    /\ NewOp(i, "ADD", t, u)
    /\ member' = [r \in Rows |->
                    IF r[1] = i /\ r[2] \in S
                    THEN [member[r] EXCEPT !.state = "CLAIM_PENDING", !.op = i,
                                           !.asked = asked[r[2]]]
                    ELSE member[r]]
    /\ Touch(t)
    /\ UNCHANGED <<stop, td, worker, courier, late>>

Release(R, u, i) ==
    member' = [r \in Rows |-> IF r \in R THEN Releasing(member[r], u, i) ELSE member[r]]

Remove(t, S, u, i) ==
    LET R == {r \in ActiveRows(t) : r[2] \in S} IN
    /\ trip[t].status = "DRAFT" /\ Accepted(t)
    /\ ~Locked(t) /\ Fresh(i)
    /\ S = {r[2] : r \in R}
    /\ NewOp(i, "REMOVE", t, u)
    /\ Release(R, u, i)
    /\ Touch(t)
    /\ UNCHANGED <<stop, td, worker, courier, late>>

CancelTrip(t, u, i) ==
    /\ trip[t].status \in {"DRAFT", "APPROVED"} /\ Accepted(t)
    /\ NoPending(t) /\ Fresh(i)
    /\ NewOp(i, "CANCEL", t, u)
    /\ Release(ActiveRows(t), u, i)
    /\ Touch(t)
    /\ UNCHANGED <<stop, td, worker, courier, late>>

(***************************************************************************)
(* approve: the route is a permutation of all stops, and every row aboard  *)
(* is ACTIVE.  That the shipments are ready at fulfillment is asked before *)
(* the transaction and may no longer be true in it, so it is no guard.     *)
(* Plans are numbered by the version of the trip that they make.           *)
(***************************************************************************)
Stops(t) == {s \in Shipments : stop[t][s] # "NONE"}

Permutes(route, S) == {route[k] : k \in DOMAIN route} = S /\ Len(route) = Cardinality(S)

Approve(t, route) ==
    /\ trip[t].status = "DRAFT" /\ Accepted(t)
    /\ NoPending(t)
    /\ Aboard(t) # {} /\ Aboard(t) = ActiveRows(t)
    /\ Stops(t) = {r[2] : r \in Aboard(t)}
    /\ Permutes(route, Stops(t))
    /\ trip' = [trip EXCEPT ![t] = [status |-> "APPROVED", version |-> @.version + 1,
                                    plan |-> @.version + 1, route |-> route]]
    /\ UNCHANGED <<op, member, stop, td, worker, courier, late>>

Unplanned(row, status) ==
    [row EXCEPT !.status = status, !.version = @ + 1, !.plan = 0, !.route = <<>>]

\* Mutant: a pending dispatch does not keep the trip from being reopened.
ReopenAnyway(t) ==
    /\ trip[t].status = "APPROVED" /\ Accepted(t)
    /\ ~Locked(t)
    /\ trip' = [trip EXCEPT ![t] = Unplanned(@, "DRAFT")]
    /\ UNCHANGED <<op, member, stop, td, worker, courier, late>>

Reopen(t) ==
    /\ trip[t].status = "APPROVED" /\ Accepted(t)
    /\ NoPending(t)
    /\ trip' = [trip EXCEPT ![t] = Unplanned(@, "DRAFT")]
    /\ UNCHANGED <<op, member, stop, td, worker, courier, late>>

-----------------------------------------------------------------------------
(***************************************************************************)
(* ShipmentCanceled of shipment s at version v.  Without a row aboard it   *)
(* has no effect; while the row waits for a claim or a release, or the     *)
(* trip is busy or on the road, the handler throws and the event comes     *)
(* again.                                                                  *)
(***************************************************************************)
RowsFor(s) == {r \in Rows : r[2] = s /\ Live(r) /\ member[r].state # "RELEASED"}

ShipmentCanceled(s, v, i) ==
    \E r \in RowsFor(s) :
        LET t == TripOf(r) IN
        /\ member[r].state = "ACTIVE"
        /\ trip[t].status \in {"DRAFT", "APPROVED"}
        /\ NoPending(t) /\ Fresh(i)
        /\ NewOp(i, "SHIPMENT_CANCELED", t, op[r[1]].actor)
        /\ member' = [member EXCEPT
                        ![r] = Releasing([@ EXCEPT !.version = v], op[r[1]].actor, i)]
        /\ stop' = [stop EXCEPT ![t][s] = "NONE"]
        /\ trip' = [trip EXCEPT ![t] = Unplanned(@, "DRAFT")]
        /\ UNCHANGED <<td, worker, courier, late>>

-----------------------------------------------------------------------------
(* Carrying out an operation *)

Busy(w) == worker[w].phase # "idle"
Working(i) == {w \in Workers : worker[w].op = i}

\* Mutant: only what is PENDING is resumed, an interrupted compensation is not.
ResumePending(w, i) ==
    /\ ~Busy(w)
    /\ op[i].status = "PENDING" /\ ~op[i].leased
    /\ op' = [op EXCEPT ![i].leased = TRUE]
    /\ worker' = [worker EXCEPT ![w] =
                    IF op[i].kind = "ADD"
                    THEN [Idle EXCEPT !.op = i, !.phase = "claims",
                                      !.todo = ClaimCalls(i)]
                    ELSE [Idle EXCEPT !.op = i, !.phase = "releases",
                                      !.todo = ReleaseCalls(member, i)]]
    /\ UNCHANGED <<trip, member, stop, td, courier, late>>

\* resume and the first reads of process.
Resume(w, i) ==
    /\ ~Busy(w)
    /\ op[i].status \in {"PENDING", "COMPENSATING"} /\ ~op[i].leased
    /\ op' = [op EXCEPT ![i].leased = TRUE]
    /\ worker' = [worker EXCEPT ![w] =
                    IF op[i].status = "PENDING" /\ op[i].kind = "ADD"
                    THEN [Idle EXCEPT !.op = i, !.phase = "claims",
                                      !.todo = ClaimCalls(i)]
                    ELSE [Idle EXCEPT !.op = i, !.phase = "releases",
                                      !.todo = ReleaseCalls(member, i)]]
    /\ UNCHANGED <<trip, member, stop, td, courier, late>>

\* The next row of the list, in the order of the query.
Send(w, from, to) ==
    /\ worker[w].phase = from
    /\ \E call \in worker[w].todo :
          /\ \A other \in worker[w].todo : Before(call.row, other.row)
          /\ worker' = [worker EXCEPT ![w].phase = to, ![w].at = call, ![w].todo = @ \ {call}]
    /\ UNCHANGED <<trip, op, member, stop, td, courier, late>>

SendClaim(w) == Send(w, "claims", "claiming")
SendRelease(w) == Send(w, "releases", "releasing")

\* Fulfillment's answer reaches the worker.
Answered(w, from, to, answer) ==
    /\ worker[w].phase = from
    /\ worker' = [worker EXCEPT ![w].phase = to, ![w].answer = answer]
    /\ UNCHANGED <<trip, op, member, stop, td, courier, late>>

ClaimAnswered(w, answer) == Answered(w, "claiming", "claimed", answer)
ReleaseAnswered(w, answer) == Answered(w, "releasing", "released", answer)

\* The call the worker waits for; its caller may give up before it is handled.
InFlight(w) == IF worker[w].phase \in {"claiming", "releasing"} THEN {worker[w].at} ELSE {}

\* Mutant: a call that timed out is taken for refused.
GiveUpAsRefused(w) ==
    /\ worker[w].phase = "claiming"
    /\ late' = late \cup InFlight(w)
    /\ worker' = [worker EXCEPT ![w].phase = "claimed", ![w].answer = "REFUSED"]
    /\ UNCHANGED <<trip, op, member, stop, td, courier>>

\* An unknown outcome, or a refused release: the operation is retried later.
GiveUp(w) ==
    /\ \/ worker[w].phase \in {"claiming", "releasing"}
       \/ worker[w].phase = "released" /\ worker[w].answer = "REFUSED"
    /\ late' = late \cup InFlight(w)
    /\ op' = [op EXCEPT ![worker[w].op].leased = FALSE]
    /\ worker' = [worker EXCEPT ![w] = Idle]
    /\ UNCHANGED <<trip, member, stop, td, courier>>

\* The process dies; its lease stays until it runs out.
CrashWorker(w) ==
    /\ Busy(w)
    /\ late' = late \cup InFlight(w)
    /\ worker' = [worker EXCEPT ![w] = Idle]
    /\ UNCHANGED <<trip, op, member, stop, td, courier>>

LeaseRunsOut(i) ==
    /\ op[i].leased
    /\ LeaseExpires \/ Working(i) = {}
    /\ op' = [op EXCEPT ![i].leased = FALSE]
    /\ UNCHANGED <<trip, member, stop, td, worker, courier, late>>

\* Mutant: the claim is stored without looking at the row again.
PersistClaimBlindly(w) ==
    LET r == worker[w].at.row IN
    /\ worker[w].phase = "claimed" /\ worker[w].answer = "CLAIMED"
    /\ member' = [member EXCEPT ![r].state = "ACTIVE", ![r].version = member[r].asked + 1]
    /\ stop' = [stop EXCEPT ![TripOf(r)][r[2]] = "PENDING"]
    /\ worker' = [worker EXCEPT ![w].phase = "claims", ![w].at = NoCall, ![w].answer = "none"]
    /\ UNCHANGED <<trip, op, td, courier, late>>

\* persistClaim: the row becomes ACTIVE, unless it no longer waits.
PersistClaim(w) ==
    LET r == worker[w].at.row IN
    /\ worker[w].phase = "claimed" /\ worker[w].answer = "CLAIMED"
    /\ IF member[r].state = "CLAIM_PENDING"
       THEN /\ member' = [member EXCEPT ![r].state = "ACTIVE",
                                        ![r].version = member[r].asked + 1]
            /\ stop' = [stop EXCEPT ![TripOf(r)][r[2]] = "PENDING"]
       ELSE UNCHANGED <<member, stop>>
    /\ worker' = [worker EXCEPT ![w].phase = "claims", ![w].at = NoCall, ![w].answer = "none"]
    /\ UNCHANGED <<trip, op, td, courier, late>>

(***************************************************************************)
(* beginCompensation.  A claim whose snapshot has no usable place is       *)
(* recorded with its receipt and then released; a refused claim, and one   *)
(* whose answer could not be read, has no receipt.  Rows that still wait   *)
(* for their claim are dropped.                                            *)
(***************************************************************************)
Recorded(w, r) ==
    IF r = worker[w].at.row /\ worker[w].answer = "BAD_PLACE"
    THEN [member[r] EXCEPT !.state = "ACTIVE", !.version = member[r].asked + 1]
    ELSE member[r]

Compensated(m, i) ==
    CASE m.op = i /\ m.state = "ACTIVE"        -> Releasing(m, op[i].actor, i)
      [] m.op = i /\ m.state = "CLAIM_PENDING" -> [m EXCEPT !.state = "RELEASED",
                                                            !.removed = TRUE]
      [] OTHER                                 -> m

\* The table after the compensation, and the releases it leaves to the worker.
BeginCompensation(w, new) ==
    LET i == worker[w].op IN
    /\ worker[w].phase = "claimed" /\ worker[w].answer # "CLAIMED"
    /\ member' = new
    /\ op' = [op EXCEPT ![i].status = "COMPENSATING"]
    /\ worker' = [worker EXCEPT ![w] =
                    [Idle EXCEPT !.op = i, !.phase = "releases",
                                 !.todo = ReleaseCalls(new, i)]]
    /\ UNCHANGED <<trip, stop, td, courier, late>>

Compensate(w) ==
    BeginCompensation(w, [r \in Rows |-> Compensated(Recorded(w, r), worker[w].op)])

\* persistRelease
PersistRelease(w) ==
    LET r == worker[w].at.row IN
    /\ worker[w].phase = "released" /\ worker[w].answer = "RELEASED"
    /\ IF member[r].state = "RELEASE_PENDING"
       THEN /\ member' = [member EXCEPT ![r].state = "RELEASED", ![r].removed = TRUE]
            /\ stop' = [stop EXCEPT ![TripOf(r)][r[2]] = "NONE"]
       ELSE UNCHANGED <<member, stop>>
    /\ worker' = [worker EXCEPT ![w].phase = "releases", ![w].at = NoCall,
                                ![w].answer = "none"]
    /\ UNCHANGED <<trip, op, td, courier, late>>

\* The end of resume: the lease is given back.
Stand(w) ==
    /\ op' = [op EXCEPT ![worker[w].op].leased = FALSE]
    /\ worker' = [worker EXCEPT ![w] = Idle]

Finish(w, status) ==
    /\ worker' = [worker EXCEPT ![w].phase = "finish", ![w].answer = status]
    /\ UNCHANGED op

\* All claims of the list are stored.
EndClaims(w) ==
    LET i == worker[w].op IN
    /\ worker[w].phase = "claims" /\ worker[w].todo = {}
    /\ op[i].status # "COMPENSATING"
    /\ IF op[i].status = "PENDING" /\ RowsOf(i, "CLAIM_PENDING") = {}
       THEN Finish(w, "COMPLETED") ELSE Stand(w)
    /\ UNCHANGED <<trip, member, stop, td, courier, late>>

\* ... but another worker has met a refusal meanwhile.
JoinCompensation(w) ==
    LET i == worker[w].op IN
    /\ worker[w].phase = "claims" /\ worker[w].todo = {}
    /\ op[i].status = "COMPENSATING"
    /\ worker' = [worker EXCEPT ![w].phase = "releases",
                                ![w].todo = ReleaseCalls(member, i)]
    /\ UNCHANGED <<trip, op, member, stop, td, courier, late>>

\* All releases of the list are stored: an ADD was compensated.
EndReleases(w) ==
    LET i == worker[w].op IN
    /\ worker[w].phase = "releases" /\ worker[w].todo = {}
    /\ IF RowsOf(i, "RELEASE_PENDING") = {}
       THEN Finish(w, IF op[i].kind = "ADD" THEN "REJECTED" ELSE "COMPLETED")
       ELSE Stand(w)
    /\ UNCHANGED <<trip, member, stop, td, courier, late>>

\* finalize does not look whether the operation is still to be finalized.
Finalize(w) ==
    LET i == worker[w].op
        t == op[i].trip IN
    /\ worker[w].phase = "finish"
    /\ trip' = [trip EXCEPT ![t] = IF op[i].kind = "CANCEL" THEN Unplanned(@, "CANCELED")
                                   ELSE Bumped(@)]
    /\ op' = [op EXCEPT ![i].status = worker[w].answer, ![i].lock = FALSE,
                        ![i].leased = FALSE]
    /\ worker' = [worker EXCEPT ![w] = Idle]
    /\ UNCHANGED <<member, stop, td, courier, late>>

-----------------------------------------------------------------------------
(* Dispatch of a trip: one row, taken up by couriers until it is decided *)

\* selection, as far as transport's own tables go.
Load(t) == [s \in Shipments |-> IF \E r \in ActiveRows(t) : r[2] = s
                                THEN member[CHOOSE r \in ActiveRows(t) : r[2] = s].version
                                ELSE 0]

Selectable(t, version) ==
    /\ trip[t].status = "APPROVED" /\ trip[t].version = version
    /\ Aboard(t) # {} /\ Aboard(t) = ActiveRows(t)
    /\ Stops(t) = {r[2] : r \in Aboard(t)}
    /\ Permutes(trip[t].route, Stops(t))

StartTripDispatch(t, b) ==
    /\ td[b].status = "NONE" /\ Accepted(t)
    /\ Selectable(t, trip[t].version)
    /\ NoPending(t)
    /\ td' = [td EXCEPT ![b] = [trip |-> t, status |-> "PENDING", stage |-> "ACCEPTED",
                                version |-> trip[t].version, plan |-> trip[t].plan,
                                load |-> Load(t)]]
    /\ UNCHANGED <<trip, op, member, stop, worker, courier, late>>

\* Mutant: only a dispatch that was not submitted yet is taken up.
TakeUpAccepted(c, b) ==
    /\ courier[c].phase = "idle"
    /\ td[b].status = "PENDING" /\ td[b].stage = "ACCEPTED"
    /\ courier' = [courier EXCEPT ![c] = [batch |-> b, answer |-> "none", phase |-> "select"]]
    /\ UNCHANGED <<trip, op, member, stop, td, worker, late>>

\* resume: reads the row and continues from its stage.
TakeUp(c, b) ==
    /\ courier[c].phase = "idle"
    /\ td[b].status = "PENDING"
    /\ courier' = [courier EXCEPT ![c] =
                     [batch |-> b, answer |-> "none",
                      phase |-> CASE td[b].stage = "ACCEPTED"  -> "select"
                                  [] td[b].stage = "RECEIPTED" -> "commit"
                                  [] OTHER                     -> "call"]]
    /\ UNCHANGED <<trip, op, member, stop, td, worker, late>>

Goes(c, phase) == courier' = [courier EXCEPT ![c].phase = phase]

Select(c) ==
    LET d == td[courier[c].batch] IN
    /\ courier[c].phase = "select"
    /\ Selectable(d.trip, d.version) /\ Load(d.trip) = d.load
    /\ Goes(c, "selected")
    /\ UNCHANGED <<trip, op, member, stop, td, worker, late>>

\* The selection fails for good: the trip, its shipments, the vehicle or the
\* driver are no longer what they were.
SelectConflict(c) ==
    /\ courier[c].phase = "select"
    /\ Goes(c, "failed")
    /\ UNCHANGED <<trip, op, member, stop, td, worker, late>>

\* What the transactions before the call and after the answer check of the trip.
BoundTrip(d) == /\ trip[d.trip].status = "APPROVED"
                /\ trip[d.trip].version = d.version
                /\ trip[d.trip].plan = d.plan

\* The stage is moved only if it is still ACCEPTED, the call is made anyway.
Submit(c) ==
    LET b == courier[c].batch IN
    /\ courier[c].phase = "selected"
    /\ IF BoundTrip(td[b])
       THEN /\ td' = [td EXCEPT ![b].stage =
                        IF td[b].status = "PENDING" /\ @ = "ACCEPTED" THEN "SUBMITTED" ELSE @]
            /\ Goes(c, "call")
       ELSE /\ UNCHANGED td
            /\ Goes(c, "failed")
    /\ UNCHANGED <<trip, op, member, stop, worker, late>>

\* Fulfillment's receipt for the batch reaches the courier.
BatchAnswered(c, answer) ==
    /\ courier[c].phase = "call"
    /\ courier' = [courier EXCEPT ![c].phase = "answered", ![c].answer = answer]
    /\ UNCHANGED <<trip, op, member, stop, td, worker, late>>

Decided(b, status, stage) ==
    td' = [td EXCEPT ![b] = IF @.status = "PENDING"
                            THEN [@ EXCEPT !.status = status, !.stage = stage] ELSE @]

\* Mutant: what is not completed is taken for rejected.
StoreReceiptHastily(c) ==
    LET b == courier[c].batch
        done == courier[c].answer = "COMPLETED" IN
    /\ courier[c].phase = "answered"
    /\ IF done THEN Decided(b, "PENDING", "RECEIPTED") ELSE Decided(b, "REJECTED", "REJECTED")
    /\ courier' = [courier EXCEPT ![c] = IF done THEN [@ EXCEPT !.phase = "commit",
                                                                !.answer = "none"] ELSE Off]
    /\ UNCHANGED <<trip, op, member, stop, worker, late>>

StoreReceipt(c) ==
    LET b == courier[c].batch IN
    /\ courier[c].phase = "answered"
    /\ CASE courier[c].answer = "COMPLETED" ->
              /\ Decided(b, "PENDING", "RECEIPTED")
              /\ courier' = [courier EXCEPT ![c].phase = "commit", ![c].answer = "none"]
         [] courier[c].answer = "REJECTED" ->
              /\ Decided(b, "REJECTED", "REJECTED")
              /\ courier' = [courier EXCEPT ![c] = Off]
         [] OTHER ->
              /\ UNCHANGED td
              /\ courier' = [courier EXCEPT ![c] = Off]
    /\ UNCHANGED <<trip, op, member, stop, worker, late>>

\* commit; it throws, and is tried again, when the trip is not as it was granted.
CommitTrip(c) ==
    LET b == courier[c].batch IN
    /\ courier[c].phase = "commit"
    /\ IF td[b].status = "PENDING" /\ td[b].stage = "RECEIPTED" /\ BoundTrip(td[b])
       THEN /\ trip' = [trip EXCEPT ![td[b].trip].status = "IN_PROGRESS",
                                    ![td[b].trip].version = @ + 1]
            /\ td' = [td EXCEPT ![b].status = "COMPLETED", ![b].stage = "COMPLETED"]
       ELSE UNCHANGED <<trip, td>>
    /\ courier' = [courier EXCEPT ![c] = Off]
    /\ UNCHANGED <<op, member, stop, worker, late>>

\* The error path: the stage is read, and the row rejected in a later update.
ReadStage(c) ==
    /\ courier[c].phase = "failed"
    /\ IF td[courier[c].batch].stage = "ACCEPTED" THEN Goes(c, "reject")
       ELSE courier' = [courier EXCEPT ![c] = Off]
    /\ UNCHANGED <<trip, op, member, stop, td, worker, late>>

\* Mutant: the row gets the status of a canceled trip.
CancelTripDispatch(c) ==
    /\ courier[c].phase = "reject"
    /\ Decided(courier[c].batch, "CANCELED", "REJECTED")
    /\ courier' = [courier EXCEPT ![c] = Off]
    /\ UNCHANGED <<trip, op, member, stop, worker, late>>

RejectTripDispatch(c) ==
    /\ courier[c].phase = "reject"
    /\ Decided(courier[c].batch, "REJECTED", "REJECTED")
    /\ courier' = [courier EXCEPT ![c] = Off]
    /\ UNCHANGED <<trip, op, member, stop, worker, late>>

\* A timeout or a crash; a call that was sent may still be handled.
LoseCourier(c) ==
    /\ courier[c].phase # "idle"
    /\ late' = IF courier[c].phase = "call"
               THEN late \cup {[kind |-> "batch", batch |-> courier[c].batch]} ELSE late
    /\ courier' = [courier EXCEPT ![c] = Off]
    /\ UNCHANGED <<trip, op, member, stop, td, worker>>

-----------------------------------------------------------------------------
(* The driver's results, one per stop in the approved order *)

Deliver(t, s, outcome) ==
    /\ trip[t].status = "IN_PROGRESS"
    /\ stop[t][s] = "PENDING"
    /\ \E k \in DOMAIN trip[t].route :
          /\ trip[t].route[k] = s
          /\ \A j \in 1 .. (k - 1) : stop[t][trip[t].route[j]] # "PENDING"
    /\ stop' = [stop EXCEPT ![t][s] = outcome]
    /\ trip' = [trip EXCEPT ![t].version = @ + 1,
                            ![t].status = IF \A q \in Shipments \ {s} : stop[t][q] # "PENDING"
                                          THEN "COMPLETED" ELSE @]
    /\ UNCHANGED <<op, member, td, worker, courier, late>>

-----------------------------------------------------------------------------
(* The service under any commands and any answers *)

TripCommand ==
    \/ \E t \in Trips :
          \/ CreateTrip(t) \/ UpdateTrip(t) \/ Reopen(t)
          \/ \E route \in [1 .. Cardinality(Stops(t)) -> Stops(t)] : Approve(t, route)
          \/ \E b \in Batches : StartTripDispatch(t, b)
    \/ \E t \in Trips, u \in Users, i \in Operations :
          \/ CancelTrip(t, u, i)
          \/ \E S \in SUBSET Shipments \ {{}} : Remove(t, S, u, i)

TripDriver ==
    \E t \in Trips, s \in Shipments, outcome \in {"DELIVERED", "FAILED"} : Deliver(t, s, outcome)

TripWorker(w) ==
    \/ \E i \in Operations : Resume(w, i)
    \/ SendClaim(w) \/ SendRelease(w) \/ GiveUp(w)
    \/ PersistClaim(w) \/ Compensate(w) \/ PersistRelease(w)
    \/ EndClaims(w) \/ JoinCompensation(w) \/ EndReleases(w) \/ Finalize(w)

TripCourier(c) ==
    \/ \E b \in Batches : TakeUp(c, b)
    \/ SelectConflict(c) \/ Submit(c) \/ StoreReceipt(c) \/ CommitTrip(c)
    \/ ReadStage(c) \/ RejectTripDispatch(c)

TripFault ==
    \/ \E w \in Workers : CrashWorker(w)
    \/ \E i \in Operations : LeaseRunsOut(i)
    \/ \E c \in Couriers : LoseCourier(c)

TripNext ==
    \/ TripCommand \/ TripDriver \/ TripFault
    \/ \E t \in Trips, u \in Users, i \in Operations :
          \E S \in SUBSET Shipments \ {{}}, asked \in [Shipments -> ShipVersions] :
              Add(t, S, u, i, asked)
    \/ \E s \in Shipments, v \in ShipVersions, i \in Operations : ShipmentCanceled(s, v, i)
    \/ \E w \in Workers :
          \/ TripWorker(w)
          \/ \E a \in {"CLAIMED", "BAD_PLACE", "UNREADABLE", "REFUSED"} : ClaimAnswered(w, a)
          \/ \E a \in {"RELEASED", "REFUSED"} : ReleaseAnswered(w, a)
    \/ \E c \in Couriers :
          \/ TripCourier(c) \/ Select(c)
          \/ \E a \in {"PENDING", "REJECTED", "COMPLETED"} : BatchAnswered(c, a)

TripSpec == TripInit /\ [][TripNext]_tripVars

-----------------------------------------------------------------------------
(***************************************************************************)
(* A dispatch that was submitted keeps hold of its trip: until it is       *)
(* decided the trip stays APPROVED at the version and plan it was granted  *)
(* for, with the very shipments that were submitted.  So a granted trip    *)
(* can always be committed and "Granted trip binding changed" is never     *)
(* thrown.                                                                 *)
(***************************************************************************)
SubmittedHolds ==
    \A b \in Batches :
        td[b].status = "PENDING" /\ td[b].stage \in {"SUBMITTED", "RECEIPTED"}
            => BoundTrip(td[b]) /\ Load(td[b].trip) = td[b].load

=============================================================================
