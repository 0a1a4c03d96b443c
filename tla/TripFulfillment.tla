-------------------------- MODULE TripFulfillment --------------------------
(***************************************************************************)
(* The transport-service (module Trip) and the fulfillment-service (module *)
(* Fulfillment) together: the calls of workers and couriers are handled by *)
(* fulfillment, whose answers and events go back.  A call is handled and   *)
(* answered in one step, or it is handled after its caller has given up.   *)
(*                                                                         *)
(* The shipments start picked and ready.  Order-service is left open: it   *)
(* grants or refuses a batch and cancels orders as it likes (module        *)
(* Dispatch is about it).                                                  *)
(***************************************************************************)
EXTENDS Trip

CONSTANTS
    BadPlaces,       \* shipments whose snapshot has no usable coordinates
    Unreadable,      \* shipments whose snapshot does not parse
    DirectRequests,  \* dispatch requests for single shipments
    OrdersCancel,    \* are orders canceled?
    NoRow, NoRequest

ASSUME TripFulfillmentAssumption ==
    /\ BadPlaces \subseteq Shipments /\ Unreadable \subseteq Shipments
    /\ OrdersCancel \in BOOLEAN
    /\ NoRow \notin Rows
    /\ NoRequest \notin DirectRequests \cup (Batches \X Shipments)

VARIABLES ship, intent, dispatch, claims, cursor, result, applying, shipLog

fulVars == <<ship, intent, dispatch, claims, cursor, result, applying, shipLog>>

bothVars == <<tripVars, fulVars>>

\* A stop sends one result, so its content serves as the event's id.
ResultEvents == [order : Shipments, trip : Trips, outcome : {"DELIVERED", "FAILED"}]

Ful == INSTANCE Fulfillment WITH
          Orders <- Shipments, Claims <- Rows, Actors <- Users,
          Requests <- DirectRequests \cup (Batches \X Shipments),
          Results <- ResultEvents, ResultOf <- [e \in ResultEvents |-> e],
          OrderVersions <- {2, 3}, Quotes <- {2}, ManualOnTrip <- FALSE,
          NoClaim <- NoRow

\* Each order was confirmed at version 2, its shipment picked and marked ready.
BothInit ==
    /\ TripInit
    /\ ship = [s \in Shipments |-> [status |-> "READY_TO_SHIP", version |-> 3, group |-> 1,
                                    trip |-> NoTrip, claim |-> NoRow]]
    /\ intent = [s \in Shipments |-> Ful!NoIntent]
    /\ dispatch = [b \in Batches |-> [status |-> "NONE", decision |-> "NONE", trip |-> NoTrip,
                                      child |-> [s \in Shipments |-> NoRequest]]]
    /\ claims = {}
    /\ cursor = [s \in Shipments |-> [version |-> 2, canceled |-> FALSE]]
    /\ result = [e \in ResultEvents |-> "NONE"]
    /\ applying = {} /\ shipLog = {}

-----------------------------------------------------------------------------
(* Claims and releases.  A request that was carried out before is replayed. *)

ClaimKnown(r) == \E k \in claims : k.id = r
ClaimGranted(r) == Ful!Claimable(r, r[2], member[r].asked)

HandleClaim(r) ==
    IF ClaimGranted(r)
    THEN Ful!Claim(r, r[2], TripOf(r), op[r[1]].actor, member[r].asked)
    ELSE UNCHANGED fulVars

\* What FulfillmentClient.claim and persistClaim make of a granted claim.
Reading(s) == CASE s \in Unreadable             -> "UNREADABLE"
                [] s \in BadPlaces \ Unreadable -> "BAD_PLACE"
                [] OTHER                        -> "CLAIMED"

AnswerClaim(w) ==
    LET r == worker[w].at.row IN
    /\ worker[w].phase = "claiming"
    /\ HandleClaim(r)
    /\ ClaimAnswered(w, IF ClaimKnown(r) \/ ClaimGranted(r) THEN Reading(r[2]) ELSE "REFUSED")

ReleaseKnown(r, rel) == \E k \in claims : k.id = r /\ k.released = rel.try
ReleaseGranted(r, rel) == Ful!Releasable(r, r[2], TripOf(r), rel.actor, rel.version)

HandleRelease(r, rel) ==
    IF ReleaseGranted(r, rel)
    THEN Ful!Release(r, r[2], TripOf(r), rel.actor, rel.version, rel.try)
    ELSE UNCHANGED fulVars

AnswerRelease(w) ==
    LET r == worker[w].at.row
        rel == worker[w].at.rel IN
    /\ worker[w].phase = "releasing"
    /\ HandleRelease(r, rel)
    /\ ReleaseAnswered(w, IF ReleaseKnown(r, rel) \/ ReleaseGranted(r, rel)
                          THEN "RELEASED" ELSE "REFUSED")

-----------------------------------------------------------------------------
(* The batch of a trip *)

Child(b) == [s \in Shipments |-> IF td[b].load[s] > 0 THEN <<b, s>> ELSE NoRequest]

StartBatch(b) ==
    Ful!StartBatch(b, td[b].trip, Child(b), [s \in Shipments |-> 2],
                   {s \in Shipments : td[b].load[s] > 0 /\ td[b].load[s] # ship[s].version})

HandleBatch(b) ==
    IF dispatch[b].status = "NONE" THEN StartBatch(b) ELSE UNCHANGED fulVars

BatchArrives(c) ==
    /\ courier[c].phase = "call"
    /\ StartBatch(courier[c].batch)
    /\ UNCHANGED tripVars

AnswerBatch(c) ==
    LET answer == dispatch[courier[c].batch].status IN
    /\ courier[c].phase = "call"
    /\ answer # "NONE"
    /\ BatchAnswered(c, answer)
    /\ UNCHANGED fulVars

\* readiness: every shipment is still READY_TO_SHIP for this trip and version,
\* and no dispatch of it is under way.
Ready(d) == \A s \in Shipments : d.load[s] > 0
    => /\ ship[s].status = "READY_TO_SHIP" /\ ship[s].claim # NoRow
       /\ ship[s].trip = d.trip /\ ship[s].version = d.load[s]
       /\ Ful!IntentFree(s)

SelectReady(c) ==
    /\ Select(c)
    /\ Ready(td[courier[c].batch])
    /\ UNCHANGED fulVars

-----------------------------------------------------------------------------
(* A call whose caller has given up is handled after all *)

HandleLate ==
    \E call \in late :
        /\ late' = late \ {call}
        /\ CASE call.kind = "claim"   -> HandleClaim(call.row)
             [] call.kind = "release" -> HandleRelease(call.row, call.rel)
             [] OTHER                 -> HandleBatch(call.batch)
        /\ UNCHANGED <<trip, op, member, stop, td, worker, courier>>

-----------------------------------------------------------------------------
(* Events between the services *)

\* The consumer of ShipmentCanceled.
TripLearnsCancel(i) ==
    /\ \E e \in shipLog : e.type = "ShipmentCanceled" /\ ShipmentCanceled(e.order, e.version, i)
    /\ UNCHANGED fulVars

\* Mutant: only completed deliveries are consumed.
CompletionHandled(e) ==
    /\ stop[e.trip][e.order] = e.outcome /\ e.outcome = "DELIVERED"
    /\ Ful!HandleResult(e)
    /\ UNCHANGED tripVars

\* The consumer of DeliveryCompleted and DeliveryFailed.
ResultHandled(e) ==
    /\ stop[e.trip][e.order] = e.outcome
    /\ Ful!HandleResult(e)
    /\ UNCHANGED tripVars

-----------------------------------------------------------------------------
(* What fulfillment does on its own or for order-service *)

DecideBatch(b) ==
    /\ \/ \E d \in {"GRANTED", "REJECTED"} :
             dispatch[b].decision = "NONE" /\ Ful!StoreDecision(b, d)
       \/ Ful!CommitBatch(b)
       \/ Ful!RejectBatch(b)
    /\ UNCHANGED tripVars

DirectDispatch(s) ==
    /\ \E q \in DirectRequests :
          \/ Ful!StartDispatch(s, q, 2)
          \/ Ful!AsksOrder(s) /\ (Ful!RejectDispatch(s, q) \/ Ful!CommitDispatch(s, q))
    /\ UNCHANGED tripVars

CancelOrder(s) ==
    /\ OrdersCancel
    /\ Ful!OrderCanceled(s, 3)
    /\ UNCHANGED tripVars

\* A planner adds shipments as the pool shows them.
Pool == {s \in Shipments : /\ ship[s].status = "READY_TO_SHIP" /\ ship[s].trip = NoTrip
                          /\ intent[s].status # "PENDING"}

AddFromPool(t, u, i) ==
    /\ \E S \in SUBSET Pool \ {{}} : Add(t, S, u, i, [s \in Shipments |-> ship[s].version])
    /\ UNCHANGED fulVars

BothNext ==
    \/ (TripCommand \/ TripDriver \/ TripFault) /\ UNCHANGED fulVars
    \/ \E t \in Trips, u \in Users, i \in Operations : AddFromPool(t, u, i)
    \/ \E i \in Operations : TripLearnsCancel(i)
    \/ \E w \in Workers :
          \/ TripWorker(w) /\ UNCHANGED fulVars
          \/ AnswerClaim(w) \/ AnswerRelease(w)
    \/ \E c \in Couriers :
          \/ TripCourier(c) /\ UNCHANGED fulVars
          \/ SelectReady(c) \/ BatchArrives(c) \/ AnswerBatch(c)
    \/ HandleLate
    \/ \E e \in ResultEvents : ResultHandled(e)
    \/ \E b \in Batches : DecideBatch(b)
    \/ \E s \in Shipments : DirectDispatch(s) \/ CancelOrder(s)

BothSpec == BothInit /\ [][BothNext]_bothVars

(***************************************************************************)
(* Fairness.  The recovery worker resumes what is due again and again, a   *)
(* lease ends after 30 seconds, and Kafka delivers an event until it is    *)
(* handled.  Crashes, lost answers and failed transactions happen any      *)
(* number of times but cease in the end.  Nothing is assumed of planners,  *)
(* drivers and cancellations.                                              *)
(***************************************************************************)
Disturbance ==
    \/ \E w \in Workers : CrashWorker(w) \/ (GiveUp(w) /\ worker[w].answer = "none")
    \/ \E c \in Couriers : LoseCourier(c)
    \/ \E e \in ResultEvents : Ful!ResultAbort(e)

Proceeds(w) ==
    \/ SendClaim(w) \/ SendRelease(w) \/ PersistClaim(w) \/ Compensate(w) \/ PersistRelease(w)
    \/ EndClaims(w) \/ JoinCompensation(w) \/ EndReleases(w) \/ Finalize(w)
    \/ GiveUp(w) /\ worker[w].answer = "REFUSED"

FairBothSpec ==
    /\ BothSpec
    /\ <>[][~Disturbance]_bothVars
    /\ \A w \in Workers :
          /\ WF_bothVars((Proceeds(w) /\ UNCHANGED fulVars) \/ AnswerClaim(w) \/ AnswerRelease(w))
          /\ \A i \in Operations : SF_bothVars(Resume(w, i) /\ UNCHANGED fulVars)
    /\ \A c \in Couriers :
          WF_bothVars((TripCourier(c) /\ UNCHANGED fulVars)
                      \/ SelectReady(c) \/ BatchArrives(c) \/ AnswerBatch(c))
    /\ \A i \in Operations : WF_bothVars(LeaseRunsOut(i) /\ UNCHANGED fulVars)
    /\ SF_bothVars(\E i \in Operations : TripLearnsCancel(i))
    /\ \A b \in Batches : WF_bothVars(DecideBatch(b))
    /\ WF_bothVars(HandleLate)
    /\ \A e \in ResultEvents : WF_bothVars(ResultHandled(e))

-----------------------------------------------------------------------------
(***************************************************************************)
(* Every claim that fulfillment holds for a trip is on transport's books:  *)
(* there is a row for it that is not removed, so that a removal, a         *)
(* compensation or a cancellation will release it.  Otherwise no trip can  *)
(* ever take the shipment again.                                           *)
(***************************************************************************)
ClaimsAccounted ==
    \A s \in Shipments : ship[s].claim # NoRow
        => Live(ship[s].claim) /\ ship[s].trip = TripOf(ship[s].claim)

(***************************************************************************)
(* Every shipment on a trip's manifest is the trip's: for an ACTIVE row    *)
(* fulfillment holds the very claim of that row, whatever was retried,     *)
(* handled late or done by a stalled worker.                               *)
(***************************************************************************)
ManifestBacked ==
    \A r \in Rows : member[r].state = "ACTIVE"
        => ship[r[2]].claim = r /\ ship[r[2]].trip = TripOf(r)

(***************************************************************************)
(* A shipment that has left with a trip has left under a dispatch that     *)
(* transport knows to be submitted and still carries through or has        *)
(* completed: the trip is not free to be reopened, changed or canceled.    *)
(***************************************************************************)
LeavesWithTrip ==
    \A s \in Shipments : ship[s].status \in Ful!Gone /\ ship[s].trip # NoTrip
        => \E b \in Batches : /\ td[b].trip = ship[s].trip /\ td[b].load[s] > 0
                              /\ td[b].stage \in {"SUBMITTED", "RECEIPTED", "COMPLETED"}

(***************************************************************************)
(* Together the services keep the promise of module Custody: a trip leaves *)
(* once and with everything it holds, and what it holds is returned only   *)
(* before.                                                                 *)
(***************************************************************************)
PlaceOf(status) == CASE status = "DISPATCHED" -> "road"
                     [] status = "CANCELED" -> "withdrawn"
                     [] status \in {"DELIVERED", "FAILED"} -> status
                     [] OTHER -> "warehouse"

Cust == INSTANCE Custody WITH
           holder <- [s \in Shipments |-> ship[s].trip],
           place <- [s \in Shipments |-> PlaceOf(ship[s].status)]

ImplementsCustody == Cust!CustodySpec

\* Every operation that was accepted is carried out or compensated, and gives
\* the trip free again, however often workers crash and answers are lost.
OperationsFinish == \A i \in Operations : op[i].lock ~> ~op[i].lock

\* Every dispatch that was accepted is decided.
DispatchFinishes ==
    \A b \in Batches : td[b].status = "PENDING" ~> td[b].status \in {"COMPLETED", "REJECTED"}

\* Every result a driver reports comes to be shown by the shipment.
ResultsArrive ==
    \A e \in ResultEvents :
        stop[e.trip][e.order] = e.outcome ~> ship[e.order].status = e.outcome
=============================================================================
