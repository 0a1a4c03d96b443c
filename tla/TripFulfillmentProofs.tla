------------------------ MODULE TripFulfillmentProofs ------------------------
(***************************************************************************)
(* Proofs about transport and fulfillment together, for any number of      *)
(* trips, shipments, planners, operations, dispatches, workers and calls   *)
(* in flight.                                                              *)
(*                                                                         *)
(* The two services share no state: each acts on calls and answers that    *)
(* may be old by the time they are used.  The invariants say what such a   *)
(* call or answer is still worth.  Those of the first part hold whatever   *)
(* leases and timeouts do; the others name the condition they rest on.     *)
(*                                                                         *)
(* The facts about one service are those of TripProofs and                 *)
(* FulfillmentProofs, the latter through the instance FulP.                *)
(***************************************************************************)
EXTENDS TripFulfillment, TripProofs

FulP == INSTANCE FulfillmentProofs WITH
           Orders <- Shipments, Claims <- Rows, Actors <- Users,
           Requests <- DirectRequests \cup (Batches \X Shipments),
           Results <- ResultEvents, ResultOf <- [e \in ResultEvents |-> e],
           OrderVersions <- {2, 3}, Quotes <- {2}, ManualOnTrip <- FALSE,
           NoClaim <- NoRow

-----------------------------------------------------------------------------
(* What the two services know of each other, whatever leases and timeouts do *)

GivenUp == {"RELEASE_PENDING", "RELEASED"}

\* A claim is on the books of fulfillment, released or not.
Known(K, r) == \E k \in K : k.id = r

\* A call is about a row that exists, a release about one that is given up.
CallFits(m, call) ==
    /\ call.row \in Rows /\ m[call.row].state # "NONE"
    /\ call.kind = "release" => m[call.row].state \in GivenUp /\ call.rel.try > 0

Claiming == {"claims", "claiming", "claimed"}
Calling == {"claiming", "claimed", "releasing", "released"}

\* What a worker in state x calls for: claims of its own operation, or releases.
Lists(m, x, call) ==
    /\ CallFits(m, call)
    /\ x.phase \in Claiming => call.kind = "claim" /\ call.row[1] = x.op
    /\ x.phase \notin Claiming => call.kind = "release"

(***************************************************************************)
(* What a worker in state x has read and been told: an operation that      *)
(* exists, rows that exist, and of a claim that was granted, that it is on *)
(* the books and whether its place is usable.                              *)
(***************************************************************************)
WorkerFits(m, o, K, x) ==
    /\ x.phase # "idle" => x.op \in Operations /\ o[x.op].status # "NONE"
    /\ \A call \in x.todo : Lists(m, x, call)
    /\ x.phase \in Calling => x.at \in Call /\ Lists(m, x, x.at)
    /\ x.phase = "claimed" /\ x.answer \in {"CLAIMED", "BAD_PLACE", "UNREADABLE"}
          => Known(K, x.at.row)
    /\ x.phase = "claimed" /\ x.answer \in {"CLAIMED", "BAD_PLACE"}
          => (x.at.row[2] \in BadPlaces <=> x.answer = "BAD_PLACE")
    /\ x.phase = "finish" => x.answer \in {"COMPLETED", "REJECTED"}

\* An operation has a trip and a user; so has a dispatch a trip.
OpFits(row) == row.status # "NONE" => row.trip \in Trips /\ row.actor \in Users
TripDispatchFits(row) == row.status # "NONE" => row.trip \in Trips

(***************************************************************************)
(* A row that waits for its claim belongs to the operation that made it; a *)
(* row that was ever claimed has its claim on the books.  A shipment       *)
(* without a usable place is never on a manifest.                          *)
(***************************************************************************)
RowFits(row, o, K, r) ==
    row.state # "NONE" =>
        /\ o[r[1]].status # "NONE"
        /\ row.state = "CLAIM_PENDING" => row.op = r[1]
        /\ r[2] \in BadPlaces => row.op = r[1] /\ row.state # "ACTIVE"
        /\ row.state \in {"ACTIVE", "RELEASE_PENDING"} => Known(K, r)
        /\ row.state = "RELEASE_PENDING" => row.rel.try > 0
        /\ row.state = "RELEASED" => row.removed

CourierFits(d, x) == x.phase # "idle" => x.batch \in Batches /\ d[x.batch].status # "NONE"

LateFits(m, d, call) ==
    /\ call.kind = "batch" => d[call.batch].status # "NONE"
    /\ call.kind # "batch" => CallFits(m, call)

\* The receipt of a claim is about the row that asked for it, and is closed
\* only for a row that is given up.
ReceiptFits(m, o, k) ==
    /\ k.id \in Rows /\ m[k.id].state # "NONE"
    /\ k.order = k.id[2] /\ k.trip = o[k.id[1]].trip /\ k.actor = o[k.id[1]].actor
    /\ k.released # 0 => m[k.id].state \in GivenUp

BookTypes ==
    /\ op \in [Operations -> OpRow] /\ member \in [Rows -> MemberRow]
    /\ td \in [Batches -> DispatchRow] /\ worker \in [Workers -> WorkerRow]
    /\ courier \in [Couriers -> CourierRow] /\ late \subseteq LateCall

Books ==
    /\ BookTypes
    /\ \A i \in Operations : OpFits(op[i])
    /\ \A r \in Rows : RowFits(member[r], op, claims, r)
    /\ \A b \in Batches : TripDispatchFits(td[b])
    /\ \A w \in Workers : WorkerFits(member, op, claims, worker[w])
    /\ \A c \in Couriers : CourierFits(td, courier[c])
    /\ \A call \in late : LateFits(member, td, call)
    /\ \A k \in claims : ReceiptFits(member, op, k)

-----------------------------------------------------------------------------
(* The facts about the fulfillment-service *)

\* The assumption of FulfillmentProofs, in its own words.
LEMMA FulFacts ==
    /\ NoRequest \notin DirectRequests \cup (Batches \X Shipments)
    /\ NoBatch \notin Batches
    /\ NoTrip \notin Trips
    /\ NoRow \notin Rows
    /\ {2, 3} \subseteq Nat \ {0}
    /\ {2} \subseteq Nat
    /\ [e \in ResultEvents |-> e] \in [ResultEvents -> FulP!ResultContent]
    /\ FALSE \in BOOLEAN
  BY TripAssumption, TripFulfillmentAssumption
  DEF ResultEvents, FulP!ResultContent, FulP!Outcomes

\* The actions of module Fulfillment, through either instance: claims.
LEMMA SameClaims ==
    ASSUME NEW c, NEW o, NEW t, NEW a, NEW v, NEW n
    PROVE  /\ Ful!Claim(c, o, t, a, v) => FulP!Claim(c, o, t, a, v)
           /\ Ful!Release(c, o, t, a, v, n) => FulP!Release(c, o, t, a, v, n)
  <1>1. Ful!Claim(c, o, t, a, v) => FulP!Claim(c, o, t, a, v)
    BY DEF Ful!Claim, FulP!Claim, Ful!Claimable, FulP!Claimable, Ful!IntentFree,
           FulP!IntentFree, Ful!Write, FulP!Write, Ful!Bumped, FulP!Bumped,
           Ful!Receipted, FulP!Receipted
  <1>2. Ful!Release(c, o, t, a, v, n) => FulP!Release(c, o, t, a, v, n)
    BY DEF Ful!Release, FulP!Release, Ful!Releasable, FulP!Releasable, Ful!IntentFree,
           FulP!IntentFree, Ful!Write, FulP!Write, Ful!Bumped, FulP!Bumped,
           Ful!Receipted, FulP!Receipted, Ful!ReleasedBy, FulP!ReleasedBy
  <1>3. QED
    BY <1>1, <1>2

\* ... single shipments and cancellations.
LEMMA SameDispatch ==
    ASSUME NEW o, NEW r, NEW v
    PROVE  /\ Ful!StartDispatch(o, r, v) => FulP!StartDispatch(o, r, v)
           /\ Ful!RejectDispatch(o, r) => FulP!RejectDispatch(o, r)
           /\ Ful!CommitDispatch(o, r) => FulP!CommitDispatch(o, r)
           /\ Ful!OrderCanceled(o, v) => FulP!OrderCanceled(o, v)
           /\ Ful!AsksOrder(o) => FulP!AsksOrder(o)
  <1>1. Ful!StartDispatch(o, r, v) => FulP!StartDispatch(o, r, v)
    BY DEF Ful!StartDispatch, FulP!StartDispatch, Ful!IntentFree, FulP!IntentFree,
           Ful!canMove, FulP!canMove, Ful!TRANSITIONS, FulP!TRANSITIONS, Ful!Outcomes,
           FulP!Outcomes, Ful!RequestUnused, FulP!RequestUnused
  <1>2. Ful!RejectDispatch(o, r) => FulP!RejectDispatch(o, r)
    BY DEF Ful!RejectDispatch, FulP!RejectDispatch
  <1>3. Ful!CommitDispatch(o, r) => FulP!CommitDispatch(o, r)
    BY DEF Ful!CommitDispatch, FulP!CommitDispatch, Ful!canMove, FulP!canMove,
           Ful!TRANSITIONS, FulP!TRANSITIONS, Ful!Outcomes, FulP!Outcomes,
           Ful!Write, FulP!Write, Ful!Bumped, FulP!Bumped, Ful!Record, FulP!Record,
           Ful!Event, FulP!Event
  <1>4. Ful!OrderCanceled(o, v) => FulP!OrderCanceled(o, v)
    BY DEF Ful!OrderCanceled, FulP!OrderCanceled, Ful!Stale, FulP!Stale,
           Ful!BatchPending, FulP!BatchPending, Ful!Write, FulP!Write, Ful!Bumped,
           FulP!Bumped, Ful!Record, FulP!Record, Ful!Event, FulP!Event,
           Ful!Advance, FulP!Advance, Ful!Gone, FulP!Gone
  <1>5. Ful!AsksOrder(o) => FulP!AsksOrder(o)
    BY DEF Ful!AsksOrder, FulP!AsksOrder
  <1>6. QED
    BY <1>1, <1>2, <1>3, <1>4, <1>5

\* ... batches.
LEMMA SameBatch ==
    ASSUME NEW b, NEW t, NEW child, NEW quoted, NEW stale, NEW d
    PROVE  /\ Ful!StartBatch(b, t, child, quoted, stale)
                 => FulP!StartBatch(b, t, child, quoted, stale)
           /\ Ful!StoreDecision(b, d) => FulP!StoreDecision(b, d)
           /\ Ful!CommitBatch(b) => FulP!CommitBatch(b)
           /\ Ful!RejectBatch(b) => FulP!RejectBatch(b)
  <1>1. Ful!StartBatch(b, t, child, quoted, stale)
           => FulP!StartBatch(b, t, child, quoted, stale)
    BY DEF Ful!StartBatch, FulP!StartBatch, Ful!Members, FulP!Members, Ful!InBatchOf,
           FulP!InBatchOf, Ful!IntentFree, FulP!IntentFree, Ful!RequestUnused,
           FulP!RequestUnused
  <1>2. Ful!StoreDecision(b, d) => FulP!StoreDecision(b, d)
    BY DEF Ful!StoreDecision, FulP!StoreDecision, Ful!Members, FulP!Members
  <1>3. Ful!CommitBatch(b) => FulP!CommitBatch(b)
    BY DEF Ful!CommitBatch, FulP!CommitBatch, Ful!Members, FulP!Members, Ful!Bound,
           FulP!Bound, Ful!Bumped, FulP!Bumped, Ful!Event, FulP!Event
  <1>4. Ful!RejectBatch(b) => FulP!RejectBatch(b)
    BY DEF Ful!RejectBatch, FulP!RejectBatch, Ful!Members, FulP!Members
  <1>5. QED
    BY <1>1, <1>2, <1>3, <1>4

\* ... delivery results.
LEMMA SameResults ==
    ASSUME NEW e
    PROVE  Ful!HandleResult(e) => FulP!HandleResult(e)
  <1>1. Ful!Open(e) => FulP!Open(e)
    BY DEF Ful!Open, FulP!Open, Ful!Stop, FulP!Stop
  <1>2. Ful!Rivals(e) = FulP!Rivals(e)
    BY DEF Ful!Rivals, FulP!Rivals, Ful!Stop, FulP!Stop
  <1>3. Ful!Unrivalled(e) => FulP!Unrivalled(e)
    BY <1>2 DEF Ful!Unrivalled, FulP!Unrivalled
  <1>4. ASSUME NEW outcome
        PROVE  Ful!Receipt(e, outcome) => FulP!Receipt(e, outcome)
    BY DEF Ful!Receipt, FulP!Receipt
  <1>5. Ful!ResultDuplicate(e) => FulP!ResultDuplicate(e)
    BY <1>1, <1>2, <1>4 DEF Ful!ResultDuplicate, FulP!ResultDuplicate
  <1>6. Ful!ResultConflict(e) => FulP!ResultConflict(e)
    BY <1>1, <1>2 DEF Ful!ResultConflict, FulP!ResultConflict
  <1>7. Ful!ResultMisplaced(e) => FulP!ResultMisplaced(e)
    BY <1>1, <1>3, <1>4 DEF Ful!ResultMisplaced, FulP!ResultMisplaced, Ful!Terminal,
                            FulP!Terminal
  <1>8. Ful!ResultDefer(e) => FulP!ResultDefer(e)
    BY <1>1, <1>3, <1>4 DEF Ful!ResultDefer, FulP!ResultDefer, Ful!Terminal, FulP!Terminal
  <1>9. Ful!ResultRead(e) => FulP!ResultRead(e)
    BY <1>1, <1>3 DEF Ful!ResultRead, FulP!ResultRead, Ful!canMove, FulP!canMove,
                      Ful!TRANSITIONS, FulP!TRANSITIONS, Ful!Outcomes, FulP!Outcomes
  <1>10. Ful!ResultWrite(e) => FulP!ResultWrite(e)
    BY DEF Ful!ResultWrite, FulP!ResultWrite, Ful!Write, FulP!Write, Ful!Bumped,
           FulP!Bumped, Ful!Record, FulP!Record, Ful!Event, FulP!Event, Ful!EventOf,
           FulP!EventOf
  <1>11. Ful!ResultAbort(e) => FulP!ResultAbort(e)
    BY DEF Ful!ResultAbort, FulP!ResultAbort
  <1>12. QED
    BY <1>5, <1>6, <1>7, <1>8, <1>9, <1>10, <1>11 DEF Ful!HandleResult, FulP!HandleResult

-----------------------------------------------------------------------------
(* What no step takes back *)

\* Operations and dispatches keep their trip, rows that are given up stay so,
\* and a claim stays on the books.
Forward ==
    /\ \A i \in Operations : op[i].status # "NONE" =>
          op'[i].status # "NONE" /\ op'[i].trip = op[i].trip /\ op'[i].actor = op[i].actor
    /\ \A r \in Rows : /\ member[r].state # "NONE" => member'[r].state # "NONE"
                       /\ member[r].state \in GivenUp => member'[r].state \in GivenUp
    /\ \A r \in Rows : Known(claims, r) => Known(claims', r)
    /\ \A b \in Batches : td[b].status # "NONE" =>
          td'[b].status # "NONE" /\ td'[b].trip = td[b].trip /\ td'[b].load = td[b].load

\* The types of the tables of transport that the books are about.
LEMMA BookTables ==
    ASSUME Books
    PROVE  /\ op \in [Operations -> OpRow] /\ member \in [Rows -> MemberRow]
           /\ td \in [Batches -> DispatchRow] /\ worker \in [Workers -> WorkerRow]
           /\ courier \in [Couriers -> CourierRow] /\ late \subseteq LateCall
           /\ \A r \in Rows : r[1] \in Operations /\ r[2] \in Shipments /\ r = <<r[1], r[2]>>
  BY DEF Books, BookTypes, Rows

\* What a worker knows stays true while it does nothing.
LEMMA WorkerForward ==
    ASSUME Books, Forward, NEW x, WorkerFits(member, op, claims, x)
    PROVE  WorkerFits(member', op', claims', x)
  <1>1. ASSUME NEW call, Lists(member, x, call)
        PROVE  Lists(member', x, call) /\ call.row \in Rows
    BY <1>1 DEF Forward, Lists, CallFits
  <1>2. /\ x.phase # "idle" => x.op \in Operations /\ op'[x.op].status # "NONE"
    BY DEF WorkerFits, Forward
  <1>3. \A call \in x.todo : Lists(member', x, call)
    BY <1>1 DEF WorkerFits
  <1>4. x.phase \in Calling => x.at \in Call /\ Lists(member', x, x.at)
    BY <1>1 DEF WorkerFits
  <1>5. x.phase = "claimed" /\ x.answer \in {"CLAIMED", "BAD_PLACE", "UNREADABLE"}
           => Known(claims', x.at.row)
    <2>1. x.phase = "claimed" => x.at.row \in Rows
      BY DEF WorkerFits, Lists, CallFits, Calling
    <2>2. QED
      BY <2>1 DEF WorkerFits, Forward
  <1>6. QED
    BY <1>2, <1>3, <1>4, <1>5 DEF WorkerFits

(***************************************************************************)
(* A step keeps the books if it takes nothing back and what it writes is   *)
(* in order.                                                               *)
(***************************************************************************)
LEMMA BooksStep ==
    ASSUME Books, Forward, BookTypes',
           \A i \in Operations : op[i].status # "NONE" \/ OpFits(op'[i]),
           \A r \in Rows : \/ member'[r] = member[r]
                           \/ RowFits(member'[r], op', claims', r),
           \A b \in Batches : td[b].status # "NONE" \/ TripDispatchFits(td'[b]),
           \A w \in Workers : \/ worker'[w] = worker[w]
                              \/ WorkerFits(member', op', claims', worker'[w]),
           \A c \in Couriers : courier'[c] = courier[c] \/ CourierFits(td', courier'[c]),
           \A call \in late' : call \in late \/ LateFits(member', td', call),
           \A k \in claims' : k \in claims \/ ReceiptFits(member', op', k)
    PROVE  Books'
  <1>1. \A i \in Operations : OpFits(op'[i])
    BY DEF Books, Forward, OpFits
  <1>2. ASSUME NEW r \in Rows
        PROVE  RowFits(member'[r], op', claims', r)
    <2>1. CASE member'[r] = member[r]
      <3>1. RowFits(member[r], op, claims, r) /\ r[1] \in Operations
        BY BookTables DEF Books
      <3>2. QED
        BY <2>1, <3>1 DEF RowFits, Forward
    <2>2. QED
      BY <2>1
  <1>3. \A b \in Batches : TripDispatchFits(td'[b])
    BY DEF Books, Forward, TripDispatchFits
  <1>4. \A w \in Workers : WorkerFits(member', op', claims', worker'[w])
    BY WorkerForward DEF Books
  <1>5. ASSUME NEW c \in Couriers
        PROVE  CourierFits(td', courier'[c])
    <2>1. CourierFits(td, courier[c])
      BY DEF Books
    <2>2. QED
      BY <2>1 DEF CourierFits, Forward
  <1>6. ASSUME NEW call \in late'
        PROVE  LateFits(member', td', call)
    <2>1. CASE call \in late
      <3>1. LateFits(member, td, call) /\ (call.kind = "batch" => call.batch \in Batches)
        BY <2>1, BookTables DEF Books, LateCall, Call
      <3>2. QED
        BY <3>1 DEF LateFits, CallFits, Forward
    <2>2. QED
      BY <2>1
  <1>7. ASSUME NEW k \in claims'
        PROVE  ReceiptFits(member', op', k)
    <2>1. CASE k \in claims
      <3>1. ReceiptFits(member, op, k) /\ k.id \in Rows /\ k.id[1] \in Operations
        BY <2>1, BookTables DEF Books, ReceiptFits
      <3>2. op[k.id[1]].status # "NONE"
        BY <3>1 DEF Books, RowFits, ReceiptFits
      <3>3. QED
        BY <3>1, <3>2 DEF ReceiptFits, Forward
    <2>2. QED
      BY <2>1
  <1>8. QED
    BY <1>1, <1>2, <1>3, <1>4, <1>5, <1>6, <1>7 DEF Books

-----------------------------------------------------------------------------
(* Commands *)

\* Nothing the books are about changes.
LEMMA BooksStill ==
    ASSUME Books, UNCHANGED <<op, member, td, worker, courier, late, claims>>
    PROVE  Books'
  BY DEF Books, BookTypes

\* A fresh id has no operation yet.
LEMMA FreshOp ==
    ASSUME Books, NEW i \in Operations, NEW kind, NEW t, NEW u, Fresh(i), NewOp(i, kind, t, u)
    PROVE  /\ op[i].status = "NONE" /\ op'[i].status = "PENDING"
           /\ \A j \in Operations \ {i} : op'[j] = op[j]
           /\ \A j \in Operations : op[j].status # "NONE" => op'[j].status # "NONE"
  <1>1. i >= i
    BY TripAssumption
  <1>2. op[i].status = "NONE"
    BY <1>1 DEF Fresh
  <1>3. QED
    BY <1>2, BookTables DEF NewOp

\* A new operation: it makes rows of its own and takes over rows on a manifest.
LEMMA NewOpBooks ==
    ASSUME Books, NEW i \in Operations, NEW t \in Trips, NEW u \in Users,
           NEW kind \in {"ADD", "REMOVE", "CANCEL", "SHIPMENT_CANCELED"},
           Fresh(i), NewOp(i, kind, t, u), member' \in [Rows -> MemberRow],
           \A r \in Rows : \/ member'[r] = member[r]
                           \/ /\ member[r].state \in {"NONE", "ACTIVE"}
                              /\ member'[r].state # "NONE"
                              /\ RowFits(member'[r], op', claims, r),
           UNCHANGED <<td, worker, courier, late, claims>>
    PROVE  Books'
  <1> DEFINE o == [kind |-> kind, trip |-> t, actor |-> u, status |-> "PENDING",
                   lock |-> TRUE, leased |-> FALSE]
  <1>1. op[i].status = "NONE" /\ o \in OpRow
    BY FreshOp DEF OpRow
  <1>2. op' = [op EXCEPT ![i] = o] /\ OpFits(o)
    BY DEF NewOp, OpFits
  <1> HIDE DEF o
  <1>3. /\ op' \in [Operations -> OpRow] /\ op'[i] = o
        /\ \A j \in Operations \ {i} : op'[j] = op[j]
    BY <1>1, <1>2, BookTables
  <1>4. Forward
    BY <1>1, <1>3 DEF Forward, GivenUp
  <1>5. BookTypes'
    BY <1>3, BookTables DEF BookTypes
  <1>6. \A j \in Operations : op[j].status # "NONE" \/ OpFits(op'[j])
    BY <1>2, <1>3 DEF Books
  <1>7. \A b \in Batches : td[b].status # "NONE" \/ TripDispatchFits(td'[b])
    BY DEF Books
  <1>8. \A r \in Rows : member'[r] = member[r] \/ RowFits(member'[r], op', claims', r)
    OBVIOUS
  <1>9. QED
    BY <1>4, <1>5, <1>6, <1>7, <1>8, BooksStep

\* add
LEMMA AddBooks ==
    ASSUME Books, NEW t \in Trips, NEW S \in SUBSET Shipments, NEW u \in Users,
           NEW i \in Operations, NEW asked \in [Shipments -> Nat],
           Add(t, S, u, i, asked), claims' = claims
    PROVE  Books'
  <1>1. Fresh(i) /\ NewOp(i, "ADD", t, u) /\ UNCHANGED <<td, worker, courier, late>>
    BY DEF Add
  <1>2. op[i].status = "NONE" /\ op'[i].status = "PENDING"
    BY <1>1, FreshOp
  <1>3. ASSUME NEW r \in Rows
        PROVE  /\ member'[r] \in MemberRow
               /\ \/ member'[r] = member[r]
                  \/ /\ member[r].state \in {"NONE", "ACTIVE"}
                     /\ member'[r].state # "NONE"
                     /\ RowFits(member'[r], op', claims, r)
    <2> DEFINE new == [member[r] EXCEPT !.state = "CLAIM_PENDING", !.op = i,
                                        !.asked = asked[r[2]]]
    <2>1. member[r] \in MemberRow /\ r[2] \in Shipments
      BY BookTables
    <2>2. /\ new \in MemberRow /\ new.state = "CLAIM_PENDING" /\ new.op = i
      BY <2>1 DEF MemberRow
    <2>3. member'[r] = IF r[1] = i /\ r[2] \in S THEN new ELSE member[r]
      BY DEF Add
    <2>4. r[1] = i => member[r].state = "NONE"
      BY <1>2 DEF Books, RowFits
    <2> HIDE DEF new
    <2>5. r[1] = i => RowFits(new, op', claims, r)
      BY <1>2, <2>2 DEF RowFits
    <2>6. QED
      BY <2>1, <2>2, <2>3, <2>4, <2>5
  <1>4. member' \in [Rows -> MemberRow]
    BY <1>3 DEF Add
  <1>5. QED
    BY <1>1, <1>3, <1>4, NewOpBooks

\* What the release of a row on a manifest makes of it.
LEMMA ReleasingFits ==
    ASSUME Books, NEW r \in Rows, member[r].state = "ACTIVE", NEW m \in MemberRow,
           NEW a \in Users, NEW i \in Operations, claims' = claims,
           \A j \in Operations : op[j].status # "NONE" => op'[j].status # "NONE"
    PROVE  /\ Releasing(m, a, i) \in MemberRow
           /\ RowFits(Releasing(m, a, i), op', claims', r)
           /\ Releasing(m, a, i).state = "RELEASE_PENDING"
  <1>1. /\ Releasing(m, a, i) \in MemberRow
        /\ Releasing(m, a, i).state = "RELEASE_PENDING"
        /\ Releasing(m, a, i).rel.try > 0
    <2>1. m.rel.try \in Nat
      BY DEF MemberRow, ReleaseRequest
    <2>2. Releasing(m, a, i).rel.try = m.rel.try + 1
      BY DEF Releasing, MemberRow
    <2>3. QED
      BY <2>1, <2>2, ReleasingRow
  <1>2. /\ r[1] \in Operations /\ op[r[1]].status # "NONE" /\ r[2] \notin BadPlaces
        /\ Known(claims, r)
    BY BookTables DEF Books, RowFits
  <1>3. QED
    BY <1>1, <1>2 DEF RowFits

\* remove and cancel
LEMMA ReleaseBooks ==
    ASSUME Books, NEW t \in Trips, NEW R \in SUBSET ActiveRows(t), NEW u \in Users,
           NEW i \in Operations, NEW kind \in {"REMOVE", "CANCEL"},
           Fresh(i), NewOp(i, kind, t, u), Release(R, u, i),
           UNCHANGED <<td, worker, courier, late, claims>>
    PROVE  Books'
  <1>1. \A j \in Operations : op[j].status # "NONE" => op'[j].status # "NONE"
    BY FreshOp
  <1>2. ASSUME NEW r \in Rows
        PROVE  /\ member'[r] \in MemberRow
               /\ \/ member'[r] = member[r]
                  \/ /\ member[r].state \in {"NONE", "ACTIVE"}
                     /\ member'[r].state # "NONE"
                     /\ RowFits(member'[r], op', claims, r)
    <2>1. member'[r] = IF r \in R THEN Releasing(member[r], u, i) ELSE member[r]
      BY DEF Release
    <2>2. member[r] \in MemberRow
      BY BookTables
    <2>3. CASE r \in R
      <3>1. member[r].state = "ACTIVE"
        BY <2>3 DEF ActiveRows
      <3>2. /\ Releasing(member[r], u, i) \in MemberRow
            /\ RowFits(Releasing(member[r], u, i), op', claims', r)
            /\ Releasing(member[r], u, i).state = "RELEASE_PENDING"
        BY <1>1, <2>2, <3>1, ReleasingFits
      <3>3. QED
        BY <2>1, <2>3, <3>1, <3>2
    <2>4. QED
      BY <2>1, <2>2, <2>3
  <1>3. member' \in [Rows -> MemberRow]
    BY <1>2 DEF Release
  <1>4. QED
    BY <1>2, <1>3, NewOpBooks

\* The consumer of ShipmentCanceled.
LEMMA CanceledBooks ==
    ASSUME Books, NEW s \in Shipments, NEW v \in Nat, NEW i \in Operations,
           ShipmentCanceled(s, v, i), claims' = claims
    PROVE  Books'
  <1>1. PICK r \in RowsFor(s) :
           /\ member[r].state = "ACTIVE" /\ Fresh(i)
           /\ NewOp(i, "SHIPMENT_CANCELED", TripOf(r), op[r[1]].actor)
           /\ member' = [member EXCEPT
                           ![r] = Releasing([@ EXCEPT !.version = v], op[r[1]].actor, i)]
           /\ UNCHANGED <<td, worker, courier, late>>
    BY DEF ShipmentCanceled
  <1> DEFINE m == [member[r] EXCEPT !.version = v]
             new == Releasing(m, op[r[1]].actor, i)
  <1>2. r \in Rows /\ r[1] \in Operations /\ member[r] \in MemberRow
    BY BookTables DEF RowsFor
  <1>3. TripOf(r) \in Trips /\ op[r[1]].actor \in Users
    BY <1>1, <1>2 DEF Books, RowFits, OpFits, TripOf
  <1>4. m \in MemberRow
    BY <1>2 DEF MemberRow
  <1>5. \A j \in Operations : op[j].status # "NONE" => op'[j].status # "NONE"
    BY <1>1, FreshOp
  <1>6. /\ new \in MemberRow /\ RowFits(new, op', claims', r)
        /\ new.state = "RELEASE_PENDING"
    <2> HIDE DEF m
    <2>1. QED
      BY <1>1, <1>2, <1>3, <1>4, <1>5, ReleasingFits
  <1>7. member' = [member EXCEPT ![r] = new]
    BY <1>1
  <1> HIDE DEF new, m
  <1>8. member' \in [Rows -> MemberRow]
    BY <1>6, <1>7, BookTables
  <1>9. ASSUME NEW q \in Rows
        PROVE  \/ member'[q] = member[q]
               \/ /\ member[q].state \in {"NONE", "ACTIVE"}
                  /\ member'[q].state # "NONE"
                  /\ RowFits(member'[q], op', claims, q)
    <2>1. CASE q = r
      BY <1>1, <1>2, <1>6, <1>7, <2>1, BookTables
    <2>2. CASE q # r
      BY <1>7, <2>2, BookTables
    <2>3. QED
      BY <2>1, <2>2
  <1>10. QED
    BY <1>1, <1>3, <1>8, <1>9, NewOpBooks

-----------------------------------------------------------------------------
(* Workers *)

\* Operations are written, but none appears and none changes hands.
OpsKept ==
    /\ op' \in [Operations -> OpRow]
    /\ \A j \in Operations :
          /\ op'[j].status = "NONE" <=> op[j].status = "NONE"
          /\ op'[j].trip = op[j].trip /\ op'[j].actor = op[j].actor

\* Giving or taking a lease, and the status of an operation that exists.
LEMMA OpWritten ==
    ASSUME Books, NEW i \in Operations, NEW o \in OpRow, op' = [op EXCEPT ![i] = o],
           o.status = "NONE" <=> op[i].status = "NONE",
           o.trip = op[i].trip, o.actor = op[i].actor
    PROVE  OpsKept
  BY BookTables DEF OpsKept

\* A step of worker w into state x.
LEMMA WorkerBooks ==
    ASSUME Books, NEW w \in Workers, NEW x \in WorkerRow,
           worker' = [worker EXCEPT ![w] = x], OpsKept,
           member' \in [Rows -> MemberRow],
           \A r \in Rows : \/ member'[r] = member[r]
                           \/ /\ member[r].state # "NONE" /\ member'[r].state # "NONE"
                              /\ member[r].state \in GivenUp => member'[r].state \in GivenUp
                              /\ RowFits(member'[r], op', claims, r),
           \/ WorkerFits(member, op, claims, x)
           \/ WorkerFits(member', op', claims, x),
           late' \subseteq late \cup InFlight(w),
           UNCHANGED <<td, courier, claims>>
    PROVE  Books'
  <1>1. Forward
    BY DEF Forward, OpsKept
  <1>2. InFlight(w) \subseteq Call /\ \A call \in InFlight(w) : CallFits(member, call)
    BY DEF InFlight, Books, WorkerFits, Lists, Calling
  <1>3. \A call \in InFlight(w) : call.kind # "batch" /\ CallFits(member', call)
    BY <1>1, <1>2 DEF CallFits, Forward, Call
  <1>4. late' \subseteq LateCall /\ \A call \in late' : call \in late \/ LateFits(member', td', call)
    BY <1>2, <1>3, BookTables DEF LateFits, LateCall
  <1>5. BookTypes'
    BY <1>4, BookTables DEF BookTypes, OpsKept
  <1>6. \A j \in Operations : op[j].status # "NONE" \/ OpFits(op'[j])
    BY DEF OpsKept, OpFits
  <1>7. \A b \in Batches : td[b].status # "NONE" \/ TripDispatchFits(td'[b])
    BY DEF Books
  <1>8. WorkerFits(member', op', claims', x)
    BY <1>1, WorkerForward
  <1>9. \A y \in Workers : worker'[y] = worker[y] \/ WorkerFits(member', op', claims', worker'[y])
    BY <1>8, BookTables
  <1>10. QED
    BY <1>1, <1>4, <1>5, <1>6, <1>7, <1>9, BooksStep

\* The state of a worker at work, taken apart.
LEMMA WorkerHas ==
    ASSUME Books, NEW w \in Workers
    PROVE  /\ worker[w] \in WorkerRow /\ WorkerFits(member, op, claims, worker[w])
           /\ Busy(w) => worker[w].op \in Operations /\ op[worker[w].op].status # "NONE"
           /\ worker[w].phase \in Calling =>
                 /\ worker[w].at \in Call /\ worker[w].at.row \in Rows
                 /\ member[worker[w].at.row].state # "NONE"
  BY BookTables DEF Books, WorkerFits, Lists, CallFits, Busy

\* A worker that is not at work knows nothing.
LEMMA IdleFits == Idle \in WorkerRow /\ WorkerFits(member, op, claims, Idle)
  BY DEF Idle, WorkerRow, WorkerFits, Calling

\* The rows of an operation, as resume and beginCompensation read them.
LEMMA CallsFit ==
    ASSUME NEW m \in [Rows -> MemberRow], NEW o, NEW K, NEW i \in Operations,
           \A r \in Rows : RowFits(m[r], o, K, r), o[i].status # "NONE"
    PROVE  LET x == [Idle EXCEPT !.op = i, !.phase = "releases", !.todo = ReleaseCalls(m, i)]
           IN  x \in WorkerRow /\ WorkerFits(m, o, K, x)
  <1> DEFINE x == [Idle EXCEPT !.op = i, !.phase = "releases", !.todo = ReleaseCalls(m, i)]
  <1>1. /\ x.op = i /\ x.phase = "releases" /\ x.todo = ReleaseCalls(m, i)
        /\ x.at = NoCall /\ x.answer = "none" /\ DOMAIN x = {"op", "phase", "todo", "at", "answer"}
    BY DEF Idle
  <1>2. ASSUME NEW call \in ReleaseCalls(m, i)
        PROVE  call \in Call /\ CallFits(m, call) /\ call.kind = "release"
    <2>1. PICK r \in Rows : /\ m[r].op = i /\ m[r].state = "RELEASE_PENDING"
                            /\ call = [kind |-> "release", row |-> r, rel |-> m[r].rel]
      BY DEF ReleaseCalls
    <2>2. m[r].rel \in ReleaseRequest /\ m[r].rel.try > 0
      BY <2>1 DEF RowFits, MemberRow
    <2>3. QED
      BY <2>1, <2>2 DEF Call, CallFits, GivenUp
  <1>3. x \in WorkerRow
    BY <1>2 DEF Idle, WorkerRow
  <1> HIDE DEF x
  <1>4. WorkerFits(m, o, K, x)
    BY <1>1, <1>2 DEF WorkerFits, Lists, Claiming, Calling
  <1>5. QED
    BY <1>3, <1>4 DEF x

\* resume
LEMMA ResumeBooks ==
    ASSUME Books, NEW w \in Workers, NEW i \in Operations, Resume(w, i), claims' = claims
    PROVE  Books'
  <1> DEFINE y == [Idle EXCEPT !.op = i, !.phase = "claims", !.todo = ClaimCalls(i)]
             z == [Idle EXCEPT !.op = i, !.phase = "releases", !.todo = ReleaseCalls(member, i)]
             o == [op[i] EXCEPT !.leased = TRUE]
  <1>1. op[i].status # "NONE" /\ op[i] \in OpRow
    BY BookTables DEF Resume
  <1>2. z \in WorkerRow /\ WorkerFits(member, op, claims, z)
    BY <1>1, BookTables, CallsFit DEF Books
  <1>3. y \in WorkerRow /\ WorkerFits(member, op, claims, y)
    <2>1. ASSUME NEW call \in ClaimCalls(i)
          PROVE  call \in Call /\ CallFits(member, call) /\ call.kind = "claim"
                 /\ call.row[1] = i
      <3>1. PICK r \in Rows : /\ member[r].op = i /\ member[r].state = "CLAIM_PENDING"
                              /\ call = [kind |-> "claim", row |-> r]
        BY DEF ClaimCalls, RowsOf
      <3>2. r[1] = i
        BY <3>1 DEF Books, RowFits
      <3>3. QED
        BY <3>1, <3>2 DEF Call, CallFits
    <2>2. y \in WorkerRow /\ y.op = i /\ y.phase = "claims" /\ y.todo = ClaimCalls(i)
      BY <2>1 DEF Idle, WorkerRow
    <2> HIDE DEF y
    <2>3. QED
      BY <1>1, <2>1, <2>2 DEF WorkerFits, Lists, Claiming, Calling
  <1>4. o \in OpRow /\ o.status = op[i].status /\ o.trip = op[i].trip /\ o.actor = op[i].actor
    BY <1>1 DEF OpRow
  <1>5. op' = [op EXCEPT ![i] = o] /\ UNCHANGED <<member, td, courier, late>>
    BY DEF Resume
  <1>6. worker' = [worker EXCEPT ![w] = y] \/ worker' = [worker EXCEPT ![w] = z]
    BY DEF Resume
  <1> HIDE DEF y, z, o
  <1>7. OpsKept
    BY <1>1, <1>4, <1>5, OpWritten
  <1>8. QED
    BY <1>2, <1>3, <1>5, <1>6, <1>7, BookTables, WorkerBooks

\* A worker moves without writing anything else.
LEMMA MovesBooks ==
    ASSUME Books, NEW w \in Workers, NEW x \in WorkerRow,
           worker' = [worker EXCEPT ![w] = x], WorkerFits(member, op, claims, x),
           late' \subseteq late \cup InFlight(w), OpsKept,
           UNCHANGED <<member, td, courier, claims>>
    PROVE  Books'
  <1>1. member' \in [Rows -> MemberRow] /\ \A r \in Rows : member'[r] = member[r]
    BY BookTables
  <1>2. QED
    BY <1>1, WorkerBooks

\* No operation is written.
LEMMA OpsSame ==
    ASSUME Books, op' = op
    PROVE  OpsKept
  BY BookTables DEF OpsKept

\* The worker turns to the next row.
LEMMA SendBooks ==
    ASSUME Books, NEW w \in Workers, claims' = claims,
           Send(w, "claims", "claiming") \/ Send(w, "releases", "releasing")
    PROVE  Books'
  <1> DEFINE to == IF worker[w].phase = "claims" THEN "claiming" ELSE "releasing"
  <1>1. PICK call \in worker[w].todo :
            worker' = [worker EXCEPT ![w].phase = to, ![w].at = call, ![w].todo = @ \ {call}]
    BY DEF Send
  <1>2. worker[w].phase \in {"claims", "releases"} /\ UNCHANGED <<op, member, td, courier, late>>
    BY DEF Send
  <1> DEFINE x == [worker[w] EXCEPT !.phase = to, !.at = call, !.todo = @ \ {call}]
  <1>3. worker[w] \in WorkerRow /\ worker[w].todo \subseteq Call /\ call \in Call
    BY WorkerHas DEF WorkerRow
  <1>4. /\ x \in WorkerRow /\ x.phase = to /\ x.at = call
        /\ x.todo = worker[w].todo \ {call} /\ x.op = worker[w].op
    BY <1>3 DEF WorkerRow
  <1>5. worker' = [worker EXCEPT ![w] = x]
    BY <1>1, BookTables
  <1>6. WorkerFits(member, op, claims, worker[w])
    BY WorkerHas
  <1> HIDE DEF x
  <1>7. \A c \in worker[w].todo : Lists(member, x, c)
    BY <1>2, <1>4, <1>6 DEF WorkerFits, Lists, Claiming
  <1>8. WorkerFits(member, op, claims, x)
    BY <1>2, <1>3, <1>4, <1>6, <1>7 DEF WorkerFits
  <1>9. OpsKept
    BY <1>2, OpsSame
  <1>10. QED
    BY <1>2, <1>4, <1>5, <1>8, <1>9, MovesBooks

\* The worker gives up, dies, or ends its work and gives back the lease.
LEMMA StopBooks ==
    ASSUME Books, NEW w \in Workers, Busy(w), claims' = claims,
           op' = op \/ op' = [op EXCEPT ![worker[w].op].leased = FALSE],
           worker' = [worker EXCEPT ![w] = Idle],
           late' = late \/ late' = late \cup InFlight(w),
           UNCHANGED <<member, td, courier>>
    PROVE  Books'
  <1> DEFINE i == worker[w].op
             o == [op[i] EXCEPT !.leased = FALSE]
  <1>1. i \in Operations /\ op[i] \in OpRow
    BY WorkerHas, BookTables
  <1>2. o \in OpRow /\ o.status = op[i].status /\ o.trip = op[i].trip /\ o.actor = op[i].actor
    BY <1>1 DEF OpRow
  <1>3. op' = op \/ op' = [op EXCEPT ![i] = o]
    OBVIOUS
  <1> HIDE DEF i, o
  <1>4. OpsKept
    BY <1>1, <1>2, <1>3, OpWritten, OpsSame
  <1>5. QED
    BY <1>4, IdleFits, MovesBooks

\* A lease runs out.
LEMMA LeaseBooks ==
    ASSUME Books, NEW i \in Operations, LeaseRunsOut(i), claims' = claims
    PROVE  Books'
  <1> DEFINE o == [op[i] EXCEPT !.leased = FALSE]
  <1>1. o \in OpRow /\ o.status = op[i].status /\ o.trip = op[i].trip /\ o.actor = op[i].actor
    <2>1. op[i] \in OpRow
      BY BookTables
    <2>2. QED
      BY <2>1 DEF OpRow
  <1>2. op' = [op EXCEPT ![i] = o] /\ UNCHANGED <<member, td, worker, courier, late>>
    BY DEF LeaseRunsOut
  <1> HIDE DEF o
  <1>3. OpsKept
    BY <1>1, <1>2, OpWritten
  <1>4. Forward
    BY <1>2, <1>3 DEF Forward, OpsKept
  <1>5. BookTypes'
    BY <1>2, <1>3, BookTables DEF BookTypes, OpsKept
  <1>6. \A j \in Operations : op[j].status # "NONE" \/ OpFits(op'[j])
    BY <1>3 DEF OpsKept, OpFits
  <1>7. \A b \in Batches : td[b].status # "NONE" \/ TripDispatchFits(td'[b])
    BY <1>2 DEF Books
  <1>8. QED
    BY <1>2, <1>4, <1>5, <1>6, <1>7, BooksStep

\* An answer moves one row of the table.
LEMMA PersistBooks ==
    ASSUME Books, NEW w \in Workers, claims' = claims, NEW x \in WorkerRow,
           worker' = [worker EXCEPT ![w] = x], WorkerFits(member, op, claims, x),
           NEW r \in Rows, NEW new \in MemberRow,
           member' = member \/ member' = [member EXCEPT ![r] = new],
           member[r].state # "NONE", new.state # "NONE",
           member[r].state \in GivenUp => new.state \in GivenUp,
           RowFits(new, op, claims, r),
           UNCHANGED <<op, td, courier, late>>
    PROVE  Books'
  <1>1. OpsKept
    BY OpsSame
  <1>2. member' \in [Rows -> MemberRow]
    BY BookTables
  <1>3. \A q \in Rows : member'[q] = member[q] \/ (q = r /\ member'[q] = new)
    BY BookTables
  <1>4. QED
    BY <1>1, <1>2, <1>3, WorkerBooks

\* The worker goes back to its list.
LEMMA BackToList ==
    ASSUME Books, NEW w \in Workers, NEW phase, NEW x,
           \/ worker[w].phase = "claimed" /\ phase = "claims"
           \/ worker[w].phase = "released" /\ phase = "releases",
           x = [worker[w] EXCEPT !.phase = phase, !.at = NoCall, !.answer = "none"]
    PROVE  x \in WorkerRow /\ WorkerFits(member, op, claims, x)
  <1>1. worker[w] \in WorkerRow /\ WorkerFits(member, op, claims, worker[w])
    BY WorkerHas
  <1>2. phase \in {"claims", "releases"}
    OBVIOUS
  <1>3. /\ x \in WorkerRow /\ x.phase = phase
        /\ x.todo = worker[w].todo /\ x.op = worker[w].op
    BY <1>1, <1>2 DEF WorkerRow
  <1>4. WorkerFits(member, op, claims, x)
    BY <1>1, <1>2, <1>3 DEF WorkerFits, Lists, Claiming, Calling
  <1>5. QED
    BY <1>3, <1>4

\* persistClaim
LEMMA PersistClaimBooks ==
    ASSUME Books, NEW w \in Workers, PersistClaim(w), claims' = claims
    PROVE  Books'
  <1> DEFINE r == worker[w].at.row
             x == [worker[w] EXCEPT !.phase = "claims", !.at = NoCall, !.answer = "none"]
             new == IF member[r].state = "CLAIM_PENDING"
                    THEN [member[r] EXCEPT !.state = "ACTIVE", !.version = member[r].asked + 1]
                    ELSE member[r]
  <1>1. worker[w].phase = "claimed" /\ worker[w].answer = "CLAIMED"
        /\ UNCHANGED <<op, td, courier, late>>
    BY DEF PersistClaim
  <1>2. r \in Rows /\ member[r].state # "NONE" /\ member[r] \in MemberRow
    BY <1>1, WorkerHas, BookTables DEF Calling
  <1>3. r[2] \notin BadPlaces /\ Known(claims, r)
    BY <1>1, WorkerHas DEF WorkerFits
  <1>4. x \in WorkerRow /\ WorkerFits(member, op, claims, x)
    BY <1>1, BackToList
  <1>5. worker' = [worker EXCEPT ![w] = x]
    BY BookTables DEF PersistClaim
  <1>6. new \in MemberRow
    <2>1. member[r].asked + 1 \in Nat
      BY <1>2 DEF MemberRow
    <2>2. QED
      BY <1>2, <2>1 DEF MemberRow
  <1>7. member' = member \/ member' = [member EXCEPT ![r] = new]
    BY <1>2, BookTables DEF PersistClaim
  <1>8. RowFits(member[r], op, claims, r)
    BY <1>2 DEF Books
  <1>9. /\ new.state # "NONE" /\ RowFits(new, op, claims, r)
        /\ member[r].state \in GivenUp => new.state \in GivenUp
    <2>1. CASE member[r].state = "CLAIM_PENDING"
      <3>1. new.state = "ACTIVE"
        BY <1>2, <2>1 DEF MemberRow
      <3>2. QED
        BY <1>3, <1>8, <2>1, <3>1 DEF RowFits, GivenUp
    <2>2. CASE member[r].state # "CLAIM_PENDING"
      BY <1>2, <1>8, <2>2
    <2>3. QED
      BY <2>1, <2>2
  <1> HIDE DEF r, x, new
  <1>10. QED
    BY <1>1, <1>2, <1>4, <1>5, <1>6, <1>7, <1>9, PersistBooks

\* persistRelease
LEMMA PersistReleaseBooks ==
    ASSUME Books, NEW w \in Workers, PersistRelease(w), claims' = claims
    PROVE  Books'
  <1> DEFINE r == worker[w].at.row
             x == [worker[w] EXCEPT !.phase = "releases", !.at = NoCall, !.answer = "none"]
             new == [member[r] EXCEPT !.state = "RELEASED", !.removed = TRUE]
  <1>1. worker[w].phase = "released" /\ UNCHANGED <<op, td, courier, late>>
    BY DEF PersistRelease
  <1>2. r \in Rows /\ member[r].state # "NONE" /\ member[r] \in MemberRow
    BY <1>1, WorkerHas, BookTables DEF Calling
  <1>3. x \in WorkerRow /\ WorkerFits(member, op, claims, x)
    BY <1>1, BackToList
  <1>4. worker' = [worker EXCEPT ![w] = x]
    BY BookTables DEF PersistRelease
  <1>5. /\ new \in MemberRow /\ new.state = "RELEASED" /\ new.removed
        /\ new.op = member[r].op
    BY <1>2 DEF MemberRow
  <1>6. member' = member \/ member' = [member EXCEPT ![r] = new]
    BY <1>2, BookTables DEF PersistRelease
  <1>7. RowFits(new, op, claims, r) /\ new.state \in GivenUp
    <2>1. RowFits(member[r], op, claims, r)
      BY <1>2 DEF Books
    <2> HIDE DEF new
    <2>2. QED
      BY <1>2, <1>5, <2>1 DEF RowFits, GivenUp
  <1> HIDE DEF r, x, new
  <1>8. QED
    BY <1>1, <1>2, <1>3, <1>4, <1>5, <1>6, <1>7, PersistBooks

\* beginCompensation, for one row.
LEMMA CompensatedFits ==
    ASSUME Books, NEW w \in Workers, worker[w].phase = "claimed",
           worker[w].answer # "CLAIMED", NEW r \in Rows
    PROVE  LET new == Compensated(Recorded(w, r), worker[w].op)
           IN  /\ new \in MemberRow
               /\ \/ new = member[r]
                  \/ /\ member[r].state # "NONE" /\ new.state # "NONE"
                     /\ member[r].state \in GivenUp => new.state \in GivenUp
                     /\ RowFits(new, op, claims, r)
  <1> DEFINE i == worker[w].op
             m == Recorded(w, r)
             new == Compensated(m, i)
  <1>1. /\ i \in Operations /\ op[i].actor \in Users /\ op[i].status # "NONE"
        /\ worker[w].at.row \in Rows /\ member[worker[w].at.row].state # "NONE"
        /\ worker[w].at.row[1] = i
    BY WorkerHas DEF Busy, Calling, Claiming, Books, OpFits, WorkerFits, Lists
  <1>2. member[r] \in MemberRow /\ RowFits(member[r], op, claims, r) /\ r[1] \in Operations
    BY BookTables DEF Books
  <1>3. CASE r = worker[w].at.row /\ worker[w].answer = "BAD_PLACE"
    <2>1. r[2] \in BadPlaces /\ Known(claims, r)
      BY <1>3, WorkerHas DEF WorkerFits
    <2>2. member[r].op = i /\ member[r].state # "NONE"
      BY <1>1, <1>2, <1>3, <2>1 DEF RowFits
    <2>3. /\ m \in MemberRow /\ m.state = "ACTIVE" /\ m.op = i
      <3>1. m = [member[r] EXCEPT !.state = "ACTIVE", !.version = member[r].asked + 1]
        BY <1>3 DEF Recorded
      <3>2. member[r].asked + 1 \in Nat
        BY <1>2 DEF MemberRow
      <3>3. QED
        BY <1>2, <2>2, <3>1, <3>2 DEF MemberRow
    <2> HIDE DEF m
    <2>4. new = Releasing(m, op[i].actor, i)
      BY <2>3 DEF Compensated
    <2>5. /\ new \in MemberRow /\ new.op = i /\ new.state = "RELEASE_PENDING"
          /\ new.rel.try > 0
      <3>1. m.rel.try \in Nat
        BY <2>3 DEF MemberRow, ReleaseRequest
      <3>2. Releasing(m, op[i].actor, i).rel.try = m.rel.try + 1
        BY <2>3 DEF Releasing, MemberRow
      <3>3. QED
        BY <1>1, <2>3, <2>4, <3>1, <3>2, ReleasingRow
    <2> HIDE DEF new
    <2>6. RowFits(new, op, claims, r)
      BY <1>1, <1>3, <2>1, <2>5, <1>2, <2>2 DEF RowFits
    <2>7. QED
      BY <2>2, <2>5, <2>6 DEF GivenUp, new, m
  <1>4. CASE ~(r = worker[w].at.row /\ worker[w].answer = "BAD_PLACE")
    <2>1. m = member[r]
      BY <1>4 DEF Recorded
    <2>2. CASE member[r].op = i /\ member[r].state = "ACTIVE"
      <3>1. new = Releasing(member[r], op[i].actor, i)
        BY <2>1, <2>2 DEF Compensated
      <3>2. /\ new \in MemberRow /\ new.op = i /\ new.state = "RELEASE_PENDING"
            /\ new.rel.try > 0
        <4>1. member[r].rel.try \in Nat
          BY <1>2 DEF MemberRow, ReleaseRequest
        <4>2. Releasing(member[r], op[i].actor, i).rel.try = member[r].rel.try + 1
          BY <1>2 DEF Releasing, MemberRow
        <4>3. QED
          BY <1>1, <1>2, <3>1, <4>1, <4>2, ReleasingRow
      <3> HIDE DEF new
      <3>3. RowFits(new, op, claims, r)
        BY <1>2, <2>2, <3>2 DEF RowFits
      <3>4. QED
        BY <2>2, <3>2, <3>3 DEF GivenUp, new
    <2>3. CASE member[r].op = i /\ member[r].state = "CLAIM_PENDING"
      <3>1. new = [member[r] EXCEPT !.state = "RELEASED", !.removed = TRUE]
        BY <2>1, <2>3 DEF Compensated
      <3>2. /\ new \in MemberRow /\ new.state = "RELEASED" /\ new.removed
            /\ new.op = member[r].op
        BY <1>2, <3>1 DEF MemberRow
      <3> HIDE DEF new
      <3>3. RowFits(new, op, claims, r)
        BY <1>2, <2>3, <3>2 DEF RowFits
      <3>4. QED
        BY <2>3, <3>2, <3>3 DEF GivenUp, new
    <2>4. CASE ~(member[r].op = i /\ member[r].state \in {"ACTIVE", "CLAIM_PENDING"})
      BY <1>2, <2>1, <2>4 DEF Compensated
    <2>5. QED
      BY <2>2, <2>3, <2>4
  <1>5. QED
    BY <1>3, <1>4

\* beginCompensation
LEMMA CompensateBooks ==
    ASSUME Books, NEW w \in Workers, Compensate(w), claims' = claims
    PROVE  Books'
  <1> DEFINE i == worker[w].op
             o == [op[i] EXCEPT !.status = "COMPENSATING"]
             x == [Idle EXCEPT !.op = i, !.phase = "releases", !.todo = ReleaseCalls(member', i)]
  <1>1. /\ worker[w].phase = "claimed" /\ worker[w].answer # "CLAIMED"
        /\ member' = [r \in Rows |-> Compensated(Recorded(w, r), i)]
        /\ op' = [op EXCEPT ![i] = o] /\ UNCHANGED <<td, courier, late>>
        /\ worker' = [worker EXCEPT ![w] = x]
    BY DEF Compensate, BeginCompensation
  <1>2. i \in Operations /\ op[i].status # "NONE" /\ op[i] \in OpRow
    BY <1>1, WorkerHas, BookTables DEF Busy
  <1>3. /\ o \in OpRow /\ o.status = "COMPENSATING"
        /\ o.trip = op[i].trip /\ o.actor = op[i].actor
    BY <1>2 DEF OpRow
  <1>4. \A r \in Rows : /\ member'[r] \in MemberRow
                        /\ \/ member'[r] = member[r]
                           \/ /\ member[r].state # "NONE" /\ member'[r].state # "NONE"
                              /\ member[r].state \in GivenUp => member'[r].state \in GivenUp
                              /\ RowFits(member'[r], op, claims, r)
    BY <1>1, CompensatedFits
  <1> HIDE DEF i, o
  <1>5. OpsKept
    BY <1>1, <1>2, <1>3, OpWritten
  <1>6. member' \in [Rows -> MemberRow]
    BY <1>1, <1>4
  <1>7. ASSUME NEW r \in Rows
        PROVE  RowFits(member'[r], op', claims, r)
    <2>1. RowFits(member'[r], op, claims, r) /\ r[1] \in Operations
      BY <1>4, BookTables DEF Books
    <2>2. QED
      BY <1>5, <2>1 DEF RowFits, OpsKept
  <1>8. op'[i].status # "NONE"
    BY <1>2, <1>5 DEF OpsKept
  <1>9. x \in WorkerRow /\ WorkerFits(member', op', claims, x)
    BY <1>2, <1>6, <1>7, <1>8, CallsFit
  <1> HIDE DEF x
  <1>10. QED
    BY <1>1, <1>4, <1>5, <1>6, <1>7, <1>9, WorkerBooks

\* The worker has nothing left to do for its operation and will finalize it.
LEMMA FinishBooks ==
    ASSUME Books, NEW w \in Workers, NEW answer \in {"COMPLETED", "REJECTED"}, Busy(w),
           worker[w].todo = {},
           Finish(w, answer), UNCHANGED <<member, td, courier, late, claims>>
    PROVE  Books'
  <1> DEFINE x == [worker[w] EXCEPT !.phase = "finish", !.answer = answer]
  <1>1. worker[w] \in WorkerRow /\ WorkerFits(member, op, claims, worker[w])
    BY WorkerHas
  <1>2. /\ x \in WorkerRow /\ x.phase = "finish" /\ x.answer = answer
        /\ x.op = worker[w].op /\ x.todo = {}
    BY <1>1 DEF WorkerRow
  <1>3. worker' = [worker EXCEPT ![w] = x] /\ op' = op
    BY BookTables DEF Finish
  <1> HIDE DEF x
  <1>4. WorkerFits(member, op, claims, x)
    BY <1>1, <1>2 DEF WorkerFits, Calling, Busy
  <1>5. QED
    BY <1>2, <1>3, <1>4, OpsSame, MovesBooks

\* The end of the list of claims or of releases.
LEMMA EndBooks ==
    ASSUME Books, NEW w \in Workers, claims' = claims,
           EndClaims(w) \/ EndReleases(w)
    PROVE  Books'
  <1>1. /\ worker[w].phase \in {"claims", "releases"} /\ worker[w].todo = {}
        /\ UNCHANGED <<member, td, courier, late>>
        /\ \/ Stand(w)
           \/ \E answer \in {"COMPLETED", "REJECTED"} : Finish(w, answer)
    BY DEF EndClaims, EndReleases
  <1>2. Busy(w)
    BY <1>1 DEF Busy
  <1>3. CASE Stand(w)
    BY <1>1, <1>2, <1>3, StopBooks DEF Stand
  <1>4. QED
    BY <1>1, <1>2, <1>3, FinishBooks

\* The worker goes on with the releases another one has begun.
LEMMA JoinBooks ==
    ASSUME Books, NEW w \in Workers, claims' = claims, JoinCompensation(w)
    PROVE  Books'
  <1> DEFINE i == worker[w].op
             x == [worker[w] EXCEPT !.phase = "releases", !.todo = ReleaseCalls(member, i)]
             y == [Idle EXCEPT !.op = i, !.phase = "releases", !.todo = ReleaseCalls(member, i)]
  <1>1. /\ worker[w].phase = "claims" /\ UNCHANGED <<op, member, td, courier, late>>
        /\ worker' = [worker EXCEPT ![w] = x]
    BY BookTables DEF JoinCompensation
  <1>2. worker[w] \in WorkerRow /\ i \in Operations /\ op[i].status # "NONE"
    BY <1>1, WorkerHas DEF Busy
  <1>3. y \in WorkerRow /\ WorkerFits(member, op, claims, y)
    BY <1>2, BookTables, CallsFit DEF Books
  <1>4. y.op = i /\ y.phase = "releases" /\ y.todo = ReleaseCalls(member, i)
    BY DEF Idle
  <1>5. x.op = i /\ x.phase = "releases" /\ x.todo = ReleaseCalls(member, i)
    BY <1>2 DEF WorkerRow
  <1>6. x \in WorkerRow
    <2>1. ReleaseCalls(member, i) \subseteq Call
      BY <1>3, <1>4 DEF WorkerRow
    <2>2. QED
      BY <1>2, <2>1 DEF WorkerRow
  <1> HIDE DEF x, y
  <1>7. WorkerFits(member, op, claims, x)
    BY <1>3, <1>4, <1>5 DEF WorkerFits, Lists, Claiming, Calling
  <1>8. QED
    BY <1>1, <1>6, <1>7, OpsSame, MovesBooks

\* finalize
LEMMA FinalizeBooks ==
    ASSUME Books, NEW w \in Workers, claims' = claims, Finalize(w)
    PROVE  Books'
  <1> DEFINE i == worker[w].op
             o == [op[i] EXCEPT !.status = worker[w].answer, !.lock = FALSE, !.leased = FALSE]
  <1>1. /\ worker[w].phase = "finish" /\ UNCHANGED <<member, td, courier, late>>
        /\ worker' = [worker EXCEPT ![w] = Idle]
    BY DEF Finalize
  <1>2. i \in Operations /\ op[i].status # "NONE" /\ op[i] \in OpRow
    BY <1>1, WorkerHas, BookTables DEF Busy
  <1>3. worker[w].answer \in {"COMPLETED", "REJECTED"}
    BY <1>1, WorkerHas DEF WorkerFits
  <1>4. op' = [op EXCEPT ![i] = o]
    BY <1>2, BookTables DEF Finalize
  <1>5. /\ o \in OpRow /\ o.status = worker[w].answer
        /\ o.trip = op[i].trip /\ o.actor = op[i].actor
    BY <1>2, <1>3 DEF OpRow
  <1> HIDE DEF i, o
  <1>6. OpsKept
    BY <1>2, <1>3, <1>4, <1>5, OpWritten
  <1>7. QED
    BY <1>1, <1>6, IdleFits, MovesBooks

-----------------------------------------------------------------------------
(* Couriers and dispatches *)

\* A step that touches nothing but dispatches, couriers and calls in flight.
LEMMA DispatchBooks ==
    ASSUME Books, UNCHANGED <<op, member, worker, claims>>,
           td' \in [Batches -> DispatchRow], courier' \in [Couriers -> CourierRow],
           late' \subseteq LateCall,
           \A b \in Batches :
              /\ td[b].status # "NONE" => /\ td'[b].status # "NONE"
                                          /\ td'[b].trip = td[b].trip
                                          /\ td'[b].load = td[b].load
              /\ td[b].status = "NONE" => TripDispatchFits(td'[b]),
           \A c \in Couriers : courier'[c] = courier[c] \/ CourierFits(td', courier'[c]),
           \A call \in late' : call \in late \/ LateFits(member, td', call)
    PROVE  Books'
  <1>1. Forward
    BY DEF Forward
  <1>2. BookTypes'
    BY BookTables DEF BookTypes
  <1>3. \A i \in Operations : op[i].status # "NONE" \/ OpFits(op'[i])
    BY DEF Books
  <1>4. QED
    BY <1>1, <1>2, <1>3, BooksStep

\* A courier at work knows its dispatch.
LEMMA CourierHas ==
    ASSUME Books, NEW c \in Couriers, courier[c].phase # "idle"
    PROVE  /\ courier[c] \in CourierRow /\ courier[c].batch \in Batches
           /\ td[courier[c].batch] \in DispatchRow
           /\ td[courier[c].batch].status # "NONE"
           /\ td[courier[c].batch].trip \in Trips
  BY BookTables DEF Books, CourierFits, TripDispatchFits

\* A courier moves on to state x and its dispatch to state d.
LEMMA CourierBooks ==
    ASSUME Books, NEW c \in Couriers, courier[c].phase # "idle", NEW x \in CourierRow,
           courier' = [courier EXCEPT ![c] = x],
           x.phase = "idle" \/ x.batch = courier[c].batch,
           NEW d \in DispatchRow,
           td' = td \/ td' = [td EXCEPT ![courier[c].batch] = d],
           d.status # "NONE", d.trip = td[courier[c].batch].trip,
           d.load = td[courier[c].batch].load,
           UNCHANGED <<op, member, worker, late, claims>>
    PROVE  Books'
  <1> DEFINE b == courier[c].batch
  <1>1. b \in Batches /\ td[b].status # "NONE"
    BY CourierHas
  <1>2. td' \in [Batches -> DispatchRow] /\ courier' \in [Couriers -> CourierRow]
    BY BookTables
  <1>3. /\ td'[b].status # "NONE" /\ td'[b].trip = td[b].trip /\ td'[b].load = td[b].load
        /\ \A a \in Batches : a # b => td'[a] = td[a]
    BY <1>1, BookTables
  <1>4. ASSUME NEW e \in Couriers
        PROVE  courier'[e] = courier[e] \/ CourierFits(td', courier'[e])
    BY <1>1, <1>3, BookTables DEF CourierFits
  <1> HIDE DEF b
  <1>5. \A a \in Batches :
           /\ td[a].status # "NONE" => /\ td'[a].status # "NONE"
                                       /\ td'[a].trip = td[a].trip
                                       /\ td'[a].load = td[a].load
           /\ td[a].status = "NONE" => TripDispatchFits(td'[a])
    BY <1>1, <1>3 DEF Books
  <1>6. QED
    BY <1>2, <1>4, <1>5, BookTables, DispatchBooks

\* A courier moves on, its dispatch stays.
LEMMA CourierOnly ==
    ASSUME Books, NEW c \in Couriers, courier[c].phase # "idle", NEW x \in CourierRow,
           courier' = [courier EXCEPT ![c] = x],
           x.phase = "idle" \/ x.batch = courier[c].batch,
           UNCHANGED <<op, member, td, worker, late, claims>>
    PROVE  Books'
  <1>1. PICK d \in DispatchRow : d = td[courier[c].batch]
    BY CourierHas
  <1>2. d.status # "NONE"
    BY <1>1, CourierHas
  <1>3. td' = td \/ td' = [td EXCEPT ![courier[c].batch] = d]
    OBVIOUS
  <1>4. UNCHANGED <<op, member, worker, late, claims>>
    OBVIOUS
  <1>5. QED
    BY <1>1, <1>2, <1>3, <1>4, CourierBooks

\* A courier that ends its work.
LEMMA OffRow == Off \in CourierRow /\ Off.phase = "idle"
  BY DEF Off, CourierRow

\* A new dispatch.
LEMMA StartTripDispatchBooks ==
    ASSUME Books, NEW t \in Trips, NEW b \in Batches, StartTripDispatch(t, b),
           trip \in [Trips -> TripRow], claims' = claims
    PROVE  Books'
  <1> DEFINE d == [trip |-> t, status |-> "PENDING", stage |-> "ACCEPTED",
                   version |-> trip[t].version, plan |-> trip[t].plan, load |-> Load(t)]
  <1>1. /\ td[b].status = "NONE" /\ td' = [td EXCEPT ![b] = d]
        /\ UNCHANGED <<op, member, worker, courier, late>>
    BY DEF StartTripDispatch
  <1>2. trip[t].version \in Nat /\ trip[t].plan \in Nat
    BY DEF TripRow
  <1>3. Load(t) \in [Shipments -> Nat]
    <2>1. ASSUME NEW s \in Shipments
          PROVE  Load(t)[s] \in Nat
      <3>1. CASE \E r \in ActiveRows(t) : r[2] = s
        <4> DEFINE q == CHOOSE r \in ActiveRows(t) : r[2] = s
        <4>1. q \in Rows
          BY <3>1 DEF ActiveRows, Aboard
        <4>2. Load(t)[s] = member[q].version
          BY <3>1 DEF Load
        <4> HIDE DEF q
        <4>3. member[q] \in MemberRow
          BY <4>1, BookTables
        <4>4. QED
          BY <4>2, <4>3 DEF MemberRow
      <3>2. CASE ~\E r \in ActiveRows(t) : r[2] = s
        BY <3>2 DEF Load
      <3>3. QED
        BY <3>1, <3>2
    <2>2. QED
      BY <2>1 DEF Load
  <1>4. d \in DispatchRow /\ TripDispatchFits(d)
    BY <1>2, <1>3 DEF DispatchRow, TripDispatchFits
  <1> HIDE DEF d
  <1>5. /\ td' \in [Batches -> DispatchRow] /\ td'[b] = d
        /\ \A a \in Batches : a # b => td'[a] = td[a]
    BY <1>1, <1>4, BookTables
  <1>6. \A a \in Batches :
           /\ td[a].status # "NONE" => /\ td'[a].status # "NONE"
                                       /\ td'[a].trip = td[a].trip
                                       /\ td'[a].load = td[a].load
           /\ td[a].status = "NONE" => TripDispatchFits(td'[a])
    BY <1>1, <1>4, <1>5 DEF TripDispatchFits
  <1>7. QED
    BY <1>1, <1>5, <1>6, BookTables, DispatchBooks

\* resume of a dispatch
LEMMA TakeUpBooks ==
    ASSUME Books, NEW c \in Couriers, NEW b \in Batches, TakeUp(c, b), claims' = claims
    PROVE  Books'
  <1> DEFINE x == [batch |-> b, answer |-> "none",
                   phase |-> CASE td[b].stage = "ACCEPTED"  -> "select"
                               [] td[b].stage = "RECEIPTED" -> "commit"
                               [] OTHER                     -> "call"]
  <1>1. /\ td[b].status # "NONE" /\ courier' = [courier EXCEPT ![c] = x]
        /\ UNCHANGED <<op, member, td, worker, late>>
    BY DEF TakeUp
  <1>2. x \in CourierRow /\ CourierFits(td, x)
    BY <1>1 DEF CourierRow, CourierFits
  <1> HIDE DEF x
  <1>3. /\ courier' \in [Couriers -> CourierRow]
        /\ \A e \in Couriers : courier'[e] = courier[e] \/ CourierFits(td', courier'[e])
    BY <1>1, <1>2, BookTables
  <1>4. \A a \in Batches :
           /\ td[a].status # "NONE" => /\ td'[a].status # "NONE"
                                       /\ td'[a].trip = td[a].trip
                                       /\ td'[a].load = td[a].load
           /\ td[a].status = "NONE" => TripDispatchFits(td'[a])
    BY <1>1 DEF TripDispatchFits
  <1>5. QED
    BY <1>1, <1>3, <1>4, BookTables, DispatchBooks

\* The courier selects, fails to, and reads the stage after an error.
LEMMA SelectBooks ==
    ASSUME Books, NEW c \in Couriers, claims' = claims,
           Select(c) \/ SelectConflict(c) \/ ReadStage(c)
    PROVE  Books'
  <1>1. courier[c].phase # "idle" /\ UNCHANGED <<op, member, td, worker, late>>
    BY DEF Select, SelectConflict, ReadStage
  <1>2. courier[c] \in CourierRow
    BY BookTables
  <1>3. CASE courier' = [courier EXCEPT ![c] = Off]
    BY <1>1, <1>3, OffRow, CourierOnly
  <1>4. CASE \E phase \in {"selected", "failed", "reject"} : Goes(c, phase)
    <2>1. PICK phase \in {"selected", "failed", "reject"} : Goes(c, phase)
      BY <1>4
    <2> DEFINE x == [courier[c] EXCEPT !.phase = phase]
    <2>2. x \in CourierRow /\ x.batch = courier[c].batch
      BY <1>2 DEF CourierRow
    <2>3. courier' = [courier EXCEPT ![c] = x]
      BY <2>1 DEF Goes
    <2> HIDE DEF x
    <2>4. QED
      BY <1>1, <2>2, <2>3, CourierOnly
  <1>5. QED
    BY <1>3, <1>4 DEF Select, SelectConflict, ReadStage

\* submit
LEMMA SubmitBooks ==
    ASSUME Books, NEW c \in Couriers, claims' = claims, Submit(c)
    PROVE  Books'
  <1> DEFINE b == courier[c].batch
             moves == td[b].status = "PENDING" /\ td[b].stage = "ACCEPTED"
             d == IF moves THEN [td[b] EXCEPT !.stage = "SUBMITTED"] ELSE td[b]
  <1>1. courier[c].phase # "idle" /\ UNCHANGED <<op, member, worker, late>>
    BY DEF Submit
  <1>2. courier[c] \in CourierRow /\ b \in Batches /\ td[b] \in DispatchRow
        /\ td[b].status # "NONE"
    BY <1>1, CourierHas
  <1>3. d \in DispatchRow /\ d.status # "NONE" /\ d.trip = td[b].trip /\ d.load = td[b].load
    <2>1. moves => d = [td[b] EXCEPT !.stage = "SUBMITTED"]
      OBVIOUS
    <2>2. ~moves => d = td[b]
      OBVIOUS
    <2> HIDE DEF d, moves, b
    <2>3. QED
      BY <1>2, <2>1, <2>2 DEF DispatchRow
  <1>4. td' = td \/ td' = [td EXCEPT ![b] = d]
    <2>1. [td EXCEPT ![b].stage = IF td[b].status = "PENDING" /\ @ = "ACCEPTED"
                                  THEN "SUBMITTED" ELSE @] = [td EXCEPT ![b] = d]
      <3>1. ~moves => [td[b] EXCEPT !.stage = td[b].stage] = td[b]
        BY <1>2 DEF DispatchRow
      <3>2. QED
        BY <3>1
    <2>2. QED
      BY <2>1 DEF Submit
  <1> DEFINE x == [courier[c] EXCEPT !.phase = "call"]
             y == [courier[c] EXCEPT !.phase = "failed"]
  <1>5. /\ x \in CourierRow /\ x.batch = courier[c].batch
        /\ y \in CourierRow /\ y.batch = courier[c].batch
    BY <1>2 DEF CourierRow
  <1>6. courier' = [courier EXCEPT ![c] = x] \/ courier' = [courier EXCEPT ![c] = y]
    BY DEF Submit, Goes
  <1> HIDE DEF d, x, y
  <1>7. QED
    BY <1>1, <1>3, <1>4, <1>5, <1>6, CourierBooks

\* The receipt of a batch reaches the courier.
LEMMA BatchAnsweredBooks ==
    ASSUME Books, NEW c \in Couriers, NEW answer \in {"PENDING", "REJECTED", "COMPLETED"},
           claims' = claims, BatchAnswered(c, answer)
    PROVE  Books'
  <1> DEFINE x == [courier[c] EXCEPT !.phase = "answered", !.answer = answer]
  <1>1. courier[c].phase # "idle" /\ UNCHANGED <<op, member, td, worker, late>>
    BY DEF BatchAnswered
  <1>2. courier[c] \in CourierRow
    BY BookTables
  <1>3. x \in CourierRow /\ x.batch = courier[c].batch
    BY <1>2 DEF CourierRow
  <1>4. courier' = [courier EXCEPT ![c] = x]
    BY <1>2, BookTables DEF BatchAnswered
  <1> HIDE DEF x
  <1>5. QED
    BY <1>1, <1>3, <1>4, CourierOnly

\* A decision about the dispatch of a courier.
LEMMA DecidedBooks ==
    ASSUME Books, NEW c \in Couriers, courier[c].phase # "idle", claims' = claims,
           NEW status \in {"PENDING", "REJECTED", "COMPLETED"},
           NEW stage \in {"RECEIPTED", "COMPLETED", "REJECTED"},
           \/ UNCHANGED td
           \/ Decided(courier[c].batch, status, stage)
           \/ td' = [td EXCEPT ![courier[c].batch].status = status,
                               ![courier[c].batch].stage = stage],
           \/ courier' = [courier EXCEPT ![c] = Off]
           \/ courier' = [courier EXCEPT ![c].phase = "commit", ![c].answer = "none"],
           UNCHANGED <<op, member, worker, late>>
    PROVE  Books'
  <1> DEFINE b == courier[c].batch
             e == [td[b] EXCEPT !.status = status, !.stage = stage]
             x == [courier[c] EXCEPT !.phase = "commit", !.answer = "none"]
  <1>1. courier[c] \in CourierRow /\ b \in Batches /\ td[b] \in DispatchRow
        /\ td[b].status # "NONE"
    BY CourierHas
  <1>2. e \in DispatchRow /\ e.status # "NONE" /\ e.trip = td[b].trip /\ e.load = td[b].load
    BY <1>1 DEF DispatchRow
  <1>3. td' = td \/ td' = [td EXCEPT ![b] = e]
    <2>1. CASE Decided(b, status, stage)
      <3>1. [td EXCEPT ![b] = td[b]] = td
        BY <1>1, BookTables
      <3>2. QED
        BY <2>1, <3>1 DEF Decided
    <2>2. CASE td' = [td EXCEPT ![b].status = status, ![b].stage = stage]
      BY <1>1, <2>2, BookTables
    <2>3. QED
      BY <2>1, <2>2
  <1>4. x \in CourierRow /\ x.batch = courier[c].batch
    BY <1>1 DEF CourierRow
  <1>5. courier' = [courier EXCEPT ![c] = Off] \/ courier' = [courier EXCEPT ![c] = x]
    BY BookTables
  <1> HIDE DEF b, e, x
  <1>6. QED
    BY <1>2, <1>3, <1>4, <1>5, OffRow, CourierBooks DEF b

\* The receipt is stored, the trip committed or the dispatch rejected.
LEMMA DecideBooks ==
    ASSUME Books, NEW c \in Couriers, claims' = claims,
           StoreReceipt(c) \/ CommitTrip(c) \/ RejectTripDispatch(c)
    PROVE  Books'
  <1>1. CASE StoreReceipt(c)
    <2>1. /\ courier[c].phase # "idle" /\ UNCHANGED <<op, member, worker, late>>
          /\ \/ courier' = [courier EXCEPT ![c] = Off]
             \/ courier' = [courier EXCEPT ![c].phase = "commit", ![c].answer = "none"]
          /\ \/ Decided(courier[c].batch, "PENDING", "RECEIPTED")
             \/ Decided(courier[c].batch, "REJECTED", "REJECTED")
             \/ UNCHANGED td
      BY <1>1 DEF StoreReceipt
    <2>2. QED
      BY <2>1, DecidedBooks
  <1>2. CASE CommitTrip(c)
    <2>1. /\ courier[c].phase # "idle" /\ UNCHANGED <<op, member, worker, late>>
          /\ courier' = [courier EXCEPT ![c] = Off]
          /\ \/ td' = [td EXCEPT ![courier[c].batch].status = "COMPLETED",
                                 ![courier[c].batch].stage = "COMPLETED"]
             \/ UNCHANGED td
      BY <1>2 DEF CommitTrip
    <2>2. QED
      BY <2>1, DecidedBooks
  <1>3. CASE RejectTripDispatch(c)
    <2>1. /\ courier[c].phase # "idle" /\ UNCHANGED <<op, member, worker, late>>
          /\ courier' = [courier EXCEPT ![c] = Off]
          /\ Decided(courier[c].batch, "REJECTED", "REJECTED")
      BY <1>3 DEF RejectTripDispatch
    <2>2. QED
      BY <2>1, DecidedBooks
  <1>4. QED
    BY <1>1, <1>2, <1>3

\* A courier is lost.
LEMMA LoseCourierBooks ==
    ASSUME Books, NEW c \in Couriers, claims' = claims, LoseCourier(c)
    PROVE  Books'
  <1> DEFINE call == [kind |-> "batch", batch |-> courier[c].batch]
  <1>1. /\ courier[c].phase # "idle" /\ UNCHANGED <<op, member, td, worker>>
        /\ courier' = [courier EXCEPT ![c] = Off]
        /\ late' = late \/ late' = late \cup {call}
    BY DEF LoseCourier
  <1>2. call \in LateCall /\ LateFits(member, td, call)
    BY <1>1, CourierHas DEF LateCall, LateFits
  <1> HIDE DEF call
  <1>3. /\ courier' \in [Couriers -> CourierRow]
        /\ \A e \in Couriers : courier'[e] = courier[e] \/ CourierFits(td', courier'[e])
    BY <1>1, OffRow, BookTables DEF CourierFits
  <1>4. /\ late' \subseteq LateCall
        /\ \A l \in late' : l \in late \/ LateFits(member, td', l)
    BY <1>1, <1>2, BookTables
  <1>5. \A a \in Batches :
           /\ td[a].status # "NONE" => /\ td'[a].status # "NONE"
                                       /\ td'[a].trip = td[a].trip
                                       /\ td'[a].load = td[a].load
           /\ td[a].status = "NONE" => TripDispatchFits(td'[a])
    BY <1>1 DEF TripDispatchFits
  <1>6. QED
    BY <1>1, <1>3, <1>4, <1>5, BookTables, DispatchBooks

-----------------------------------------------------------------------------
(* Claims and releases at fulfillment *)

\* What a call may do to the claims on the books.
ClaimsKept ==
    /\ \A r \in Rows : Known(claims, r) => Known(claims', r)
    /\ \A k \in claims' : k \in claims \/ ReceiptFits(member, op, k)

\* A claim request is about a row that exists; it adds the claim of that row.
LEMMA HandleClaimKept ==
    ASSUME Books, NEW r \in Rows, member[r].state # "NONE", HandleClaim(r)
    PROVE  /\ ClaimsKept
           /\ ClaimKnown(r) \/ ClaimGranted(r) => Known(claims', r)
  <1>1. CASE ClaimGranted(r)
    <2> DEFINE k == Ful!Receipted(r, r[2], TripOf(r), op[r[1]].actor)
    <2>1. claims' = claims \cup {k}
      BY <1>1 DEF HandleClaim, Ful!Claim
    <2>2. /\ k.id = r /\ k.order = r[2] /\ k.trip = TripOf(r) /\ k.actor = op[r[1]].actor
          /\ k.released = 0
      BY DEF Ful!Receipted
    <2> HIDE DEF k
    <2>3. ReceiptFits(member, op, k)
      BY <2>2 DEF ReceiptFits, TripOf
    <2>4. QED
      BY <2>1, <2>2, <2>3 DEF ClaimsKept, Known
  <1>2. CASE ~ClaimGranted(r)
    <2>1. claims' = claims
      BY <1>2 DEF HandleClaim, fulVars
    <2>2. QED
      BY <1>2, <2>1 DEF ClaimsKept, Known, ClaimKnown
  <1>3. QED
    BY <1>1, <1>2

\* A release request is about a row that is given up; it closes its receipt.
LEMMA HandleReleaseKept ==
    ASSUME Books, NEW r \in Rows, NEW rel, member[r].state \in GivenUp,
           HandleRelease(r, rel)
    PROVE  ClaimsKept
  <1>1. CASE ReleaseGranted(r, rel)
    <2> DEFINE k == Ful!Receipted(r, r[2], TripOf(r), rel.actor)
               m == [k EXCEPT !.released = rel.try]
    <2>1. claims' = (claims \ {k}) \cup {m} /\ k \in claims
      BY <1>1 DEF HandleRelease, ReleaseGranted, Ful!Releasable, Ful!Release, Ful!ReleasedBy
    <2>2. /\ m.id = k.id /\ m.order = k.order /\ m.trip = k.trip /\ m.actor = k.actor
          /\ k.id = r
      BY DEF Ful!Receipted
    <2>3. ReceiptFits(member, op, k)
      BY <2>1 DEF Books
    <2> HIDE DEF k, m
    <2>4. ReceiptFits(member, op, m)
      BY <2>2, <2>3 DEF ReceiptFits
    <2>5. QED
      BY <2>1, <2>2, <2>4 DEF ClaimsKept, Known
  <1>2. CASE ~ReleaseGranted(r, rel)
    <2>1. claims' = claims
      BY <1>2 DEF HandleRelease, fulVars
    <2>2. QED
      BY <2>1 DEF ClaimsKept
  <1>3. QED
    BY <1>1, <1>2

\* Fulfillment handles a call; its caller may hear of it.
LEMMA ServedBooks ==
    ASSUME Books, ClaimsKept, UNCHANGED <<op, member, td, courier>>, late' \subseteq late,
           worker' \in [Workers -> WorkerRow],
           \A w \in Workers : \/ worker'[w] = worker[w]
                              \/ WorkerFits(member, op, claims', worker'[w])
    PROVE  Books'
  <1>1. Forward
    BY DEF Forward, ClaimsKept
  <1>2. BookTypes'
    BY BookTables DEF BookTypes
  <1>3. \A i \in Operations : op[i].status # "NONE" \/ OpFits(op'[i])
    BY DEF Books
  <1>4. \A b \in Batches : td[b].status # "NONE" \/ TripDispatchFits(td'[b])
    BY DEF Books
  <1>5. \A k \in claims' : k \in claims \/ ReceiptFits(member', op', k)
    BY DEF ClaimsKept
  <1>6. QED
    BY <1>1, <1>2, <1>3, <1>4, <1>5, BooksStep

\* A claim is answered.
LEMMA AnswerClaimBooks ==
    ASSUME Books, NEW w \in Workers, AnswerClaim(w)
    PROVE  Books'
  <1> DEFINE r == worker[w].at.row
             answer == IF ClaimKnown(r) \/ ClaimGranted(r) THEN Reading(r[2]) ELSE "REFUSED"
             x == [worker[w] EXCEPT !.phase = "claimed", !.answer = answer]
  <1>1. /\ worker[w].phase = "claiming" /\ HandleClaim(r) /\ ClaimAnswered(w, answer)
        /\ UNCHANGED <<op, member, td, courier, late>>
    BY DEF AnswerClaim, ClaimAnswered, Answered
  <1>2. /\ worker[w] \in WorkerRow /\ WorkerFits(member, op, claims, worker[w])
        /\ r \in Rows /\ member[r].state # "NONE"
    BY <1>1, WorkerHas DEF Calling
  <1>3. /\ ClaimsKept
        /\ ClaimKnown(r) \/ ClaimGranted(r) => Known(claims', r)
    BY <1>1, <1>2, HandleClaimKept
  <1>4. /\ answer \in {"CLAIMED", "BAD_PLACE", "UNREADABLE", "REFUSED"}
        /\ answer # "REFUSED" => Known(claims', r)
        /\ answer = "CLAIMED" => r[2] \notin BadPlaces
        /\ answer = "BAD_PLACE" => r[2] \in BadPlaces
    BY <1>3 DEF Reading
  <1> HIDE DEF answer
  <1>5. /\ x \in WorkerRow /\ x.phase = "claimed" /\ x.answer = answer
        /\ x.at = worker[w].at /\ x.op = worker[w].op /\ x.todo = worker[w].todo
    BY <1>2, <1>4 DEF WorkerRow
  <1>6. worker' = [worker EXCEPT ![w] = x]
    BY <1>1, BookTables DEF ClaimAnswered, Answered
  <1>7. WorkerFits(member, op, claims', x)
    <2> HIDE DEF x
    <2>1. QED
      BY <1>1, <1>2, <1>4, <1>5 DEF WorkerFits, Lists, Claiming, Calling
  <1> HIDE DEF x, r
  <1>8. /\ worker' \in [Workers -> WorkerRow]
        /\ \A y \in Workers : worker'[y] = worker[y] \/ WorkerFits(member, op, claims', worker'[y])
    BY <1>5, <1>6, <1>7, BookTables
  <1>9. QED
    BY <1>1, <1>3, <1>8, ServedBooks

\* A release is answered.
LEMMA AnswerReleaseBooks ==
    ASSUME Books, NEW w \in Workers, AnswerRelease(w)
    PROVE  Books'
  <1> DEFINE r == worker[w].at.row
             rel == worker[w].at.rel
             answer == IF ReleaseKnown(r, rel) \/ ReleaseGranted(r, rel)
                       THEN "RELEASED" ELSE "REFUSED"
             x == [worker[w] EXCEPT !.phase = "released", !.answer = answer]
  <1>1. /\ worker[w].phase = "releasing" /\ HandleRelease(r, rel)
        /\ ReleaseAnswered(w, answer) /\ UNCHANGED <<op, member, td, courier, late>>
    BY DEF AnswerRelease, ReleaseAnswered, Answered
  <1>2. /\ worker[w] \in WorkerRow /\ WorkerFits(member, op, claims, worker[w])
        /\ r \in Rows
    BY <1>1, WorkerHas DEF Calling
  <1>3. member[r].state \in GivenUp
    BY <1>1, <1>2 DEF WorkerFits, Lists, CallFits, Claiming, Calling
  <1>4. ClaimsKept
    BY <1>1, <1>2, <1>3, HandleReleaseKept
  <1>5. answer \in {"RELEASED", "REFUSED"}
    OBVIOUS
  <1> HIDE DEF answer
  <1>6. /\ x \in WorkerRow /\ x.phase = "released" /\ x.answer = answer
        /\ x.at = worker[w].at /\ x.op = worker[w].op /\ x.todo = worker[w].todo
    BY <1>2, <1>5 DEF WorkerRow
  <1>7. worker' = [worker EXCEPT ![w] = x]
    BY <1>1, BookTables DEF ReleaseAnswered, Answered
  <1>8. WorkerFits(member, op, claims', x)
    <2> HIDE DEF x
    <2>1. QED
      BY <1>1, <1>2, <1>5, <1>6 DEF WorkerFits, Lists, Claiming, Calling
  <1> HIDE DEF x, r, rel
  <1>9. /\ worker' \in [Workers -> WorkerRow]
        /\ \A y \in Workers : worker'[y] = worker[y] \/ WorkerFits(member, op, claims', worker'[y])
    BY <1>6, <1>7, <1>8, BookTables
  <1>10. QED
    BY <1>1, <1>4, <1>9, ServedBooks

\* A step of fulfillment that neither makes nor closes a claim.
LEMMA FulfillmentBooks ==
    ASSUME Books, UNCHANGED tripVars, claims' = claims
    PROVE  Books'
  BY BooksStill DEF tripVars

\* A call is handled after its caller has given up.
LEMMA HandleLateBooks ==
    ASSUME Books, HandleLate
    PROVE  Books'
  <1>1. PICK call \in late :
            /\ late' = late \ {call}
            /\ CASE call.kind = "claim"   -> HandleClaim(call.row)
                 [] call.kind = "release" -> HandleRelease(call.row, call.rel)
                 [] OTHER                 -> HandleBatch(call.batch)
            /\ UNCHANGED <<trip, op, member, stop, td, worker, courier>>
    BY DEF HandleLate
  <1>2. LateFits(member, td, call) /\ call \in LateCall
    BY BookTables DEF Books
  <1>3. ClaimsKept
    <2>1. CASE call.kind = "claim"
      BY <1>1, <1>2, <2>1, HandleClaimKept DEF LateFits, CallFits
    <2>2. CASE call.kind = "release"
      BY <1>1, <1>2, <2>2, HandleReleaseKept DEF LateFits, CallFits
    <2>3. CASE call.kind \notin {"claim", "release"}
      <3>1. claims' = claims
        BY <1>1, <2>3 DEF HandleBatch, StartBatch, Ful!StartBatch, fulVars
      <3>2. QED
        BY <3>1 DEF ClaimsKept
    <2>4. QED
      BY <2>1, <2>2, <2>3
  <1>4. QED
    BY <1>1, <1>3, BookTables, ServedBooks

-----------------------------------------------------------------------------
(* The fulfillment-service keeps its own invariant under these calls *)

\* Fulfillment does nothing.
LEMMA FulStill ==
    ASSUME FulP!ResultInv, UNCHANGED fulVars
    PROVE  FulP!ResultInv'
  <1>1. UNCHANGED <<ship, intent, dispatch, claims, cursor, result, applying, shipLog>>
    BY DEF fulVars
  <1>2. FulP!FulfillmentTypeOK' /\ FulP!LeftByIntent' /\ FulP!PendingBatchBound'
    BY <1>1 DEF FulP!ResultInv, FulP!FulInv, FulP!FulfillmentTypeOK, FulP!LeftByIntent,
                FulP!PendingBatchBound, FulP!Bound, FulP!Members
  <1>3. FulP!ClaimsAgree' /\ FulP!ClaimIds' /\ FulP!ReadResults'
    BY <1>1 DEF FulP!ResultInv, FulP!FulInv, FulP!ClaimsAgree, FulP!ClaimIds,
                FulP!ReadResults, FulP!Stop
  <1>4. FulP!ReadStands' /\ FulP!AppliedResultShows'
    BY <1>1 DEF FulP!ResultInv, FulP!ReadStands, FulP!AppliedResultShows
  <1>5. QED
    BY <1>2, <1>3, <1>4 DEF FulP!ResultInv, FulP!FulInv

\* A step of module Fulfillment.
LEMMA FulGoesOn ==
    ASSUME FulP!ResultInv, FulP!FulfillmentNext
    PROVE  FulP!ResultInv'
  BY FulFacts, FulP!ResultInvStep

\* A step that leaves shipments on the road and results alone.
LEMMA FulCalm ==
    ASSUME FulP!ResultInv, FulP!FulInv', FulP!Calm
    PROVE  FulP!ResultInv'
  BY FulFacts, FulP!CalmStep DEF FulP!ResultInv

\* The rows of the shipments.
LEMMA ShipRows ==
    ASSUME FulP!ResultInv, NEW s \in Shipments
    PROVE  /\ ship[s] \in FulP!ShipRow /\ ship[s].version \in Nat
           /\ \/ ship[s].trip = NoTrip /\ ship[s].claim = NoRow
              \/ ship[s].trip \in Trips /\ ship[s].claim \in Rows
           /\ ship[s].status \in FulP!Gone <=> intent[s].status = "COMPLETED"
  <1>1. ship[s] \in FulP!ShipRow
    BY DEF FulP!ResultInv, FulP!FulInv, FulP!FulfillmentTypeOK
  <1>2. FulP!FulInv
    BY DEF FulP!ResultInv
  <1>3. QED
    BY <1>1, <1>2, FulFacts, FulP!Rows DEF FulP!ShipRow

\* A claim request that was on its way.
LEMMA HandleClaimFul ==
    ASSUME Books, FulP!ResultInv, NEW r \in Rows, member[r].state # "NONE", HandleClaim(r)
    PROVE  FulP!ResultInv'
  <1>1. CASE ClaimGranted(r)
    <2>1. Ful!Claim(r, r[2], TripOf(r), op[r[1]].actor, member[r].asked)
      BY <1>1 DEF HandleClaim
    <2>2. r[2] \in Shipments /\ TripOf(r) \in Trips /\ op[r[1]].actor \in Users
      BY BookTables DEF Books, RowFits, OpFits, TripOf
    <2>3. member[r].asked = ship[r[2]].version
      BY <2>1 DEF Ful!Claim, Ful!Claimable
    <2>4. FulP!Claim(r, r[2], TripOf(r), op[r[1]].actor, ship[r[2]].version)
      BY <2>1, <2>3, SameClaims
    <2>5. FulP!FulfillmentNext
      BY <2>2, <2>4 DEF FulP!FulfillmentNext
    <2>6. QED
      BY <2>5, FulGoesOn
  <1>2. QED
    BY <1>1, FulStill DEF HandleClaim

\* A release request that was on its way.
LEMMA HandleReleaseFul ==
    ASSUME Books, FulP!ResultInv, NEW r \in Rows, NEW rel \in ReleaseRequest,
           rel.try > 0, member[r].state # "NONE", HandleRelease(r, rel)
    PROVE  FulP!ResultInv'
  <1>1. CASE ReleaseGranted(r, rel)
    <2> DEFINE s == r[2]
               row == [ship[s] EXCEPT !.trip = NoTrip, !.claim = NoRow]
    <2>1. Ful!Release(r, s, TripOf(r), rel.actor, rel.version, rel.try)
      BY <1>1 DEF HandleRelease
    <2>2. s \in Shipments /\ TripOf(r) \in Trips /\ rel.try \in Nat \ {0}
      BY BookTables DEF Books, RowFits, OpFits, TripOf, ReleaseRequest
    <2>3. rel.actor \in Users
      <3>1. Ful!Receipted(r, s, TripOf(r), rel.actor) \in claims
        BY <2>1 DEF Ful!Release, Ful!Releasable
      <3>2. Ful!Receipted(r, s, TripOf(r), rel.actor) \in FulP!ClaimRow
        BY <3>1 DEF FulP!ResultInv, FulP!FulInv, FulP!FulfillmentTypeOK
      <3>3. Ful!Receipted(r, s, TripOf(r), rel.actor).actor = rel.actor
        BY DEF Ful!Receipted
      <3> DEFINE k == Ful!Receipted(r, s, TripOf(r), rel.actor)
      <3> HIDE DEF k
      <3>4. k.actor \in Users
        BY <3>2 DEF FulP!ClaimRow, k
      <3>5. QED
        BY <3>3, <3>4 DEF k
    <2>4. FulP!Release(r, s, TripOf(r), rel.actor, rel.version, rel.try)
      BY <2>1, SameClaims
    <2>5. FulP!FulInv
      BY DEF FulP!ResultInv
    <2>6. FulP!FulInv'
      <3> HIDE DEF s
      <3>1. QED
        BY <2>2, <2>3, <2>4, <2>5, FulFacts, FulP!ReleaseStep
    <2>7. row \in FulP!ShipRow /\ row.status = ship[s].status
      BY <2>2, ShipRows DEF FulP!ShipRow
    <2>8. ship' = [ship EXCEPT ![s] = FulP!Bumped(row)] /\ UNCHANGED <<result, applying>>
      BY <2>4 DEF FulP!Release, FulP!Write
    <2> HIDE DEF s, row
    <2>9. FulP!Calm
      BY <2>2, <2>5, <2>7, <2>8, FulFacts, FulP!CalmWrite
    <2>10. QED
      BY <2>6, <2>9, FulCalm
  <1>2. QED
    BY <1>1, FulStill DEF HandleRelease

\* The batch of a dispatch that exists.
LEMMA StartBatchFul ==
    ASSUME Books, FulP!ResultInv, NEW b \in Batches, td[b].status # "NONE", StartBatch(b)
    PROVE  FulP!ResultInv'
  <1> DEFINE t == td[b].trip
             child == Child(b)
             quoted == [s \in Shipments |-> 2]
             stale == {s \in Shipments : td[b].load[s] > 0 /\ td[b].load[s] # ship[s].version}
  <1>1. t \in Trips /\ child \in FulP!Children /\ quoted \in [Shipments -> Nat]
    BY DEF Books, TripDispatchFits, Child, FulP!Children
  <1>2. FulP!StartBatch(b, t, child, quoted, stale)
    BY SameBatch DEF StartBatch
  <1> HIDE DEF t, child, quoted, stale
  <1>3. FulP!FulInv
    BY DEF FulP!ResultInv
  <1>4. FulP!FulInv'
    BY <1>1, <1>2, <1>3, FulFacts, FulP!StartBatchStep
  <1>5. FulP!Calm
    BY <1>2 DEF FulP!StartBatch, FulP!Calm
  <1>6. QED
    BY <1>4, <1>5, FulCalm

\* The decision about a batch.
LEMMA DecideBatchFul ==
    ASSUME FulP!ResultInv, NEW b \in Batches, DecideBatch(b)
    PROVE  FulP!ResultInv'
  <1>1. FulP!FulfillmentNext
    BY SameBatch DEF DecideBatch, FulP!FulfillmentNext
  <1>2. QED
    BY <1>1, FulGoesOn

\* A shipment that is dispatched by itself, and the cancellation of an order.
LEMMA SingleFul ==
    ASSUME FulP!ResultInv, NEW s \in Shipments, DirectDispatch(s) \/ CancelOrder(s)
    PROVE  FulP!ResultInv'
  <1>1. CASE DirectDispatch(s)
    <2>1. PICK q \in DirectRequests :
             \/ FulP!StartDispatch(s, q, 2)
             \/ FulP!AsksOrder(s) /\ (FulP!RejectDispatch(s, q) \/ FulP!CommitDispatch(s, q))
      BY <1>1, SameDispatch DEF DirectDispatch
    <2>2. FulP!FulfillmentNext
      BY <2>1 DEF FulP!FulfillmentNext
    <2>3. QED
      BY <2>2, FulGoesOn
  <1>2. CASE CancelOrder(s)
    <2>1. FulP!OrderCanceled(s, 3)
      BY <1>2, SameDispatch DEF CancelOrder
    <2>2. FulP!FulfillmentNext
      BY <2>1 DEF FulP!FulfillmentNext
    <2>3. QED
      BY <2>2, FulGoesOn
  <1>3. QED
    BY <1>1, <1>2

\* Delivery results.
LEMMA ResultFul ==
    ASSUME FulP!ResultInv, NEW e \in ResultEvents, ResultHandled(e)
    PROVE  FulP!ResultInv'
  <1>1. FulP!HandleResult(e)
    BY SameResults DEF ResultHandled
  <1>2. FulP!FulfillmentNext
    BY <1>1 DEF FulP!FulfillmentNext
  <1>3. QED
    BY <1>2, FulGoesOn

\* A call is handled late.
LEMMA HandleLateFul ==
    ASSUME Books, FulP!ResultInv, HandleLate
    PROVE  FulP!ResultInv'
  <1>1. PICK call \in late :
            CASE call.kind = "claim"   -> HandleClaim(call.row)
              [] call.kind = "release" -> HandleRelease(call.row, call.rel)
              [] OTHER                 -> HandleBatch(call.batch)
    BY DEF HandleLate
  <1>2. LateFits(member, td, call) /\ call \in LateCall
    BY BookTables DEF Books
  <1>3. CASE call.kind = "claim"
    BY <1>1, <1>2, <1>3, HandleClaimFul DEF LateFits, CallFits
  <1>4. CASE call.kind = "release"
    <2>1. call.rel \in ReleaseRequest
      BY <1>2, <1>4 DEF LateCall, Call
    <2>2. /\ call.row \in Rows /\ call.rel.try > 0 /\ member[call.row].state # "NONE"
          /\ HandleRelease(call.row, call.rel)
      BY <1>1, <1>2, <1>4 DEF LateFits, CallFits
    <2>3. QED
      BY <2>1, <2>2, HandleReleaseFul
  <1>5. CASE call.kind \notin {"claim", "release"}
    <2>1. call.batch \in Batches /\ td[call.batch].status # "NONE"
      BY <1>2, <1>5 DEF LateCall, Call, LateFits
    <2>2. HandleBatch(call.batch)
      BY <1>1, <1>5
    <2>3. QED
      BY <2>1, <2>2, StartBatchFul, FulStill DEF HandleBatch
  <1>6. QED
    BY <1>3, <1>4, <1>5

\* The calls of workers and couriers.
LEMMA CalledFul ==
    ASSUME Books, FulP!ResultInv
    PROVE  /\ \A w \in Workers : AnswerClaim(w) \/ AnswerRelease(w) => FulP!ResultInv'
           /\ \A c \in Couriers : BatchArrives(c) => FulP!ResultInv'
  <1>1. ASSUME NEW w \in Workers, AnswerClaim(w)
        PROVE  FulP!ResultInv'
    BY <1>1, WorkerHas, HandleClaimFul DEF AnswerClaim, Calling
  <1>2. ASSUME NEW w \in Workers, AnswerRelease(w)
        PROVE  FulP!ResultInv'
    <2>1. /\ worker[w].phase = "releasing"
          /\ HandleRelease(worker[w].at.row, worker[w].at.rel)
      BY <1>2 DEF AnswerRelease
    <2>2. /\ worker[w].at \in Call /\ worker[w].at.row \in Rows
          /\ member[worker[w].at.row].state # "NONE" /\ worker[w].at.kind = "release"
          /\ worker[w].at.rel.try > 0
      BY <2>1, WorkerHas DEF WorkerFits, Lists, CallFits, Claiming, Calling
    <2>3. worker[w].at.rel \in ReleaseRequest
      BY <2>2 DEF Call
    <2>4. QED
      BY <2>1, <2>2, <2>3, HandleReleaseFul
  <1>3. ASSUME NEW c \in Couriers, BatchArrives(c)
        PROVE  FulP!ResultInv'
    BY <1>3, CourierHas, StartBatchFul DEF BatchArrives
  <1>4. QED
    BY <1>1, <1>2, <1>3

-----------------------------------------------------------------------------
(* The first invariant of both services *)

\* The rows of the trips have their type after a write of one of them.
LEMMA TripWritten ==
    ASSUME trip \in [Trips -> TripRow], NEW t, NEW row,
           t \in Trips => row \in TripRow, trip' = [trip EXCEPT ![t] = row]
    PROVE  trip' \in [Trips -> TripRow]
  OBVIOUS

\* What planners and drivers write.
LEMMA CommandTyped ==
    ASSUME trip \in [Trips -> TripRow], TripCommand \/ TripDriver
    PROVE  trip' \in [Trips -> TripRow]
  <1>1. ASSUME NEW t \in Trips
        PROVE  /\ Bumped(trip[t]) \in TripRow /\ Unplanned(trip[t], "DRAFT") \in TripRow
               /\ [trip[t] EXCEPT !.status = "DRAFT", !.version = 1] \in TripRow
    <2>1. trip[t] \in TripRow
      OBVIOUS
    <2>2. QED
      BY <2>1, NextVersion DEF TripRow
  <1>2. ASSUME NEW t \in Trips,
               CreateTrip(t) \/ UpdateTrip(t) \/ Reopen(t) \/ Touch(t)
        PROVE  trip' \in [Trips -> TripRow]
    BY <1>1, <1>2, TripWritten DEF CreateTrip, UpdateTrip, Reopen, Touch
  <1>3. ASSUME NEW t \in Trips,
               NEW route \in [1 .. Cardinality(Stops(t)) -> Stops(t)], Approve(t, route)
        PROVE  trip' \in [Trips -> TripRow]
    <2> DEFINE row == [status |-> "APPROVED", version |-> trip[t].version + 1,
                       plan |-> trip[t].version + 1, route |-> route]
    <2>1. Cardinality(Stops(t)) \in Nat
      BY TripAssumption, FS_Subset, FS_CardinalityType DEF Stops
    <2>2. route \in [1 .. Cardinality(Stops(t)) -> Shipments]
      BY DEF Stops
    <2>3. route \in Seq(Shipments)
      BY <2>1, <2>2
    <2>4. trip[t].version + 1 \in Nat
      BY DEF TripRow
    <2>5. row \in TripRow
      BY <2>3, <2>4 DEF TripRow
    <2>6. trip' = [trip EXCEPT ![t] = row]
      BY <1>3 DEF Approve
    <2> HIDE DEF row
    <2>7. QED
      BY <2>5, <2>6, TripWritten
  <1>4. ASSUME NEW t \in Trips, NEW s \in Shipments, NEW outcome, Deliver(t, s, outcome)
        PROVE  trip' \in [Trips -> TripRow]
    <2>1. trip[t] \in TripRow /\ trip[t].version + 1 \in Nat
      BY DEF TripRow
    <2> DEFINE last == \A q \in Shipments \ {s} : stop[t][q] # "PENDING"
               row == [trip[t] EXCEPT !.version = trip[t].version + 1,
                                      !.status = IF last THEN "COMPLETED" ELSE trip[t].status]
    <2>2. trip' = [trip EXCEPT ![t] = row]
      BY <1>4, <2>1 DEF Deliver, TripRow
    <2>3. row \in TripRow
      <3> HIDE DEF last
      <3>1. trip[t].status \in {"NONE", "DRAFT", "APPROVED", "IN_PROGRESS", "COMPLETED",
                                "CANCELED"}
        BY <2>1 DEF TripRow
      <3>2. (IF last THEN "COMPLETED" ELSE trip[t].status)
               \in {"NONE", "DRAFT", "APPROVED", "IN_PROGRESS", "COMPLETED", "CANCELED"}
        BY <3>1
      <3> DEFINE st == IF last THEN "COMPLETED" ELSE trip[t].status
      <3> HIDE DEF st
      <3>3. [trip[t] EXCEPT !.version = trip[t].version + 1, !.status = st] \in TripRow
        BY <2>1, <3>2 DEF TripRow, st
      <3>4. QED
        BY <3>3 DEF st
    <2> HIDE DEF row
    <2>4. QED
      BY <2>2, <2>3, TripWritten
  <1>5. ASSUME NEW t \in Trips, NEW u, NEW i, NEW S, CancelTrip(t, u, i) \/ Remove(t, S, u, i)
        PROVE  trip' \in [Trips -> TripRow]
    BY <1>2, <1>5 DEF CancelTrip, Remove
  <1>6. ASSUME NEW t, NEW b, StartTripDispatch(t, b)
        PROVE  trip' \in [Trips -> TripRow]
    BY <1>6 DEF StartTripDispatch
  <1>7. CASE TripDriver
    BY <1>4, <1>7 DEF TripDriver
  <1>8. CASE TripCommand
    BY <1>2, <1>3, <1>5, <1>6, <1>8 DEF TripCommand
  <1>9. QED
    BY <1>7, <1>8

\* What the other commands and the processes write.
LEMMA ProcessTyped ==
    ASSUME trip \in [Trips -> TripRow]
    PROVE  /\ \A t, S, u, i, asked : Add(t, S, u, i, asked) => trip' \in [Trips -> TripRow]
           /\ \A s, v, i : ShipmentCanceled(s, v, i) => trip' \in [Trips -> TripRow]
           /\ \A w : TripWorker(w) => trip' \in [Trips -> TripRow]
           /\ \A c : TripCourier(c) => trip' \in [Trips -> TripRow]
  <1>1. ASSUME NEW t \in Trips
        PROVE  /\ Bumped(trip[t]) \in TripRow /\ Unplanned(trip[t], "DRAFT") \in TripRow
               /\ Unplanned(trip[t], "CANCELED") \in TripRow
               /\ [trip[t] EXCEPT !.status = "IN_PROGRESS", !.version = trip[t].version + 1]
                     \in TripRow
    <2>1. trip[t] \in TripRow /\ trip[t].version + 1 \in Nat
      BY DEF TripRow
    <2>2. QED
      BY <2>1, NextVersion DEF TripRow
  <1>2. ASSUME NEW t, NEW S, NEW u, NEW i, NEW asked, Add(t, S, u, i, asked)
        PROVE  trip' \in [Trips -> TripRow]
    BY <1>1, <1>2, TripWritten DEF Add, Touch
  <1>3. ASSUME NEW s, NEW v, NEW i, ShipmentCanceled(s, v, i)
        PROVE  trip' \in [Trips -> TripRow]
    <2>1. PICK t : trip' = [trip EXCEPT ![t] = Unplanned(@, "DRAFT")]
      BY <1>3 DEF ShipmentCanceled
    <2>2. QED
      BY <1>1, <2>1, TripWritten
  <1>4. ASSUME NEW w, TripWorker(w)
        PROVE  trip' \in [Trips -> TripRow]
    <2>1. CASE Finalize(w)
      <3>1. PICK t : \/ trip' = [trip EXCEPT ![t] = Unplanned(@, "CANCELED")]
                     \/ trip' = [trip EXCEPT ![t] = Bumped(@)]
        BY <2>1 DEF Finalize
      <3>2. QED
        BY <1>1, <3>1, TripWritten
    <2>2. CASE ~Finalize(w)
      BY <1>4, <2>2 DEF TripWorker, Resume, SendClaim, SendRelease, Send, GiveUp,
         PersistClaim, Compensate, BeginCompensation, PersistRelease, EndClaims,
         JoinCompensation, EndReleases
    <2>3. QED
      BY <2>1, <2>2
  <1>5. ASSUME NEW c, TripCourier(c)
        PROVE  trip' \in [Trips -> TripRow]
    <2>1. CASE CommitTrip(c)
      <3>1. PICK t : \/ trip' = trip
                     \/ trip' = [trip EXCEPT ![t].status = "IN_PROGRESS", ![t].version = @ + 1]
        BY <2>1 DEF CommitTrip
      <3> DEFINE row == [trip[t] EXCEPT !.status = "IN_PROGRESS", !.version = trip[t].version + 1]
      <3>2. t \in Trips => trip[t] \in TripRow
        OBVIOUS
      <3>3. trip' = trip \/ trip' = [trip EXCEPT ![t] = row]
        BY <3>1, <3>2 DEF TripRow
      <3>4. t \in Trips => row \in TripRow
        BY <1>1
      <3> HIDE DEF row
      <3>5. QED
        BY <3>3, <3>4, TripWritten
    <2>2. CASE ~CommitTrip(c)
      BY <1>5, <2>2 DEF TripCourier, TakeUp, SelectConflict, Submit, StoreReceipt, ReadStage,
         RejectTripDispatch
    <2>3. QED
      BY <2>1, <2>2
  <1>6. QED
    BY <1>2, <1>3, <1>4, <1>5

\* The invariant that holds whatever leases and timeouts do.
SafeInv ==
    /\ Books
    /\ trip \in [Trips -> TripRow]
    /\ FulP!ResultInv

\* The initial state.
LEMMA SafeInitially == BothInit => SafeInv
  <1> SUFFICES ASSUME BothInit
               PROVE  SafeInv
    OBVIOUS
  <1>1. TripInv
    BY TripInitially DEF BothInit
  <1>2. trip \in [Trips -> TripRow] /\ BookTypes
    BY <1>1, Tables DEF BookTypes
  <1>3. Books
    <2>1. /\ \A i \in Operations : op[i].status = "NONE"
          /\ \A r \in Rows : member[r].state = "NONE"
          /\ \A b \in Batches : td[b].status = "NONE"
          /\ \A w \in Workers : worker[w] = Idle
          /\ \A c \in Couriers : courier[c] = Off
          /\ late = {} /\ claims = {}
      BY DEF BothInit, TripInit
    <2>2. \A w \in Workers : WorkerFits(member, op, claims, worker[w])
      BY <2>1, IdleFits
    <2>3. \A c \in Couriers : CourierFits(td, courier[c])
      BY <2>1, OffRow DEF CourierFits
    <2>4. \A r \in Rows : RowFits(member[r], op, claims, r)
      BY <2>1 DEF RowFits
    <2>5. QED
      BY <1>2, <2>1, <2>2, <2>3, <2>4 DEF Books, OpFits, TripDispatchFits
  <1>4. FulP!FulfillmentTypeOK
    <2>1. ship \in [Shipments -> FulP!ShipRow]
      BY DEF BothInit, FulP!ShipRow
    <2>2. intent \in [Shipments -> FulP!IntentRow]
      BY DEF BothInit, FulP!IntentRow, Ful!NoIntent
    <2>3. dispatch \in [Batches -> FulP!BatchDispatch]
      BY DEF BothInit, FulP!BatchDispatch, FulP!Children
    <2>4. QED
      BY <2>1, <2>2, <2>3 DEF BothInit, FulP!FulfillmentTypeOK
  <1>5. FulP!LeftByIntent /\ FulP!PendingBatchBound /\ FulP!ClaimsAgree
    BY DEF BothInit, FulP!LeftByIntent, FulP!PendingBatchBound, FulP!ClaimsAgree, FulP!Gone,
           Ful!NoIntent
  <1>6. FulP!ClaimIds /\ FulP!ReadResults /\ FulP!ReadStands /\ FulP!AppliedResultShows
    BY DEF BothInit, FulP!ClaimIds, FulP!ReadResults, FulP!ReadStands, FulP!AppliedResultShows
  <1>7. QED
    BY <1>2, <1>3, <1>4, <1>5, <1>6 DEF SafeInv, FulP!ResultInv, FulP!FulInv

\* Commands and faults keep the books.
LEMMA CommandBooks ==
    ASSUME SafeInv, TripCommand \/ TripDriver \/ TripFault, UNCHANGED fulVars
    PROVE  Books'
  <1>1. Books /\ trip \in [Trips -> TripRow] /\ claims' = claims
    BY DEF SafeInv, fulVars
  <1>2. ASSUME NEW t \in Trips, NEW u \in Users, NEW i \in Operations, CancelTrip(t, u, i)
        PROVE  Books'
    BY <1>1, <1>2, ReleaseBooks DEF CancelTrip
  <1>3. ASSUME NEW t \in Trips, NEW u \in Users, NEW i \in Operations,
               NEW S \in SUBSET Shipments, Remove(t, S, u, i)
        PROVE  Books'
    <2> DEFINE R == {r \in ActiveRows(t) : r[2] \in S}
    <2>1. /\ Fresh(i) /\ NewOp(i, "REMOVE", t, u) /\ Release(R, u, i)
          /\ UNCHANGED <<td, worker, courier, late>>
      BY <1>3 DEF Remove
    <2>2. R \in SUBSET ActiveRows(t)
      OBVIOUS
    <2> HIDE DEF R
    <2>3. QED
      BY <1>1, <2>1, <2>2, ReleaseBooks
  <1>4. ASSUME NEW t \in Trips,
               \/ CreateTrip(t) \/ UpdateTrip(t) \/ Reopen(t)
               \/ \E route : Approve(t, route)
               \/ \E s, outcome : Deliver(t, s, outcome)
        PROVE  Books'
    BY <1>1, <1>4, BooksStill DEF CreateTrip, UpdateTrip, Reopen, Approve, Deliver
  <1>5. ASSUME NEW t \in Trips, NEW b \in Batches, StartTripDispatch(t, b)
        PROVE  Books'
    BY <1>1, <1>5, StartTripDispatchBooks
  <1>6. CASE TripCommand
    BY <1>2, <1>3, <1>4, <1>5, <1>6 DEF TripCommand
  <1>7. CASE TripDriver
    BY <1>4, <1>7 DEF TripDriver
  <1>8. ASSUME NEW w \in Workers, CrashWorker(w)
        PROVE  Books'
    BY <1>1, <1>8, StopBooks DEF CrashWorker
  <1>9. CASE TripFault
    BY <1>1, <1>8, <1>9, LeaseBooks, LoseCourierBooks DEF TripFault
  <1>10. QED
    BY <1>6, <1>7, <1>9

\* Workers and couriers keep the books.
LEMMA ProcessBooks ==
    ASSUME Books, claims' = claims
    PROVE  /\ \A w \in Workers : TripWorker(w) => Books'
           /\ \A c \in Couriers : TripCourier(c) \/ Select(c) => Books'
  <1>1. ASSUME NEW w \in Workers, GiveUp(w)
        PROVE  Books'
    <2>1. Busy(w)
      BY <1>1 DEF GiveUp, Busy
    <2>2. QED
      BY <1>1, <2>1, StopBooks DEF GiveUp
  <1>2. ASSUME NEW w \in Workers, TripWorker(w)
        PROVE  Books'
    BY <1>1, <1>2, ResumeBooks, SendBooks, PersistClaimBooks, CompensateBooks,
       PersistReleaseBooks, EndBooks, JoinBooks, FinalizeBooks
    DEF TripWorker, SendClaim, SendRelease
  <1>3. ASSUME NEW c \in Couriers, TripCourier(c) \/ Select(c)
        PROVE  Books'
    BY <1>3, TakeUpBooks, SelectBooks, SubmitBooks, DecideBooks DEF TripCourier
  <1>4. QED
    BY <1>2, <1>3

\* An event of the outbox has a version.
LEMMA EventVersion ==
    ASSUME FulP!ResultInv, NEW e \in shipLog
    PROVE  e.order \in Shipments /\ e.version \in Nat
  BY DEF FulP!ResultInv, FulP!FulInv, FulP!FulfillmentTypeOK, FulP!ShipEvent

\* The planner adds shipments at the versions the pool shows.
LEMMA PoolVersions ==
    ASSUME FulP!ResultInv
    PROVE  [s \in Shipments |-> ship[s].version] \in [Shipments -> Nat]
  BY ShipRows

\* Every step of both services.
LEMMA SafeStep ==
    ASSUME SafeInv, [BothNext]_bothVars
    PROVE  SafeInv'
  <1>1. Books /\ trip \in [Trips -> TripRow] /\ FulP!ResultInv
    BY DEF SafeInv
  <1>2. CASE (TripCommand \/ TripDriver \/ TripFault) /\ UNCHANGED fulVars
    <2>1. Books' /\ FulP!ResultInv'
      BY <1>1, <1>2, CommandBooks, FulStill
    <2>2. trip' \in [Trips -> TripRow]
      BY <1>1, <1>2, CommandTyped DEF TripFault, CrashWorker, LeaseRunsOut, LoseCourier
    <2>3. QED
      BY <2>1, <2>2 DEF SafeInv
  <1>3. ASSUME NEW t \in Trips, NEW u \in Users, NEW i \in Operations, AddFromPool(t, u, i)
        PROVE  SafeInv'
    <2> DEFINE asked == [s \in Shipments |-> ship[s].version]
    <2>1. asked \in [Shipments -> Nat]
      BY <1>1, PoolVersions
    <2>2. PICK S \in SUBSET Pool \ {{}} : Add(t, S, u, i, asked)
      BY <1>3 DEF AddFromPool
    <2> HIDE DEF asked
    <2>3. S \in SUBSET Shipments /\ UNCHANGED fulVars /\ claims' = claims
      BY <1>3 DEF AddFromPool, fulVars, Pool
    <2>4. QED
      BY <1>1, <2>1, <2>2, <2>3, AddBooks, ProcessTyped, FulStill DEF SafeInv
  <1>4. ASSUME NEW i \in Operations, TripLearnsCancel(i)
        PROVE  SafeInv'
    <2>1. PICK e \in shipLog : ShipmentCanceled(e.order, e.version, i)
      BY <1>4 DEF TripLearnsCancel
    <2>2. e.order \in Shipments /\ e.version \in Nat
      BY <1>1, EventVersion
    <2>3. UNCHANGED fulVars /\ claims' = claims
      BY <1>4 DEF TripLearnsCancel, fulVars
    <2>4. Books'
      BY <1>1, <2>1, <2>2, <2>3, CanceledBooks
    <2>5. QED
      BY <1>1, <2>1, <2>3, <2>4, ProcessTyped, FulStill DEF SafeInv
  <1>5. ASSUME NEW w \in Workers, TripWorker(w), UNCHANGED fulVars
        PROVE  SafeInv'
    <2>1. claims' = claims
      BY <1>5 DEF fulVars
    <2>2. QED
      BY <1>1, <1>5, <2>1, ProcessBooks, ProcessTyped, FulStill DEF SafeInv
  <1>6. ASSUME NEW c \in Couriers, TripCourier(c) \/ Select(c), UNCHANGED fulVars
        PROVE  SafeInv'
    <2>1. claims' = claims
      BY <1>6 DEF fulVars
    <2>2. Select(c) => trip' = trip
      BY DEF Select
    <2>3. QED
      BY <1>1, <1>6, <2>1, <2>2, ProcessBooks, ProcessTyped, FulStill DEF SafeInv
  <1>7. ASSUME NEW w \in Workers, AnswerClaim(w) \/ AnswerRelease(w)
        PROVE  SafeInv'
    <2>1. trip' = trip
      BY <1>7 DEF AnswerClaim, AnswerRelease, ClaimAnswered, ReleaseAnswered, Answered
    <2>2. QED
      BY <1>1, <1>7, <2>1, AnswerClaimBooks, AnswerReleaseBooks, CalledFul DEF SafeInv
  <1>8. ASSUME NEW c \in Couriers, BatchArrives(c)
        PROVE  SafeInv'
    <2>1. UNCHANGED tripVars /\ claims' = claims
      BY <1>8 DEF BatchArrives, StartBatch, Ful!StartBatch
    <2>2. trip' = trip
      BY <2>1 DEF tripVars
    <2>3. QED
      BY <1>1, <1>8, <2>1, <2>2, FulfillmentBooks, CalledFul DEF SafeInv
  <1>9. ASSUME NEW c \in Couriers, AnswerBatch(c)
        PROVE  SafeInv'
    <2> DEFINE answer == dispatch[courier[c].batch].status
    <2>1. /\ BatchAnswered(c, answer) /\ answer # "NONE" /\ UNCHANGED fulVars
          /\ courier[c].phase = "call"
      BY <1>9 DEF AnswerBatch
    <2>2. courier[c].batch \in Batches
      BY <1>1, <2>1, CourierHas
    <2>3. answer \in {"PENDING", "REJECTED", "COMPLETED"}
      BY <1>1, <2>1, <2>2
      DEF FulP!ResultInv, FulP!FulInv, FulP!FulfillmentTypeOK, FulP!BatchDispatch
    <2> HIDE DEF answer
    <2>4. claims' = claims /\ trip' = trip
      BY <2>1 DEF fulVars, BatchAnswered
    <2>5. QED
      BY <1>1, <2>1, <2>3, <2>4, BatchAnsweredBooks, FulStill DEF SafeInv
  <1>10. CASE HandleLate
    <2>1. trip' = trip
      BY <1>10 DEF HandleLate
    <2>2. QED
      BY <1>1, <1>10, <2>1, HandleLateBooks, HandleLateFul DEF SafeInv
  <1>11. ASSUME NEW e \in ResultEvents, ResultHandled(e)
         PROVE  SafeInv'
    <2>1. UNCHANGED tripVars /\ claims' = claims
      BY <1>11 DEF ResultHandled, Ful!HandleResult, Ful!ResultDuplicate, Ful!ResultConflict,
         Ful!ResultMisplaced, Ful!ResultDefer, Ful!ResultRead, Ful!ResultWrite,
         Ful!ResultAbort, Ful!Receipt
    <2>2. trip' = trip
      BY <2>1 DEF tripVars
    <2>3. QED
      BY <1>1, <1>11, <2>1, <2>2, FulfillmentBooks, ResultFul DEF SafeInv
  <1>12. ASSUME NEW b \in Batches, DecideBatch(b)
         PROVE  SafeInv'
    <2>1. UNCHANGED tripVars /\ claims' = claims
      BY <1>12 DEF DecideBatch, Ful!StoreDecision, Ful!CommitBatch, Ful!RejectBatch
    <2>2. trip' = trip
      BY <2>1 DEF tripVars
    <2>3. QED
      BY <1>1, <1>12, <2>1, <2>2, FulfillmentBooks, DecideBatchFul DEF SafeInv
  <1>13. ASSUME NEW s \in Shipments, DirectDispatch(s) \/ CancelOrder(s)
         PROVE  SafeInv'
    <2>1. UNCHANGED tripVars /\ claims' = claims
      BY <1>13 DEF DirectDispatch, CancelOrder, Ful!StartDispatch, Ful!RejectDispatch,
         Ful!CommitDispatch, Ful!OrderCanceled
    <2>2. trip' = trip
      BY <2>1 DEF tripVars
    <2>3. QED
      BY <1>1, <1>13, <2>1, <2>2, FulfillmentBooks, SingleFul DEF SafeInv
  <1>14. CASE UNCHANGED bothVars
    <2>1. UNCHANGED tripVars /\ UNCHANGED fulVars
      BY <1>14 DEF bothVars
    <2>2. trip' = trip /\ claims' = claims
      BY <2>1 DEF tripVars, fulVars
    <2>3. QED
      BY <1>1, <2>1, <2>2, FulfillmentBooks, FulStill DEF SafeInv
  <1>15. QED
    BY <1>2, <1>3, <1>4, <1>5, <1>6, <1>7, <1>8, <1>9, <1>10, <1>11, <1>12, <1>13, <1>14
    DEF BothNext, SelectReady

\* The first invariant holds in every state.
LEMMA SafeAlways == BothSpec => []SafeInv
  BY SafeInitially, SafeStep, PTL DEF BothSpec

(***************************************************************************)
(* Every shipment on a trip's manifest is the trip's: for an ACTIVE row    *)
(* fulfillment holds the very claim of that row.  This rests on no lease   *)
(* and no timeout: any number of workers may carry out an operation at     *)
(* once, each with a list that is out of date, and any call may be handled *)
(* after its caller has given up.                                          *)
(***************************************************************************)
THEOREM ManifestIsBacked == BothSpec => []ManifestBacked
  <1>1. SafeInv => ManifestBacked
    <2> SUFFICES ASSUME SafeInv, NEW r \in Rows, member[r].state = "ACTIVE"
                 PROVE  ship[r[2]].claim = r /\ ship[r[2]].trip = TripOf(r)
      BY DEF ManifestBacked
    <2>1. Books /\ FulP!ClaimsAgree /\ FulP!ClaimIds
      BY DEF SafeInv, FulP!ResultInv, FulP!FulInv
    <2>2. PICK k \in claims : k.id = r
      BY <2>1 DEF Books, RowFits, Known
    <2>3. /\ ReceiptFits(member, op, k) /\ k.order = r[2] /\ k.trip = TripOf(r)
          /\ k.released = 0
      BY <2>1, <2>2 DEF Books, ReceiptFits, GivenUp, TripOf
    <2>4. ship[r[2]].claim = r
      BY <2>1, <2>2, <2>3 DEF FulP!ClaimsAgree
    <2>5. r[2] \in Shipments /\ r # NoRow
      BY <2>1, BookTables, TripFulfillmentAssumption
    <2>6. PICK a \in Users : FulP!Receipted(r, r[2], ship[r[2]].trip, a) \in claims
      BY <2>1, <2>4, <2>5 DEF FulP!ClaimsAgree
    <2>7. FulP!Receipted(r, r[2], ship[r[2]].trip, a).id = r
      BY DEF FulP!Receipted
    <2>8. FulP!Receipted(r, r[2], ship[r[2]].trip, a) = k
      BY <2>1, <2>2, <2>6, <2>7 DEF FulP!ClaimIds
    <2>9. QED
      BY <2>3, <2>4, <2>8 DEF FulP!Receipted
  <1>2. QED
    BY <1>1, SafeAlways, PTL

-----------------------------------------------------------------------------
(* The dispatch of a trip and the batch it asks for, with one courier *)

\* One process resumes the dispatches, one after the other.
OneCourier == \A c, d \in Couriers : c = d

\* A request for batch b is on its way to fulfillment.
Outstanding(l, x, b) ==
    \/ [kind |-> "batch", batch |-> b] \in l
    \/ \E c \in Couriers : x[c].phase = "call" /\ x[c].batch = b

StageFits(d) ==
    /\ d.stage \in {"ACCEPTED", "SUBMITTED", "RECEIPTED"} => d.status = "PENDING"
    /\ d.stage \notin {"ACCEPTED", "SUBMITTED", "RECEIPTED"} => d.status = d.stage

ChildOf(b, load) == [s \in Shipments |-> IF load[s] > 0 THEN <<b, s>> ELSE NoRequest]

(***************************************************************************)
(* A batch is asked for after its dispatch was submitted, and for what was *)
(* selected.  A dispatch is rejected only if the batch is rejected or will *)
(* never be asked for, and goes on only if the batch has left.             *)
(***************************************************************************)
BatchFits(d, x, l, cr, b) ==
    /\ StageFits(d)
    /\ x.status # "NONE" \/ Outstanding(l, cr, b) => d.stage \notin {"NONE", "ACCEPTED"}
    /\ x.status # "NONE" => x.trip = d.trip /\ x.child = ChildOf(b, d.load)
    /\ d.stage = "REJECTED" => \/ x.status = "REJECTED"
                               \/ x.status = "NONE" /\ ~Outstanding(l, cr, b)
    /\ d.stage \in {"RECEIPTED", "COMPLETED"} => x.status = "COMPLETED"

\* What the courier in state y does next is still right.
CarriesOn(y, d, x) ==
    /\ y.phase \in {"select", "selected", "failed", "reject"} => d[y.batch].stage = "ACCEPTED"
    /\ y.phase = "answered" => x[y.batch].status # "NONE"
    /\ y.phase = "answered" /\ y.answer \in {"REJECTED", "COMPLETED"}
          => x[y.batch].status = y.answer

DispatchInv ==
    /\ \A b \in Batches : BatchFits(td[b], dispatch[b], late, courier, b)
    /\ \A c \in Couriers : CarriesOn(courier[c], td, dispatch)

\* The tables the invariant is about.
LEMMA DispatchTables ==
    ASSUME SafeInv
    PROVE  /\ Books
           /\ td \in [Batches -> DispatchRow] /\ courier \in [Couriers -> CourierRow]
           /\ dispatch \in [Batches -> FulP!BatchDispatch] /\ late \subseteq LateCall
  BY BookTables DEF SafeInv, FulP!ResultInv, FulP!FulInv, FulP!FulfillmentTypeOK

\* Fewer requests on their way.
LEMMA FewerFits ==
    ASSUME NEW d, NEW x, NEW l, NEW cr, NEW l2, NEW cr2, NEW b, BatchFits(d, x, l, cr, b),
           Outstanding(l2, cr2, b) => Outstanding(l, cr, b)
    PROVE  BatchFits(d, x, l2, cr2, b)
  BY DEF BatchFits

\* No dispatch, batch or courier changes.
LEMMA DispatchStill ==
    ASSUME DispatchInv, UNCHANGED <<td, dispatch, courier>>,
           \A b \in Batches : [kind |-> "batch", batch |-> b] \in late'
                                 => [kind |-> "batch", batch |-> b] \in late
    PROVE  DispatchInv'
  <1>1. \A b \in Batches : Outstanding(late', courier', b) => Outstanding(late, courier, b)
    BY DEF Outstanding
  <1>2. \A b \in Batches : BatchFits(td'[b], dispatch'[b], late', courier', b)
    BY <1>1, FewerFits DEF DispatchInv
  <1>3. \A c \in Couriers : CarriesOn(courier'[c], td', dispatch')
    BY DEF DispatchInv
  <1>4. QED
    BY <1>2, <1>3 DEF DispatchInv

\* A step of the courier c, which is at work on dispatch b.
LEMMA CourierKeeps ==
    ASSUME OneCourier, DispatchInv, NEW c \in Couriers, NEW b \in Batches, dispatch' = dispatch,
           \A a \in Batches : a # b => /\ td'[a] = td[a]
                                       /\ Outstanding(late', courier', a)
                                             => Outstanding(late, courier, a),
           BatchFits(td'[b], dispatch[b], late', courier', b),
           CarriesOn(courier'[c], td', dispatch)
    PROVE  DispatchInv'
  <1>1. \A a \in Batches : BatchFits(td'[a], dispatch'[a], late', courier', a)
    BY FewerFits DEF DispatchInv
  <1>2. \A e \in Couriers : CarriesOn(courier'[e], td', dispatch')
    BY DEF OneCourier
  <1>3. QED
    BY <1>1, <1>2 DEF DispatchInv

\* A new dispatch: nobody has heard of it.
LEMMA StartTripDispatchKeeps ==
    ASSUME SafeInv, DispatchInv, NEW t \in Trips, NEW b \in Batches, StartTripDispatch(t, b),
           dispatch' = dispatch
    PROVE  DispatchInv'
  <1> DEFINE d == [trip |-> t, status |-> "PENDING", stage |-> "ACCEPTED",
                   version |-> trip[t].version, plan |-> trip[t].plan, load |-> Load(t)]
  <1>1. /\ td[b].status = "NONE" /\ td' = [td EXCEPT ![b] = d]
        /\ UNCHANGED <<courier, late>>
    BY DEF StartTripDispatch
  <1>2. d.stage = "ACCEPTED" /\ d.status = "PENDING"
    OBVIOUS
  <1> HIDE DEF d
  <1>3. td'[b] = d /\ \A a \in Batches : a # b => td'[a] = td[a]
    BY <1>1, DispatchTables
  <1>4. BatchFits(td[b], dispatch[b], late, courier, b) /\ td[b] \in DispatchRow
    BY DispatchTables DEF DispatchInv
  <1>5. dispatch[b].status = "NONE" /\ ~Outstanding(late, courier, b)
    BY <1>1, <1>4 DEF BatchFits, StageFits, DispatchRow
  <1>6. BatchFits(d, dispatch[b], late, courier, b)
    BY <1>2, <1>5 DEF BatchFits, StageFits
  <1>7. \A a \in Batches : BatchFits(td'[a], dispatch'[a], late', courier', a)
    BY <1>1, <1>3, <1>6 DEF DispatchInv
  <1>8. ASSUME NEW c \in Couriers
        PROVE  CarriesOn(courier'[c], td', dispatch')
    <2>1. courier[c].phase # "idle" => courier[c].batch \in Batches /\ courier[c].batch # b
      BY <1>1, DispatchTables, CourierHas
    <2>2. CarriesOn(courier[c], td, dispatch)
      BY DEF DispatchInv
    <2>3. QED
      BY <1>1, <1>3, <2>1, <2>2 DEF CarriesOn
  <1>9. QED
    BY <1>7, <1>8 DEF DispatchInv

\* A courier at work knows its dispatch, and what the invariant says of both.
LEMMA CourierKnows ==
    ASSUME SafeInv, DispatchInv, NEW c \in Couriers, courier[c].phase # "idle"
    PROVE  /\ courier[c].batch \in Batches /\ td[courier[c].batch] \in DispatchRow
           /\ courier[c] \in CourierRow
           /\ BatchFits(td[courier[c].batch], dispatch[courier[c].batch], late, courier,
                        courier[c].batch)
           /\ CarriesOn(courier[c], td, dispatch)
  BY DispatchTables, CourierHas DEF DispatchInv

\* A courier moves to state y and asks for nothing new.
LEMMA QuietMove ==
    ASSUME SafeInv, OneCourier, DispatchInv, NEW c \in Couriers, NEW y,
           courier' = [courier EXCEPT ![c] = y], UNCHANGED <<td, dispatch, late>>,
           NEW b \in Batches, y.phase = "call" => y.batch = b /\ Outstanding(late, courier, b),
           CarriesOn(y, td, dispatch)
    PROVE  DispatchInv'
  <1>1. courier'[c] = y /\ \A e \in Couriers : e = c
    BY DispatchTables DEF OneCourier
  <1>2. \A a \in Batches : Outstanding(late', courier', a) => Outstanding(late, courier, a)
    BY <1>1 DEF Outstanding
  <1>3. \A a \in Batches : BatchFits(td'[a], dispatch'[a], late', courier', a)
    BY <1>2, FewerFits DEF DispatchInv
  <1>4. QED
    BY <1>1, <1>3 DEF DispatchInv

\* A courier that ends its work asks for nothing.
LEMMA OffCarries == CarriesOn(Off, td, dispatch)
  BY DEF CarriesOn, Off

\* resume of a dispatch: a batch is asked for only if the stage says so.
LEMMA TakeUpKeeps ==
    ASSUME SafeInv, OneCourier, DispatchInv, NEW c \in Couriers, NEW b \in Batches,
           TakeUp(c, b), dispatch' = dispatch
    PROVE  DispatchInv'
  <1> DEFINE x == [batch |-> b, answer |-> "none",
                   phase |-> CASE td[b].stage = "ACCEPTED"  -> "select"
                               [] td[b].stage = "RECEIPTED" -> "commit"
                               [] OTHER                     -> "call"]
  <1>1. /\ td[b].status = "PENDING" /\ courier' = [courier EXCEPT ![c] = x]
        /\ UNCHANGED <<td, late>>
    BY DEF TakeUp
  <1>2. /\ x.batch = b /\ x.phase \in {"select", "commit", "call"}
        /\ x.phase = "select" => td[b].stage = "ACCEPTED"
        /\ x.phase = "call" => td[b].stage \notin {"ACCEPTED", "RECEIPTED"}
    OBVIOUS
  <1> HIDE DEF x
  <1>3. courier'[c] = x /\ \A e \in Couriers : e = c
    BY <1>1, DispatchTables DEF OneCourier
  <1>4. BatchFits(td[b], dispatch[b], late, courier, b) /\ td[b] \in DispatchRow
    BY DispatchTables DEF DispatchInv
  <1>5. BatchFits(td[b], dispatch[b], late', courier', b)
    <2>1. CASE x.phase = "call"
      <3>1. td[b].stage = "SUBMITTED"
        BY <1>1, <1>2, <1>4, <2>1 DEF BatchFits, StageFits, DispatchRow
      <3>2. QED
        BY <1>4, <3>1 DEF BatchFits
    <2>2. CASE x.phase # "call"
      <3>1. Outstanding(late', courier', b) => Outstanding(late, courier, b)
        BY <1>1, <1>3, <2>2 DEF Outstanding
      <3>2. QED
        BY <1>4, <3>1, FewerFits
    <2>3. QED
      BY <2>1, <2>2
  <1>6. \A a \in Batches : a # b /\ Outstanding(late', courier', a)
                              => Outstanding(late, courier, a)
    BY <1>1, <1>2, <1>3 DEF Outstanding
  <1>7. CarriesOn(courier'[c], td', dispatch)
    BY <1>1, <1>2, <1>3 DEF CarriesOn
  <1>8. QED
    BY <1>1, <1>5, <1>6, <1>7, CourierKeeps

\* The courier selects, fails to, reads the stage after an error, or is answered.
LEMMA SelectKeeps ==
    ASSUME SafeInv, OneCourier, DispatchInv, NEW c \in Couriers, dispatch' = dispatch,
           Select(c) \/ SelectConflict(c) \/ ReadStage(c)
    PROVE  DispatchInv'
  <1>1. /\ courier[c].phase \in {"select", "failed"} /\ UNCHANGED <<td, late>>
        /\ \/ courier' = [courier EXCEPT ![c] = Off]
           \/ \E phase \in {"selected", "failed", "reject"} : Goes(c, phase)
    BY DEF Select, SelectConflict, ReadStage
  <1>2. /\ courier[c].batch \in Batches /\ courier[c] \in CourierRow
        /\ td[courier[c].batch].stage = "ACCEPTED"
    BY <1>1, CourierKnows DEF CarriesOn
  <1>3. CASE courier' = [courier EXCEPT ![c] = Off]
    BY <1>1, <1>2, <1>3, OffCarries, OffRow, QuietMove
  <1>4. CASE \E phase \in {"selected", "failed", "reject"} : Goes(c, phase)
    <2>1. PICK phase \in {"selected", "failed", "reject"} : Goes(c, phase)
      BY <1>4
    <2> DEFINE y == [courier[c] EXCEPT !.phase = phase]
    <2>2. y.phase = phase /\ y.batch = courier[c].batch
      BY <1>2 DEF CourierRow
    <2>3. courier' = [courier EXCEPT ![c] = y]
      BY <2>1 DEF Goes
    <2> HIDE DEF y
    <2>4. CarriesOn(y, td, dispatch) /\ y.phase # "call"
      BY <1>2, <2>2 DEF CarriesOn
    <2>5. QED
      BY <1>1, <1>2, <2>3, <2>4, QuietMove
  <1>5. QED
    BY <1>1, <1>3, <1>4

\* submit: the courier that selected finds the dispatch still ACCEPTED.
LEMMA SubmitKeeps ==
    ASSUME SafeInv, OneCourier, DispatchInv, NEW c \in Couriers, dispatch' = dispatch,
           Submit(c)
    PROVE  DispatchInv'
  <1> DEFINE b == courier[c].batch
             d == [td[b] EXCEPT !.stage = "SUBMITTED"]
             x == [courier[c] EXCEPT !.phase = "call"]
             y == [courier[c] EXCEPT !.phase = "failed"]
  <1>1. courier[c].phase = "selected" /\ late' = late
    BY DEF Submit
  <1>2. /\ b \in Batches /\ td[b] \in DispatchRow /\ courier[c] \in CourierRow
        /\ BatchFits(td[b], dispatch[b], late, courier, b) /\ td[b].stage = "ACCEPTED"
    BY <1>1, CourierKnows DEF CarriesOn
  <1>3. td[b].status = "PENDING" /\ dispatch[b].status = "NONE"
    BY <1>2 DEF BatchFits, StageFits
  <1>4. /\ x.phase = "call" /\ x.batch = b /\ y.phase = "failed" /\ y.batch = b
    BY <1>2 DEF CourierRow
  <1>5. \/ td' = [td EXCEPT ![b] = d] /\ courier' = [courier EXCEPT ![c] = x]
        \/ td' = td /\ courier' = [courier EXCEPT ![c] = y]
    BY <1>2, <1>3 DEF Submit, Goes
  <1>6. CASE td' = td /\ courier' = [courier EXCEPT ![c] = y]
    <2>1. CarriesOn(y, td, dispatch)
      BY <1>2, <1>4 DEF CarriesOn
    <2> HIDE DEF b, y
    <2>2. QED
      BY <1>1, <1>2, <1>4, <1>6, <2>1, QuietMove
  <1>7. CASE td' = [td EXCEPT ![b] = d] /\ courier' = [courier EXCEPT ![c] = x]
    <2>1. d.stage = "SUBMITTED" /\ d.status = "PENDING"
      BY <1>2, <1>3 DEF DispatchRow
    <2> HIDE DEF b, d, x
    <2>2. /\ td'[b] = d /\ \A a \in Batches : a # b => td'[a] = td[a]
      BY <1>2, <1>7, DispatchTables
    <2>3. courier'[c] = x /\ \A e \in Couriers : e = c
      BY <1>7, DispatchTables DEF OneCourier
    <2>4. BatchFits(d, dispatch[b], late', courier', b)
      BY <1>3, <2>1 DEF BatchFits, StageFits
    <2>5. \A a \in Batches : a # b /\ Outstanding(late', courier', a)
                                => Outstanding(late, courier, a)
      BY <1>1, <1>4, <2>3 DEF Outstanding
    <2>6. CarriesOn(courier'[c], td', dispatch)
      BY <1>4, <2>3 DEF CarriesOn
    <2>7. QED
      BY <1>2, <2>2, <2>4, <2>5, <2>6, CourierKeeps
  <1>8. QED
    BY <1>5, <1>6, <1>7

\* The courier hears how the batch stands.
LEMMA AnswerBatchKeeps ==
    ASSUME SafeInv, OneCourier, DispatchInv, NEW c \in Couriers, AnswerBatch(c)
    PROVE  DispatchInv'
  <1> DEFINE b == courier[c].batch
             y == [courier[c] EXCEPT !.phase = "answered", !.answer = dispatch[b].status]
  <1>1. /\ courier[c].phase = "call" /\ dispatch[b].status # "NONE"
        /\ UNCHANGED <<td, late, dispatch>>
    BY DEF AnswerBatch, BatchAnswered, fulVars
  <1>2. b \in Batches /\ courier[c] \in CourierRow
    BY <1>1, CourierKnows
  <1>3. y.phase = "answered" /\ y.batch = b /\ y.answer = dispatch[b].status
    BY <1>2 DEF CourierRow
  <1>4. courier' = [courier EXCEPT ![c] = y]
    BY <1>2, DispatchTables DEF AnswerBatch, BatchAnswered
  <1> HIDE DEF b, y
  <1>5. CarriesOn(y, td, dispatch)
    BY <1>1, <1>3 DEF CarriesOn
  <1>6. QED
    BY <1>1, <1>2, <1>3, <1>4, <1>5, QuietMove

\* The dispatch of courier c comes to d, and the courier asks for nothing.
LEMMA DecisionKeeps ==
    ASSUME SafeInv, OneCourier, DispatchInv, NEW c \in Couriers, courier[c].phase # "idle",
           dispatch' = dispatch, late' = late, NEW y, courier' = [courier EXCEPT ![c] = y],
           y.phase \in {"idle", "commit"}, NEW d, StageFits(d),
           td' = [td EXCEPT ![courier[c].batch] = d],
           d.trip = td[courier[c].batch].trip, d.load = td[courier[c].batch].load,
           \/ /\ d.stage \in {"RECEIPTED", "COMPLETED"}
              /\ dispatch[courier[c].batch].status = "COMPLETED"
           \/ /\ d.stage = "REJECTED"
              /\ dispatch[courier[c].batch].status = "REJECTED"
           \/ /\ d.stage = "REJECTED" /\ courier[c].phase # "call"
              /\ td[courier[c].batch].stage = "ACCEPTED"
    PROVE  DispatchInv'
  <1> DEFINE b == courier[c].batch
  <1>1. b \in Batches /\ BatchFits(td[b], dispatch[b], late, courier, b)
    BY CourierKnows
  <1>2. courier'[c] = y /\ \A e \in Couriers : e = c
    BY DispatchTables DEF OneCourier
  <1>3. td'[b] = d /\ \A a \in Batches : a # b => td'[a] = td[a]
    BY <1>1, DispatchTables
  <1>4. \A a \in Batches : Outstanding(late', courier', a) => Outstanding(late, courier, a)
    BY <1>2 DEF Outstanding
  <1>5. BatchFits(d, dispatch[b], late', courier', b)
    BY <1>1, <1>4 DEF BatchFits
  <1>6. CarriesOn(courier'[c], td', dispatch)
    BY <1>2 DEF CarriesOn
  <1> HIDE DEF b
  <1>7. QED
    BY <1>1, <1>3, <1>4, <1>5, <1>6, CourierKeeps

\* The receipt is stored, the trip committed or the dispatch rejected.
LEMMA DecideKeeps ==
    ASSUME SafeInv, OneCourier, DispatchInv, NEW c \in Couriers, dispatch' = dispatch,
           StoreReceipt(c) \/ CommitTrip(c) \/ RejectTripDispatch(c)
    PROVE  DispatchInv'
  <1> DEFINE b == courier[c].batch
             d(status, stage) == [td[b] EXCEPT !.status = status, !.stage = stage]
             x == [courier[c] EXCEPT !.phase = "commit", !.answer = "none"]
  <1>1. courier[c].phase \in {"answered", "commit", "reject"} /\ late' = late
    BY DEF StoreReceipt, CommitTrip, RejectTripDispatch
  <1>2. /\ b \in Batches /\ td[b] \in DispatchRow /\ courier[c] \in CourierRow
        /\ BatchFits(td[b], dispatch[b], late, courier, b)
        /\ CarriesOn(courier[c], td, dispatch)
    BY <1>1, CourierKnows
  <1>3. /\ d("PENDING", "RECEIPTED").stage = "RECEIPTED" /\ StageFits(d("PENDING", "RECEIPTED"))
        /\ d("REJECTED", "REJECTED").stage = "REJECTED" /\ StageFits(d("REJECTED", "REJECTED"))
        /\ d("COMPLETED", "COMPLETED").stage = "COMPLETED"
        /\ StageFits(d("COMPLETED", "COMPLETED"))
    BY <1>2 DEF DispatchRow, StageFits
  <1>4. /\ d("PENDING", "RECEIPTED").trip = td[b].trip
        /\ d("PENDING", "RECEIPTED").load = td[b].load
        /\ d("REJECTED", "REJECTED").trip = td[b].trip
        /\ d("REJECTED", "REJECTED").load = td[b].load
        /\ d("COMPLETED", "COMPLETED").trip = td[b].trip
        /\ d("COMPLETED", "COMPLETED").load = td[b].load
    BY <1>2 DEF DispatchRow
  <1>5. x.phase = "commit" /\ Off.phase = "idle"
    BY <1>2 DEF CourierRow, Off
  <1>6. ASSUME td' = td, \/ courier' = [courier EXCEPT ![c] = Off]
                         \/ courier' = [courier EXCEPT ![c] = x]
        PROVE  DispatchInv'
    <2>1. CarriesOn(x, td, dispatch)
      BY <1>5 DEF CarriesOn
    <2> HIDE DEF b, x
    <2>2. QED
      BY <1>1, <1>2, <1>5, <1>6, <2>1, OffCarries, QuietMove
  <1>7. ASSUME NEW status, NEW stage, Decided(b, status, stage)
        PROVE  td' = td \/ td' = [td EXCEPT ![b] = d(status, stage)]
    <2>1. [td EXCEPT ![b] = td[b]] = td
      BY <1>2, DispatchTables
    <2>2. QED
      BY <1>7, <2>1 DEF Decided
  <1>8. CASE StoreReceipt(c) /\ courier[c].answer = "COMPLETED"
    <2>1. dispatch[b].status = "COMPLETED"
      BY <1>2, <1>8 DEF CarriesOn, StoreReceipt
    <2>2. Decided(b, "PENDING", "RECEIPTED") /\ courier' = [courier EXCEPT ![c] = x]
      BY <1>2, <1>8, DispatchTables DEF StoreReceipt
    <2>3. td' = td \/ td' = [td EXCEPT ![b] = d("PENDING", "RECEIPTED")]
      BY <1>7, <2>2
    <2> HIDE DEF d, x
    <2>4. QED
      BY <1>1, <1>3, <1>4, <1>5, <1>6, <2>1, <2>2, <2>3, DecisionKeeps
  <1>9. CASE StoreReceipt(c) /\ courier[c].answer = "REJECTED"
    <2>1. dispatch[b].status = "REJECTED"
      BY <1>2, <1>9 DEF CarriesOn, StoreReceipt
    <2>2. Decided(b, "REJECTED", "REJECTED") /\ courier' = [courier EXCEPT ![c] = Off]
      BY <1>9 DEF StoreReceipt
    <2>3. td' = td \/ td' = [td EXCEPT ![b] = d("REJECTED", "REJECTED")]
      BY <1>7, <2>2
    <2> HIDE DEF d, x
    <2>4. QED
      BY <1>1, <1>3, <1>4, <1>5, <1>6, <2>1, <2>2, <2>3, DecisionKeeps
  <1>10. CASE StoreReceipt(c) /\ courier[c].answer \notin {"COMPLETED", "REJECTED"}
    BY <1>6, <1>10 DEF StoreReceipt
  <1>11. CASE CommitTrip(c)
    <2>1. courier' = [courier EXCEPT ![c] = Off]
      BY <1>11 DEF CommitTrip
    <2>2. CASE td[b].stage = "RECEIPTED" /\ td' # td
      <3>1. dispatch[b].status = "COMPLETED"
        BY <1>2, <2>2 DEF BatchFits
      <3>2. td' = [td EXCEPT ![b] = d("COMPLETED", "COMPLETED")]
        BY <1>2, <1>11, <2>2, DispatchTables DEF CommitTrip
      <3> HIDE DEF d
      <3>3. QED
        BY <1>1, <1>3, <1>4, <1>5, <2>1, <3>1, <3>2, DecisionKeeps
    <2>3. CASE ~(td[b].stage = "RECEIPTED" /\ td' # td)
      <3>1. td' = td
        BY <1>11, <2>3 DEF CommitTrip
      <3>2. QED
        BY <1>6, <2>1, <3>1
    <2>4. QED
      BY <2>2, <2>3
  <1>12. CASE RejectTripDispatch(c)
    <2>1. courier[c].phase = "reject" /\ td[b].stage = "ACCEPTED"
      BY <1>2, <1>12 DEF CarriesOn, RejectTripDispatch
    <2>2. Decided(b, "REJECTED", "REJECTED") /\ courier' = [courier EXCEPT ![c] = Off]
      BY <1>12 DEF RejectTripDispatch
    <2>3. td' = td \/ td' = [td EXCEPT ![b] = d("REJECTED", "REJECTED")]
      BY <1>7, <2>2
    <2> HIDE DEF d, x
    <2>4. QED
      BY <1>1, <1>3, <1>4, <1>5, <1>6, <2>1, <2>2, <2>3, DecisionKeeps
  <1>13. QED
    BY <1>8, <1>9, <1>10, <1>11, <1>12

\* A courier is lost: what it asked for may still be handled.
LEMMA LoseCourierKeeps ==
    ASSUME SafeInv, OneCourier, DispatchInv, NEW c \in Couriers, dispatch' = dispatch,
           LoseCourier(c)
    PROVE  DispatchInv'
  <1> DEFINE b == courier[c].batch
  <1>1. /\ courier[c].phase # "idle" /\ td' = td /\ courier' = [courier EXCEPT ![c] = Off]
        /\ late' = IF courier[c].phase = "call"
                   THEN late \cup {[kind |-> "batch", batch |-> b]} ELSE late
    BY DEF LoseCourier
  <1>2. courier'[c] = Off /\ \A e \in Couriers : e = c
    BY <1>1, DispatchTables DEF OneCourier
  <1>3. ASSUME NEW a \in Batches, Outstanding(late', courier', a)
        PROVE  Outstanding(late, courier, a)
    <2>1. [kind |-> "batch", batch |-> a] \in late'
      BY <1>2, <1>3, OffRow DEF Outstanding
    <2>2. [kind |-> "batch", batch |-> a] = [kind |-> "batch", batch |-> b] => a = b
      OBVIOUS
    <2>3. QED
      BY <1>1, <2>1, <2>2 DEF Outstanding
  <1> HIDE DEF b
  <1>4. ASSUME NEW a \in Batches
        PROVE  BatchFits(td'[a], dispatch'[a], late', courier', a)
    <2>1. BatchFits(td[a], dispatch[a], late, courier, a) /\ td' = td /\ dispatch' = dispatch
      BY <1>1 DEF DispatchInv
    <2>2. Outstanding(late', courier', a) => Outstanding(late, courier, a)
      BY <1>3
    <2>3. BatchFits(td[a], dispatch[a], late', courier', a)
      BY <2>1, <2>2, FewerFits
    <2>4. QED
      BY <2>1, <2>3
  <1>5. \A e \in Couriers : CarriesOn(courier'[e], td', dispatch')
    BY <1>1, <1>2, OffCarries
  <1>6. QED
    BY <1>4, <1>5 DEF DispatchInv

\* A batch is begun, as it was asked for, or decided.
LEMMA BatchMoves ==
    ASSUME SafeInv, DispatchInv, NEW b \in Batches, UNCHANGED <<td, courier>>,
           late' \subseteq late, NEW x, dispatch' = [dispatch EXCEPT ![b] = x],
           x.status # "NONE", x.trip = td[b].trip, x.child = ChildOf(b, td[b].load),
           \/ dispatch[b].status = "NONE" /\ Outstanding(late, courier, b)
           \/ dispatch[b].status = "PENDING"
    PROVE  DispatchInv'
  <1>1. dispatch'[b] = x /\ \A a \in Batches : a # b => dispatch'[a] = dispatch[a]
    BY DispatchTables
  <1>2. BatchFits(td[b], dispatch[b], late, courier, b) /\ td[b] \in DispatchRow
    BY DispatchTables DEF DispatchInv
  <1>3. td[b].stage = "SUBMITTED" /\ StageFits(td[b])
    BY <1>2 DEF BatchFits, DispatchRow
  <1>4. BatchFits(td[b], x, late', courier', b)
    BY <1>3 DEF BatchFits
  <1>5. \A a \in Batches : Outstanding(late', courier', a) => Outstanding(late, courier, a)
    BY DEF Outstanding
  <1>6. ASSUME NEW a \in Batches
        PROVE  BatchFits(td'[a], dispatch'[a], late', courier', a)
    <2>1. CASE a = b
      BY <1>1, <1>4, <2>1
    <2>2. CASE a # b
      <3>1. BatchFits(td[a], dispatch[a], late, courier, a)
        BY DEF DispatchInv
      <3>2. BatchFits(td[a], dispatch[a], late', courier', a)
        BY <1>5, <3>1, FewerFits
      <3>3. QED
        BY <1>1, <2>2, <3>2
    <2>3. QED
      BY <2>1, <2>2
  <1>7. ASSUME NEW c \in Couriers
        PROVE  CarriesOn(courier'[c], td', dispatch')
    <2>1. CarriesOn(courier[c], td, dispatch)
      BY DEF DispatchInv
    <2>2. courier[c].phase # "idle" => courier[c].batch \in Batches
      BY DispatchTables, CourierHas
    <2>3. QED
      BY <1>1, <2>1, <2>2 DEF CarriesOn
  <1>8. QED
    BY <1>6, <1>7 DEF DispatchInv

\* A batch arrives, in time or late.
LEMMA StartBatchKeeps ==
    ASSUME SafeInv, DispatchInv, NEW b \in Batches, UNCHANGED <<td, courier>>,
           late' \subseteq late, Outstanding(late, courier, b), StartBatch(b)
    PROVE  DispatchInv'
  <1>1. PICK status \in {"PENDING", "REJECTED"} :
           dispatch' = [dispatch EXCEPT ![b] =
              [status |-> status, decision |-> "NONE", trip |-> td[b].trip, child |-> Child(b)]]
    BY DEF StartBatch, Ful!StartBatch
  <1> DEFINE x == [status |-> status, decision |-> "NONE", trip |-> td[b].trip,
                   child |-> Child(b)]
  <1>2. x.status # "NONE" /\ x.trip = td[b].trip /\ x.child = ChildOf(b, td[b].load)
    BY DEF Child, ChildOf
  <1>3. dispatch' = [dispatch EXCEPT ![b] = x] /\ dispatch[b].status = "NONE"
    BY <1>1 DEF StartBatch, Ful!StartBatch
  <1> HIDE DEF x
  <1>4. QED
    BY <1>2, <1>3, BatchMoves

\* A batch is decided.
LEMMA DecideBatchKeeps ==
    ASSUME SafeInv, DispatchInv, NEW b \in Batches, DecideBatch(b)
    PROVE  DispatchInv'
  <1>1. UNCHANGED <<td, courier, late>> /\ dispatch[b].status = "PENDING"
    BY DEF DecideBatch, tripVars, Ful!StoreDecision, Ful!CommitBatch, Ful!RejectBatch
  <1>2. dispatch[b] \in FulP!BatchDispatch /\ dispatch \in [Batches -> FulP!BatchDispatch]
    BY DispatchTables
  <1>3. PICK status \in {"PENDING", "COMPLETED", "REJECTED"},
             decision \in {"NONE", "GRANTED", "REJECTED"} :
           dispatch' = [dispatch EXCEPT ![b] =
                           [dispatch[b] EXCEPT !.status = status, !.decision = decision]]
    <2>1. ASSUME NEW d \in {"GRANTED", "REJECTED"}, Ful!StoreDecision(b, d)
          PROVE  dispatch' = [dispatch EXCEPT ![b] =
                           [dispatch[b] EXCEPT !.status = "PENDING", !.decision = d]]
      BY <1>1, <1>2, <2>1 DEF Ful!StoreDecision, FulP!BatchDispatch
    <2>2. ASSUME Ful!CommitBatch(b)
          PROVE  dispatch' = [dispatch EXCEPT ![b] =
                           [dispatch[b] EXCEPT !.status = "COMPLETED", !.decision = "GRANTED"]]
      BY <1>1, <1>2, <2>2 DEF Ful!CommitBatch, FulP!BatchDispatch
    <2>3. ASSUME Ful!RejectBatch(b)
          PROVE  dispatch' = [dispatch EXCEPT ![b] =
                           [dispatch[b] EXCEPT !.status = "REJECTED", !.decision = "REJECTED"]]
      BY <1>1, <1>2, <2>3 DEF Ful!RejectBatch, FulP!BatchDispatch
    <2>4. QED
      BY <2>1, <2>2, <2>3 DEF DecideBatch
  <1> DEFINE x == [dispatch[b] EXCEPT !.status = status, !.decision = decision]
  <1>4. x.status # "NONE" /\ x.trip = dispatch[b].trip /\ x.child = dispatch[b].child
    BY <1>2 DEF FulP!BatchDispatch
  <1>5. dispatch' = [dispatch EXCEPT ![b] = x]
    BY <1>3
  <1> HIDE DEF x
  <1>6. BatchFits(td[b], dispatch[b], late, courier, b)
    BY DEF DispatchInv
  <1>7. x.trip = td[b].trip /\ x.child = ChildOf(b, td[b].load)
    BY <1>1, <1>4, <1>6 DEF BatchFits
  <1>8. QED
    BY <1>1, <1>4, <1>5, <1>7, BatchMoves

\* A worker's call is not the request of a batch.
LEMMA WorkerCallsKeep ==
    ASSUME SafeInv, DispatchInv, NEW w \in Workers, UNCHANGED <<td, courier, dispatch>>,
           late' = late \/ late' = late \cup InFlight(w)
    PROVE  DispatchInv'
  <1>1. worker[w] \in WorkerRow /\ WorkerFits(member, op, claims, worker[w])
    BY DispatchTables, BookTables DEF Books
  <1>2. \A call \in InFlight(w) : call.kind # "batch"
    BY <1>1 DEF InFlight, WorkerFits, Calling, Call
  <1>3. \A b \in Batches : [kind |-> "batch", batch |-> b] \in late'
                              => [kind |-> "batch", batch |-> b] \in late
    BY <1>2
  <1>4. QED
    BY <1>3, DispatchStill

\* A claim or a release is carried out.
LEMMA ServedKeeps ==
    ASSUME NEW r, NEW rel, HandleClaim(r) \/ HandleRelease(r, rel)
    PROVE  dispatch' = dispatch
  BY DEF HandleClaim, HandleRelease, Ful!Claim, Ful!Release, fulVars

\* A call is handled late.
LEMMA HandleLateKeeps ==
    ASSUME SafeInv, DispatchInv, HandleLate
    PROVE  DispatchInv'
  <1>1. PICK call \in late :
            /\ late' = late \ {call}
            /\ CASE call.kind = "claim"   -> HandleClaim(call.row)
                 [] call.kind = "release" -> HandleRelease(call.row, call.rel)
                 [] OTHER                 -> HandleBatch(call.batch)
            /\ UNCHANGED <<trip, op, member, stop, td, worker, courier>>
    BY DEF HandleLate
  <1>2. UNCHANGED <<td, courier>> /\ late' \subseteq late
    BY <1>1
  <1>3. CASE call.kind = "batch"
    <2>1. call.batch \in Batches /\ call = [kind |-> "batch", batch |-> call.batch]
      BY <1>1, <1>3, DispatchTables DEF LateCall, Call
    <2>2. Outstanding(late, courier, call.batch)
      BY <1>1, <2>1 DEF Outstanding
    <2>3. HandleBatch(call.batch)
      BY <1>1, <1>3
    <2>4. StartBatch(call.batch) \/ dispatch' = dispatch
      BY <2>3 DEF HandleBatch, fulVars
    <2>5. QED
      BY <1>2, <2>1, <2>2, <2>4, StartBatchKeeps, DispatchStill
  <1>4. CASE call.kind # "batch"
    <2>1. call.kind \in {"claim", "release"}
      BY <1>1, <1>4, DispatchTables DEF LateCall, Call
    <2>2. HandleClaim(call.row) \/ HandleRelease(call.row, call.rel)
      BY <1>1, <2>1
    <2>3. dispatch' = dispatch
      BY <2>2, ServedKeeps
    <2>4. QED
      BY <1>2, <2>3, DispatchStill
  <1>5. QED
    BY <1>3, <1>4

\* At first nothing is dispatched.
LEMMA DispatchInitially == BothInit => DispatchInv
  <1> SUFFICES ASSUME BothInit
               PROVE  DispatchInv
    OBVIOUS
  <1>1. /\ \A b \in Batches : td[b].status = "NONE" /\ td[b].stage = "NONE"
        /\ \A b \in Batches : dispatch[b].status = "NONE"
        /\ late = {} /\ \A c \in Couriers : courier[c] = Off
    BY DEF BothInit, TripInit
  <1>2. \A b \in Batches : ~Outstanding(late, courier, b)
    BY <1>1 DEF Outstanding, Off
  <1>3. \A b \in Batches : BatchFits(td[b], dispatch[b], late, courier, b)
    BY <1>1, <1>2 DEF BatchFits, StageFits
  <1>4. QED
    BY <1>1, <1>3, OffCarries DEF DispatchInv

\* What planners, drivers, workers and events do is no matter of dispatch.
LEMMA OthersKeep ==
    ASSUME SafeInv, DispatchInv, dispatch' = dispatch
    PROVE  /\ \A t, S, u, i, asked : Add(t, S, u, i, asked) => DispatchInv'
           /\ \A s, v, i : ShipmentCanceled(s, v, i) => DispatchInv'
           /\ \A w \in Workers : TripWorker(w) \/ CrashWorker(w) => DispatchInv'
           /\ \A i : LeaseRunsOut(i) => DispatchInv'
           /\ TripDriver => DispatchInv'
  <1>1. ASSUME UNCHANGED <<td, courier, late>>
        PROVE  DispatchInv'
    BY <1>1, DispatchStill
  <1>2. ASSUME NEW t, NEW S, NEW u, NEW i, NEW asked, Add(t, S, u, i, asked)
        PROVE  DispatchInv'
    BY <1>1, <1>2 DEF Add
  <1>3. ASSUME NEW s, NEW v, NEW i, ShipmentCanceled(s, v, i)
        PROVE  DispatchInv'
    BY <1>1, <1>3 DEF ShipmentCanceled
  <1>4. ASSUME NEW w \in Workers, TripWorker(w) \/ CrashWorker(w)
        PROVE  DispatchInv'
    <2>1. GiveUp(w) \/ CrashWorker(w) => /\ UNCHANGED <<td, courier>>
                                         /\ late' = late \cup InFlight(w)
      BY DEF GiveUp, CrashWorker
    <2>2. (\E i \in Operations : Resume(w, i)) => UNCHANGED <<td, courier, late>>
      BY DEF Resume
    <2>3. SendClaim(w) \/ SendRelease(w) => UNCHANGED <<td, courier, late>>
      BY DEF SendClaim, SendRelease, Send
    <2>4. PersistClaim(w) \/ Compensate(w) \/ PersistRelease(w)
             => UNCHANGED <<td, courier, late>>
      BY DEF PersistClaim, Compensate, BeginCompensation, PersistRelease
    <2>5. EndClaims(w) \/ JoinCompensation(w) \/ EndReleases(w) \/ Finalize(w)
             => UNCHANGED <<td, courier, late>>
      BY DEF EndClaims, JoinCompensation, EndReleases, Finalize, Finish, Stand
    <2>6. QED
      BY <1>4, <2>1, <2>2, <2>3, <2>4, <2>5, WorkerCallsKeep DEF TripWorker
  <1>5. ASSUME NEW i, LeaseRunsOut(i)
        PROVE  DispatchInv'
    BY <1>1, <1>5 DEF LeaseRunsOut
  <1>6. ASSUME TripDriver
        PROVE  DispatchInv'
    BY <1>1, <1>6 DEF TripDriver, Deliver
  <1>7. QED
    BY <1>2, <1>3, <1>4, <1>5, <1>6

\* A command of a planner.
LEMMA CommandKeeps ==
    ASSUME SafeInv, DispatchInv, TripCommand, dispatch' = dispatch
    PROVE  DispatchInv'
  <1>1. ASSUME UNCHANGED <<td, courier, late>>
        PROVE  DispatchInv'
    BY <1>1, DispatchStill
  <1>2. ASSUME NEW t \in Trips,
               CreateTrip(t) \/ UpdateTrip(t) \/ Reopen(t) \/ \E route : Approve(t, route)
        PROVE  DispatchInv'
    BY <1>1, <1>2 DEF CreateTrip, UpdateTrip, Reopen, Approve
  <1>3. ASSUME NEW t, NEW u, NEW i, CancelTrip(t, u, i) \/ \E S : Remove(t, S, u, i)
        PROVE  DispatchInv'
    BY <1>1, <1>3 DEF CancelTrip, Remove
  <1>4. QED
    BY <1>2, <1>3, StartTripDispatchKeeps DEF TripCommand

\* Every step of both services, with one courier.
LEMMA DispatchKept ==
    ASSUME OneCourier, SafeInv, DispatchInv, [BothNext]_bothVars
    PROVE  DispatchInv'
  <1>1. ASSUME UNCHANGED tripVars, dispatch' = dispatch
        PROVE  DispatchInv'
    BY <1>1, DispatchStill DEF tripVars
  <1>2. UNCHANGED fulVars => dispatch' = dispatch
    BY DEF fulVars
  <1>3. CASE (TripCommand \/ TripDriver \/ TripFault) /\ UNCHANGED fulVars
    BY <1>2, <1>3, CommandKeeps, OthersKeep, LoseCourierKeeps DEF TripFault
  <1>4. ASSUME NEW t \in Trips, NEW u \in Users, NEW i \in Operations,
               AddFromPool(t, u, i)
        PROVE  DispatchInv'
    BY <1>2, <1>4, OthersKeep DEF AddFromPool
  <1>5. ASSUME NEW i \in Operations, TripLearnsCancel(i)
        PROVE  DispatchInv'
    BY <1>2, <1>5, OthersKeep DEF TripLearnsCancel
  <1>6. ASSUME NEW w \in Workers, TripWorker(w), UNCHANGED fulVars
        PROVE  DispatchInv'
    BY <1>2, <1>6, OthersKeep
  <1>7. ASSUME NEW w \in Workers, AnswerClaim(w) \/ AnswerRelease(w)
        PROVE  DispatchInv'
    <2>1. UNCHANGED <<td, courier, late>>
      BY <1>7 DEF AnswerClaim, AnswerRelease, ClaimAnswered, ReleaseAnswered, Answered
    <2>2. dispatch' = dispatch
      BY <1>7, ServedKeeps DEF AnswerClaim, AnswerRelease
    <2>3. QED
      BY <2>1, <2>2, DispatchStill
  <1>8. ASSUME NEW c \in Couriers, TripCourier(c) \/ Select(c), UNCHANGED fulVars
        PROVE  DispatchInv'
    BY <1>2, <1>8, TakeUpKeeps, SelectKeeps, SubmitKeeps, DecideKeeps DEF TripCourier
  <1>9. ASSUME NEW c \in Couriers, BatchArrives(c)
        PROVE  DispatchInv'
    <2> DEFINE b == courier[c].batch
    <2>1. courier[c].phase = "call" /\ StartBatch(b) /\ UNCHANGED <<td, courier, late>>
      BY <1>9 DEF BatchArrives, tripVars
    <2>2. b \in Batches /\ Outstanding(late, courier, b)
      BY <2>1, CourierKnows DEF Outstanding
    <2> HIDE DEF b
    <2>3. QED
      BY <2>1, <2>2, StartBatchKeeps
  <1>10. ASSUME NEW e \in ResultEvents, ResultHandled(e)
         PROVE  DispatchInv'
    <2>1. UNCHANGED tripVars /\ dispatch' = dispatch
      BY <1>10 DEF ResultHandled, Ful!HandleResult, Ful!ResultDuplicate, Ful!ResultConflict,
         Ful!ResultMisplaced, Ful!ResultDefer, Ful!ResultRead, Ful!ResultWrite,
         Ful!ResultAbort, Ful!Receipt
    <2>2. QED
      BY <1>1, <2>1
  <1>11. ASSUME NEW s \in Shipments, DirectDispatch(s) \/ CancelOrder(s)
         PROVE  DispatchInv'
    <2>1. UNCHANGED tripVars /\ dispatch' = dispatch
      BY <1>11 DEF DirectDispatch, CancelOrder, Ful!StartDispatch, Ful!RejectDispatch,
         Ful!CommitDispatch, Ful!OrderCanceled
    <2>2. QED
      BY <1>1, <2>1
  <1>12. CASE UNCHANGED bothVars
    <2>1. UNCHANGED tripVars /\ UNCHANGED fulVars
      BY <1>12 DEF bothVars
    <2>2. QED
      BY <1>1, <1>2, <2>1
  <1>13. ASSUME NEW c \in Couriers, AnswerBatch(c)
         PROVE  DispatchInv'
    BY <1>13, AnswerBatchKeeps
  <1>14. ASSUME NEW b \in Batches, DecideBatch(b)
         PROVE  DispatchInv'
    BY <1>14, DecideBatchKeeps
  <1>15. CASE HandleLate
    BY <1>15, HandleLateKeeps
  <1>16. QED
    BY <1>3, <1>4, <1>5, <1>6, <1>7, <1>8, <1>9, <1>10, <1>11, <1>12, <1>13, <1>14, <1>15
    DEF BothNext, SelectReady

-----------------------------------------------------------------------------
(* What has left has left with a batch *)

GoneFits(row, x, s) ==
    row.status \in FulP!Gone /\ row.trip # NoTrip
       => \E b \in Batches : /\ x[b].status = "COMPLETED" /\ x[b].trip = row.trip
                             /\ x[b].child[s] # NoRequest

\* A shipment that is dispatched by itself is on no trip.
DirectFits(row, i) == i.status = "PENDING" /\ i.batch = NoBatch => row.trip = NoTrip

GoneInv == \A s \in Shipments : /\ GoneFits(ship[s], dispatch, s)
                                /\ DirectFits(ship[s], intent[s])

\* A completed batch stays as it is; a shipment is left alone, or has a reason.
LEMMA GoneKept ==
    ASSUME GoneInv,
           \A b \in Batches : dispatch[b].status = "COMPLETED" => dispatch'[b] = dispatch[b],
           \A s \in Shipments :
              /\ \/ ship[s].status \in FulP!Gone /\ ship'[s].trip = ship[s].trip
                 \/ GoneFits(ship'[s], dispatch', s)
              /\ \/ /\ ship'[s].trip = ship[s].trip
                    /\ intent'[s].status = intent[s].status
                    /\ intent'[s].batch = intent[s].batch
                 \/ DirectFits(ship'[s], intent'[s])
    PROVE  GoneInv'
  <1>1. ASSUME NEW s \in Shipments
        PROVE  GoneFits(ship'[s], dispatch', s)
    BY DEF GoneInv, GoneFits
  <1>2. ASSUME NEW s \in Shipments
        PROVE  DirectFits(ship'[s], intent'[s])
    BY DEF GoneInv, DirectFits
  <1>3. QED
    BY <1>1, <1>2 DEF GoneInv

\* Shipments, intents and batches stay.
LEMMA GoneStill ==
    ASSUME GoneInv, UNCHANGED <<ship, intent, dispatch>>
    PROVE  GoneInv'
  BY DEF GoneInv, GoneFits, DirectFits

\* One shipment is written and perhaps its intent.
LEMMA GoneWrite ==
    ASSUME SafeInv, GoneInv, NEW s \in Shipments, NEW row, NEW i,
           ship' = [ship EXCEPT ![s] = FulP!Bumped(row)], row \in FulP!ShipRow,
           intent' = [intent EXCEPT ![s] = i], dispatch' = dispatch,
           \/ row.status \notin FulP!Gone \/ row.trip = NoTrip
           \/ ship[s].status \in FulP!Gone /\ row.trip = ship[s].trip,
           DirectFits(row, i)
    PROVE  GoneInv'
  <1>1. ship \in [Shipments -> FulP!ShipRow] /\ intent \in [Shipments -> FulP!IntentRow]
    BY DEF SafeInv, FulP!ResultInv, FulP!FulInv, FulP!FulfillmentTypeOK
  <1>2. /\ FulP!Bumped(row).status = row.status /\ FulP!Bumped(row).trip = row.trip
    BY DEF FulP!Bumped, FulP!ShipRow
  <1>3. /\ ship'[s] = FulP!Bumped(row) /\ intent'[s] = i
        /\ \A p \in Shipments : p # s => ship'[p] = ship[p] /\ intent'[p] = intent[p]
    BY <1>1
  <1>4. ASSUME NEW p \in Shipments
        PROVE  GoneFits(ship'[p], dispatch', p)
    <2>1. GoneFits(ship[p], dispatch, p) /\ GoneFits(ship[s], dispatch, s)
      BY DEF GoneInv
    <2>2. QED
      BY <1>2, <1>3, <2>1 DEF GoneFits
  <1>5. ASSUME NEW p \in Shipments
        PROVE  DirectFits(ship'[p], intent'[p])
    BY <1>2, <1>3 DEF GoneInv, DirectFits
  <1>6. QED
    BY <1>4, <1>5 DEF GoneInv

\* A claim is granted to a shipment that has not left; a release frees it.
LEMMA ClaimGone ==
    ASSUME SafeInv, GoneInv, NEW r \in Rows, NEW rel, member[r].state # "NONE",
           HandleClaim(r) \/ HandleRelease(r, rel)
    PROVE  GoneInv'
  <1> DEFINE s == r[2]
             taken == [ship[s] EXCEPT !.trip = TripOf(r), !.claim = r]
             given == [ship[s] EXCEPT !.trip = NoTrip, !.claim = NoRow]
  <1>1. /\ s \in Shipments /\ TripOf(r) \in Trips
        /\ ship[s] \in FulP!ShipRow /\ intent[s] \in FulP!IntentRow
        /\ intent \in [Shipments -> FulP!IntentRow]
    BY BookTables DEF SafeInv, FulP!ResultInv, FulP!FulInv, FulP!FulfillmentTypeOK,
       Books, RowFits, OpFits, TripOf
  <1>2. CASE UNCHANGED fulVars
    BY <1>2, GoneStill DEF fulVars
  <1>3. CASE Ful!Claim(r, s, TripOf(r), op[r[1]].actor, member[r].asked)
    <2>1. /\ taken \in FulP!ShipRow /\ taken.status = ship[s].status
          /\ taken.status \notin FulP!Gone
      BY <1>1, <1>3 DEF FulP!ShipRow, Ful!Claim, Ful!Claimable, FulP!Gone
    <2>2. /\ ship' = [ship EXCEPT ![s] = FulP!Bumped(taken)]
          /\ intent' = [intent EXCEPT ![s] = intent[s]] /\ dispatch' = dispatch
      BY <1>1, <1>3 DEF Ful!Claim, Ful!Write, Ful!Bumped, FulP!Bumped
    <2>3. DirectFits(taken, intent[s])
      BY <1>3 DEF DirectFits, Ful!Claim, Ful!Claimable, Ful!IntentFree
    <2> HIDE DEF s, taken
    <2>4. QED
      BY <1>1, <2>1, <2>2, <2>3, GoneWrite
  <1>4. CASE Ful!Release(r, s, TripOf(r), rel.actor, rel.version, rel.try)
    <2>1. given \in FulP!ShipRow /\ given.trip = NoTrip
      BY <1>1 DEF FulP!ShipRow
    <2>2. /\ ship' = [ship EXCEPT ![s] = FulP!Bumped(given)]
          /\ intent' = [intent EXCEPT ![s] = intent[s]] /\ dispatch' = dispatch
      BY <1>1, <1>4 DEF Ful!Release, Ful!Write, Ful!Bumped, FulP!Bumped
    <2>3. DirectFits(given, intent[s])
      BY <2>1 DEF DirectFits
    <2> HIDE DEF s, given
    <2>4. QED
      BY <1>1, <2>1, <2>2, <2>3, GoneWrite
  <1>5. QED
    BY <1>2, <1>3, <1>4 DEF HandleClaim, HandleRelease

\* A batch is begun: its intents are not direct ones.
LEMMA StartBatchGone ==
    ASSUME SafeInv, GoneInv, NEW b \in Batches, StartBatch(b)
    PROVE  GoneInv'
  <1>1. ship' = ship /\ dispatch[b].status = "NONE"
    BY DEF StartBatch, Ful!StartBatch
  <1>2. \A a \in Batches : a # b => dispatch'[a] = dispatch[a]
    BY DispatchTables DEF StartBatch, Ful!StartBatch
  <1>3. \A s \in Shipments : intent'[s] = intent[s] \/ intent'[s].batch = b
    BY DEF StartBatch, Ful!StartBatch
  <1>4. b # NoBatch
    BY TripAssumption
  <1>5. \A a \in Batches : dispatch[a].status = "COMPLETED" => dispatch'[a] = dispatch[a]
    BY <1>1, <1>2
  <1>6. ASSUME NEW s \in Shipments
        PROVE  /\ \/ ship[s].status \in FulP!Gone /\ ship'[s].trip = ship[s].trip
                  \/ GoneFits(ship'[s], dispatch', s)
               /\ \/ /\ ship'[s].trip = ship[s].trip
                     /\ intent'[s].status = intent[s].status
                     /\ intent'[s].batch = intent[s].batch
                  \/ DirectFits(ship'[s], intent'[s])
    BY <1>1, <1>3, <1>4 DEF GoneFits, DirectFits
  <1>7. QED
    BY <1>5, <1>6, GoneKept

\* A batch is decided: what leaves, leaves with it.
LEMMA DecideBatchGone ==
    ASSUME SafeInv, GoneInv, NEW b \in Batches, DecideBatch(b)
    PROVE  GoneInv'
  <1>1. /\ ship \in [Shipments -> FulP!ShipRow] /\ intent \in [Shipments -> FulP!IntentRow]
        /\ dispatch \in [Batches -> FulP!BatchDispatch]
    BY DEF SafeInv, FulP!ResultInv, FulP!FulInv, FulP!FulfillmentTypeOK
  <1>2. dispatch[b].status = "PENDING"
    BY DEF DecideBatch, Ful!StoreDecision, Ful!CommitBatch, Ful!RejectBatch
  <1>3. \A a \in Batches : a # b => dispatch'[a] = dispatch[a]
    BY <1>1 DEF DecideBatch, Ful!StoreDecision, Ful!CommitBatch, Ful!RejectBatch
  <1>4. \A a \in Batches : dispatch[a].status = "COMPLETED" => dispatch'[a] = dispatch[a]
    BY <1>2, <1>3
  <1>5. ASSUME NEW d, Ful!StoreDecision(b, d) \/ Ful!RejectBatch(b), NEW s \in Shipments
        PROVE  /\ ship'[s] = ship[s]
               /\ \/ /\ intent'[s].status = intent[s].status
                     /\ intent'[s].batch = intent[s].batch
                  \/ intent'[s].status = "REJECTED"
    BY <1>1, <1>5 DEF Ful!StoreDecision, Ful!RejectBatch, FulP!IntentRow
  <1>6. ASSUME Ful!CommitBatch(b), NEW s \in Shipments
        PROVE  \/ ship'[s] = ship[s] /\ intent'[s] = intent[s]
               \/ /\ ship'[s].trip = ship[s].trip /\ ship[s].trip = dispatch[b].trip
                  /\ intent'[s].status = "COMPLETED"
                  /\ dispatch[b].child[s] # NoRequest
    <2> DEFINE S == Ful!Members(dispatch[b].child)
    <2>1. /\ ship'[s] = IF s \in S THEN Ful!Bumped([ship[s] EXCEPT !.status = "DISPATCHED"])
                       ELSE ship[s]
          /\ intent'[s] = IF s \in S THEN [intent[s] EXCEPT !.status = "COMPLETED"]
                         ELSE intent[s]
          /\ s \in S => ship[s].trip = dispatch[b].trip
      BY <1>6 DEF Ful!CommitBatch, Ful!Bound
    <2>2. s \in S => dispatch[b].child[s] # NoRequest
      BY DEF Ful!Members
    <2>3. /\ Ful!Bumped([ship[s] EXCEPT !.status = "DISPATCHED"]).trip = ship[s].trip
          /\ [intent[s] EXCEPT !.status = "COMPLETED"].status = "COMPLETED"
      BY <1>1 DEF Ful!Bumped, FulP!ShipRow, FulP!IntentRow
    <2> HIDE DEF S
    <2>4. QED
      BY <2>1, <2>2, <2>3
  <1>7. ASSUME Ful!CommitBatch(b)
        PROVE  /\ dispatch'[b].status = "COMPLETED" /\ dispatch'[b].trip = dispatch[b].trip
               /\ dispatch'[b].child = dispatch[b].child
    BY <1>1, <1>7 DEF Ful!CommitBatch, FulP!BatchDispatch
  <1>8. ASSUME NEW s \in Shipments
        PROVE  /\ \/ ship[s].status \in FulP!Gone /\ ship'[s].trip = ship[s].trip
                  \/ GoneFits(ship'[s], dispatch', s)
               /\ \/ /\ ship'[s].trip = ship[s].trip
                     /\ intent'[s].status = intent[s].status
                     /\ intent'[s].batch = intent[s].batch
                  \/ DirectFits(ship'[s], intent'[s])
    <2>1. CASE Ful!CommitBatch(b)
      BY <1>6, <1>7, <2>1 DEF GoneFits, DirectFits
    <2>2. ASSUME NEW d, Ful!StoreDecision(b, d) \/ Ful!RejectBatch(b)
          PROVE  <1>8!2
      BY <1>5, <2>2 DEF GoneFits, DirectFits
    <2>3. QED
      BY <2>1, <2>2 DEF DecideBatch
  <1>9. QED
    BY <1>4, <1>8, GoneKept

\* A shipment is dispatched by itself, or its order canceled.
LEMMA SingleGone ==
    ASSUME SafeInv, GoneInv, NEW s \in Shipments, DirectDispatch(s) \/ CancelOrder(s)
    PROVE  GoneInv'
  <1>1. /\ ship \in [Shipments -> FulP!ShipRow] /\ intent \in [Shipments -> FulP!IntentRow]
        /\ ship[s] \in FulP!ShipRow /\ intent[s] \in FulP!IntentRow
    BY DEF SafeInv, FulP!ResultInv, FulP!FulInv, FulP!FulfillmentTypeOK
  <1>2. DirectFits(ship[s], intent[s])
    BY DEF GoneInv
  <1>3. ASSUME NEW i, intent' = [intent EXCEPT ![s] = i], UNCHANGED <<ship, dispatch>>,
               DirectFits(ship[s], i)
        PROVE  GoneInv'
    <2>1. /\ intent'[s] = i /\ \A p \in Shipments : p # s => intent'[p] = intent[p]
      BY <1>1, <1>3
    <2>2. QED
      BY <1>3, <2>1 DEF GoneInv
  <1>4. ASSUME NEW q, Ful!StartDispatch(s, q, 2)
        PROVE  GoneInv'
    <2> DEFINE i == [id |-> q, status |-> "PENDING", quoted |-> 2, batch |-> NoBatch,
                     receipt |-> FALSE]
    <2>1. /\ intent' = [intent EXCEPT ![s] = i] /\ UNCHANGED <<ship, dispatch>>
          /\ ship[s].trip = NoTrip
      BY <1>4 DEF Ful!StartDispatch
    <2> HIDE DEF i
    <2>2. DirectFits(ship[s], i)
      BY <2>1 DEF DirectFits
    <2>3. QED
      BY <1>3, <2>1, <2>2
  <1>5. ASSUME NEW q, Ful!RejectDispatch(s, q)
        PROVE  GoneInv'
    <2> DEFINE i == [intent[s] EXCEPT !.status = "REJECTED"]
    <2>1. intent' = [intent EXCEPT ![s] = i] /\ UNCHANGED <<ship, dispatch>>
      BY <1>5 DEF Ful!RejectDispatch
    <2>2. DirectFits(ship[s], i)
      BY <1>1 DEF DirectFits, FulP!IntentRow
    <2> HIDE DEF i
    <2>3. QED
      BY <1>3, <2>1, <2>2
  <1>6. ASSUME NEW q, Ful!AsksOrder(s), Ful!CommitDispatch(s, q)
        PROVE  GoneInv'
    <2> DEFINE i == [intent[s] EXCEPT !.status = "COMPLETED"]
               row == [ship[s] EXCEPT !.status = "DISPATCHED"]
    <2>1. /\ ship' = [ship EXCEPT ![s] = FulP!Bumped(row)]
          /\ intent' = [intent EXCEPT ![s] = i] /\ dispatch' = dispatch
      BY <1>6 DEF Ful!CommitDispatch, Ful!Write, Ful!Bumped, FulP!Bumped
    <2>2. row \in FulP!ShipRow /\ row.trip = NoTrip
      BY <1>1, <1>2, <1>6 DEF FulP!ShipRow, FulP!Gone, DirectFits, Ful!AsksOrder
    <2>3. DirectFits(row, i)
      BY <2>2 DEF DirectFits
    <2> HIDE DEF i, row
    <2>4. QED
      BY <2>1, <2>2, <2>3, GoneWrite
  <1>7. ASSUME Ful!OrderCanceled(s, 3)
        PROVE  GoneInv'
    <2> DEFINE i == [intent[s] EXCEPT !.status = IF @ = "PENDING" THEN "REJECTED" ELSE @]
               row == [ship[s] EXCEPT !.status = "CANCELED"]
    <2>1. dispatch' = dispatch
      BY <1>7 DEF Ful!OrderCanceled
    <2>2. CASE ship[s].status \in {"NONE", "CANCELED"}
      <3>1. ship' = ship /\ intent' = intent
        BY <1>7, <2>2 DEF Ful!OrderCanceled, Ful!Gone
      <3>2. QED
        BY <2>1, <3>1, GoneStill
    <2>3. CASE ship[s].status \in FulP!Gone
      <3>1. ship' = [ship EXCEPT ![s] = FulP!Bumped(ship[s])] /\ intent' = intent
        BY <1>7, <2>3 DEF Ful!OrderCanceled, Ful!Write, Ful!Bumped, FulP!Bumped, FulP!Gone,
                          Ful!Gone
      <3>2. intent' = [intent EXCEPT ![s] = intent[s]]
        BY <1>1, <3>1
      <3>3. QED
        BY <1>1, <1>2, <2>1, <2>3, <3>1, <3>2, GoneWrite
    <2>4. CASE ship[s].status \notin {"NONE", "CANCELED"} \cup FulP!Gone
      <3>1. /\ ship' = [ship EXCEPT ![s] = FulP!Bumped(row)]
            /\ intent' = [intent EXCEPT ![s] = i]
        BY <1>7, <2>4 DEF Ful!OrderCanceled, Ful!Write, Ful!Bumped, FulP!Bumped, FulP!Gone,
                          Ful!Gone
      <3>2. /\ row \in FulP!ShipRow /\ row.status \notin FulP!Gone
            /\ row.trip = ship[s].trip
        BY <1>1 DEF FulP!ShipRow, FulP!Gone, FulP!Terminal
      <3>3. i.status # "PENDING"
        BY <1>1 DEF FulP!IntentRow
      <3> HIDE DEF i, row
      <3>4. DirectFits(row, i)
        BY <3>3 DEF DirectFits
      <3>5. QED
        BY <2>1, <3>1, <3>2, <3>4, GoneWrite
    <2>5. QED
      BY <2>2, <2>3, <2>4
  <1>8. QED
    BY <1>4, <1>5, <1>6, <1>7 DEF DirectDispatch, CancelOrder

\* A delivery result: the shipment was on the road.
LEMMA ResultGone ==
    ASSUME SafeInv, GoneInv, NEW e \in ResultEvents, ResultHandled(e)
    PROVE  GoneInv'
  <1>1. CASE UNCHANGED <<ship, intent, dispatch>>
    BY <1>1, GoneStill
  <1>2. CASE Ful!ResultWrite(e)
    <2> DEFINE s == e.order
               row == [ship[s] EXCEPT !.status = e.outcome]
    <2>1. /\ s \in Shipments /\ e.outcome \in {"DELIVERED", "FAILED"}
          /\ [f \in ResultEvents |-> f][e] = e
      BY DEF ResultEvents
    <2>2. /\ intent \in [Shipments -> FulP!IntentRow]
          /\ ship[s] \in FulP!ShipRow /\ intent[s] \in FulP!IntentRow
      BY <2>1 DEF SafeInv, FulP!ResultInv, FulP!FulInv, FulP!FulfillmentTypeOK
    <2>3. ship[s].status = "DISPATCHED"
      BY <1>2, <2>1 DEF Ful!ResultWrite, SafeInv, FulP!ResultInv, FulP!ReadStands
    <2>4. /\ ship' = [ship EXCEPT ![s] = FulP!Bumped(row)]
          /\ intent' = intent /\ dispatch' = dispatch
      BY <1>2, <2>1 DEF Ful!ResultWrite, Ful!Write, Ful!Bumped, FulP!Bumped
    <2>5. intent' = [intent EXCEPT ![s] = intent[s]]
      BY <2>1, <2>2, <2>4
    <2>6. row \in FulP!ShipRow /\ row.trip = ship[s].trip
      BY <2>1, <2>2 DEF FulP!ShipRow, FulP!Gone
    <2>7. ship[s].status \in FulP!Gone
      BY <2>3 DEF FulP!Gone
    <2>8. DirectFits(row, intent[s])
      BY <2>1, <2>6 DEF GoneInv, DirectFits
    <2> HIDE DEF s, row
    <2>9. QED
      BY <2>1, <2>4, <2>5, <2>6, <2>7, <2>8, GoneWrite
  <1>3. QED
    BY <1>1, <1>2 DEF ResultHandled, Ful!HandleResult, Ful!ResultDuplicate,
       Ful!ResultConflict, Ful!ResultMisplaced, Ful!ResultDefer, Ful!ResultRead,
       Ful!ResultAbort, Ful!Receipt

\* At first nothing has left.
LEMMA GoneInitially == BothInit => GoneInv
  BY DEF BothInit, GoneInv, GoneFits, DirectFits, FulP!Gone, Ful!NoIntent

\* Every step of both services.
LEMMA GoneStep ==
    ASSUME SafeInv, GoneInv, [BothNext]_bothVars
    PROVE  GoneInv'
  <1>1. UNCHANGED fulVars => GoneInv'
    BY GoneStill DEF fulVars
  <1>2. ASSUME NEW w \in Workers, AnswerClaim(w) \/ AnswerRelease(w)
        PROVE  GoneInv'
    <2> DEFINE r == worker[w].at.row
               rel == worker[w].at.rel
    <2>1. worker[w].phase \in {"claiming", "releasing"}
      BY <1>2 DEF AnswerClaim, AnswerRelease
    <2>2. WorkerFits(member, op, claims, worker[w])
      BY DEF SafeInv, Books
    <2>3. r \in Rows /\ member[r].state # "NONE"
      BY <2>1, <2>2 DEF WorkerFits, Calling, Lists, CallFits
    <2>4. HandleClaim(r) \/ HandleRelease(r, rel)
      BY <1>2 DEF AnswerClaim, AnswerRelease
    <2> HIDE DEF r, rel
    <2>5. QED
      BY <2>3, <2>4, ClaimGone
  <1>3. CASE HandleLate
    <2>1. PICK call \in late :
              CASE call.kind = "claim"   -> HandleClaim(call.row)
                [] call.kind = "release" -> HandleRelease(call.row, call.rel)
                [] OTHER                 -> HandleBatch(call.batch)
      BY <1>3 DEF HandleLate
    <2>2. call \in LateCall /\ LateFits(member, td, call)
      BY DispatchTables DEF Books
    <2>3. CASE call.kind = "batch"
      <3>1. call.batch \in Batches
        BY <2>2, <2>3 DEF LateCall, Call
      <3>2. HandleBatch(call.batch)
        BY <2>1, <2>3
      <3>3. QED
        BY <1>1, <3>1, <3>2, StartBatchGone DEF HandleBatch
    <2>4. CASE call.kind # "batch"
      <3>1. call.row \in Rows /\ member[call.row].state # "NONE"
        BY <2>2, <2>4 DEF LateFits, CallFits
      <3>2. call.kind = "claim" \/ call.kind = "release"
        BY <2>2, <2>4 DEF LateCall, Call
      <3>3. HandleClaim(call.row) \/ HandleRelease(call.row, call.rel)
        BY <2>1, <3>2
      <3>4. QED
        BY <3>1, <3>3, ClaimGone
    <2>5. QED
      BY <2>3, <2>4
  <1>4. ASSUME NEW c \in Couriers, BatchArrives(c)
        PROVE  GoneInv'
    <2>1. courier[c].phase = "call" /\ StartBatch(courier[c].batch)
      BY <1>4 DEF BatchArrives
    <2>2. courier[c].batch \in Batches
      BY <2>1, DispatchTables, CourierHas
    <2>3. QED
      BY <2>1, <2>2, StartBatchGone
  <1>5. ASSUME NEW b \in Batches, DecideBatch(b)
        PROVE  GoneInv'
    BY <1>5, DecideBatchGone
  <1>6. ASSUME NEW s \in Shipments, DirectDispatch(s) \/ CancelOrder(s)
        PROVE  GoneInv'
    BY <1>6, SingleGone
  <1>7. ASSUME NEW e \in ResultEvents, ResultHandled(e)
        PROVE  GoneInv'
    BY <1>7, ResultGone
  <1>8. UNCHANGED bothVars => UNCHANGED fulVars
    BY DEF bothVars
  <1>9. QED
    BY <1>1, <1>2, <1>3, <1>4, <1>5, <1>6, <1>7, <1>8
    DEF BothNext, AddFromPool, TripLearnsCancel, SelectReady, AnswerBatch

\* What has left with a trip, the dispatch of that trip knows of.
LEMMA GoneIsKnown ==
    ASSUME SafeInv, DispatchInv, GoneInv
    PROVE  LeavesWithTrip
  <1> SUFFICES ASSUME NEW s \in Shipments, ship[s].status \in Ful!Gone, ship[s].trip # NoTrip
               PROVE  \E b \in Batches :
                         /\ td[b].trip = ship[s].trip /\ td[b].load[s] > 0
                         /\ td[b].stage \in {"SUBMITTED", "RECEIPTED", "COMPLETED"}
    BY DEF LeavesWithTrip
  <1>1. PICK b \in Batches : /\ dispatch[b].status = "COMPLETED"
                             /\ dispatch[b].trip = ship[s].trip
                             /\ dispatch[b].child[s] # NoRequest
    BY DEF GoneInv, GoneFits, Ful!Gone, FulP!Gone
  <1>2. BatchFits(td[b], dispatch[b], late, courier, b) /\ td[b] \in DispatchRow
    BY DispatchTables DEF DispatchInv
  <1>3. td[b].trip = ship[s].trip /\ td[b].load[s] > 0
    BY <1>1, <1>2 DEF BatchFits, ChildOf
  <1>4. td[b].stage \in {"SUBMITTED", "RECEIPTED", "COMPLETED"}
    BY <1>1, <1>2 DEF BatchFits, DispatchRow
  <1>5. QED
    BY <1>3, <1>4

(***************************************************************************)
(* A shipment that has left with a trip has left under a dispatch that     *)
(* transport carries through or has completed.  Transport never takes a    *)
(* batch for rejected that has left or may still leave, whatever answers   *)
(* are lost, however late a request is handled and whenever the process    *)
(* dies.                                                                   *)
(***************************************************************************)
THEOREM WhatLeavesIsKnown == OneCourier => (BothSpec => []LeavesWithTrip)
  <1> SUFFICES ASSUME OneCourier
               PROVE  BothSpec => []LeavesWithTrip
    OBVIOUS
  <1> DEFINE Inv == SafeInv /\ DispatchInv /\ GoneInv
  <1>1. BothInit => Inv
    BY SafeInitially, DispatchInitially, GoneInitially
  <1>2. Inv /\ [BothNext]_bothVars => Inv'
    BY SafeStep, DispatchKept, GoneStep
  <1>3. Inv => LeavesWithTrip
    BY GoneIsKnown
  <1>4. QED
    BY <1>1, <1>2, <1>3, PTL DEF BothSpec

-----------------------------------------------------------------------------
(* The facts about the transport-service, with fulfillment's own answers *)

\* Every step of both services, if no lease runs out under a busy worker.
LEMMA TripGoesOn ==
    ASSUME ~LeaseExpires, SafeInv, TripInv, [BothNext]_bothVars
    PROVE  TripInv'
  <1>1. Books /\ FulP!ResultInv
    BY DEF SafeInv
  <1>2. TripNext \/ UNCHANGED tripVars => TripInv'
    BY TripStep
  <1>3. CASE (TripCommand \/ TripDriver \/ TripFault) /\ UNCHANGED fulVars
    BY <1>2, <1>3 DEF TripNext
  <1>4. ASSUME NEW t \in Trips, NEW u \in Users, NEW i \in Operations, AddFromPool(t, u, i)
        PROVE  TripInv'
    <2> DEFINE asked == [s \in Shipments |-> ship[s].version]
    <2>1. asked \in [Shipments -> Nat]
      BY <1>1, PoolVersions
    <2>2. PICK S \in SUBSET Pool \ {{}} : Add(t, S, u, i, asked)
      BY <1>4 DEF AddFromPool
    <2> HIDE DEF asked
    <2>3. S \in SUBSET Shipments
      BY DEF Pool
    <2>4. QED
      BY <2>1, <2>2, <2>3, AddStep
  <1>5. ASSUME NEW i \in Operations, TripLearnsCancel(i)
        PROVE  TripInv'
    <2>1. PICK e \in shipLog : ShipmentCanceled(e.order, e.version, i)
      BY <1>5 DEF TripLearnsCancel
    <2>2. e.order \in Shipments /\ e.version \in Nat
      BY <1>1, EventVersion
    <2>3. QED
      BY <2>1, <2>2, ShipmentCanceledStep
  <1>6. ASSUME NEW w \in Workers, TripWorker(w)
        PROVE  TripInv'
    BY <1>2, <1>6 DEF TripNext
  <1>7. ASSUME NEW w \in Workers, AnswerClaim(w)
        PROVE  TripInv'
    <2>1. PICK a \in {"CLAIMED", "BAD_PLACE", "UNREADABLE", "REFUSED"} : ClaimAnswered(w, a)
      BY <1>7 DEF AnswerClaim, Reading
    <2>2. TripNext
      BY <2>1 DEF TripNext
    <2>3. QED
      BY <1>2, <2>2
  <1>8. ASSUME NEW w \in Workers, AnswerRelease(w)
        PROVE  TripInv'
    <2>1. PICK a \in {"RELEASED", "REFUSED"} : ReleaseAnswered(w, a)
      BY <1>8 DEF AnswerRelease
    <2>2. TripNext
      BY <2>1 DEF TripNext
    <2>3. QED
      BY <1>2, <2>2
  <1>9. ASSUME NEW c \in Couriers, TripCourier(c) \/ Select(c)
        PROVE  TripInv'
    BY <1>2, <1>9 DEF TripNext
  <1>10. ASSUME NEW c \in Couriers, AnswerBatch(c)
         PROVE  TripInv'
    <2>1. /\ courier[c].phase = "call" /\ dispatch[courier[c].batch].status # "NONE"
          /\ BatchAnswered(c, dispatch[courier[c].batch].status)
      BY <1>10 DEF AnswerBatch
    <2>2. courier[c].batch \in Batches
      BY <1>1, <2>1, CourierHas
    <2>3. dispatch[courier[c].batch].status \in {"PENDING", "REJECTED", "COMPLETED"}
      BY <2>1, <2>2, DispatchTables DEF FulP!BatchDispatch
    <2>4. TripNext
      BY <2>1, <2>3 DEF TripNext
    <2>5. QED
      BY <1>2, <2>4
  <1>11. CASE HandleLate
    <2>1. late' \subseteq late /\ UNCHANGED <<trip, op, member, stop, td, worker, courier>>
      BY <1>11 DEF HandleLate
    <2>2. \A c \in Couriers : courier'[c].phase # "idle" => courier'[c].batch \in Batches
      BY <2>1 DEF TripInv, DispatchRows
    <2>3. late' \subseteq LateCall
      BY <2>1, Tables
    <2>4. QED
      BY <2>1, <2>2, <2>3, Tables, DispatchStep
  <1>12. UNCHANGED bothVars => UNCHANGED tripVars
    BY DEF bothVars
  <1>13. QED
    BY <1>2, <1>3, <1>4, <1>5, <1>6, <1>7, <1>8, <1>9, <1>10, <1>11, <1>12
    DEF BothNext, SelectReady, BatchArrives, ResultHandled, DecideBatch, DirectDispatch,
        CancelOrder

(***************************************************************************)
(* A submitted dispatch keeps hold of its trip also with the answers and   *)
(* events of the real fulfillment-service, handled in time or late, and    *)
(* with planners that quote whatever version the pool shows.               *)
(***************************************************************************)
THEOREM SubmittedKeepsTripHere == ~LeaseExpires => (BothSpec => []SubmittedHolds)
  <1> SUFFICES ASSUME ~LeaseExpires
               PROVE  BothSpec => []SubmittedHolds
    OBVIOUS
  <1> DEFINE Inv == SafeInv /\ TripInv
  <1>1. BothInit => Inv
    BY SafeInitially, TripInitially DEF BothInit
  <1>2. Inv /\ [BothNext]_bothVars => Inv'
    BY SafeStep, TripGoesOn
  <1>3. Inv => SubmittedHolds
    BY DEF TripInv, PendingBound, SubmittedHolds
  <1>4. QED
    BY <1>1, <1>2, <1>3, PTL DEF BothSpec

-----------------------------------------------------------------------------
(* Every claim is accounted for *)

ClaimCall(r) == [kind |-> "claim", row |-> r]

\* A claim request for row r is on its way to fulfillment.
Sent(l, x, r) == \/ ClaimCall(r) \in l
                 \/ \E w \in Workers : x[w].phase = "claiming" /\ x[w].at = ClaimCall(r)

Waits(row) == row.state = "CLAIM_PENDING"

\* No receipt of the claim is open.
Closed(K, r) == \A k \in K : k.id = r => k.released # 0

\* As the planner saw the shipment in the pool.
InPool(sh, i) == /\ sh.status = "READY_TO_SHIP" /\ sh.trip = NoTrip /\ sh.claim = NoRow
                 /\ i.status \in {"NONE", "REJECTED"}

\* At the version it was asked for a shipment can be claimed.
AskedFits(row, sh, i, K, r) ==
    row.state # "NONE" => /\ sh.version >= row.asked
                          /\ sh.version = row.asked => InPool(sh, i)
                          /\ Known(K, r) => sh.version > row.asked

WaitFits(row, o, r) ==
    Waits(row) => ~row.removed /\ o[r[1]].status = "PENDING" /\ o[r[1]].kind = "ADD"

\* A removed row has no open claim and will get none.
RemovedFits(row, sh, K, l, x, r) ==
    row.removed => /\ row.state # "NONE"
                   /\ Closed(K, r) /\ (sh.version > row.asked \/ ~Sent(l, x, r))

\* The rows of an operation are claimed one after the other.
InOrder(m, K, l, x) ==
    \A r, q \in Rows : Waits(m[r]) /\ Waits(m[q]) /\ r[1] = q[1] /\ q[2] < r[2]
                          => ~Sent(l, x, r) /\ ~Known(K, r)

\* The list of a worker in state y is up to date, and so is what it was told.
ListFits(y, m, K, sh) ==
    /\ y.phase \in Claiming =>
          /\ \A r \in Rows : Waits(m[r]) /\ r[1] = y.op =>
                ClaimCall(r) \in y.todo \/ (y.phase # "claims" /\ y.at = ClaimCall(r))
          /\ \A call \in y.todo : Waits(m[call.row])
    /\ y.phase \in {"claiming", "claimed"} =>
          /\ Waits(m[y.at.row])
          /\ \A call \in y.todo : y.at.row[2] < call.row[2]
    /\ y.phase # "idle" /\ y.phase \notin Claiming =>
          \A r \in Rows : r[1] = y.op => ~Waits(m[r])
    /\ y.phase = "claimed" => y.answer \in {"CLAIMED", "BAD_PLACE", "REFUSED"}
    /\ y.phase = "claimed" /\ y.answer = "REFUSED" =>
          ~Known(K, y.at.row) /\ sh[y.at.row[2]].version > m[y.at.row].asked
    /\ y.phase = "released" /\ y.answer = "RELEASED" =>
          Known(K, y.at.row) /\ Closed(K, y.at.row)

AccountInv ==
    /\ \A r \in Rows : /\ AskedFits(member[r], ship[r[2]], intent[r[2]], claims, r)
                       /\ WaitFits(member[r], op, r)
                       /\ RemovedFits(member[r], ship[r[2]], claims, late, worker, r)
    /\ InOrder(member, claims, late, worker)
    /\ \A w \in Workers : ListFits(worker[w], member, claims, ship)

\* What fulfillment may do to shipments and claims.
ShipsForward ==
    \A s \in Shipments :
        /\ ship'[s].version >= ship[s].version
        /\ ship'[s].version = ship[s].version =>
              /\ ship'[s] = ship[s]
              /\ ship[s].claim # NoRow \/ intent'[s].status \in {intent[s].status, "REJECTED"}

ClaimsForward ==
    \A r \in Rows :
        /\ Known(claims, r) => Known(claims', r)
        /\ Known(claims, r) /\ Closed(claims, r) => Closed(claims', r)
        /\ Known(claims', r) /\ ~Known(claims, r) =>
              /\ Sent(late, worker, r)
              /\ ship[r[2]].version = member[r].asked
              /\ ship'[r[2]].version > ship[r[2]].version

\* The tables the invariant is about.
LEMMA AccountTables ==
    ASSUME SafeInv
    PROVE  /\ member \in [Rows -> MemberRow] /\ op \in [Operations -> OpRow]
           /\ worker \in [Workers -> WorkerRow] /\ late \subseteq LateCall
           /\ \A s \in Shipments : ship[s] \in FulP!ShipRow /\ ship[s].version \in Nat
           /\ \A r \in Rows : /\ r[1] \in Operations /\ r[2] \in Shipments /\ r = <<r[1], r[2]>>
                              /\ member[r].asked \in Nat
           /\ Shipments \subseteq Nat /\ Operations \subseteq Nat
           /\ \A w \in Workers : WorkerFits(member, op, claims, worker[w])
           /\ \A r \in Rows : RowFits(member[r], op, claims, r)
  <1>1. /\ member \in [Rows -> MemberRow] /\ op \in [Operations -> OpRow]
        /\ worker \in [Workers -> WorkerRow] /\ late \subseteq LateCall
        /\ \A r \in Rows : r[1] \in Operations /\ r[2] \in Shipments /\ r = <<r[1], r[2]>>
    BY BookTables DEF SafeInv
  <1>2. \A r \in Rows : member[r].asked \in Nat
    BY <1>1 DEF MemberRow
  <1>3. \A s \in Shipments : ship[s] \in FulP!ShipRow /\ ship[s].version \in Nat
    BY ShipRows DEF SafeInv
  <1>4. QED
    BY <1>1, <1>2, <1>3, TripAssumption DEF SafeInv, Books

\* What a worker has read and been told stays true while others act.
LEMMA ListForward ==
    ASSUME SafeInv, AccountInv, NEW w \in Workers, ShipsForward, ClaimsForward,
           \A s \in Shipments : ship'[s].version \in Nat,
           \A r \in Rows : r[1] = worker[w].op => (Waits(member'[r]) <=> Waits(member[r])),
           \A r \in Rows : member[r].state # "NONE" => member'[r].asked = member[r].asked
    PROVE  ListFits(worker[w], member', claims', ship')
  <1> DEFINE y == worker[w]
  <1>1. ListFits(y, member, claims, ship) /\ WorkerFits(member, op, claims, y)
    BY AccountTables DEF AccountInv
  <1>2. \A call \in y.todo : call.row \in Rows /\ (y.phase \in Claiming => call.row[1] = y.op)
    BY <1>1 DEF WorkerFits, Lists, CallFits
  <1>3. y.phase \in Calling => /\ y.at.row \in Rows /\ member[y.at.row].state # "NONE"
                               /\ y.phase \in Claiming => y.at.row[1] = y.op
    BY <1>1 DEF WorkerFits, Lists, CallFits
  <1>4. y.phase \in Calling => /\ y.at.row[2] \in Shipments
                               /\ member[y.at.row].asked \in Nat
                               /\ ship[y.at.row[2]].version \in Nat
                               /\ ship'[y.at.row[2]].version \in Nat
    BY <1>3, AccountTables
  <1> HIDE DEF y
  <1>5. y.phase \in Claiming =>
          /\ \A r \in Rows : Waits(member'[r]) /\ r[1] = y.op =>
                ClaimCall(r) \in y.todo \/ (y.phase # "claims" /\ y.at = ClaimCall(r))
          /\ \A call \in y.todo : Waits(member'[call.row])
    BY <1>1, <1>2 DEF ListFits, y
  <1>6. y.phase \in {"claiming", "claimed"} =>
          /\ Waits(member'[y.at.row])
          /\ \A call \in y.todo : y.at.row[2] < call.row[2]
    BY <1>1, <1>3 DEF ListFits, Claiming, Calling, y
  <1>7. y.phase # "idle" /\ y.phase \notin Claiming =>
          \A r \in Rows : r[1] = y.op => ~Waits(member'[r])
    BY <1>1 DEF ListFits, y
  <1>8. y.phase = "claimed" /\ y.answer = "REFUSED" =>
          ~Known(claims', y.at.row) /\ ship'[y.at.row[2]].version > member'[y.at.row].asked
    BY <1>1, <1>3, <1>4 DEF ListFits, Calling, ShipsForward, ClaimsForward
  <1>9. y.phase = "released" /\ y.answer = "RELEASED" =>
          Known(claims', y.at.row) /\ Closed(claims', y.at.row)
    BY <1>1, <1>3 DEF ListFits, Calling, ClaimsForward
  <1>10. ListFits(y, member', claims', ship')
    BY <1>1, <1>5, <1>6, <1>7, <1>8, <1>9 DEF ListFits
  <1>11. QED
    BY <1>10 DEF y

\* A step that writes no membership: of fulfillment, a worker, a courier.
LEMMA AccountsKept ==
    ASSUME SafeInv, AccountInv, ShipsForward, ClaimsForward, member' = member,
           \A s \in Shipments : ship'[s].version \in Nat,
           \A r \in Rows : Waits(member[r]) => /\ op'[r[1]].status = op[r[1]].status
                                               /\ op'[r[1]].kind = op[r[1]].kind,
           \A r \in Rows : Sent(late', worker', r) =>
              \/ Sent(late, worker, r)
              \/ /\ Waits(member[r])
                 /\ \A q \in Rows : Waits(member[q]) /\ q[1] = r[1] => r[2] <= q[2],
           \A w \in Workers : \/ worker'[w] = worker[w]
                              \/ ListFits(worker'[w], member, claims', ship')
    PROVE  AccountInv'
  <1>1. ASSUME NEW r \in Rows
        PROVE  AskedFits(member'[r], ship'[r[2]], intent'[r[2]], claims', r)
    <2>1. AskedFits(member[r], ship[r[2]], intent[r[2]], claims, r)
      BY DEF AccountInv
    <2>2. /\ r[2] \in Shipments /\ member[r].asked \in Nat /\ ship[r[2]].version \in Nat
          /\ ship'[r[2]].version \in Nat
      BY AccountTables
    <2>3. QED
      BY <2>1, <2>2 DEF AskedFits, InPool, ShipsForward, ClaimsForward
  <1>2. \A r \in Rows : WaitFits(member'[r], op', r)
    BY DEF AccountInv, WaitFits
  <1>3. ASSUME NEW r \in Rows
        PROVE  RemovedFits(member'[r], ship'[r[2]], claims', late', worker', r)
    <2>1. /\ RemovedFits(member[r], ship[r[2]], claims, late, worker, r)
          /\ WaitFits(member[r], op, r)
      BY DEF AccountInv
    <2>2. /\ r[2] \in Shipments /\ member[r].asked \in Nat /\ ship[r[2]].version \in Nat
          /\ ship'[r[2]].version \in Nat
      BY AccountTables
    <2>3. ASSUME member[r].removed
          PROVE  Closed(claims', r)
      <3>1. CASE Known(claims, r)
        BY <2>1, <2>3, <3>1 DEF RemovedFits, ClaimsForward
      <3>2. CASE ~Known(claims, r)
        <4>1. ~Known(claims', r)
          BY <2>1, <2>2, <2>3, <3>2 DEF RemovedFits, ClaimsForward
        <4>2. QED
          BY <4>1 DEF Known, Closed
      <3>3. QED
        BY <3>1, <3>2
    <2>4. QED
      BY <2>1, <2>2, <2>3 DEF RemovedFits, WaitFits, ShipsForward
  <1>4. InOrder(member', claims', late', worker')
    <2> SUFFICES ASSUME NEW r \in Rows, NEW q \in Rows, Waits(member[r]), Waits(member[q]),
                        r[1] = q[1], q[2] < r[2]
                 PROVE  ~Sent(late', worker', r) /\ ~Known(claims', r)
      BY DEF InOrder
    <2>1. ~Sent(late, worker, r) /\ ~Known(claims, r)
      BY DEF AccountInv, InOrder
    <2>2. r[2] \in Nat /\ q[2] \in Nat
      BY AccountTables
    <2>3. QED
      BY <2>1, <2>2 DEF ClaimsForward
  <1>5. \A w \in Workers : ListFits(worker'[w], member', claims', ship')
    BY ListForward
  <1>6. QED
    BY <1>1, <1>2, <1>3, <1>4, <1>5 DEF AccountInv

\* What nobody has asked for is neither sent nor known.
LEMMA UnmadeRow ==
    ASSUME SafeInv, NEW r \in Rows, member[r].state = "NONE"
    PROVE  ~Sent(late, worker, r) /\ ~Known(claims, r)
  <1>1. Books
    BY DEF SafeInv
  <1>2. ClaimCall(r).row = r /\ ClaimCall(r).kind = "claim"
    BY DEF ClaimCall
  <1>3. ClaimCall(r) \notin late
    BY <1>1, <1>2 DEF Books, LateFits, CallFits
  <1>4. \A w \in Workers : worker[w].phase = "claiming" => worker[w].at # ClaimCall(r)
    BY <1>1, <1>2 DEF Books, WorkerFits, Calling, Lists, CallFits
  <1>5. ~Known(claims, r)
    BY <1>1 DEF Books, ReceiptFits, Known
  <1>6. QED
    BY <1>3, <1>4, <1>5 DEF Sent

\* A step of transport that writes memberships: it adds rows for shipments in
\* the pool, or rows that waited or were active go on.
LEMMA MembersKept ==
    ASSUME SafeInv, AccountInv, UNCHANGED <<ship, intent, claims>>,
           \A r \in Rows : Sent(late', worker', r) => Sent(late, worker, r),
           \A r \in Rows :
              \/ member'[r] = member[r]
              \/ /\ member[r].state # "NONE" /\ ~Waits(member'[r])
                 /\ member'[r].asked = member[r].asked
                 /\ member'[r].removed => /\ member'[r].state # "NONE" /\ Closed(claims, r)
                                          /\ \/ ship[r[2]].version > member[r].asked
                                             \/ ~Sent(late, worker, r)
              \/ /\ member[r].state = "NONE" /\ op[r[1]].status = "NONE"
                 /\ ~member'[r].removed
                 /\ member'[r].asked = ship[r[2]].version
                 /\ InPool(ship[r[2]], intent[r[2]]),
           \A r \in Rows : Waits(member'[r]) => /\ op'[r[1]].status = "PENDING"
                                                /\ op'[r[1]].kind = "ADD",
           \A w \in Workers : ListFits(worker'[w], member', claims, ship)
    PROVE  AccountInv'
  <1>1. ASSUME NEW r \in Rows
        PROVE  /\ AskedFits(member'[r], ship'[r[2]], intent'[r[2]], claims', r)
               /\ WaitFits(member'[r], op', r)
               /\ RemovedFits(member'[r], ship'[r[2]], claims', late', worker', r)
    <2>1. /\ AskedFits(member[r], ship[r[2]], intent[r[2]], claims, r)
          /\ WaitFits(member[r], op, r)
          /\ RemovedFits(member[r], ship[r[2]], claims, late, worker, r)
      BY DEF AccountInv
    <2>2. ship[r[2]].version \in Nat
      BY AccountTables
    <2>3. CASE member'[r] = member[r]
      BY <2>1, <2>3 DEF AskedFits, WaitFits, RemovedFits
    <2>4. CASE /\ member[r].state # "NONE" /\ ~Waits(member'[r])
               /\ member'[r].asked = member[r].asked
               /\ member'[r].removed => /\ member'[r].state # "NONE" /\ Closed(claims, r)
                                        /\ \/ ship[r[2]].version > member[r].asked
                                           \/ ~Sent(late, worker, r)
      BY <2>1, <2>4 DEF AskedFits, WaitFits, RemovedFits
    <2>5. CASE /\ member[r].state = "NONE" /\ ~member'[r].removed
               /\ member'[r].asked = ship[r[2]].version
               /\ InPool(ship[r[2]], intent[r[2]])
      BY <2>2, <2>5, UnmadeRow DEF AskedFits, WaitFits, RemovedFits
    <2>6. QED
      BY <2>3, <2>4, <2>5
  <1>2. InOrder(member', claims', late', worker')
    <2> SUFFICES ASSUME NEW r \in Rows, NEW q \in Rows, Waits(member'[r]), Waits(member'[q]),
                        r[1] = q[1], q[2] < r[2]
                 PROVE  ~Sent(late', worker', r) /\ ~Known(claims', r)
      BY DEF InOrder
    <2>1. CASE Waits(member[r]) /\ Waits(member[q])
      BY <2>1 DEF AccountInv, InOrder
    <2>2. CASE member[r].state = "NONE"
      BY <2>2, UnmadeRow
    <2>3. CASE member[q].state = "NONE" /\ op[q[1]].status = "NONE"
      <3>1. member[r].state = "NONE"
        BY <2>3, AccountTables DEF RowFits
      <3>2. QED
        BY <2>2, <3>1
    <2>4. Waits(member[q]) \/ (member[q].state = "NONE" /\ op[q[1]].status = "NONE")
      OBVIOUS
    <2>5. Waits(member[r]) \/ member[r].state = "NONE"
      OBVIOUS
    <2>6. QED
      BY <2>1, <2>2, <2>3, <2>4, <2>5
  <1>3. QED
    BY <1>1, <1>2 DEF AccountInv

\* Nothing changes in fulfillment.
LEMMA ForwardStill ==
    ASSUME UNCHANGED fulVars, SafeInv
    PROVE  /\ ShipsForward /\ ClaimsForward
           /\ \A s \in Shipments : ship'[s].version \in Nat
  <1>1. UNCHANGED <<ship, intent, claims>>
    BY DEF fulVars
  <1>2. \A s \in Shipments : ship[s].version \in Nat
    BY AccountTables
  <1>3. QED
    BY <1>1, <1>2 DEF ShipsForward, ClaimsForward

\* The next version of a row.
LEMMA NextShipVersion ==
    ASSUME SafeInv, NEW s \in Shipments, NEW row \in FulP!ShipRow,
           row.version = ship[s].version, ship' = [ship EXCEPT ![s] = FulP!Bumped(row)]
    PROVE  /\ ship'[s].version > ship[s].version /\ ship'[s].version \in Nat
           /\ \A p \in Shipments : p # s => ship'[p] = ship[p]
           /\ \A p \in Shipments : ship'[p].version \in Nat
  <1>1. ship \in [Shipments -> FulP!ShipRow] /\ ship[s].version \in Nat
    BY AccountTables DEF SafeInv, FulP!ResultInv, FulP!FulInv, FulP!FulfillmentTypeOK
  <1>2. FulP!Bumped(row).version = row.version + 1
    BY DEF FulP!Bumped, FulP!ShipRow
  <1>3. ship'[s] = FulP!Bumped(row) /\ \A p \in Shipments : p # s => ship'[p] = ship[p]
    BY <1>1
  <1>4. QED
    BY <1>1, <1>2, <1>3, AccountTables

\* One shipment is written, and intents of others stay.
LEMMA ForwardWrite ==
    ASSUME SafeInv, NEW s \in Shipments, NEW row \in FulP!ShipRow,
           row.version = ship[s].version, ship' = [ship EXCEPT ![s] = FulP!Bumped(row)],
           \A p \in Shipments : p # s => intent'[p] = intent[p]
    PROVE  /\ ShipsForward /\ ship'[s].version > ship[s].version
           /\ \A p \in Shipments : ship'[p].version \in Nat
  <1>1. /\ ship'[s].version > ship[s].version /\ ship'[s].version \in Nat
        /\ \A p \in Shipments : p # s => ship'[p] = ship[p]
        /\ \A p \in Shipments : ship'[p].version \in Nat
    BY NextShipVersion
  <1>2. \A p \in Shipments : ship[p].version \in Nat
    BY AccountTables
  <1>3. QED
    BY <1>1, <1>2 DEF ShipsForward

\* A claim that was asked for is granted or refused.
LEMMA ClaimForward ==
    ASSUME SafeInv, NEW r \in Rows, member[r].state # "NONE", Sent(late, worker, r),
           HandleClaim(r)
    PROVE  /\ ShipsForward /\ ClaimsForward
           /\ \A s \in Shipments : ship'[s].version \in Nat
  <1>1. CASE UNCHANGED fulVars
    BY <1>1, ForwardStill
  <1>2. CASE ClaimGranted(r)
    <2> DEFINE s == r[2]
               row == [ship[s] EXCEPT !.trip = TripOf(r), !.claim = r]
               k == Ful!Receipted(r, s, TripOf(r), op[r[1]].actor)
    <2>1. /\ s \in Shipments /\ TripOf(r) \in Trips
          /\ ship[s] \in FulP!ShipRow /\ ship[s].version \in Nat
      BY AccountTables DEF SafeInv, Books, RowFits, OpFits, TripOf
    <2>2. /\ ship' = [ship EXCEPT ![s] = FulP!Bumped(row)] /\ intent' = intent
          /\ claims' = claims \cup {k} /\ ship[s].version = member[r].asked
      BY <1>2 DEF HandleClaim, ClaimGranted, Ful!Claim, Ful!Claimable, Ful!Write, Ful!Bumped,
                  FulP!Bumped
    <2>3. row \in FulP!ShipRow /\ row.version = ship[s].version
      BY <2>1 DEF FulP!ShipRow
    <2>4. k.id = r /\ ~Known(claims, r)
      BY <1>2 DEF Ful!Receipted, ClaimGranted, Ful!Claimable, Known
    <2> HIDE DEF row, k
    <2>5. /\ ShipsForward /\ ship'[s].version > ship[s].version
          /\ \A p \in Shipments : ship'[p].version \in Nat
      BY <2>1, <2>2, <2>3, ForwardWrite
    <2>6. ClaimsForward
      BY <2>1, <2>2, <2>4, <2>5 DEF ClaimsForward, Known, Closed
    <2>7. QED
      BY <2>5, <2>6
  <1>3. QED
    BY <1>1, <1>2 DEF HandleClaim

\* A release is carried out or refused.
LEMMA ReleaseForward ==
    ASSUME SafeInv, NEW r \in Rows, NEW rel, rel.try > 0, rel.try \in Nat, HandleRelease(r, rel)
    PROVE  /\ ShipsForward /\ ClaimsForward
           /\ \A s \in Shipments : ship'[s].version \in Nat
  <1>1. CASE UNCHANGED fulVars
    BY <1>1, ForwardStill
  <1>2. CASE ReleaseGranted(r, rel)
    <2> DEFINE s == r[2]
               row == [ship[s] EXCEPT !.trip = NoTrip, !.claim = NoRow]
               k == Ful!Receipted(r, s, TripOf(r), rel.actor)
               n == [k EXCEPT !.released = rel.try]
    <2>1. s \in Shipments /\ ship[s] \in FulP!ShipRow
      BY AccountTables
    <2>2. /\ ship' = [ship EXCEPT ![s] = FulP!Bumped(row)] /\ intent' = intent
          /\ claims' = (claims \ {k}) \cup {n}
      BY <1>2 DEF HandleRelease, Ful!Release, Ful!Write, Ful!Bumped, FulP!Bumped,
                  Ful!ReleasedBy
    <2>3. row \in FulP!ShipRow /\ row.version = ship[s].version
      BY <2>1 DEF FulP!ShipRow
    <2>4. k.id = r /\ k \in claims /\ n.id = r /\ n.released # 0
      BY <1>2 DEF Ful!Receipted, ReleaseGranted, Ful!Releasable
    <2> HIDE DEF row, k, n
    <2>5. /\ ShipsForward /\ \A p \in Shipments : ship'[p].version \in Nat
      BY <2>1, <2>2, <2>3, ForwardWrite
    <2>6. \A q \in Rows : Known(claims', q) <=> Known(claims, q)
      BY <2>2, <2>4 DEF Known
    <2>7. \A q \in Rows : Closed(claims, q) => Closed(claims', q)
      BY <2>2, <2>4 DEF Closed
    <2>8. QED
      BY <2>5, <2>6, <2>7 DEF ClaimsForward
  <1>3. QED
    BY <1>1, <1>2 DEF HandleRelease

\* No claim is touched.
LEMMA ForwardClaims ==
    ASSUME claims' = claims
    PROVE  ClaimsForward
  BY DEF ClaimsForward

\* A batch takes shipments that are claimed.
LEMMA StartBatchForward ==
    ASSUME SafeInv, NEW b \in Batches, StartBatch(b)
    PROVE  /\ ShipsForward /\ ClaimsForward
           /\ \A s \in Shipments : ship'[s].version \in Nat
  <1>1. ship' = ship /\ claims' = claims
    BY DEF StartBatch, Ful!StartBatch
  <1>2. \A s \in Shipments : intent'[s] = intent[s] \/ ship[s].claim # NoRow
    BY DEF StartBatch, Ful!StartBatch, Ful!InBatchOf
  <1>3. \A s \in Shipments : ship[s].version \in Nat
    BY AccountTables
  <1>4. QED
    BY <1>1, <1>2, <1>3, ForwardClaims DEF ShipsForward

\* A batch is decided.
LEMMA DecideBatchForward ==
    ASSUME SafeInv, NEW b \in Batches, DecideBatch(b)
    PROVE  /\ ShipsForward /\ ClaimsForward
           /\ \A s \in Shipments : ship'[s].version \in Nat
  <1>1. claims' = claims
    BY DEF DecideBatch, Ful!StoreDecision, Ful!CommitBatch, Ful!RejectBatch
  <1>2. \A s \in Shipments : /\ ship[s] \in FulP!ShipRow /\ ship[s].version \in Nat
                             /\ intent[s] \in FulP!IntentRow
    BY AccountTables DEF SafeInv, FulP!ResultInv, FulP!FulInv, FulP!FulfillmentTypeOK
  <1>3. ASSUME NEW d, Ful!StoreDecision(b, d) \/ Ful!RejectBatch(b), NEW s \in Shipments
        PROVE  ship'[s] = ship[s] /\ intent'[s].status \in {intent[s].status, "REJECTED"}
    BY <1>2, <1>3 DEF Ful!StoreDecision, Ful!RejectBatch, FulP!IntentRow
  <1>4. ASSUME Ful!CommitBatch(b), NEW s \in Shipments
        PROVE  \/ ship'[s] = ship[s] /\ intent'[s] = intent[s]
               \/ ship'[s].version = ship[s].version + 1
    <2> DEFINE S == Ful!Members(dispatch[b].child)
    <2>1. /\ ship'[s] = IF s \in S THEN Ful!Bumped([ship[s] EXCEPT !.status = "DISPATCHED"])
                        ELSE ship[s]
          /\ s \notin S => intent'[s] = intent[s]
      BY <1>4 DEF Ful!CommitBatch
    <2>2. Ful!Bumped([ship[s] EXCEPT !.status = "DISPATCHED"]).version = ship[s].version + 1
      BY <1>2 DEF Ful!Bumped, FulP!ShipRow
    <2> HIDE DEF S
    <2>3. QED
      BY <2>1, <2>2
  <1>5. ASSUME NEW s \in Shipments
        PROVE  \/ ship'[s] = ship[s] /\ intent'[s].status \in {intent[s].status, "REJECTED"}
               \/ ship'[s].version = ship[s].version + 1
    BY <1>3, <1>4 DEF DecideBatch
  <1>6. QED
    BY <1>1, <1>2, <1>5, ForwardClaims DEF ShipsForward

\* The order of a shipment is canceled.
LEMMA CancelForward ==
    ASSUME SafeInv, NEW s \in Shipments, CancelOrder(s)
    PROVE  /\ ShipsForward /\ ClaimsForward
           /\ \A p \in Shipments : ship'[p].version \in Nat
  <1> DEFINE row == [ship[s] EXCEPT !.status = "CANCELED"]
  <1>1. claims' = claims
    BY DEF CancelOrder, Ful!OrderCanceled
  <1>2. ship[s] \in FulP!ShipRow /\ intent \in [Shipments -> FulP!IntentRow]
    BY AccountTables DEF SafeInv, FulP!ResultInv, FulP!FulInv, FulP!FulfillmentTypeOK
  <1>3. row \in FulP!ShipRow /\ row.version = ship[s].version
    BY <1>2 DEF FulP!ShipRow, FulP!Terminal
  <1>4. \A p \in Shipments : p # s => intent'[p] = intent[p]
    BY <1>2 DEF CancelOrder, Ful!OrderCanceled, Ful!Gone
  <1>5. \/ ship' = ship /\ intent' = intent
        \/ ship' = [ship EXCEPT ![s] = FulP!Bumped(ship[s])]
        \/ ship' = [ship EXCEPT ![s] = FulP!Bumped(row)]
    BY DEF CancelOrder, Ful!OrderCanceled, Ful!Gone, Ful!Write, Ful!Bumped, FulP!Bumped
  <1> HIDE DEF row
  <1>6. CASE ship' = ship /\ intent' = intent
    BY <1>1, <1>6, AccountTables, ForwardClaims DEF ShipsForward
  <1>7. CASE \/ ship' = [ship EXCEPT ![s] = FulP!Bumped(ship[s])]
             \/ ship' = [ship EXCEPT ![s] = FulP!Bumped(row)]
    BY <1>1, <1>2, <1>3, <1>4, <1>7, ForwardWrite, ForwardClaims
  <1>8. QED
    BY <1>5, <1>6, <1>7

\* A delivery result is handled.
LEMMA ResultForward ==
    ASSUME SafeInv, NEW e \in ResultEvents, ResultHandled(e)
    PROVE  /\ ShipsForward /\ ClaimsForward
           /\ \A s \in Shipments : ship'[s].version \in Nat
  <1>1. CASE UNCHANGED <<ship, intent, claims>>
    BY <1>1, AccountTables, ForwardClaims DEF ShipsForward
  <1>2. CASE Ful!ResultWrite(e)
    <2> DEFINE s == e.order
               row == [ship[s] EXCEPT !.status = e.outcome]
    <2>1. /\ s \in Shipments /\ e.outcome \in {"DELIVERED", "FAILED"}
          /\ [f \in ResultEvents |-> f][e] = e
      BY DEF ResultEvents
    <2>2. ship[s] \in FulP!ShipRow
      BY <2>1, AccountTables
    <2>3. /\ ship' = [ship EXCEPT ![s] = FulP!Bumped(row)]
          /\ intent' = intent /\ claims' = claims
      BY <1>2, <2>1 DEF Ful!ResultWrite, Ful!Write, Ful!Bumped, FulP!Bumped
    <2>4. row \in FulP!ShipRow /\ row.version = ship[s].version
      BY <2>1, <2>2 DEF FulP!ShipRow, FulP!Gone
    <2> HIDE DEF s, row
    <2>5. QED
      BY <2>1, <2>3, <2>4, ForwardWrite, ForwardClaims
  <1>3. QED
    BY <1>1, <1>2 DEF ResultHandled, Ful!HandleResult, Ful!ResultDuplicate,
       Ful!ResultConflict, Ful!ResultMisplaced, Ful!ResultDefer, Ful!ResultRead,
       Ful!ResultAbort, Ful!Receipt

\* Memberships, operations and workers stay, and no new call is sent.
LEMMA AccountsStill ==
    ASSUME SafeInv, AccountInv, ShipsForward, ClaimsForward,
           \A s \in Shipments : ship'[s].version \in Nat,
           UNCHANGED <<op, member, worker>>,
           \A r \in Rows : ClaimCall(r) \in late' => ClaimCall(r) \in late
    PROVE  AccountInv'
  <1>1. \A r \in Rows : Sent(late', worker', r) => Sent(late, worker, r)
    BY DEF Sent
  <1>2. QED
    BY <1>1, AccountsKept

\* A call is handled late.
LEMMA HandleLateAccounts ==
    ASSUME SafeInv, AccountInv, HandleLate
    PROVE  AccountInv'
  <1>1. PICK call \in late :
            /\ late' = late \ {call}
            /\ CASE call.kind = "claim"   -> HandleClaim(call.row)
                 [] call.kind = "release" -> HandleRelease(call.row, call.rel)
                 [] OTHER                 -> HandleBatch(call.batch)
            /\ UNCHANGED <<trip, op, member, stop, td, worker, courier>>
    BY DEF HandleLate
  <1>2. call \in LateCall /\ LateFits(member, td, call)
    BY AccountTables DEF SafeInv, Books
  <1>3. ASSUME ShipsForward, ClaimsForward, \A s \in Shipments : ship'[s].version \in Nat
        PROVE  AccountInv'
    BY <1>1, <1>3, AccountsStill
  <1>4. CASE call.kind = "claim"
    <2>1. /\ call.row \in Rows /\ member[call.row].state # "NONE"
          /\ call = ClaimCall(call.row)
      BY <1>2, <1>4 DEF LateCall, Call, LateFits, CallFits, ClaimCall
    <2>2. Sent(late, worker, call.row)
      BY <1>1, <2>1 DEF Sent
    <2>3. HandleClaim(call.row)
      BY <1>1, <1>4
    <2>4. QED
      BY <1>3, <2>1, <2>2, <2>3, ClaimForward
  <1>5. CASE call.kind = "release"
    <2>1. call.row \in Rows /\ call.rel.try > 0 /\ call.rel.try \in Nat
      BY <1>2, <1>5 DEF LateCall, Call, LateFits, CallFits, ReleaseRequest
    <2>2. HandleRelease(call.row, call.rel)
      BY <1>1, <1>5
    <2>3. QED
      BY <1>3, <2>1, <2>2, ReleaseForward
  <1>6. CASE call.kind = "batch"
    <2>1. call.batch \in Batches
      BY <1>2, <1>6 DEF LateCall, Call
    <2>2. StartBatch(call.batch) \/ UNCHANGED fulVars
      BY <1>1, <1>6 DEF HandleBatch
    <2>3. QED
      BY <1>3, <2>1, <2>2, StartBatchForward, ForwardStill
  <1>7. QED
    BY <1>2, <1>4, <1>5, <1>6 DEF LateCall, Call

\* A call in flight is on its way to fulfillment.
LEMMA FlightIsSent ==
    ASSUME SafeInv, NEW w \in Workers, NEW r \in Rows, ClaimCall(r) \in InFlight(w)
    PROVE  Sent(late, worker, r)
  <1>1. WorkerFits(member, op, claims, worker[w])
    BY AccountTables
  <1>2. worker[w].phase \in {"claiming", "releasing"} /\ worker[w].at = ClaimCall(r)
    BY DEF InFlight
  <1>3. worker[w].phase = "claiming"
    BY <1>1, <1>2 DEF WorkerFits, Calling, Lists, Claiming, ClaimCall
  <1>4. QED
    BY <1>2, <1>3 DEF Sent

\* A worker moves on to state y and claims nothing.
LEMMA WorkerAccounts ==
    ASSUME SafeInv, AccountInv, NEW w \in Workers, NEW y, UNCHANGED fulVars, member' = member,
           worker' = [worker EXCEPT ![w] = y], y.phase # "claiming",
           ListFits(y, member, claims, ship),
           \A r \in Rows : Waits(member[r]) => /\ op'[r[1]].status = op[r[1]].status
                                               /\ op'[r[1]].kind = op[r[1]].kind,
           late' = late \/ late' = late \cup InFlight(w)
    PROVE  AccountInv'
  <1>1. worker'[w] = y /\ \A x \in Workers : x # w => worker'[x] = worker[x]
    BY AccountTables
  <1>2. \A r \in Rows : Sent(late', worker', r) => Sent(late, worker, r)
    BY <1>1, FlightIsSent DEF Sent
  <1>3. UNCHANGED <<ship, claims>>
    BY DEF fulVars
  <1>4. \A x \in Workers : \/ worker'[x] = worker[x]
                           \/ ListFits(worker'[x], member, claims', ship')
    BY <1>1, <1>3
  <1>5. QED
    BY <1>2, <1>4, ForwardStill, AccountsKept

\* A worker that is not at work has read nothing.
LEMMA IdleList == ListFits(Idle, member, claims, ship) /\ Idle.phase = "idle"
  BY DEF ListFits, Idle, Claiming

\* The lease of an operation is taken, given back or runs out.
LEMMA LeaseOnly ==
    ASSUME SafeInv, NEW i, NEW leased, op' = [op EXCEPT ![i].leased = leased]
    PROVE  \A r \in Rows : Waits(member[r]) => /\ op'[r[1]].status = op[r[1]].status
                                               /\ op'[r[1]].kind = op[r[1]].kind
  <1>1. op \in [Operations -> OpRow] /\ \A r \in Rows : r[1] \in Operations
    BY AccountTables
  <1>2. QED
    BY <1>1 DEF OpRow

\* The worker gives up, dies, or the lease runs out.
LEMMA StopAccounts ==
    ASSUME SafeInv, AccountInv, UNCHANGED fulVars
    PROVE  /\ \A w \in Workers : GiveUp(w) \/ CrashWorker(w) => AccountInv'
           /\ \A i \in Operations : LeaseRunsOut(i) => AccountInv'
  <1>1. ASSUME NEW w \in Workers, GiveUp(w) \/ CrashWorker(w)
        PROVE  AccountInv'
    <2>1. /\ late' = late \cup InFlight(w) /\ worker' = [worker EXCEPT ![w] = Idle]
          /\ member' = member
          /\ op' = op \/ op' = [op EXCEPT ![worker[w].op].leased = FALSE]
      BY <1>1 DEF GiveUp, CrashWorker
    <2>2. \A r \in Rows : Waits(member[r]) => /\ op'[r[1]].status = op[r[1]].status
                                              /\ op'[r[1]].kind = op[r[1]].kind
      BY <2>1, LeaseOnly
    <2>3. QED
      BY <2>1, <2>2, IdleList, WorkerAccounts
  <1>2. ASSUME NEW i \in Operations, LeaseRunsOut(i)
        PROVE  AccountInv'
    <2>1. op' = [op EXCEPT ![i].leased = FALSE] /\ UNCHANGED <<member, worker, late>>
      BY <1>2 DEF LeaseRunsOut
    <2>2. \A r \in Rows : Waits(member[r]) => /\ op'[r[1]].status = op[r[1]].status
                                              /\ op'[r[1]].kind = op[r[1]].kind
      BY <2>1, LeaseOnly
    <2>3. \A r \in Rows : Sent(late', worker', r) => Sent(late, worker, r)
      BY <2>1
    <2>4. QED
      BY <2>1, <2>2, <2>3, ForwardStill, AccountsKept
  <1>3. QED
    BY <1>1, <1>2

\* resume: the list has all rows that wait, or there are none.
LEMMA ResumeAccounts ==
    ASSUME SafeInv, AccountInv, UNCHANGED fulVars, NEW w \in Workers, NEW i \in Operations,
           Resume(w, i)
    PROVE  AccountInv'
  <1> DEFINE x == [Idle EXCEPT !.op = i, !.phase = "claims", !.todo = ClaimCalls(i)]
             y == [Idle EXCEPT !.op = i, !.phase = "releases", !.todo = ReleaseCalls(member, i)]
  <1>1. /\ op' = [op EXCEPT ![i].leased = TRUE] /\ UNCHANGED <<member, late>>
        /\ \/ worker' = [worker EXCEPT ![w] = x]
           \/ /\ worker' = [worker EXCEPT ![w] = y]
              /\ ~(op[i].status = "PENDING" /\ op[i].kind = "ADD")
    BY DEF Resume
  <1>2. \A r \in Rows : Waits(member[r]) => /\ op'[r[1]].status = op[r[1]].status
                                            /\ op'[r[1]].kind = op[r[1]].kind
    BY <1>1, LeaseOnly
  <1>3. /\ x.op = i /\ x.phase = "claims" /\ x.todo = ClaimCalls(i)
        /\ y.op = i /\ y.phase = "releases"
    BY DEF Idle
  <1> HIDE DEF x, y
  <1>4. ListFits(x, member, claims, ship)
    <2>1. ASSUME NEW r \in Rows, Waits(member[r]), r[1] = i
          PROVE  ClaimCall(r) \in ClaimCalls(i)
      <3>1. member[r].op = i
        BY <2>1, AccountTables DEF RowFits, Waits
      <3>2. QED
        BY <2>1, <3>1 DEF ClaimCalls, RowsOf, Waits, ClaimCall
    <2>2. \A call \in ClaimCalls(i) : Waits(member[call.row])
      BY DEF ClaimCalls, RowsOf, Waits
    <2>3. QED
      BY <1>3, <2>1, <2>2 DEF ListFits, Claiming
  <1>5. CASE worker' = [worker EXCEPT ![w] = x]
    BY <1>1, <1>2, <1>3, <1>4, <1>5, WorkerAccounts
  <1>6. CASE /\ worker' = [worker EXCEPT ![w] = y]
             /\ ~(op[i].status = "PENDING" /\ op[i].kind = "ADD")
    <2>1. \A r \in Rows : r[1] = i => ~Waits(member[r])
      BY <1>6 DEF AccountInv, WaitFits
    <2>2. ListFits(y, member, claims, ship)
      BY <1>3, <2>1 DEF ListFits, Claiming
    <2>3. QED
      BY <1>1, <1>2, <1>3, <1>6, <2>2, WorkerAccounts
  <1>7. QED
    BY <1>1, <1>5, <1>6

\* The calls of a worker's list, in either phase.
LEMMA ListedCalls ==
    ASSUME SafeInv, NEW w \in Workers, NEW call \in worker[w].todo
    PROVE  /\ call.row \in Rows /\ call.row[2] \in Nat /\ call.row[1] \in Nat
           /\ worker[w].phase \in Claiming => /\ call = ClaimCall(call.row)
                                              /\ call.row[1] = worker[w].op
           /\ worker[w].phase \notin Claiming => call.kind = "release"
  <1>1. worker[w] \in WorkerRow /\ Lists(member, worker[w], call)
    BY AccountTables DEF WorkerFits
  <1>2. call \in Call /\ call.row \in Rows
    BY <1>1 DEF WorkerRow, Lists, CallFits
  <1>3. call.kind = "claim" => call = ClaimCall(call.row)
    BY <1>2 DEF Call, ClaimCall
  <1>4. QED
    BY <1>1, <1>2, <1>3, AccountTables DEF Lists

\* The next claim is sent: it is the first of the rows that wait.
LEMMA SendClaimAccounts ==
    ASSUME SafeInv, AccountInv, UNCHANGED fulVars, NEW w \in Workers, SendClaim(w)
    PROVE  AccountInv'
  <1>1. PICK call \in worker[w].todo :
            /\ \A other \in worker[w].todo : Before(call.row, other.row)
            /\ worker' = [worker EXCEPT ![w].phase = "claiming", ![w].at = call,
                                        ![w].todo = @ \ {call}]
    BY DEF SendClaim, Send
  <1>2. worker[w].phase = "claims" /\ UNCHANGED <<op, member, late>>
    BY DEF SendClaim, Send
  <1> DEFINE r == call.row
             y == [worker[w] EXCEPT !.phase = "claiming", !.at = call, !.todo = @ \ {call}]
  <1>3. worker[w] \in WorkerRow /\ worker' = [worker EXCEPT ![w] = y]
    BY <1>1, AccountTables
  <1>4. /\ y.phase = "claiming" /\ y.at = call /\ y.todo = worker[w].todo \ {call}
        /\ y.op = worker[w].op
    BY <1>3 DEF WorkerRow
  <1>5. ListFits(worker[w], member, claims, ship)
    BY DEF AccountInv
  <1>6. /\ r \in Rows /\ call = ClaimCall(r) /\ r[1] = worker[w].op
        /\ r[1] \in Nat /\ r[2] \in Nat /\ Waits(member[r])
    BY <1>2, <1>5, ListedCalls DEF Claiming, ListFits
  <1>7. ASSUME NEW other \in worker[w].todo
        PROVE  /\ r[2] <= other.row[2] /\ other = ClaimCall(other.row)
               /\ other # call => r[2] < other.row[2]
    <2>1. /\ other = ClaimCall(other.row) /\ other.row[1] = r[1] /\ other.row \in Rows
          /\ other.row[2] \in Nat
      BY <1>2, <1>6, ListedCalls DEF Claiming
    <2>2. r[2] <= other.row[2]
      BY <1>1, <1>6, <2>1 DEF Before
    <2>3. r[2] = other.row[2] => r = other.row
      BY <1>6, <2>1, AccountTables
    <2>4. QED
      BY <1>6, <2>1, <2>2, <2>3
  <1>8. ASSUME NEW q \in Rows, Waits(member[q]), q[1] = r[1]
        PROVE  r[2] <= q[2] /\ (ClaimCall(q) \in y.todo \/ y.at = ClaimCall(q))
    <2>1. ClaimCall(q) \in worker[w].todo
      BY <1>2, <1>5, <1>6, <1>8 DEF ListFits, Claiming
    <2>2. ClaimCall(q).row = q
      BY DEF ClaimCall
    <2>3. QED
      BY <1>4, <1>7, <2>1, <2>2
  <1> HIDE DEF r, y
  <1>9. ListFits(y, member, claims, ship)
    <2>1. \A other \in y.todo : Waits(member[other.row]) /\ r[2] < other.row[2]
      BY <1>2, <1>4, <1>5, <1>7 DEF ListFits, Claiming
    <2>2. y.at.row = r
      BY <1>4 DEF r
    <2>3. QED
      BY <1>4, <1>6, <1>8, <2>1, <2>2 DEF ListFits, Claiming
  <1>10. worker'[w] = y /\ \A v \in Workers : v # w => worker'[v] = worker[v]
    BY <1>3, AccountTables
  <1>11. ASSUME NEW q \in Rows, Sent(late', worker', q)
         PROVE  \/ Sent(late, worker, q)
                \/ /\ Waits(member[q])
                   /\ \A p \in Rows : Waits(member[p]) /\ p[1] = q[1] => q[2] <= p[2]
    <2>1. CASE y.at = ClaimCall(q)
      <3>1. ClaimCall(r) = ClaimCall(q)
        BY <1>4, <1>6, <2>1
      <3>2. ClaimCall(r).row = r /\ ClaimCall(q).row = q
        BY DEF ClaimCall
      <3>3. QED
        BY <1>6, <1>8, <3>1, <3>2
    <2>2. CASE y.at # ClaimCall(q)
      BY <1>2, <1>10, <1>11, <2>2 DEF Sent
    <2>3. QED
      BY <2>1, <2>2
  <1>12. \A v \in Workers : \/ worker'[v] = worker[v]
                            \/ ListFits(worker'[v], member, claims', ship')
    BY <1>9, <1>10 DEF fulVars
  <1>13. QED
    BY <1>2, <1>11, <1>12, ForwardStill, AccountsKept

\* The worker goes on with releases, or to the end of its operation.
LEMMA ReleasingList ==
    ASSUME NEW y, NEW m, NEW K, NEW sh, y.phase \notin Claiming,
           \A r \in Rows : r[1] = y.op => ~Waits(m[r]),
           y.phase = "released" /\ y.answer = "RELEASED" =>
              Known(K, y.at.row) /\ Closed(K, y.at.row)
    PROVE  ListFits(y, m, K, sh)
  BY DEF ListFits, Claiming

\* The next release is sent.
LEMMA SendReleaseAccounts ==
    ASSUME SafeInv, AccountInv, UNCHANGED fulVars, NEW w \in Workers, SendRelease(w)
    PROVE  AccountInv'
  <1>1. PICK call \in worker[w].todo :
            worker' = [worker EXCEPT ![w].phase = "releasing", ![w].at = call,
                                     ![w].todo = @ \ {call}]
    BY DEF SendRelease, Send
  <1>2. worker[w].phase = "releases" /\ UNCHANGED <<op, member, late>>
    BY DEF SendRelease, Send
  <1> DEFINE y == [worker[w] EXCEPT !.phase = "releasing", !.at = call, !.todo = @ \ {call}]
  <1>3. worker[w] \in WorkerRow /\ worker' = [worker EXCEPT ![w] = y]
    BY <1>1, AccountTables
  <1>4. y.phase = "releasing" /\ y.op = worker[w].op
    BY <1>3 DEF WorkerRow
  <1>5. \A r \in Rows : r[1] = worker[w].op => ~Waits(member[r])
    BY <1>2 DEF AccountInv, ListFits, Claiming
  <1> HIDE DEF y
  <1>6. y.phase \notin Claiming /\ ListFits(y, member, claims, ship)
    BY <1>4, <1>5, ReleasingList DEF Claiming
  <1>7. QED
    BY <1>2, <1>3, <1>4, <1>6, WorkerAccounts

\* Fulfillment's answer to a claim.
LEMMA AnswerClaimAccounts ==
    ASSUME Unreadable = {}, SafeInv, AccountInv, NEW w \in Workers, AnswerClaim(w)
    PROVE  AccountInv'
  <1> DEFINE r == worker[w].at.row
             answer == IF ClaimKnown(r) \/ ClaimGranted(r) THEN Reading(r[2]) ELSE "REFUSED"
             y == [worker[w] EXCEPT !.phase = "claimed", !.answer = answer]
  <1>1. /\ worker[w].phase = "claiming" /\ HandleClaim(r)
        /\ worker' = [worker EXCEPT ![w].phase = "claimed", ![w].answer = answer]
        /\ UNCHANGED <<op, member, late>>
    BY DEF AnswerClaim, ClaimAnswered, Answered
  <1>2. /\ worker[w] \in WorkerRow /\ ListFits(worker[w], member, claims, ship)
        /\ worker' = [worker EXCEPT ![w] = y]
    BY <1>1, AccountTables DEF AccountInv
  <1>3. /\ y.phase = "claimed" /\ y.answer = answer /\ y.at = worker[w].at
        /\ y.todo = worker[w].todo /\ y.op = worker[w].op
    BY <1>2 DEF WorkerRow
  <1>4. /\ worker[w].at \in Call /\ worker[w].at.kind = "claim"
        /\ r \in Rows /\ member[r].state # "NONE"
    BY <1>1, AccountTables DEF WorkerFits, Calling, Claiming, Lists, CallFits
  <1>5. worker[w].at = ClaimCall(r)
    BY <1>4 DEF Call, ClaimCall
  <1>6. Sent(late, worker, r)
    BY <1>1, <1>5 DEF Sent
  <1>7. /\ ShipsForward /\ ClaimsForward
        /\ \A s \in Shipments : ship'[s].version \in Nat
    BY <1>1, <1>4, <1>6, ClaimForward
  <1>8. answer \in {"CLAIMED", "BAD_PLACE", "REFUSED"}
    BY DEF Reading
  <1>9. ASSUME answer = "REFUSED"
        PROVE  ~Known(claims', r) /\ ship'[r[2]].version > member[r].asked
    <2>1. ~ClaimKnown(r) /\ ~ClaimGranted(r)
      BY <1>9 DEF Reading
    <2>2. UNCHANGED fulVars /\ ~Known(claims, r)
      BY <1>1, <2>1 DEF HandleClaim, ClaimKnown, Known
    <2>3. AskedFits(member[r], ship[r[2]], intent[r[2]], claims, r)
      BY <1>4 DEF AccountInv
    <2>4. r[2] \in Shipments /\ ship[r[2]].version \in Nat /\ member[r].asked \in Nat
      BY <1>4, AccountTables
    <2>5. ~(ship[r[2]].version = member[r].asked /\ InPool(ship[r[2]], intent[r[2]]))
      BY <2>1 DEF ClaimGranted, ClaimKnown, Ful!Claimable, Ful!IntentFree, InPool
    <2>6. ship[r[2]].version > member[r].asked
      BY <1>4, <2>3, <2>4, <2>5 DEF AskedFits
    <2>7. QED
      BY <2>2, <2>6 DEF fulVars, Known
  <1> HIDE DEF answer, y
  <1>10. worker'[w] = y /\ \A v \in Workers : v # w => worker'[v] = worker[v]
    BY <1>2, AccountTables
  <1>11. \A q \in Rows : Sent(late', worker', q) => Sent(late, worker, q)
    BY <1>1, <1>3, <1>10 DEF Sent
  <1>12. ListFits(y, member, claims', ship')
    BY <1>1, <1>2, <1>3, <1>8, <1>9 DEF ListFits, Claiming
  <1>13. QED
    BY <1>1, <1>7, <1>10, <1>11, <1>12, AccountsKept

\* Fulfillment's answer to a release.
LEMMA AnswerReleaseAccounts ==
    ASSUME SafeInv, AccountInv, NEW w \in Workers, AnswerRelease(w)
    PROVE  AccountInv'
  <1> DEFINE r == worker[w].at.row
             rel == worker[w].at.rel
             answer == IF ReleaseKnown(r, rel) \/ ReleaseGranted(r, rel)
                       THEN "RELEASED" ELSE "REFUSED"
             y == [worker[w] EXCEPT !.phase = "released", !.answer = answer]
  <1>1. /\ worker[w].phase = "releasing" /\ HandleRelease(r, rel)
        /\ worker' = [worker EXCEPT ![w].phase = "released", ![w].answer = answer]
        /\ UNCHANGED <<op, member, late>>
    BY DEF AnswerRelease, ReleaseAnswered, Answered
  <1>2. /\ worker[w] \in WorkerRow /\ ListFits(worker[w], member, claims, ship)
        /\ worker' = [worker EXCEPT ![w] = y]
    BY <1>1, AccountTables DEF AccountInv
  <1>3. /\ y.phase = "released" /\ y.answer = answer /\ y.at = worker[w].at
        /\ y.op = worker[w].op
    BY <1>2 DEF WorkerRow
  <1>4. /\ worker[w].at \in Call /\ worker[w].at.kind = "release" /\ r \in Rows
        /\ rel.try > 0
    BY <1>1, AccountTables DEF WorkerFits, Calling, Claiming, Lists, CallFits
  <1>5. rel.try \in Nat
    BY <1>4 DEF Call, ReleaseRequest
  <1>6. /\ ShipsForward /\ ClaimsForward
        /\ \A s \in Shipments : ship'[s].version \in Nat
    BY <1>1, <1>4, <1>5, ReleaseForward
  <1>7. FulP!ClaimIds
    BY DEF SafeInv, FulP!ResultInv, FulP!FulInv
  <1>8. ASSUME answer = "RELEASED"
        PROVE  Known(claims', r) /\ Closed(claims', r)
    <2>1. CASE ReleaseKnown(r, rel)
      <3>1. Known(claims, r) /\ Closed(claims, r)
        BY <1>4, <1>5, <1>7, <2>1 DEF ReleaseKnown, FulP!ClaimIds, Known, Closed
      <3>2. QED
        BY <1>4, <1>6, <3>1 DEF ClaimsForward
    <2>2. CASE ReleaseGranted(r, rel)
      <3> DEFINE k == Ful!Receipted(r, r[2], TripOf(r), rel.actor)
                 n == [k EXCEPT !.released = rel.try]
      <3>1. claims' = (claims \ {k}) \cup {n} /\ k \in claims
        BY <1>1, <2>2 DEF HandleRelease, Ful!Release, Ful!ReleasedBy, ReleaseGranted,
                          Ful!Releasable
      <3>2. k.id = r /\ n.id = r /\ n.released = rel.try
        BY DEF Ful!Receipted
      <3> HIDE DEF k, n
      <3>3. \A l \in claims : l.id = r => l = k
        BY <1>7, <3>1, <3>2 DEF FulP!ClaimIds
      <3>4. QED
        BY <1>4, <1>5, <3>1, <3>2, <3>3 DEF Known, Closed
    <2>3. QED
      BY <1>8, <2>1, <2>2
  <1> HIDE DEF answer, y
  <1>9. worker'[w] = y /\ \A v \in Workers : v # w => worker'[v] = worker[v]
    BY <1>2, AccountTables
  <1>10. \A q \in Rows : Sent(late', worker', q) => Sent(late, worker, q)
    BY <1>1, <1>3, <1>9 DEF Sent
  <1>11. \A q \in Rows : q[1] = y.op => ~Waits(member[q])
    BY <1>1, <1>2, <1>3 DEF ListFits, Claiming
  <1>12. y.phase \notin Claiming
    BY <1>3 DEF Claiming
  <1>13. ListFits(y, member, claims', ship')
    BY <1>3, <1>8, <1>11, <1>12, ReleasingList
  <1>14. QED
    BY <1>1, <1>6, <1>9, <1>10, <1>13, AccountsKept

\* The worker is through with its list.
LEMMA EndAccounts ==
    ASSUME SafeInv, AccountInv, UNCHANGED fulVars, NEW w \in Workers,
           EndClaims(w) \/ JoinCompensation(w) \/ EndReleases(w)
    PROVE  AccountInv'
  <1> DEFINE i == worker[w].op
             y == [worker[w] EXCEPT !.phase = "releases", !.todo = ReleaseCalls(member, i)]
             z(answer) == [worker[w] EXCEPT !.phase = "finish", !.answer = answer]
  <1>1. /\ worker[w] \in WorkerRow /\ ListFits(worker[w], member, claims, ship)
        /\ UNCHANGED <<member, late>>
    BY AccountTables DEF AccountInv, EndClaims, JoinCompensation, EndReleases
  <1>2. \A r \in Rows : Waits(member[r]) => member[r].op = r[1] /\ op[r[1]].status = "PENDING"
    BY AccountTables DEF RowFits, Waits, AccountInv, WaitFits
  <1>3. \/ Stand(w)
        \/ /\ op' = op
           /\ \A r \in Rows : r[1] = i => ~Waits(member[r])
           /\ \/ worker' = [worker EXCEPT ![w] = y]
              \/ \E answer : worker' = [worker EXCEPT ![w] = z(answer)]
    <2>1. CASE EndClaims(w)
      BY <1>1, <1>2, <2>1, AccountTables DEF EndClaims, Finish, RowsOf, Waits
    <2>2. CASE JoinCompensation(w)
      BY <1>1, <1>2, <2>2, AccountTables DEF JoinCompensation
    <2>3. CASE EndReleases(w)
      <3>1. \A r \in Rows : r[1] = i => ~Waits(member[r])
        BY <1>1, <2>3 DEF EndReleases, ListFits, Claiming
      <3>2. QED
        BY <1>1, <2>3, <3>1, AccountTables DEF EndReleases, Finish
    <2>4. QED
      BY <2>1, <2>2, <2>3
  <1>4. CASE Stand(w)
    <2>1. /\ op' = [op EXCEPT ![i].leased = FALSE] /\ worker' = [worker EXCEPT ![w] = Idle]
      BY <1>4 DEF Stand
    <2>2. \A r \in Rows : Waits(member[r]) => /\ op'[r[1]].status = op[r[1]].status
                                              /\ op'[r[1]].kind = op[r[1]].kind
      BY <2>1, LeaseOnly
    <2>3. QED
      BY <1>1, <2>1, <2>2, IdleList, WorkerAccounts
  <1>5. ASSUME op' = op, \A r \in Rows : r[1] = i => ~Waits(member[r]), NEW x,
               worker' = [worker EXCEPT ![w] = x], x.op = i, x.phase \in {"releases", "finish"}
        PROVE  AccountInv'
    <2>1. ListFits(x, member, claims, ship) /\ x.phase # "claiming"
      BY <1>5, ReleasingList DEF Claiming
    <2>2. QED
      BY <1>1, <1>5, <2>1, WorkerAccounts
  <1>6. y.op = i /\ y.phase = "releases" /\ \A a : z(a).op = i /\ z(a).phase = "finish"
    BY <1>1 DEF WorkerRow
  <1> HIDE DEF y, z
  <1>7. QED
    BY <1>3, <1>4, <1>5, <1>6

\* finalize: nothing of the operation waits any more.
LEMMA FinalizeAccounts ==
    ASSUME SafeInv, AccountInv, UNCHANGED fulVars, NEW w \in Workers, Finalize(w)
    PROVE  AccountInv'
  <1> DEFINE i == worker[w].op
  <1>1. /\ worker[w].phase = "finish" /\ worker' = [worker EXCEPT ![w] = Idle]
        /\ \A j \in Operations : j # i => op'[j] = op[j]
        /\ UNCHANGED <<member, late>>
    BY AccountTables DEF Finalize
  <1>2. \A r \in Rows : r[1] = i => ~Waits(member[r])
    BY <1>1 DEF AccountInv, ListFits, Claiming
  <1>3. \A r \in Rows : Waits(member[r]) => op'[r[1]] = op[r[1]]
    BY <1>1, <1>2, AccountTables
  <1> HIDE DEF i
  <1>4. QED
    BY <1>1, <1>3, IdleList, WorkerAccounts

\* A step of transport that leaves the list of a worker as it is.
LEMMA ListsKept ==
    ASSUME SafeInv, AccountInv, UNCHANGED fulVars, NEW w \in Workers,
           Busy(w) => \A r \in Rows : r[1] = worker[w].op =>
                         (Waits(member'[r]) <=> Waits(member[r])),
           \A r \in Rows : member[r].state # "NONE" => member'[r].asked = member[r].asked
    PROVE  ListFits(worker[w], member', claims, ship)
  <1>1. CASE ~Busy(w)
    BY <1>1 DEF Busy, ListFits, Claiming
  <1>2. CASE Busy(w)
    <2>1. ListFits(worker[w], member', claims', ship')
      BY <1>2, ForwardStill, ListForward
    <2>2. QED
      BY <2>1 DEF fulVars
  <1>3. QED
    BY <1>1, <1>2

\* A command: rows are made for shipments in the pool, or given up.
LEMMA CommandAccounts ==
    ASSUME SafeInv, AccountInv, UNCHANGED fulVars, UNCHANGED <<worker, late>>,
           NEW i \in Operations, NEW kind, NEW t, NEW u, Fresh(i), NewOp(i, kind, t, u),
           \A r \in Rows :
              \/ member'[r] = member[r]
              \/ /\ member[r].state = "ACTIVE" /\ member'[r].state = "RELEASE_PENDING"
                 /\ member'[r].asked = member[r].asked
                 /\ member'[r].removed = member[r].removed
              \/ /\ member[r].state = "NONE" /\ r[1] = i /\ kind = "ADD"
                 /\ member'[r].removed = member[r].removed
                 /\ member'[r].asked = ship[r[2]].version
                 /\ InPool(ship[r[2]], intent[r[2]])
    PROVE  AccountInv'
  <1>1. UNCHANGED <<ship, intent, claims>>
    BY DEF fulVars
  <1>2. /\ op[i].status = "NONE"
        /\ op'[i].status = "PENDING" /\ op'[i].kind = kind
        /\ \A j \in Operations \ {i} : op'[j] = op[j]
    BY FreshOp, AccountTables DEF SafeInv, NewOp
  <1>3. \A r \in Rows : RemovedFits(member[r], ship[r[2]], claims, late, worker, r)
    BY DEF AccountInv
  <1>4. \A r \in Rows :
           \/ member'[r] = member[r]
           \/ /\ member[r].state # "NONE" /\ ~Waits(member'[r])
              /\ member'[r].asked = member[r].asked
              /\ member'[r].removed => /\ member'[r].state # "NONE" /\ Closed(claims, r)
                                       /\ \/ ship[r[2]].version > member[r].asked
                                          \/ ~Sent(late, worker, r)
           \/ /\ member[r].state = "NONE" /\ op[r[1]].status = "NONE"
              /\ ~member'[r].removed
              /\ member'[r].asked = ship[r[2]].version
              /\ InPool(ship[r[2]], intent[r[2]])
    BY <1>2, <1>3 DEF RemovedFits, Waits
  <1>5. \A r \in Rows : Waits(member'[r]) => Waits(member[r]) \/ (r[1] = i /\ kind = "ADD")
    BY DEF Waits
  <1>6. ASSUME NEW r \in Rows, Waits(member'[r])
        PROVE  op'[r[1]].status = "PENDING" /\ op'[r[1]].kind = "ADD"
    <2>1. CASE Waits(member[r])
      <3>1. op[r[1]].status = "PENDING" /\ op[r[1]].kind = "ADD" /\ r[1] \in Operations
        BY <2>1, AccountTables DEF AccountInv, WaitFits
      <3>2. QED
        BY <1>2, <3>1
    <2>2. QED
      BY <1>2, <1>5, <1>6, <2>1
  <1>7. ASSUME NEW w \in Workers
        PROVE  ListFits(worker'[w], member', claims, ship)
    <2>1. Busy(w) => op[worker[w].op].status # "NONE"
      BY AccountTables DEF WorkerFits, Busy
    <2>2. Busy(w) => \A r \in Rows : r[1] = worker[w].op =>
                        (Waits(member'[r]) <=> Waits(member[r]))
      BY <1>2, <2>1 DEF Waits
    <2>3. \A r \in Rows : member[r].state # "NONE" => member'[r].asked = member[r].asked
      OBVIOUS
    <2>4. QED
      BY <2>2, <2>3, ListsKept
  <1>8. \A r \in Rows : Sent(late', worker', r) => Sent(late, worker, r)
    OBVIOUS
  <1>9. QED
    BY <1>1, <1>4, <1>6, <1>7, <1>8, MembersKept

\* add: the shipments are in the pool at the versions that are quoted.
LEMMA AddAccounts ==
    ASSUME SafeInv, AccountInv, NEW t \in Trips, NEW u \in Users, NEW i \in Operations,
           AddFromPool(t, u, i)
    PROVE  AccountInv'
  <1> DEFINE asked == [s \in Shipments |-> ship[s].version]
  <1>1. PICK S \in SUBSET Pool \ {{}} : Add(t, S, u, i, asked)
    BY DEF AddFromPool
  <1>2. UNCHANGED fulVars /\ S \in SUBSET Pool
    BY DEF AddFromPool
  <1>3. \A s \in Shipments : asked[s] = ship[s].version
    OBVIOUS
  <1> HIDE DEF asked
  <1>4. /\ Fresh(i) /\ NewOp(i, "ADD", t, u) /\ UNCHANGED <<worker, late>>
        /\ member' = [r \in Rows |->
                        IF r[1] = i /\ r[2] \in S
                        THEN [member[r] EXCEPT !.state = "CLAIM_PENDING", !.op = i,
                                               !.asked = asked[r[2]]]
                        ELSE member[r]]
    BY <1>1 DEF Add
  <1>5. op[i].status = "NONE"
    BY <1>4, FreshOp DEF SafeInv
  <1>6. ASSUME NEW s \in Pool
        PROVE  InPool(ship[s], intent[s])
    <2>1. s \in Shipments /\ ship[s].status = "READY_TO_SHIP" /\ ship[s].trip = NoTrip
          /\ intent[s].status # "PENDING"
      BY DEF Pool
    <2>2. intent[s] \in FulP!IntentRow
      BY <2>1 DEF SafeInv, FulP!ResultInv, FulP!FulInv, FulP!FulfillmentTypeOK
    <2>3. ship[s].claim = NoRow /\ intent[s].status # "COMPLETED"
      BY <2>1, ShipRows, TripAssumption DEF SafeInv, FulP!Gone
    <2>4. QED
      BY <2>1, <2>2, <2>3 DEF InPool, FulP!IntentRow
  <1>7. ASSUME NEW r \in Rows
        PROVE  \/ member'[r] = member[r]
               \/ /\ member[r].state = "NONE" /\ r[1] = i
                  /\ member'[r].removed = member[r].removed
                  /\ member'[r].asked = ship[r[2]].version
                  /\ InPool(ship[r[2]], intent[r[2]])
    <2>1. CASE r[1] = i /\ r[2] \in S
      <3>1. member[r].state = "NONE" /\ member[r] \in MemberRow /\ r[2] \in Shipments
        BY <1>5, <2>1, AccountTables DEF RowFits
      <3>2. member'[r] = [member[r] EXCEPT !.state = "CLAIM_PENDING", !.op = i,
                                           !.asked = asked[r[2]]]
        BY <1>4, <2>1
      <3>3. member'[r].removed = member[r].removed /\ member'[r].asked = ship[r[2]].version
        BY <1>3, <3>1, <3>2 DEF MemberRow
      <3>4. QED
        BY <1>2, <1>6, <2>1, <3>1, <3>3
    <2>2. CASE ~(r[1] = i /\ r[2] \in S)
      BY <1>4, <2>2
    <2>3. QED
      BY <2>1, <2>2
  <1>8. QED
    BY <1>2, <1>4, <1>7, CommandAccounts

\* A row of a manifest that is given up is the same row.
LEMMA ReleasingKeeps ==
    ASSUME NEW m \in MemberRow, NEW a, NEW i
    PROVE  /\ Releasing(m, a, i).state = "RELEASE_PENDING"
           /\ Releasing(m, a, i).asked = m.asked
           /\ Releasing(m, a, i).removed = m.removed
  BY DEF Releasing, MemberRow

\* remove and cancel
LEMMA GiveUpAccounts ==
    ASSUME SafeInv, AccountInv, UNCHANGED fulVars, UNCHANGED <<worker, late>>,
           NEW t, NEW R \in SUBSET ActiveRows(t), NEW u, NEW i \in Operations, NEW kind,
           Fresh(i), NewOp(i, kind, t, u), Release(R, u, i)
    PROVE  AccountInv'
  <1>1. ASSUME NEW r \in Rows
        PROVE  \/ member'[r] = member[r]
               \/ /\ member[r].state = "ACTIVE" /\ member'[r].state = "RELEASE_PENDING"
                  /\ member'[r].asked = member[r].asked
                  /\ member'[r].removed = member[r].removed
    <2>1. member[r] \in MemberRow
      BY AccountTables
    <2>2. r \in R => member[r].state = "ACTIVE" /\ member'[r] = Releasing(member[r], u, i)
      BY DEF Release, ActiveRows
    <2>3. r \notin R => member'[r] = member[r]
      BY DEF Release
    <2>4. QED
      BY <2>1, <2>2, <2>3, ReleasingKeeps
  <1>2. QED
    BY <1>1, CommandAccounts

\* The consumer of ShipmentCanceled
LEMMA CanceledAccounts ==
    ASSUME SafeInv, AccountInv, UNCHANGED fulVars, NEW s, NEW v \in Nat,
           NEW i \in Operations, ShipmentCanceled(s, v, i)
    PROVE  AccountInv'
  <1>1. PICK r \in RowsFor(s) :
           /\ member[r].state = "ACTIVE" /\ Fresh(i)
           /\ NewOp(i, "SHIPMENT_CANCELED", TripOf(r), op[r[1]].actor)
           /\ member' = [member EXCEPT
                           ![r] = Releasing([@ EXCEPT !.version = v], op[r[1]].actor, i)]
           /\ UNCHANGED <<worker, late>>
    BY DEF ShipmentCanceled
  <1> DEFINE m == [member[r] EXCEPT !.version = v]
  <1>2. r \in Rows /\ member[r] \in MemberRow /\ member \in [Rows -> MemberRow]
    BY AccountTables DEF RowsFor
  <1>3. m \in MemberRow /\ m.asked = member[r].asked /\ m.removed = member[r].removed
    BY <1>2 DEF MemberRow
  <1>4. member' = [member EXCEPT ![r] = Releasing(m, op[r[1]].actor, i)]
    BY <1>1
  <1> HIDE DEF m
  <1>5. /\ member'[r].state = "RELEASE_PENDING" /\ member'[r].asked = member[r].asked
        /\ member'[r].removed = member[r].removed
        /\ \A q \in Rows : q # r => member'[q] = member[q]
    BY <1>2, <1>3, <1>4, ReleasingKeeps
  <1>6. QED
    BY <1>1, <1>5, CommandAccounts

\* A worker writes memberships of its own operation and goes on in state y.
LEMMA WriterAccounts ==
    ASSUME SafeInv, TripInv, AccountInv, UNCHANGED fulVars, NEW w \in Workers, Busy(w), NEW y,
           worker' = [worker EXCEPT ![w] = y], y.phase # "claiming", late' = late,
           \A r \in Rows :
              \/ member'[r] = member[r]
              \/ /\ member[r].state # "NONE" /\ ~Waits(member'[r])
                 /\ Waits(member[r]) => r[1] = worker[w].op
                 /\ member'[r].asked = member[r].asked
                 /\ member'[r].removed => /\ member'[r].state # "NONE" /\ Closed(claims, r)
                                          /\ \/ ship[r[2]].version > member[r].asked
                                             \/ ~Sent(late, worker, r),
           \A r \in Rows : Waits(member'[r]) => op'[r[1]] = op[r[1]],
           ListFits(y, member', claims, ship)
    PROVE  AccountInv'
  <1>1. worker'[w] = y /\ \A v \in Workers : v # w => worker'[v] = worker[v]
    BY AccountTables
  <1>2. UNCHANGED <<ship, intent, claims>>
    BY DEF fulVars
  <1>3. \A r \in Rows : Sent(late', worker', r) => Sent(late, worker, r)
    BY <1>1 DEF Sent
  <1>4. \A r \in Rows : Waits(member'[r]) => Waits(member[r])
    OBVIOUS
  <1>5. \A r \in Rows : Waits(member'[r]) => /\ op'[r[1]].status = "PENDING"
                                             /\ op'[r[1]].kind = "ADD"
    BY <1>4 DEF AccountInv, WaitFits
  <1>6. ASSUME NEW v \in Workers
        PROVE  ListFits(worker'[v], member', claims, ship)
    <2>1. CASE v = w
      BY <1>1, <2>1
    <2>2. CASE v # w
      <3>1. Busy(v) => worker[v].op # worker[w].op
        BY <2>2, AtWork
      <3>2. Busy(v) => \A r \in Rows : r[1] = worker[v].op =>
                          (Waits(member'[r]) <=> Waits(member[r]))
        BY <3>1
      <3>3. \A r \in Rows : member[r].state # "NONE" => member'[r].asked = member[r].asked
        OBVIOUS
      <3>4. QED
        BY <1>1, <2>2, <3>2, <3>3, ListsKept
    <2>3. QED
      BY <2>1, <2>2
  <1>7. QED
    BY <1>2, <1>3, <1>5, <1>6, MembersKept

\* persistClaim: the row that waited becomes active.
LEMMA PersistClaimAccounts ==
    ASSUME SafeInv, TripInv, AccountInv, UNCHANGED fulVars, NEW w \in Workers,
           PersistClaim(w)
    PROVE  AccountInv'
  <1> DEFINE p == worker[w].at.row
             new == [member[p] EXCEPT !.state = "ACTIVE", !.version = member[p].asked + 1]
             y == [worker[w] EXCEPT !.phase = "claims", !.at = NoCall, !.answer = "none"]
  <1>1. /\ worker[w] \in WorkerRow /\ ListFits(worker[w], member, claims, ship)
        /\ WorkerFits(member, op, claims, worker[w])
        /\ worker[w].phase = "claimed" /\ Busy(w) /\ UNCHANGED <<op, late>>
        /\ worker' = [worker EXCEPT ![w] = y]
    BY AccountTables DEF AccountInv, PersistClaim, Busy
  <1>2. p \in Rows /\ Waits(member[p]) /\ p[1] = worker[w].op
    BY <1>1 DEF WorkerFits, Calling, Claiming, Lists, CallFits, ListFits
  <1>3. member[p] \in MemberRow /\ member \in [Rows -> MemberRow] /\ ~member[p].removed
    BY <1>2, AccountTables DEF AccountInv, WaitFits
  <1>4. member' = [member EXCEPT ![p] = new]
    BY <1>2, <1>3 DEF PersistClaim, Waits
  <1>5. new.state = "ACTIVE" /\ new.asked = member[p].asked /\ new.removed = member[p].removed
    BY <1>3 DEF MemberRow
  <1>6. /\ y.phase = "claims" /\ y.op = worker[w].op /\ y.todo = worker[w].todo
    BY <1>1 DEF WorkerRow
  <1> HIDE DEF new, y
  <1>7. member'[p] = new /\ \A r \in Rows : r # p => member'[r] = member[r]
    BY <1>2, <1>3, <1>4
  <1>8. ~Waits(new)
    BY <1>5 DEF Waits
  <1>9. ListFits(y, member', claims, ship)
    <2>1. ASSUME NEW r \in Rows, Waits(member'[r]), r[1] = y.op
          PROVE  ClaimCall(r) \in y.todo
      <3>1. r # p /\ Waits(member[r])
        BY <1>7, <1>8, <2>1
      <3>2. worker[w].at # ClaimCall(r)
        BY <3>1 DEF ClaimCall
      <3>3. QED
        BY <1>1, <1>6, <2>1, <3>1, <3>2 DEF ListFits, Claiming
    <2>2. ASSUME NEW call \in y.todo
          PROVE  Waits(member'[call.row])
      <3>1. call.row \in Rows /\ Waits(member[call.row]) /\ p[2] < call.row[2]
        BY <1>1, <1>6 DEF ListFits, Claiming, WorkerFits, Lists, CallFits
      <3>2. p[2] \in Nat
        BY <1>2, AccountTables
      <3>3. call.row # p
        BY <3>1, <3>2
      <3>4. QED
        BY <1>7, <3>1, <3>3
    <2>3. QED
      BY <1>6, <2>1, <2>2 DEF ListFits, Claiming
  <1>10. \A r \in Rows :
            \/ member'[r] = member[r]
            \/ /\ member[r].state # "NONE" /\ ~Waits(member'[r])
               /\ Waits(member[r]) => r[1] = worker[w].op
               /\ member'[r].asked = member[r].asked
               /\ member'[r].removed => /\ member'[r].state # "NONE" /\ Closed(claims, r)
                                        /\ \/ ship[r[2]].version > member[r].asked
                                           \/ ~Sent(late, worker, r)
    BY <1>2, <1>3, <1>5, <1>7, <1>8 DEF Waits
  <1>11. \A r \in Rows : Waits(member'[r]) => op'[r[1]] = op[r[1]]
    BY <1>1
  <1>12. QED
    BY <1>1, <1>6, <1>9, <1>10, <1>11, WriterAccounts

\* persistRelease: the claim is closed, and it was made.
LEMMA PersistReleaseAccounts ==
    ASSUME SafeInv, TripInv, AccountInv, UNCHANGED fulVars, NEW w \in Workers,
           PersistRelease(w)
    PROVE  AccountInv'
  <1> DEFINE p == worker[w].at.row
             new == [member[p] EXCEPT !.state = "RELEASED", !.removed = TRUE]
             y == [worker[w] EXCEPT !.phase = "releases", !.at = NoCall, !.answer = "none"]
  <1>1. /\ worker[w] \in WorkerRow /\ ListFits(worker[w], member, claims, ship)
        /\ WorkerFits(member, op, claims, worker[w])
        /\ worker[w].phase = "released" /\ worker[w].answer = "RELEASED"
        /\ Busy(w) /\ UNCHANGED <<op, late>>
        /\ worker' = [worker EXCEPT ![w] = y]
    BY AccountTables DEF AccountInv, PersistRelease, Busy
  <1>2. /\ p \in Rows /\ member[p].state \in GivenUp /\ Known(claims, p) /\ Closed(claims, p)
    BY <1>1 DEF WorkerFits, Calling, Claiming, Lists, CallFits, ListFits
  <1>3. /\ member[p] \in MemberRow /\ member \in [Rows -> MemberRow]
        /\ ship[p[2]].version > member[p].asked
    BY <1>2, AccountTables DEF AccountInv, AskedFits, GivenUp
  <1>4. member' = member \/ member' = [member EXCEPT ![p] = new]
    BY <1>2, <1>3 DEF PersistRelease
  <1>5. new.state = "RELEASED" /\ new.asked = member[p].asked
    BY <1>3 DEF MemberRow
  <1>6. y.phase = "releases" /\ y.op = worker[w].op
    BY <1>1 DEF WorkerRow
  <1> HIDE DEF new, y
  <1>7. /\ member'[p] = member[p] \/ member'[p] = new
        /\ \A r \in Rows : r # p => member'[r] = member[r]
    BY <1>2, <1>3, <1>4
  <1>8. ~Waits(new) /\ ~Waits(member[p]) /\ member[p].state # "NONE"
    BY <1>2, <1>5 DEF Waits, GivenUp
  <1>9. ListFits(y, member', claims, ship)
    <2>1. \A r \in Rows : r[1] = y.op => ~Waits(member'[r])
      BY <1>1, <1>6, <1>7, <1>8 DEF ListFits, Claiming
    <2>2. QED
      BY <1>6, <2>1, ReleasingList DEF Claiming
  <1>10. \A r \in Rows :
            \/ member'[r] = member[r]
            \/ /\ member[r].state # "NONE" /\ ~Waits(member'[r])
               /\ Waits(member[r]) => r[1] = worker[w].op
               /\ member'[r].asked = member[r].asked
               /\ member'[r].removed => /\ member'[r].state # "NONE" /\ Closed(claims, r)
                                        /\ \/ ship[r[2]].version > member[r].asked
                                           \/ ~Sent(late, worker, r)
    BY <1>2, <1>3, <1>5, <1>7, <1>8
  <1>11. \A r \in Rows : Waits(member'[r]) => op'[r[1]] = op[r[1]]
    BY <1>1
  <1>12. QED
    BY <1>1, <1>6, <1>9, <1>10, <1>11, WriterAccounts

\* beginCompensation, for one row: what is dropped has no claim and gets none.
LEMMA CompensatedAccounts ==
    ASSUME Unreadable = {}, SafeInv, AccountInv, NEW w \in Workers,
           worker[w].phase = "claimed", worker[w].answer # "CLAIMED", NEW r \in Rows
    PROVE  LET new == Compensated(Recorded(w, r), worker[w].op)
           IN  \/ new = member[r] /\ (Waits(member[r]) => r[1] # worker[w].op)
               \/ /\ member[r].state # "NONE" /\ ~Waits(new)
                  /\ Waits(member[r]) => r[1] = worker[w].op
                  /\ new.asked = member[r].asked
                  /\ new.removed => /\ new.state # "NONE" /\ Closed(claims, r)
                                    /\ \/ ship[r[2]].version > member[r].asked
                                       \/ ~Sent(late, worker, r)
  <1> DEFINE i == worker[w].op
             p == worker[w].at.row
             new == Compensated(Recorded(w, r), i)
             good == [member[r] EXCEPT !.state = "ACTIVE", !.version = member[r].asked + 1]
             gone == [member[r] EXCEPT !.state = "RELEASED", !.removed = TRUE]
  <1>1. /\ ListFits(worker[w], member, claims, ship)
        /\ WorkerFits(member, op, claims, worker[w])
    BY AccountTables DEF AccountInv
  <1>2. p \in Rows /\ Waits(member[p]) /\ p[1] = i
    BY <1>1 DEF WorkerFits, Calling, Claiming, Lists, CallFits, ListFits
  <1>3. /\ member[r] \in MemberRow
        /\ RowFits(member[r], op, claims, r) /\ RowFits(member[p], op, claims, p)
        /\ WaitFits(member[r], op, r)
        /\ RemovedFits(member[r], ship[r[2]], claims, late, worker, r)
    BY <1>2, AccountTables DEF AccountInv
  <1>4. worker[w].answer \in {"BAD_PLACE", "REFUSED"}
    BY <1>1 DEF ListFits
  <1>5. Waits(member[r]) => member[r].op = r[1]
    BY <1>3 DEF RowFits, Waits
  <1>6. member[p].op = i
    BY <1>2, <1>3 DEF RowFits, Waits
  <1>7. CASE r = p /\ worker[w].answer = "BAD_PLACE"
    <2>1. /\ good \in MemberRow /\ good.state = "ACTIVE" /\ good.op = i
          /\ good.asked = member[r].asked /\ good.removed = member[r].removed
      <3>1. member[r].asked + 1 \in Nat
        BY <1>3 DEF MemberRow
      <3>2. QED
        BY <1>3, <1>6, <1>7, <3>1 DEF MemberRow
    <2>2. Recorded(w, r) = good
      BY <1>7 DEF Recorded
    <2> HIDE DEF good
    <2>3. new = Releasing(good, op[i].actor, i)
      BY <2>1, <2>2 DEF Compensated
    <2>4. new.state = "RELEASE_PENDING" /\ new.asked = member[r].asked /\ ~new.removed
      <3>1. /\ new.state = "RELEASE_PENDING" /\ new.asked = good.asked
            /\ new.removed = good.removed
        BY <2>1, <2>3, ReleasingKeeps
      <3>2. ~member[r].removed
        BY <1>2, <1>3, <1>7 DEF WaitFits
      <3> HIDE DEF new
      <3>3. QED
        BY <2>1, <3>1, <3>2
    <2> HIDE DEF new
    <2>5. QED
      BY <1>2, <1>7, <2>4 DEF Waits, new
  <1>8. CASE ~(r = p /\ worker[w].answer = "BAD_PLACE")
    <2>1. new = Compensated(member[r], i)
      BY <1>8 DEF Recorded
    <2>2. CASE member[r].op = i /\ member[r].state = "ACTIVE"
      <3>1. new = Releasing(member[r], op[i].actor, i)
        BY <2>1, <2>2 DEF Compensated
      <3>2. /\ new.state = "RELEASE_PENDING" /\ new.asked = member[r].asked
            /\ new.removed = member[r].removed
        BY <1>3, <3>1, ReleasingKeeps
      <3> HIDE DEF new
      <3>3. QED
        BY <1>3, <2>2, <3>2 DEF Waits, RemovedFits, new
    <2>3. CASE member[r].op = i /\ member[r].state = "CLAIM_PENDING"
      <3>1. new = gone /\ Waits(member[r]) /\ r[1] = i
        BY <1>5, <2>1, <2>3 DEF Compensated, Waits
      <3>2. gone.state = "RELEASED" /\ gone.asked = member[r].asked
        BY <1>3 DEF MemberRow
      <3>3. ~Known(claims, r) /\ (ship[r[2]].version > member[r].asked
                                    \/ ~Sent(late, worker, r))
        <4>1. CASE r = p
          BY <1>1, <1>4, <1>8, <4>1 DEF ListFits
        <4>2. CASE r # p
          <5>1. worker[w].at # ClaimCall(r)
            BY <4>2 DEF ClaimCall
          <5>2. ClaimCall(r) \in worker[w].todo
            BY <1>1, <3>1, <5>1 DEF ListFits, Claiming
          <5>3. p[2] < r[2]
            BY <1>1, <5>2 DEF ListFits, ClaimCall
          <5>4. QED
            BY <1>2, <3>1, <5>3 DEF AccountInv, InOrder
        <4>3. QED
          BY <4>1, <4>2
      <3>4. Closed(claims, r)
        BY <3>3 DEF Known, Closed
      <3> HIDE DEF new, gone
      <3>5. QED
        BY <3>1, <3>2, <3>3, <3>4 DEF Waits, new
    <2>4. CASE ~(member[r].op = i /\ member[r].state \in {"ACTIVE", "CLAIM_PENDING"})
      <3>1. new = member[r]
        BY <2>1, <2>4 DEF Compensated
      <3>2. Waits(member[r]) => r[1] # i
        BY <1>5, <2>4 DEF Waits
      <3> HIDE DEF new
      <3>3. QED
        BY <3>1, <3>2 DEF new
    <2>5. QED
      BY <2>2, <2>3, <2>4
  <1>9. QED
    BY <1>7, <1>8

\* beginCompensation
LEMMA CompensateAccounts ==
    ASSUME Unreadable = {}, SafeInv, TripInv, AccountInv, UNCHANGED fulVars,
           NEW w \in Workers, Compensate(w)
    PROVE  AccountInv'
  <1> DEFINE i == worker[w].op
             y == [Idle EXCEPT !.op = i, !.phase = "releases", !.todo = ReleaseCalls(member', i)]
  <1>1. /\ worker[w].phase = "claimed" /\ worker[w].answer # "CLAIMED" /\ Busy(w)
        /\ member' = [r \in Rows |-> Compensated(Recorded(w, r), i)]
        /\ op' = [op EXCEPT ![i].status = "COMPENSATING"] /\ late' = late
        /\ worker' = [worker EXCEPT ![w] = y]
    BY DEF Compensate, BeginCompensation, Busy
  <1>2. \A r \in Rows :
           \/ member'[r] = member[r] /\ (Waits(member[r]) => r[1] # i)
           \/ /\ member[r].state # "NONE" /\ ~Waits(member'[r])
              /\ Waits(member[r]) => r[1] = worker[w].op
              /\ member'[r].asked = member[r].asked
              /\ member'[r].removed => /\ member'[r].state # "NONE" /\ Closed(claims, r)
                                       /\ \/ ship[r[2]].version > member[r].asked
                                          \/ ~Sent(late, worker, r)
    BY <1>1, CompensatedAccounts
  <1>3. y.phase = "releases" /\ y.op = i
    BY DEF Idle
  <1> HIDE DEF y
  <1>4. \A r \in Rows : Waits(member'[r]) => r[1] # i
    BY <1>2
  <1>5. \A r \in Rows : Waits(member'[r]) => op'[r[1]] = op[r[1]]
    BY <1>1, <1>4, AccountTables
  <1>6. ListFits(y, member', claims, ship)
    BY <1>3, <1>4, ReleasingList DEF Claiming
  <1> HIDE DEF i
  <1>7. QED
    BY <1>1, <1>2, <1>3, <1>5, <1>6, WriterAccounts

\* The initial state: nothing is asked for and nothing is on its way.
LEMMA AccountInitially == BothInit => AccountInv
  <1> SUFFICES ASSUME BothInit
               PROVE  AccountInv
    OBVIOUS
  <1>1. /\ \A r \in Rows : member[r].state = "NONE" /\ ~member[r].removed
        /\ \A w \in Workers : worker[w] = Idle
    BY DEF BothInit, TripInit
  <1>2. \A w \in Workers : ListFits(worker[w], member, claims, ship)
    BY <1>1, IdleList
  <1>3. \A r \in Rows : ~Waits(member[r])
    BY <1>1 DEF Waits
  <1>4. QED
    BY <1>1, <1>2, <1>3 DEF AccountInv, AskedFits, WaitFits, RemovedFits, InOrder

\* Commands, drivers and faults.
LEMMA CommandsAccount ==
    ASSUME SafeInv, AccountInv, TripCommand \/ TripDriver \/ TripFault, UNCHANGED fulVars
    PROVE  AccountInv'
  <1>1. ASSUME UNCHANGED <<op, member, worker>>,
               \A r \in Rows : ClaimCall(r) \in late' => ClaimCall(r) \in late
        PROVE  AccountInv'
    BY <1>1, ForwardStill, AccountsStill
  <1>2. ASSUME NEW t \in Trips, NEW u \in Users, NEW i \in Operations, CancelTrip(t, u, i)
        PROVE  AccountInv'
    BY <1>2, GiveUpAccounts DEF CancelTrip
  <1>3. ASSUME NEW t \in Trips, NEW u \in Users, NEW i \in Operations,
               NEW S \in SUBSET Shipments, Remove(t, S, u, i)
        PROVE  AccountInv'
    <2> DEFINE R == {r \in ActiveRows(t) : r[2] \in S}
    <2>1. /\ Fresh(i) /\ NewOp(i, "REMOVE", t, u) /\ Release(R, u, i)
          /\ UNCHANGED <<worker, late>>
      BY <1>3 DEF Remove
    <2>2. R \in SUBSET ActiveRows(t)
      OBVIOUS
    <2> HIDE DEF R
    <2>3. QED
      BY <2>1, <2>2, GiveUpAccounts
  <1>4. ASSUME NEW t \in Trips,
               \/ CreateTrip(t) \/ UpdateTrip(t) \/ Reopen(t)
               \/ \E route : Approve(t, route)
               \/ \E b \in Batches : StartTripDispatch(t, b)
               \/ \E s, outcome : Deliver(t, s, outcome)
        PROVE  AccountInv'
    BY <1>1, <1>4 DEF CreateTrip, UpdateTrip, Reopen, Approve, StartTripDispatch, Deliver
  <1>5. ASSUME NEW c \in Couriers, LoseCourier(c)
        PROVE  AccountInv'
    <2>1. UNCHANGED <<op, member, worker>>
      BY <1>5 DEF LoseCourier
    <2>2. \A r \in Rows : ClaimCall(r) \in late' => ClaimCall(r) \in late
      BY <1>5 DEF LoseCourier, ClaimCall
    <2>3. QED
      BY <1>1, <2>1, <2>2
  <1>6. CASE TripCommand
    BY <1>2, <1>3, <1>4, <1>6 DEF TripCommand
  <1>7. CASE TripDriver
    BY <1>4, <1>7 DEF TripDriver
  <1>8. CASE TripFault
    BY <1>5, <1>8, StopAccounts DEF TripFault
  <1>9. QED
    BY <1>6, <1>7, <1>8

\* Every step of both services.
LEMMA AccountStep ==
    ASSUME ~LeaseExpires, Unreadable = {}, DirectRequests = {}, SafeInv, TripInv, AccountInv,
           [BothNext]_bothVars
    PROVE  AccountInv'
  <1>1. ASSUME ShipsForward, ClaimsForward, \A s \in Shipments : ship'[s].version \in Nat,
               UNCHANGED tripVars
        PROVE  AccountInv'
    BY <1>1, AccountsStill DEF tripVars
  <1>2. CASE (TripCommand \/ TripDriver \/ TripFault) /\ UNCHANGED fulVars
    BY <1>2, CommandsAccount
  <1>3. ASSUME NEW i \in Operations, TripLearnsCancel(i)
        PROVE  AccountInv'
    <2>1. PICK e \in shipLog : ShipmentCanceled(e.order, e.version, i)
      BY <1>3 DEF TripLearnsCancel
    <2>2. e.version \in Nat /\ UNCHANGED fulVars
      BY <1>3, EventVersion DEF TripLearnsCancel, SafeInv
    <2>3. QED
      BY <2>1, <2>2, CanceledAccounts
  <1>4. ASSUME NEW w \in Workers, TripWorker(w), UNCHANGED fulVars
        PROVE  AccountInv'
    BY <1>4, ResumeAccounts, SendClaimAccounts, SendReleaseAccounts, StopAccounts,
       PersistClaimAccounts, CompensateAccounts, PersistReleaseAccounts, EndAccounts,
       FinalizeAccounts
    DEF TripWorker
  <1>5. ASSUME NEW c \in Couriers, TripCourier(c) \/ Select(c) \/ AnswerBatch(c),
               UNCHANGED fulVars
        PROVE  AccountInv'
    <2>1. UNCHANGED <<op, member, worker, late>>
      BY <1>5 DEF TripCourier, Select, AnswerBatch, BatchAnswered, TakeUp, SelectConflict,
                  Submit, StoreReceipt, CommitTrip, ReadStage, RejectTripDispatch
    <2>2. QED
      BY <1>5, <2>1, ForwardStill, AccountsStill
  <1>6. ASSUME NEW c \in Couriers, BatchArrives(c)
        PROVE  AccountInv'
    <2>1. StartBatch(courier[c].batch) /\ UNCHANGED tripVars /\ courier[c].phase = "call"
      BY <1>6 DEF BatchArrives
    <2>2. courier[c].batch \in Batches
      BY <2>1, CourierHas DEF SafeInv
    <2>3. QED
      BY <1>1, <2>1, <2>2, StartBatchForward
  <1>7. ASSUME NEW e \in ResultEvents, ResultHandled(e)
        PROVE  AccountInv'
    BY <1>1, <1>7, ResultForward DEF ResultHandled
  <1>8. ASSUME NEW b \in Batches, DecideBatch(b)
        PROVE  AccountInv'
    BY <1>1, <1>8, DecideBatchForward DEF DecideBatch
  <1>9. ASSUME NEW s \in Shipments, DirectDispatch(s) \/ CancelOrder(s)
        PROVE  AccountInv'
    BY <1>1, <1>9, CancelForward DEF DirectDispatch, CancelOrder
  <1>10. CASE UNCHANGED bothVars
    BY <1>1, <1>10, ForwardStill DEF bothVars
  <1>11. QED
    BY <1>2, <1>3, <1>4, <1>5, <1>6, <1>7, <1>8, <1>9, <1>10, AddAccounts,
       AnswerClaimAccounts, AnswerReleaseAccounts, HandleLateAccounts
    DEF BothNext, SelectReady, AnswerBatch

\* The invariants together, under the conditions they need.
LEMMA AccountsAlways ==
    ASSUME ~LeaseExpires, Unreadable = {}, DirectRequests = {}
    PROVE  BothSpec => [](SafeInv /\ TripInv /\ AccountInv)
  <1> DEFINE Inv == SafeInv /\ TripInv /\ AccountInv
  <1>1. BothInit => Inv
    BY SafeInitially, TripInitially, AccountInitially DEF BothInit
  <1>2. Inv /\ [BothNext]_bothVars => Inv'
    BY SafeStep, TripGoesOn, AccountStep
  <1>3. QED
    BY <1>1, <1>2, PTL DEF BothSpec

(***************************************************************************)
(* Every claim that fulfillment holds for a trip is on transport's books.  *)
(* A row is dropped only when its claim was refused, never sent, or        *)
(* released, and then no call that is still on its way can make it again,  *)
(* since the shipment has left the version that was asked for.  Needed     *)
(* are: leases longer than a worker's pause, snapshots that parse, and no  *)
(* dispatch of single shipments, which keeps a shipment from being claimed *)
(* for a while without changing its version.                               *)
(***************************************************************************)
THEOREM ClaimsAreAccounted ==
    ~LeaseExpires /\ Unreadable = {} /\ DirectRequests = {}
        => (BothSpec => []ClaimsAccounted)
  <1> SUFFICES ASSUME ~LeaseExpires, Unreadable = {}, DirectRequests = {}
               PROVE  BothSpec => []ClaimsAccounted
    OBVIOUS
  <1>1. SafeInv /\ AccountInv => ClaimsAccounted
    <2> SUFFICES ASSUME SafeInv, AccountInv, NEW s \in Shipments, ship[s].claim # NoRow
                 PROVE  Live(ship[s].claim) /\ ship[s].trip = TripOf(ship[s].claim)
      BY DEF ClaimsAccounted
    <2> DEFINE r == ship[s].claim
    <2>1. Books /\ FulP!ClaimsAgree
      BY DEF SafeInv, FulP!ResultInv, FulP!FulInv
    <2>2. PICK a \in Users : FulP!Receipted(r, s, ship[s].trip, a) \in claims
      BY <2>1 DEF FulP!ClaimsAgree
    <2> DEFINE k == FulP!Receipted(r, s, ship[s].trip, a)
    <2>3. k \in claims /\ k.id = r /\ k.trip = ship[s].trip /\ k.released = 0
      BY <2>2 DEF FulP!Receipted
    <2> HIDE DEF k
    <2>4. r \in Rows /\ member[r].state # "NONE" /\ k.trip = TripOf(r)
      BY <2>1, <2>3 DEF Books, ReceiptFits, TripOf
    <2>5. ~member[r].removed
      BY <2>3, <2>4 DEF AccountInv, RemovedFits, Closed
    <2>6. QED
      BY <2>3, <2>4, <2>5 DEF Live
  <1>2. QED
    BY <1>1, AccountsAlways, PTL

-----------------------------------------------------------------------------
(* Custody: a trip leaves with everything it holds *)

\* Until its dispatch is decided, everything aboard a trip is on its manifest.
AllActive(d, m, o) ==
    \A b \in Batches, r \in Rows :
        /\ d[b].status = "PENDING" /\ o[r[1]].trip = d[b].trip
        /\ m[r].state # "NONE" /\ ~m[r].removed
        => m[r].state = "ACTIVE"

ManifestInv ==
    /\ AllActive(td, member, op)
    /\ \A r \in Rows : member[r].state = "ACTIVE" => member[r].version > 0

\* Rows of a trip that awaits a decision are left alone.
LEMMA ManifestKept ==
    ASSUME ManifestInv,
           \A b \in Batches : td'[b].status = "PENDING" => /\ td[b].status = "PENDING"
                                                           /\ td'[b].trip = td[b].trip,
           \A r \in Rows :
              \/ /\ member'[r] = member[r]
                 /\ member[r].state # "NONE" => op'[r[1]].trip = op[r[1]].trip
              \/ /\ member'[r].state = "ACTIVE" => member'[r].version > 0
                 /\ \A b \in Batches : td[b].status = "PENDING" => td[b].trip # op'[r[1]].trip
    PROVE  ManifestInv'
  <1>1. \A r \in Rows : member'[r].state = "ACTIVE" => member'[r].version > 0
    BY DEF ManifestInv
  <1>2. AllActive(td', member', op')
    BY DEF ManifestInv, AllActive
  <1>3. QED
    BY <1>1, <1>2 DEF ManifestInv

\* The trip of an operation that exists is not changed.
OpTripsStay == \A j \in Operations : op[j].status # "NONE" => op'[j].trip = op[j].trip

\* A step that writes no membership and starts no dispatch.
LEMMA ManifestStill ==
    ASSUME SafeInv, ManifestInv, member' = member, OpTripsStay,
           \A b \in Batches : td'[b].status = "PENDING" => /\ td[b].status = "PENDING"
                                                           /\ td'[b].trip = td[b].trip
    PROVE  ManifestInv'
  <1>1. \A r \in Rows : member[r].state # "NONE" => op'[r[1]].trip = op[r[1]].trip
    BY AccountTables DEF RowFits, OpTripsStay
  <1>2. QED
    BY <1>1, ManifestKept

\* The operation's fields other than its trip are written.
LEMMA OpFieldWritten ==
    ASSUME SafeInv, NEW i, NEW o, o.trip = op[i].trip,
           op' = op \/ op' = [op EXCEPT ![i] = o]
    PROVE  OpTripsStay
  <1>1. op \in [Operations -> OpRow]
    BY AccountTables
  <1>2. QED
    BY <1>1 DEF OpTripsStay

\* A worker takes up, gives back, compensates or finalizes an operation.
LEMMA WorkerOps ==
    ASSUME SafeInv
    PROVE  /\ \A w \in Workers : TripWorker(w) \/ CrashWorker(w) => OpTripsStay /\ td' = td
           /\ \A i \in Operations : LeaseRunsOut(i) => OpTripsStay /\ td' = td
  <1>1. ASSUME NEW i \in Operations, NEW leased,
               op' = op \/ op' = [op EXCEPT ![i].leased = leased]
        PROVE  OpTripsStay
    <2>1. op[i] \in OpRow
      BY AccountTables
    <2> DEFINE o == [op[i] EXCEPT !.leased = leased]
    <2>2. o.trip = op[i].trip
      BY <2>1 DEF OpRow
    <2>3. op' = op \/ op' = [op EXCEPT ![i] = o]
      BY <1>1
    <2> HIDE DEF o
    <2>4. QED
      BY <2>2, <2>3, OpFieldWritten
  <1>2. \A w \in Workers : Busy(w) => worker[w].op \in Operations
    BY AccountTables DEF WorkerFits, Busy
  <1>3. ASSUME NEW w \in Workers, TripWorker(w) \/ CrashWorker(w)
        PROVE  OpTripsStay
    <2> DEFINE i == worker[w].op
    <2>1. CASE \E j \in Operations : Resume(w, j)
      BY <1>1, <2>1 DEF Resume
    <2>2. CASE SendClaim(w) \/ SendRelease(w) \/ PersistClaim(w) \/ PersistRelease(w)
               \/ JoinCompensation(w) \/ CrashWorker(w)
      BY <2>2 DEF SendClaim, SendRelease, Send, PersistClaim, PersistRelease,
                  JoinCompensation, CrashWorker, OpTripsStay
    <2>3. CASE GiveUp(w)
      BY <1>1, <1>2, <2>3 DEF GiveUp, Busy
    <2>4. CASE EndClaims(w) \/ EndReleases(w)
      <3>1. Busy(w) /\ (op' = op \/ op' = [op EXCEPT ![i].leased = FALSE])
        BY <2>4 DEF EndClaims, EndReleases, Stand, Finish, Busy
      <3>2. QED
        BY <1>1, <1>2, <3>1
    <2>5. CASE Compensate(w)
      <3> DEFINE o == [op[i] EXCEPT !.status = "COMPENSATING"]
      <3>1. op' = [op EXCEPT ![i] = o] /\ i \in Operations
        BY <1>2, <2>5 DEF Compensate, BeginCompensation, Busy
      <3>2. o.trip = op[i].trip
        BY <3>1, AccountTables DEF OpRow
      <3> HIDE DEF o
      <3>3. QED
        BY <3>1, <3>2, OpFieldWritten
    <2>6. CASE Finalize(w)
      <3> DEFINE o == [op[i] EXCEPT !.status = worker[w].answer, !.lock = FALSE,
                                    !.leased = FALSE]
      <3>1. op' = [op EXCEPT ![i] = o] /\ i \in Operations
        BY <1>2, <2>6, AccountTables DEF Finalize, Busy
      <3>2. o.trip = op[i].trip
        BY <3>1, AccountTables DEF OpRow
      <3> HIDE DEF o
      <3>3. QED
        BY <3>1, <3>2, OpFieldWritten
    <2>7. QED
      BY <1>3, <2>1, <2>2, <2>3, <2>4, <2>5, <2>6 DEF TripWorker
  <1>4. ASSUME NEW w \in Workers, TripWorker(w) \/ CrashWorker(w)
        PROVE  td' = td
    BY <1>4 DEF TripWorker, Resume, SendClaim, SendRelease, Send, GiveUp, PersistClaim,
       Compensate, BeginCompensation, PersistRelease, EndClaims, JoinCompensation,
       EndReleases, Finalize, CrashWorker
  <1>5. ASSUME NEW i \in Operations, LeaseRunsOut(i)
        PROVE  OpTripsStay /\ td' = td
    BY <1>1, <1>5 DEF LeaseRunsOut
  <1>6. QED
    BY <1>3, <1>4, <1>5

\* Couriers decide dispatches, and start none.
LEMMA CourierDispatches ==
    ASSUME SafeInv, NEW c \in Couriers,
           TripCourier(c) \/ Select(c) \/ AnswerBatch(c) \/ LoseCourier(c)
    PROVE  /\ UNCHANGED <<op, member>>
           /\ \A b \in Batches : td'[b].status = "PENDING" => /\ td[b].status = "PENDING"
                                                              /\ td'[b].trip = td[b].trip
  <1> DEFINE Kept == \A b \in Batches : td'[b].status = "PENDING" =>
                                            /\ td[b].status = "PENDING"
                                            /\ td'[b].trip = td[b].trip
  <1>1. UNCHANGED <<op, member>>
    BY DEF TripCourier, Select, AnswerBatch, BatchAnswered, TakeUp, SelectConflict,
           Submit, StoreReceipt, CommitTrip, ReadStage, RejectTripDispatch, LoseCourier
  <1>2. td \in [Batches -> DispatchRow]
    BY DispatchTables
  <1>3. td' = td => Kept
    OBVIOUS
  <1>4. ASSUME NEW a, NEW row, row.status = "PENDING" => td[a].status = "PENDING",
               row.trip = td[a].trip, td' = [td EXCEPT ![a] = row]
        PROVE  Kept
    BY <1>2, <1>4
  <1>5. ASSUME NEW a \in Batches, NEW status, NEW stage, Decided(a, status, stage)
        PROVE  Kept
    <2> DEFINE row == IF td[a].status = "PENDING"
                      THEN [td[a] EXCEPT !.status = status, !.stage = stage] ELSE td[a]
    <2>1. td' = [td EXCEPT ![a] = row]
      BY <1>5 DEF Decided
    <2>2. row.trip = td[a].trip /\ (row.status = "PENDING" => td[a].status = "PENDING")
      BY <1>2 DEF DispatchRow
    <2> HIDE DEF row
    <2>3. QED
      BY <1>4, <2>1, <2>2
  <1>6. courier[c].phase # "idle" => courier[c].batch \in Batches
    BY CourierHas DEF SafeInv
  <1>7. CASE StoreReceipt(c) \/ RejectTripDispatch(c)
    BY <1>3, <1>5, <1>6, <1>7 DEF StoreReceipt, RejectTripDispatch
  <1>8. CASE Submit(c)
    <2> DEFINE a == courier[c].batch
    <2> DEFINE row == [td[a] EXCEPT !.stage = IF td[a].status = "PENDING" /\ @ = "ACCEPTED"
                                              THEN "SUBMITTED" ELSE @]
    <2>1. a \in Batches /\ (td' = td \/ td' = [td EXCEPT ![a] = row])
      BY <1>2, <1>6, <1>8 DEF Submit
    <2>2. (row.status = "PENDING" => td[a].status = "PENDING") /\ row.trip = td[a].trip
      BY <1>2, <2>1 DEF DispatchRow
    <2> HIDE DEF row, a, Kept
    <2>3. Kept
      BY <1>3, <1>4, <2>1, <2>2
    <2>4. QED
      BY <1>1, <2>3 DEF Kept
  <1>9. CASE CommitTrip(c)
    <2> DEFINE a == courier[c].batch
               row == [td[a] EXCEPT !.status = "COMPLETED", !.stage = "COMPLETED"]
    <2>1. a \in Batches /\ (td' = td \/ td' = [td EXCEPT ![a] = row])
      BY <1>2, <1>6, <1>9 DEF CommitTrip
    <2>2. (row.status = "PENDING" => td[a].status = "PENDING") /\ row.trip = td[a].trip
      BY <1>2, <2>1 DEF DispatchRow
    <2> HIDE DEF row, a, Kept
    <2>3. Kept
      BY <1>3, <1>4, <2>1, <2>2
    <2>4. QED
      BY <1>1, <2>3 DEF Kept
  <1>10. CASE \/ \E b \in Batches : TakeUp(c, b)
              \/ SelectConflict(c) \/ ReadStage(c) \/ Select(c) \/ AnswerBatch(c)
              \/ LoseCourier(c)
    BY <1>3, <1>10 DEF TakeUp, SelectConflict, ReadStage, Select, AnswerBatch,
                       BatchAnswered, LoseCourier
  <1>11. QED
    BY <1>1, <1>7, <1>8, <1>9, <1>10 DEF TripCourier

\* A trip with an operation in hand has no dispatch to be decided.
LEMMA NoneAwaits ==
    ASSUME TripInv, NEW i \in Operations, op[i].lock, NEW b \in Batches,
           td[b].status = "PENDING"
    PROVE  td[b].trip # op[i].trip
  BY DEF TripInv, OneWriter

\* A command that makes or gives up rows of a trip.
LEMMA CommandManifest ==
    ASSUME SafeInv, ManifestInv, td' = td, NEW i \in Operations, NEW kind, NEW t, NEW u,
           Fresh(i), NewOp(i, kind, t, u),
           \A b \in Batches : td[b].status = "PENDING" => td[b].trip # t,
           \A r \in Rows : \/ member'[r] = member[r]
                           \/ /\ member'[r].state # "ACTIVE"
                              /\ r[1] = i \/ (TripOf(r) = t /\ member[r].state # "NONE")
    PROVE  ManifestInv'
  <1>1. /\ op[i].status = "NONE" /\ op'[i].trip = t
        /\ \A j \in Operations \ {i} : op'[j] = op[j]
    BY FreshOp, AccountTables DEF SafeInv, NewOp
  <1>2. \A r \in Rows : r[1] \in Operations /\ (member[r].state # "NONE" => r[1] # i)
    BY <1>1, AccountTables DEF RowFits
  <1>3. \A r \in Rows : /\ member[r].state # "NONE" => op'[r[1]].trip = op[r[1]].trip
                        /\ r[1] = i => op'[r[1]].trip = t
    BY <1>1, <1>2
  <1>4. \A r \in Rows : \/ member'[r] = member[r]
                        \/ member'[r].state # "ACTIVE" /\ op'[r[1]].trip = t
    BY <1>3 DEF TripOf
  <1>5. QED
    BY <1>3, <1>4, ManifestKept

\* remove and cancel
LEMMA ReleaseManifest ==
    ASSUME SafeInv, ManifestInv, td' = td, NEW t, NEW R \in SUBSET ActiveRows(t), NEW u,
           NEW i \in Operations, NEW kind, Fresh(i), NewOp(i, kind, t, u), Release(R, u, i),
           \A b \in Batches : td[b].status = "PENDING" => td[b].trip # t
    PROVE  ManifestInv'
  <1>1. ASSUME NEW r \in Rows
        PROVE  \/ member'[r] = member[r]
               \/ /\ member'[r].state # "ACTIVE"
                  /\ TripOf(r) = t /\ member[r].state # "NONE"
    <2>1. member[r] \in MemberRow
      BY AccountTables
    <2>2. r \in R => /\ member[r].state = "ACTIVE" /\ TripOf(r) = t
                     /\ member'[r] = Releasing(member[r], u, i)
      BY DEF Release, ActiveRows, Aboard
    <2>3. r \notin R => member'[r] = member[r]
      BY DEF Release
    <2>4. QED
      BY <2>1, <2>2, <2>3, ReleasingKeeps
  <1>2. QED
    BY <1>1, CommandManifest

\* The commands of planners.
LEMMA PlannerManifest ==
    ASSUME SafeInv, TripInv, ManifestInv, TripCommand
    PROVE  ManifestInv'
  <1>1. ASSUME NEW t \in Trips, NEW u \in Users, NEW i \in Operations, CancelTrip(t, u, i)
        PROVE  ManifestInv'
    <2>1. /\ td' = td /\ Fresh(i) /\ NewOp(i, "CANCEL", t, u)
          /\ Release(ActiveRows(t), u, i)
          /\ \A b \in Batches : td[b].status = "PENDING" => td[b].trip # t
      BY <1>1 DEF CancelTrip, NoPending
    <2>2. QED
      BY <2>1, ReleaseManifest
  <1>2. ASSUME NEW t \in Trips, NEW u \in Users, NEW i \in Operations,
               NEW S \in SUBSET Shipments, Remove(t, S, u, i)
        PROVE  ManifestInv'
    <2> DEFINE R == {r \in ActiveRows(t) : r[2] \in S}
    <2>1. /\ td' = td /\ Fresh(i) /\ NewOp(i, "REMOVE", t, u) /\ Release(R, u, i)
          /\ trip[t].status = "DRAFT"
      BY <1>2 DEF Remove
    <2>2. R \in SUBSET ActiveRows(t)
      OBVIOUS
    <2>3. \A b \in Batches : td[b].status = "PENDING" => td[b].trip # t
      BY <2>1, DraftIsFree
    <2> HIDE DEF R
    <2>4. QED
      BY <2>1, <2>2, <2>3, ReleaseManifest
  <1>3. ASSUME NEW t \in Trips,
               CreateTrip(t) \/ UpdateTrip(t) \/ Reopen(t) \/ \E route : Approve(t, route)
        PROVE  ManifestInv'
    <2>1. UNCHANGED <<op, member, td>>
      BY <1>3 DEF CreateTrip, UpdateTrip, Reopen, Approve
    <2>2. QED
      BY <2>1, ManifestStill DEF OpTripsStay
  <1>4. ASSUME NEW t \in Trips, NEW b \in Batches, StartTripDispatch(t, b)
        PROVE  ManifestInv'
    <2>1. /\ UNCHANGED <<op, member>> /\ Aboard(t) = ActiveRows(t)
          /\ td'[b].trip = t /\ \A d \in Batches \ {b} : td'[d] = td[d]
      BY <1>4, DispatchTables DEF StartTripDispatch, Selectable
    <2>2. \A r \in Rows : TripOf(r) = t /\ Live(r) => member[r].state = "ACTIVE"
      BY <2>1 DEF Aboard, ActiveRows
    <2>3. AllActive(td', member, op)
      BY <2>1, <2>2 DEF ManifestInv, AllActive, TripOf, Live
    <2>4. QED
      BY <2>1, <2>3 DEF ManifestInv
  <1>5. QED
    BY <1>1, <1>2, <1>3, <1>4 DEF TripCommand

\* add, and the consumer of ShipmentCanceled
LEMMA EventManifest ==
    ASSUME SafeInv, TripInv, ManifestInv
    PROVE  /\ \A t \in Trips, u \in Users, i \in Operations :
                 AddFromPool(t, u, i) => ManifestInv'
           /\ \A i \in Operations : TripLearnsCancel(i) => ManifestInv'
  <1>1. ASSUME NEW t \in Trips, NEW u \in Users, NEW i \in Operations, NEW S, NEW asked,
               Add(t, S, u, i, asked)
        PROVE  ManifestInv'
    <2>1. /\ td' = td /\ Fresh(i) /\ NewOp(i, "ADD", t, u) /\ trip[t].status = "DRAFT"
      BY <1>1 DEF Add
    <2>2. \A b \in Batches : td[b].status = "PENDING" => td[b].trip # t
      BY <2>1, DraftIsFree
    <2>3. ASSUME NEW r \in Rows
          PROVE  member'[r] = member[r] \/ (member'[r].state # "ACTIVE" /\ r[1] = i)
      <3>1. member[r] \in MemberRow
        BY AccountTables
      <3>2. QED
        BY <1>1, <3>1 DEF Add, MemberRow
    <2>4. QED
      BY <2>1, <2>2, <2>3, CommandManifest
  <1>2. ASSUME NEW i \in Operations, NEW s, NEW v \in Nat, ShipmentCanceled(s, v, i)
        PROVE  ManifestInv'
    <2>1. PICK r \in RowsFor(s) :
             /\ member[r].state = "ACTIVE" /\ NoPending(TripOf(r)) /\ Fresh(i)
             /\ NewOp(i, "SHIPMENT_CANCELED", TripOf(r), op[r[1]].actor)
             /\ member' = [member EXCEPT
                             ![r] = Releasing([@ EXCEPT !.version = v], op[r[1]].actor, i)]
             /\ td' = td
      BY <1>2 DEF ShipmentCanceled
    <2> DEFINE m == [member[r] EXCEPT !.version = v]
    <2>2. r \in Rows /\ member[r] \in MemberRow /\ member \in [Rows -> MemberRow]
      BY AccountTables DEF RowsFor
    <2>3. m \in MemberRow
      BY <2>2 DEF MemberRow
    <2>4. member' = [member EXCEPT ![r] = Releasing(m, op[r[1]].actor, i)]
      BY <2>1
    <2> HIDE DEF m
    <2>5. /\ member'[r].state = "RELEASE_PENDING"
          /\ \A q \in Rows : q # r => member'[q] = member[q]
      BY <2>2, <2>3, <2>4, ReleasingKeeps
    <2>6. \A b \in Batches : td[b].status = "PENDING" => td[b].trip # TripOf(r)
      BY <2>1 DEF NoPending
    <2>7. QED
      BY <2>1, <2>5, <2>6, CommandManifest
  <1>3. ASSUME NEW i \in Operations, TripLearnsCancel(i)
        PROVE  ManifestInv'
    <2>1. PICK e \in shipLog : ShipmentCanceled(e.order, e.version, i)
      BY <1>3 DEF TripLearnsCancel
    <2>2. e.version \in Nat
      BY EventVersion DEF SafeInv
    <2>3. QED
      BY <1>2, <2>1, <2>2
  <1>4. QED
    BY <1>1, <1>3 DEF AddFromPool

\* A worker stores an answer or compensates: the trip is in its hands.
LEMMA WriterManifest ==
    ASSUME SafeInv, TripInv, ManifestInv, NEW w \in Workers, TripWorker(w)
    PROVE  ManifestInv'
  <1> DEFINE i == worker[w].op
             p == worker[w].at.row
  <1>1. OpTripsStay /\ td' = td
    BY WorkerOps
  <1>2. \A r \in Rows : member[r].state # "NONE" => op'[r[1]].trip = op[r[1]].trip
    BY <1>1, AccountTables DEF RowFits, OpTripsStay
  <1>3. ASSUME Busy(w),
               \A r \in Rows : \/ member'[r] = member[r]
                               \/ /\ member[r].state # "NONE" /\ TripOf(r) = op[i].trip
                                  /\ member'[r].state = "ACTIVE" => member'[r].version > 0
        PROVE  ManifestInv'
    <2>1. i \in Operations /\ op[i].lock
      BY <1>3, AtWork
    <2>2. \A b \in Batches : td[b].status = "PENDING" => td[b].trip # op[i].trip
      BY <2>1, NoneAwaits
    <2>3. QED
      BY <1>1, <1>2, <1>3, <2>2, ManifestKept DEF TripOf
  <1>4. Busy(w) /\ worker[w].phase \in Calling => /\ p \in Rows /\ member[p].state # "NONE"
                                                  /\ TripOf(p) = op[i].trip
                                                  /\ member[p] \in MemberRow
    <2>1. Busy(w) => AtHome(worker[w])
      BY DEF TripInv, LeasesHeld
    <2>2. worker[w].phase \in Calling => p \in Rows
      BY AccountTables DEF WorkerFits, Lists, CallFits
    <2>3. QED
      BY <2>1, <2>2, AccountTables DEF AtHome, Placed, Calling
  <1>5. CASE PersistClaim(w)
    <2> DEFINE new == [member[p] EXCEPT !.state = "ACTIVE", !.version = member[p].asked + 1]
    <2>1. /\ Busy(w) /\ worker[w].phase \in Calling
          /\ member' = member \/ member' = [member EXCEPT ![p] = new]
      BY <1>5 DEF PersistClaim, Busy, Calling
    <2>2. new.version > 0
      BY <1>4, <2>1 DEF MemberRow
    <2> HIDE DEF new
    <2>3. \A r \in Rows : member'[r] = member[r] \/ (r = p /\ member'[r] = new)
      BY <1>4, <2>1, AccountTables
    <2>4. QED
      BY <1>3, <1>4, <2>1, <2>2, <2>3
  <1>6. CASE PersistRelease(w)
    <2> DEFINE new == [member[p] EXCEPT !.state = "RELEASED", !.removed = TRUE]
    <2>1. /\ Busy(w) /\ worker[w].phase \in Calling
          /\ member' = member \/ member' = [member EXCEPT ![p] = new]
      BY <1>6 DEF PersistRelease, Busy, Calling
    <2>2. new.state # "ACTIVE"
      BY <1>4, <2>1 DEF MemberRow
    <2> HIDE DEF new
    <2>3. \A r \in Rows : member'[r] = member[r] \/ (r = p /\ member'[r] = new)
      BY <1>4, <2>1, AccountTables
    <2>4. QED
      BY <1>3, <1>4, <2>1, <2>2, <2>3
  <1>7. CASE Compensate(w)
    <2>1. /\ Busy(w) /\ worker[w].phase \in Calling
          /\ member' = [r \in Rows |-> Compensated(Recorded(w, r), i)]
      BY <1>7 DEF Compensate, BeginCompensation, Busy, Calling
    <2>2. ASSUME NEW r \in Rows, member'[r] # member[r]
          PROVE  /\ member[r].state # "NONE" /\ TripOf(r) = op[i].trip
                 /\ member'[r].state = "ACTIVE" => member'[r].version > 0
      <3> DEFINE m == Recorded(w, r)
      <3>1. member[r] \in MemberRow /\ member'[r] = Compensated(m, i)
        BY <2>1, AccountTables
      <3>2. CASE r = p /\ worker[w].answer = "BAD_PLACE"
        <4>1. member[r].asked + 1 \in Nat /\ member[r].asked + 1 > 0
          BY <3>1 DEF MemberRow
        <4>2. m \in MemberRow /\ m.version > 0
          BY <3>1, <3>2, <4>1 DEF Recorded, MemberRow
        <4> HIDE DEF m
        <4>3. member'[r].state = "ACTIVE" => member'[r].version > 0
          BY <3>1, <4>2, ReleasingKeeps DEF Compensated, MemberRow
        <4>4. QED
          BY <1>4, <2>1, <3>2, <4>3
      <3>3. CASE ~(r = p /\ worker[w].answer = "BAD_PLACE")
        <4>1. m = member[r]
          BY <3>3 DEF Recorded
        <4>2. member[r].op = i /\ member[r].state \in {"ACTIVE", "CLAIM_PENDING"}
          BY <2>2, <3>1, <4>1 DEF Compensated
        <4>3. member'[r].state \in {"RELEASE_PENDING", "RELEASED"}
          BY <3>1, <4>1, <4>2, ReleasingKeeps DEF Compensated, MemberRow
        <4>4. TripOf(r) = op[i].trip
          BY <4>2 DEF TripInv, RowsAtHome
        <4>5. QED
          BY <4>2, <4>3, <4>4
      <3>4. QED
        BY <3>2, <3>3
    <2>3. QED
      BY <1>3, <2>1, <2>2
  <1>8. CASE ~(PersistClaim(w) \/ PersistRelease(w) \/ Compensate(w))
    <2>1. member' = member
      BY <1>8 DEF TripWorker, Resume, SendClaim, SendRelease, Send, GiveUp, EndClaims,
                  JoinCompensation, EndReleases, Finalize
    <2>2. QED
      BY <1>1, <2>1, ManifestStill
  <1>9. QED
    BY <1>5, <1>6, <1>7, <1>8

\* Every step of both services.
LEMMA ManifestStep ==
    ASSUME SafeInv, TripInv, ManifestInv, [BothNext]_bothVars
    PROVE  ManifestInv'
  <1>1. ASSUME UNCHANGED <<op, member, td>>
        PROVE  ManifestInv'
    BY <1>1, ManifestStill DEF OpTripsStay
  <1>2. CASE TripDriver
    BY <1>1, <1>2 DEF TripDriver, Deliver
  <1>3. ASSUME NEW c \in Couriers,
               TripCourier(c) \/ Select(c) \/ AnswerBatch(c) \/ LoseCourier(c)
        PROVE  ManifestInv'
    <2>1. OpTripsStay
      BY <1>3, CourierDispatches DEF OpTripsStay
    <2>2. QED
      BY <1>3, <2>1, CourierDispatches, ManifestStill
  <1>4. CASE TripFault
    <2>1. ASSUME NEW w \in Workers, CrashWorker(w)
          PROVE  ManifestInv'
      BY <1>1, <2>1 DEF CrashWorker
    <2>2. ASSUME NEW i \in Operations, LeaseRunsOut(i)
          PROVE  ManifestInv'
      <3>1. OpTripsStay /\ td' = td /\ member' = member
        BY <2>2, WorkerOps DEF LeaseRunsOut
      <3>2. QED
        BY <3>1, ManifestStill
    <2>3. QED
      BY <1>3, <1>4, <2>1, <2>2 DEF TripFault
  <1>5. ASSUME NEW w \in Workers, AnswerClaim(w) \/ AnswerRelease(w)
        PROVE  ManifestInv'
    BY <1>1, <1>5 DEF AnswerClaim, AnswerRelease, ClaimAnswered, ReleaseAnswered, Answered
  <1>6. CASE HandleLate
    BY <1>1, <1>6 DEF HandleLate
  <1>7. UNCHANGED tripVars => ManifestInv'
    BY <1>1 DEF tripVars
  <1>8. UNCHANGED bothVars => UNCHANGED tripVars
    BY DEF bothVars
  <1>9. QED
    BY <1>2, <1>3, <1>4, <1>5, <1>6, <1>7, <1>8, PlannerManifest, EventManifest,
       WriterManifest
    DEF BothNext, SelectReady, BatchArrives, ResultHandled, DecideBatch, DirectDispatch,
        CancelOrder

\* The initial state: no dispatch, no rows.
LEMMA ManifestInitially == BothInit => ManifestInv
  BY DEF BothInit, TripInit, ManifestInv, AllActive

\* Where the shipments are and who holds them, in terms of their rows.
Holder(sh) == [s \in Shipments |-> sh[s].trip]
Whereabouts(sh) == [s \in Shipments |-> PlaceOf(sh[s].status)]

\* A step that moves no shipment and hands none over.
LEMMA CustodyStill ==
    ASSUME \A s \in Shipments : ship'[s].status = ship[s].status /\ ship'[s].trip = ship[s].trip
    PROVE  UNCHANGED Cust!custodyVars
  BY DEF Cust!custodyVars

\* A trip that is still being loaded has not left.
LEMMA LoadingIsHere ==
    ASSUME SafeInv, TripInv, DispatchInv, GoneInv, NEW i \in Operations, op[i].lock,
           op[i].trip \in Trips, NEW q \in Shipments, ship[q].trip = op[i].trip
    PROVE  ship[q].status \notin FulP!Gone
  <1> SUFFICES ASSUME ship[q].status \in FulP!Gone
               PROVE  FALSE
    OBVIOUS
  <1>1. PICK b \in Batches : /\ td[b].trip = ship[q].trip
                             /\ td[b].stage \in {"SUBMITTED", "RECEIPTED", "COMPLETED"}
    BY GoneIsKnown, TripAssumption DEF LeavesWithTrip, Ful!Gone, FulP!Gone
  <1>2. td[b].status # "REJECTED"
    BY <1>1 DEF DispatchInv, BatchFits, StageFits
  <1>3. QED
    BY <1>1, <1>2 DEF TripInv, OneWriter

\* A claim that is granted was waited for.
LEMMA GrantedWaits ==
    ASSUME SafeInv, AccountInv, NEW r \in Rows, member[r].state # "NONE",
           Sent(late, worker, r), ClaimGranted(r)
    PROVE  op[r[1]].status = "PENDING"
  <1>1. /\ RowFits(member[r], op, claims, r) /\ WaitFits(member[r], op, r)
        /\ RemovedFits(member[r], ship[r[2]], claims, late, worker, r)
        /\ member[r] \in MemberRow /\ ship[r[2]].version \in Nat
    BY AccountTables DEF AccountInv
  <1>2. ~Known(claims, r) /\ ship[r[2]].version = member[r].asked
    BY DEF ClaimGranted, Ful!Claimable, Known
  <1>3. Waits(member[r])
    BY <1>1, <1>2 DEF RowFits, RemovedFits, Waits, MemberRow
  <1>4. QED
    BY <1>1, <1>3 DEF WaitFits

\* A claim: the trip takes the shipment.
LEMMA ClaimTakes ==
    ASSUME SafeInv, TripInv, AccountInv, DispatchInv, GoneInv, NEW r \in Rows,
           member[r].state # "NONE", Sent(late, worker, r), HandleClaim(r)
    PROVE  [Cust!CustodyNext]_(Cust!custodyVars)
  <1>1. CASE UNCHANGED fulVars
    BY <1>1, CustodyStill DEF fulVars
  <1>2. CASE ClaimGranted(r)
    <2> DEFINE s == r[2]
               t == TripOf(r)
               row == [ship[s] EXCEPT !.trip = t, !.claim = r]
    <2>1. /\ s \in Shipments /\ ship[s] \in FulP!ShipRow /\ r[1] \in Operations
          /\ ship \in [Shipments -> FulP!ShipRow]
      BY AccountTables DEF SafeInv, FulP!ResultInv, FulP!FulInv, FulP!FulfillmentTypeOK
    <2>2. op[r[1]].lock /\ t \in Trips
      <3>1. op[r[1]].status = "PENDING"
        BY <1>2, GrantedWaits
      <3>2. QED
        BY <2>1, <3>1 DEF TripInv, OpRows, Active, TripOf
    <2>3. /\ ship' = [ship EXCEPT ![s] = FulP!Bumped(row)]
          /\ ship[s].status = "READY_TO_SHIP" /\ ship[s].trip = NoTrip
      BY <1>2 DEF HandleClaim, ClaimGranted, Ful!Claim, Ful!Claimable, Ful!Write, Ful!Bumped,
                  FulP!Bumped
    <2>4. FulP!Bumped(row).trip = t /\ FulP!Bumped(row).status = ship[s].status
      BY <2>1 DEF FulP!Bumped, FulP!ShipRow
    <2>5. \A q \in Shipments : ship[q].trip = t => PlaceOf(ship[q].status)
                                                     \in {"warehouse", "withdrawn"}
      BY <2>1, <2>2, LoadingIsHere DEF TripOf, PlaceOf, FulP!Gone
    <2> HIDE DEF row, t, s
    <2>6. /\ ship'[s].trip = t /\ ship'[s].status = ship[s].status
          /\ \A q \in Shipments : q # s => ship'[q] = ship[q]
      BY <2>1, <2>3, <2>4
    <2> PICK x \in Trips : x = t
      BY <2>2
    <2>7. Cust!Take(s, x)
      <3>1. PlaceOf(ship[s].status) = "warehouse"
        BY <2>3 DEF PlaceOf
      <3>2. Holder(ship') = [Holder(ship) EXCEPT ![s] = t]
        BY <2>1, <2>6 DEF Holder
      <3>3. Whereabouts(ship') = Whereabouts(ship)
        BY <2>1, <2>6 DEF Whereabouts
      <3>4. QED
        BY <2>1, <2>3, <2>5, <3>1, <3>2, <3>3 DEF Cust!Take, Cust!HeldBy, Holder, Whereabouts
    <2>8. QED
      BY <2>1, <2>7 DEF Cust!CustodyNext
  <1>3. QED
    BY <1>1, <1>2 DEF HandleClaim

\* A release: the trip gives the shipment back.
LEMMA ReleaseGivesBack ==
    ASSUME SafeInv, NEW r \in Rows, NEW rel, HandleRelease(r, rel)
    PROVE  [Cust!CustodyNext]_(Cust!custodyVars)
  <1>1. CASE UNCHANGED fulVars
    BY <1>1, CustodyStill DEF fulVars
  <1>2. CASE ReleaseGranted(r, rel)
    <2> DEFINE s == r[2]
               row == [ship[s] EXCEPT !.trip = NoTrip, !.claim = NoRow]
    <2>1. /\ s \in Shipments /\ ship[s] \in FulP!ShipRow
          /\ ship \in [Shipments -> FulP!ShipRow]
      BY AccountTables DEF SafeInv, FulP!ResultInv, FulP!FulInv, FulP!FulfillmentTypeOK
    <2>2. /\ ship' = [ship EXCEPT ![s] = FulP!Bumped(row)]
          /\ ship[s].status \in {"READY_TO_SHIP", "CANCELED"}
      BY <1>2 DEF HandleRelease, ReleaseGranted, Ful!Release, Ful!Releasable, Ful!Write,
                  Ful!Bumped, FulP!Bumped
    <2>3. FulP!Bumped(row).trip = NoTrip /\ FulP!Bumped(row).status = ship[s].status
      BY <2>1 DEF FulP!Bumped, FulP!ShipRow
    <2> HIDE DEF row, s
    <2>4. /\ ship'[s].trip = NoTrip /\ ship'[s].status = ship[s].status
          /\ \A q \in Shipments : q # s => ship'[q] = ship[q]
      BY <2>1, <2>2, <2>3
    <2>5. Cust!GiveBack(s)
      <3>1. PlaceOf(ship[s].status) \in {"warehouse", "withdrawn"}
        BY <2>2 DEF PlaceOf
      <3>2. Holder(ship') = [Holder(ship) EXCEPT ![s] = NoTrip]
        BY <2>1, <2>4 DEF Holder
      <3>3. Whereabouts(ship') = Whereabouts(ship)
        BY <2>1, <2>4 DEF Whereabouts
      <3>4. QED
        BY <2>1, <3>1, <3>2, <3>3 DEF Cust!GiveBack, Holder, Whereabouts
    <2>6. QED
      BY <2>1, <2>5 DEF Cust!CustodyNext
  <1>3. QED
    BY <1>1, <1>2 DEF HandleRelease

\* Everything a trip holds is in the batch that leaves.
LEMMA BatchIsManifest ==
    ASSUME SafeInv, TripInv, AccountInv, DispatchInv, ManifestInv, NEW b \in Batches,
           dispatch[b].status = "PENDING", NEW s \in Shipments, ship[s].trip = dispatch[b].trip
    PROVE  dispatch[b].child[s] # NoRequest
  <1> DEFINE r == ship[s].claim
             t == td[b].trip
  <1>1. BatchFits(td[b], dispatch[b], late, courier, b) /\ td[b] \in DispatchRow
    BY DispatchTables DEF DispatchInv
  <1>2. /\ td[b].status = "PENDING" /\ dispatch[b].trip = t
        /\ dispatch[b].child = ChildOf(b, td[b].load)
    BY <1>1 DEF BatchFits, StageFits, DispatchRow
  <1>3. t \in Trips /\ Load(t) = td[b].load
    BY <1>2 DEF TripInv, DispatchRows, PendingBound
  <1>4. ship[s].claim # NoRow /\ r \in Rows
    BY <1>2, <1>3, ShipRows, TripAssumption, TripFulfillmentAssumption DEF SafeInv
  <1>5. Live(r) /\ TripOf(r) = t /\ r[2] = s
    <2>1. Books /\ FulP!ClaimsAgree
      BY DEF SafeInv, FulP!ResultInv, FulP!FulInv
    <2>2. PICK a \in Users : FulP!Receipted(r, s, ship[s].trip, a) \in claims
      BY <1>4, <2>1 DEF FulP!ClaimsAgree
    <2> DEFINE k == FulP!Receipted(r, s, ship[s].trip, a)
    <2>3. /\ k \in claims /\ k.id = r /\ k.trip = ship[s].trip /\ k.released = 0
          /\ k.order = s
      BY <2>2 DEF FulP!Receipted
    <2> HIDE DEF k
    <2>4. r \in Rows /\ member[r].state # "NONE" /\ k.trip = TripOf(r) /\ s = r[2]
      BY <2>1, <2>3 DEF Books, ReceiptFits, TripOf
    <2>5. ~member[r].removed
      BY <2>3, <2>4 DEF AccountInv, RemovedFits, Closed
    <2>6. QED
      BY <1>2, <2>3, <2>4, <2>5 DEF Live
  <1>6. r \in ActiveRows(t)
    BY <1>2, <1>4, <1>5 DEF ManifestInv, AllActive, ActiveRows, Aboard, Live, TripOf
  <1>7. \A q \in ActiveRows(t) : member[q].version > 0
    BY DEF ManifestInv, ActiveRows, Aboard
  <1> HIDE DEF r, t
  <1>8. Load(t)[s] > 0
    <2> DEFINE q == CHOOSE q \in ActiveRows(t) : q[2] = s
    <2>1. \E p \in ActiveRows(t) : p[2] = s
      BY <1>5, <1>6
    <2>2. q \in ActiveRows(t)
      BY <2>1
    <2>3. Load(t)[s] = member[q].version
      BY <2>1 DEF Load
    <2>4. QED
      BY <1>7, <2>2, <2>3
  <1>9. td[b].load[s] > 0
    BY <1>3, <1>8
  <1>10. dispatch[b].child[s] = <<b, s>>
    BY <1>2, <1>9 DEF ChildOf
  <1>11. QED
    BY <1>10, TripFulfillmentAssumption

\* The batch of a trip leaves: the trip departs with everything it holds.
LEMMA BatchDeparts ==
    ASSUME SafeInv, TripInv, AccountInv, DispatchInv, ManifestInv, NEW b \in Batches,
           Ful!CommitBatch(b)
    PROVE  [Cust!CustodyNext]_(Cust!custodyVars)
  <1> DEFINE S == Ful!Members(dispatch[b].child)
             t == dispatch[b].trip
  <1>1. /\ dispatch[b].status = "PENDING" /\ S \subseteq Shipments
        /\ \A s \in S : ship[s].status = "READY_TO_SHIP" /\ ship[s].trip = t
        /\ ship' = [s \in Shipments |->
                      IF s \in S THEN FulP!Bumped([ship[s] EXCEPT !.status = "DISPATCHED"])
                      ELSE ship[s]]
    BY DEF Ful!CommitBatch, Ful!Bound, Ful!Members, Ful!Bumped, FulP!Bumped
  <1>2. \A s \in Shipments : ship[s].trip = t => s \in S
    BY <1>1, BatchIsManifest DEF Ful!Members
  <1>3. t \in Trips
    <2>1. BatchFits(td[b], dispatch[b], late, courier, b)
      BY DEF DispatchInv
    <2>2. td[b].status = "PENDING" /\ t = td[b].trip
      BY <1>1, <2>1, DispatchTables DEF BatchFits, StageFits, DispatchRow
    <2>3. QED
      BY <2>2 DEF TripInv, DispatchRows
  <1> HIDE DEF S, t
  <1>4. ASSUME NEW s \in Shipments
        PROVE  /\ s \in S => ship'[s].status = "DISPATCHED" /\ ship'[s].trip = ship[s].trip
               /\ s \notin S => ship'[s] = ship[s]
    <2>1. ship[s] \in FulP!ShipRow
      BY AccountTables
    <2>2. /\ FulP!Bumped([ship[s] EXCEPT !.status = "DISPATCHED"]).status = "DISPATCHED"
          /\ FulP!Bumped([ship[s] EXCEPT !.status = "DISPATCHED"]).trip = ship[s].trip
      BY <2>1 DEF FulP!Bumped, FulP!ShipRow
    <2>3. QED
      BY <1>1, <2>2
  <1>5. CASE S = {}
    BY <1>4, <1>5, CustodyStill
  <1>6. CASE S # {}
    <2>1. Cust!HeldBy(t) = S
      BY <1>1, <1>2 DEF Cust!HeldBy
    <2>2. \A s \in S : PlaceOf(ship[s].status) = "warehouse"
      BY <1>1 DEF PlaceOf
    <2>3. Holder(ship') = Holder(ship)
      BY <1>4 DEF Holder
    <2>4. Whereabouts(ship') = [s \in Shipments |-> IF s \in S THEN "road"
                                                    ELSE Whereabouts(ship)[s]]
      BY <1>1, <1>4 DEF Whereabouts, PlaceOf
    <2>5. Cust!Depart(t)
      BY <1>1, <1>6, <2>1, <2>2, <2>3, <2>4 DEF Cust!Depart, Holder, Whereabouts
    <2>6. QED
      BY <1>3, <2>5 DEF Cust!CustodyNext
  <1>7. QED
    BY <1>5, <1>6

\* An order is canceled: its shipment is withdrawn, or has left.
LEMMA CancelWithdraws ==
    ASSUME SafeInv, NEW s \in Shipments, CancelOrder(s)
    PROVE  [Cust!CustodyNext]_(Cust!custodyVars)
  <1> DEFINE row == [ship[s] EXCEPT !.status = "CANCELED"]
  <1>1. ship[s] \in FulP!ShipRow /\ ship \in [Shipments -> FulP!ShipRow]
    BY AccountTables DEF SafeInv, FulP!ResultInv, FulP!FulInv, FulP!FulfillmentTypeOK
  <1>2. \/ ship' = ship
        \/ ship' = [ship EXCEPT ![s] = FulP!Bumped(ship[s])]
        \/ /\ ship' = [ship EXCEPT ![s] = FulP!Bumped(row)]
           /\ ship[s].status \notin {"NONE", "CANCELED"} \cup FulP!Gone
    BY DEF CancelOrder, Ful!OrderCanceled, Ful!Write, Ful!Bumped, FulP!Bumped, Ful!Gone,
           FulP!Gone
  <1>3. /\ FulP!Bumped(row).status = "CANCELED" /\ FulP!Bumped(row).trip = ship[s].trip
        /\ FulP!Bumped(ship[s]).status = ship[s].status
        /\ FulP!Bumped(ship[s]).trip = ship[s].trip
    BY <1>1 DEF FulP!Bumped, FulP!ShipRow
  <1> HIDE DEF row
  <1>4. CASE ship' = ship \/ ship' = [ship EXCEPT ![s] = FulP!Bumped(ship[s])]
    <2>1. \A q \in Shipments : ship'[q].status = ship[q].status /\ ship'[q].trip = ship[q].trip
      BY <1>1, <1>3, <1>4
    <2>2. QED
      BY <2>1, CustodyStill
  <1>5. CASE /\ ship' = [ship EXCEPT ![s] = FulP!Bumped(row)]
             /\ ship[s].status \notin {"NONE", "CANCELED"} \cup FulP!Gone
    <2>1. /\ ship'[s].status = "CANCELED" /\ ship'[s].trip = ship[s].trip
          /\ \A q \in Shipments : q # s => ship'[q] = ship[q]
      BY <1>1, <1>3, <1>5
    <2>2. Cust!Withdraw(s)
      <3>1. PlaceOf(ship[s].status) = "warehouse" /\ PlaceOf("CANCELED") = "withdrawn"
        BY <1>5 DEF PlaceOf, FulP!Gone
      <3>2. Whereabouts(ship') = [Whereabouts(ship) EXCEPT ![s] = "withdrawn"]
        BY <2>1, <3>1 DEF Whereabouts
      <3>3. Holder(ship') = Holder(ship)
        BY <2>1 DEF Holder
      <3>4. QED
        BY <3>1, <3>2, <3>3 DEF Cust!Withdraw, Holder, Whereabouts
    <2>3. QED
      BY <2>2 DEF Cust!CustodyNext
  <1>6. QED
    BY <1>2, <1>4, <1>5

\* A delivery result is applied: the shipment arrives.
LEMMA ResultArrives ==
    ASSUME SafeInv, NEW e \in ResultEvents, ResultHandled(e)
    PROVE  [Cust!CustodyNext]_(Cust!custodyVars)
  <1>1. CASE UNCHANGED ship
    BY <1>1, CustodyStill
  <1>2. CASE Ful!ResultWrite(e)
    <2> DEFINE s == e.order
               row == [ship[s] EXCEPT !.status = e.outcome]
    <2>1. /\ s \in Shipments /\ e.outcome \in {"DELIVERED", "FAILED"}
          /\ [f \in ResultEvents |-> f][e] = e
      BY DEF ResultEvents
    <2>2. ship[s] \in FulP!ShipRow /\ ship \in [Shipments -> FulP!ShipRow]
      BY <2>1, AccountTables DEF SafeInv, FulP!ResultInv, FulP!FulInv, FulP!FulfillmentTypeOK
    <2>3. ship' = [ship EXCEPT ![s] = FulP!Bumped(row)] /\ e \in applying
      BY <1>2, <2>1 DEF Ful!ResultWrite, Ful!Write, Ful!Bumped, FulP!Bumped
    <2>4. ship[s].status = "DISPATCHED"
      BY <2>1, <2>3 DEF SafeInv, FulP!ResultInv, FulP!ReadStands
    <2>5. FulP!Bumped(row).status = e.outcome /\ FulP!Bumped(row).trip = ship[s].trip
      BY <2>2 DEF FulP!Bumped, FulP!ShipRow
    <2> HIDE DEF s, row
    <2>6. /\ ship'[s].status = e.outcome /\ ship'[s].trip = ship[s].trip
          /\ \A q \in Shipments : q # s => ship'[q] = ship[q]
      BY <2>1, <2>2, <2>3, <2>5
    <2>7. Cust!Arrive(s, e.outcome)
      <3>1. PlaceOf(ship[s].status) = "road" /\ PlaceOf(e.outcome) = e.outcome
        BY <2>1, <2>4 DEF PlaceOf
      <3>2. Whereabouts(ship') = [Whereabouts(ship) EXCEPT ![s] = e.outcome]
        BY <2>1, <2>6, <3>1 DEF Whereabouts
      <3>3. Holder(ship') = Holder(ship)
        BY <2>1, <2>6 DEF Holder
      <3>4. QED
        BY <2>1, <3>1, <3>2, <3>3 DEF Cust!Arrive, Holder, Whereabouts
    <2>8. \E outcome \in Cust!Outcome : Cust!Arrive(s, outcome)
      BY <2>1, <2>7 DEF Cust!Outcome
    <2>9. Cust!CustodyNext
      BY <2>1, <2>8 DEF Cust!CustodyNext
    <2>10. QED
      BY <2>9
  <1>3. QED
    BY <1>1, <1>2 DEF ResultHandled, Ful!HandleResult, Ful!ResultDuplicate,
       Ful!ResultConflict, Ful!ResultMisplaced, Ful!ResultDefer, Ful!ResultRead,
       Ful!ResultAbort, Ful!Receipt

\* Every step of both services is a step of Custody, or none.
LEMMA CustodyStep ==
    ASSUME DirectRequests = {}, SafeInv, TripInv, AccountInv, DispatchInv, GoneInv, ManifestInv,
           [BothNext]_bothVars
    PROVE  [Cust!CustodyNext]_(Cust!custodyVars)
  <1>1. UNCHANGED ship => [Cust!CustodyNext]_(Cust!custodyVars)
    BY CustodyStill
  <1>2. UNCHANGED fulVars => UNCHANGED ship
    BY DEF fulVars
  <1>3. ASSUME NEW w \in Workers, AnswerClaim(w)
        PROVE  [Cust!CustodyNext]_(Cust!custodyVars)
    <2> DEFINE r == worker[w].at.row
    <2>1. worker[w].phase = "claiming" /\ HandleClaim(r)
      BY <1>3 DEF AnswerClaim
    <2>2. /\ worker[w].at \in Call /\ worker[w].at.kind = "claim"
          /\ r \in Rows /\ member[r].state # "NONE"
      BY <2>1, AccountTables DEF WorkerFits, Calling, Claiming, Lists, CallFits
    <2>3. worker[w].at = ClaimCall(r)
      BY <2>2 DEF Call, ClaimCall
    <2>4. Sent(late, worker, r)
      BY <2>1, <2>3 DEF Sent
    <2> PICK q \in Rows : q = r
      BY <2>2
    <2>5. HandleClaim(q) /\ member[q].state # "NONE" /\ Sent(late, worker, q)
      BY <2>1, <2>2, <2>4
    <2>6. QED
      BY <2>5, ClaimTakes
  <1>4. ASSUME NEW w \in Workers, AnswerRelease(w)
        PROVE  [Cust!CustodyNext]_(Cust!custodyVars)
    <2>1. worker[w].phase = "releasing" /\ HandleRelease(worker[w].at.row, worker[w].at.rel)
      BY <1>4 DEF AnswerRelease
    <2>2. worker[w].at.row \in Rows
      BY <2>1, AccountTables DEF WorkerFits, Calling, Claiming, Lists, CallFits
    <2>3. QED
      BY <2>1, <2>2, ReleaseGivesBack
  <1>5. CASE HandleLate
    <2>1. PICK call \in late :
              CASE call.kind = "claim"   -> HandleClaim(call.row)
                [] call.kind = "release" -> HandleRelease(call.row, call.rel)
                [] OTHER                 -> HandleBatch(call.batch)
      BY <1>5 DEF HandleLate
    <2>2. call \in LateCall /\ LateFits(member, td, call)
      BY AccountTables DEF SafeInv, Books
    <2>3. CASE call.kind = "claim"
      <3>1. /\ HandleClaim(call.row) /\ call.row \in Rows
            /\ member[call.row].state # "NONE" /\ call = ClaimCall(call.row)
        BY <2>1, <2>2, <2>3 DEF LateFits, CallFits, LateCall, Call, ClaimCall
      <3>2. Sent(late, worker, call.row)
        BY <3>1 DEF Sent
      <3>3. QED
        BY <3>1, <3>2, ClaimTakes
    <2>4. CASE call.kind = "release"
      <3>1. HandleRelease(call.row, call.rel) /\ call.row \in Rows
        BY <2>1, <2>2, <2>4 DEF LateFits, CallFits
      <3>2. QED
        BY <3>1, ReleaseGivesBack
    <2>5. CASE call.kind \notin {"claim", "release"}
      <3>1. HandleBatch(call.batch)
        BY <2>1, <2>5
      <3>2. UNCHANGED ship
        BY <3>1 DEF HandleBatch, StartBatch, Ful!StartBatch, fulVars
      <3>3. QED
        BY <1>1, <3>2
    <2>6. QED
      BY <2>3, <2>4, <2>5
  <1>6. ASSUME NEW b \in Batches, DecideBatch(b)
        PROVE  [Cust!CustodyNext]_(Cust!custodyVars)
    <2>1. CASE Ful!CommitBatch(b)
      BY <2>1, BatchDeparts
    <2>2. CASE ~Ful!CommitBatch(b)
      <3>1. UNCHANGED ship
        BY <1>6, <2>2 DEF DecideBatch, Ful!StoreDecision, Ful!RejectBatch
      <3>2. QED
        BY <1>1, <3>1
    <2>3. QED
      BY <2>1, <2>2
  <1>7. ASSUME NEW s \in Shipments, DirectDispatch(s) \/ CancelOrder(s)
        PROVE  [Cust!CustodyNext]_(Cust!custodyVars)
    BY <1>7, CancelWithdraws DEF DirectDispatch
  <1>8. ASSUME NEW c \in Couriers, BatchArrives(c)
        PROVE  UNCHANGED ship
    BY <1>8 DEF BatchArrives, StartBatch, Ful!StartBatch
  <1>9. CASE UNCHANGED bothVars
    BY <1>1, <1>2, <1>9 DEF bothVars
  <1>10. QED
    BY <1>1, <1>2, <1>3, <1>4, <1>5, <1>6, <1>7, <1>8, <1>9, ResultArrives
    DEF BothNext, SelectReady, AnswerBatch, AddFromPool, TripLearnsCancel

\* The initial state of Custody.
LEMMA CustodyInitially == BothInit => Cust!CustodyInit
  BY DEF BothInit, Cust!CustodyInit, PlaceOf

(***************************************************************************)
(* Together the two services keep the promise of module Custody.  A claim  *)
(* that is granted takes the shipment for a trip that has not left, since  *)
(* its operation still holds the trip; the batch that leaves is everything *)
(* the trip holds, since what fulfillment holds for it is on transport's   *)
(* books and all of that was selected; and a release is carried out only   *)
(* before.  Calls may be lost, repeated and handled late throughout.       *)
(***************************************************************************)
THEOREM TripsKeepCustody ==
    ~LeaseExpires /\ OneCourier /\ Unreadable = {} /\ DirectRequests = {}
        => (BothSpec => ImplementsCustody)
  <1> SUFFICES ASSUME ~LeaseExpires, OneCourier, Unreadable = {}, DirectRequests = {}
               PROVE  BothSpec => ImplementsCustody
    OBVIOUS
  <1> DEFINE Inv == /\ SafeInv /\ TripInv /\ AccountInv
                    /\ DispatchInv /\ GoneInv /\ ManifestInv
  <1>1. BothInit => Inv /\ Cust!CustodyInit
    BY SafeInitially, TripInitially, AccountInitially, DispatchInitially, GoneInitially,
       ManifestInitially, CustodyInitially
    DEF BothInit
  <1>2. Inv /\ [BothNext]_bothVars => Inv'
    BY SafeStep, TripGoesOn, AccountStep, DispatchKept, GoneStep, ManifestStep
  <1>3. Inv /\ [BothNext]_bothVars => [Cust!CustodyNext]_(Cust!custodyVars)
    BY CustodyStep
  <1>4. QED
    BY <1>1, <1>2, <1>3, PTL DEF BothSpec, ImplementsCustody, Cust!CustodySpec
=============================================================================
