----------------------------- MODULE TripProofs -----------------------------
(***************************************************************************)
(* Proofs about the transport-service, for any number of trips, shipments, *)
(* planners, operations, dispatches, workers and couriers and for any      *)
(* answers of the fulfillment-service, as long as a lease does not run out *)
(* under a busy worker.  The inductive invariant says who may change a     *)
(* trip: the one operation that holds its lock, carried out by the one     *)
(* worker that holds its lease, or the one dispatch that is not rejected.  *)
(***************************************************************************)
EXTENDS Trip, FiniteSetTheorems, TLAPS

Active == {"PENDING", "COMPENSATING"}

\* An operation belongs to a trip from the moment it is made, and holds the
\* lock exactly until it is finalized.
OpRows ==
    \A i \in Operations :
        /\ op[i].status = "NONE" => op[i].trip = NoTrip
        /\ op[i].status # "NONE" => op[i].trip \in Trips
        /\ op[i].lock <=> op[i].status \in Active

\* A row is handled by operations of its own trip only.
RowsAtHome ==
    \A r \in Rows :
        member[r].state # "NONE" =>
            /\ TripOf(r) \in Trips
            /\ member[r].op \in Operations
            /\ op[member[r].op].trip = TripOf(r)

\* A row that operation i handles.
Placed(r, i) == member[r].state # "NONE" /\ TripOf(r) = op[i].trip

\* The rows a worker in state x has read belong to the trip of its operation.
AtHome(x) ==
    /\ \A call \in x.todo : Placed(call.row, x.op)
    /\ x.phase \in {"claiming", "claimed", "releasing", "released"} =>
          x.at \in Call /\ Placed(x.at.row, x.op)

\* A busy worker holds the lease of its operation alone.
LeasesHeld ==
    \A w \in Workers :
        /\ worker[w].phase = "idle" => worker[w] = Idle
        /\ Busy(w) => /\ worker[w].op \in Operations
                      /\ op[worker[w].op].leased
                      /\ op[worker[w].op].status \in Active
                      /\ AtHome(worker[w])
        /\ worker[w].phase = "finish" => worker[w].answer \in {"COMPLETED", "REJECTED"}
        /\ \A x \in Workers : Busy(w) /\ Busy(x) /\ worker[w].op = worker[x].op => w = x

\* At most one operation holds the lock of a trip, and none while a dispatch
\* may still be granted or the trip is under way; of the dispatches of a trip
\* at most one is not rejected.
OneWriter ==
    /\ \A i, j \in Operations :
          op[i].lock /\ op[j].lock /\ op[i].trip = op[j].trip => i = j
    /\ \A i \in Operations, b \in Batches :
          op[i].lock /\ td[b].trip = op[i].trip => td[b].status = "REJECTED"
    /\ \A b, d \in Batches :
          /\ td[b].trip = td[d].trip /\ td[b].trip # NoTrip
          /\ td[b].status # "REJECTED" /\ td[d].status # "REJECTED"
          => b = d

DispatchRows ==
    /\ \A b \in Batches : /\ td[b].status = "NONE" => td[b].trip = NoTrip
                          /\ td[b].status # "NONE" => td[b].trip \in Trips
    /\ \A c \in Couriers : courier[c].phase # "idle" => courier[c].batch \in Batches

\* From the moment it is accepted a dispatch keeps hold of its trip.
PendingBound ==
    \A b \in Batches : td[b].status = "PENDING"
        => BoundTrip(td[b]) /\ Load(td[b].trip) = td[b].load

\* A trip whose dispatch is completed is under way or has been.
Departed ==
    \A b \in Batches : td[b].status = "COMPLETED"
        => trip[td[b].trip].status \in {"IN_PROGRESS", "COMPLETED"}

\* The inductive invariant.
TripInv ==
    /\ TripTypeOK /\ OpRows /\ RowsAtHome /\ LeasesHeld
    /\ OneWriter /\ DispatchRows /\ PendingBound /\ Departed

-----------------------------------------------------------------------------
(* What a dispatch is bound to, as a function of the tables *)

RowsIn(m, o, t) == {r \in Rows : /\ o[r[1]].trip = t
                                 /\ m[r].state # "NONE" /\ ~m[r].removed
                                 /\ m[r].state = "ACTIVE"}

LoadIn(m, o, t) == [s \in Shipments |-> IF \E r \in RowsIn(m, o, t) : r[2] = s
                                        THEN m[CHOOSE r \in RowsIn(m, o, t) : r[2] = s].version
                                        ELSE 0]

BoundIn(tr, m, o, d) ==
    /\ tr[d.trip].status = "APPROVED" /\ tr[d.trip].version = d.version
    /\ tr[d.trip].plan = d.plan
    /\ LoadIn(m, o, d.trip) = d.load

\* The selection of a trip depends on the two tables of its rows only.
LEMMA LoadIs == \A t : Load(t) = LoadIn(member, op, t)
  <1>1. \A t : ActiveRows(t) = RowsIn(member, op, t)
    BY DEF ActiveRows, RowsIn, Aboard, Live, TripOf
  <1>2. QED
    BY <1>1 DEF Load, LoadIn

AllBound == \A b \in Batches : td[b].status = "PENDING" => BoundIn(trip, member, op, td[b])

\* The same of all pending dispatches, before a step.
LEMMA BoundIs == PendingBound <=> AllBound
  BY LoadIs DEF PendingBound, AllBound, BoundIn, BoundTrip

\* ... after a step.
LEMMA BoundIsNext == PendingBound' <=> AllBound'
  BY BoundIs, PTL

\* A dispatch stays bound as long as nobody writes the row of its trip and
\* the rows aboard.
LEMMA BoundKept ==
    ASSUME NEW d, NEW tr, NEW tr2, NEW m, NEW m2, NEW o, NEW o2,
           tr2[d.trip] = tr[d.trip],
           \A r \in Rows : (o2[r[1]].trip = d.trip) <=> (o[r[1]].trip = d.trip),
           \A r \in Rows : o[r[1]].trip = d.trip => m2[r] = m[r],
           BoundIn(tr, m, o, d)
    PROVE  BoundIn(tr2, m2, o2, d)
  <1>1. RowsIn(m2, o2, d.trip) = RowsIn(m, o, d.trip)
    BY DEF RowsIn
  <1>2. ASSUME NEW s \in Shipments, \E r \in RowsIn(m, o, d.trip) : r[2] = s
        PROVE  m2[CHOOSE r \in RowsIn(m, o, d.trip) : r[2] = s]
                 = m[CHOOSE r \in RowsIn(m, o, d.trip) : r[2] = s]
    <2> DEFINE q == CHOOSE r \in RowsIn(m, o, d.trip) : r[2] = s
    <2>1. q \in RowsIn(m, o, d.trip)
      BY <1>2
    <2>2. q \in Rows /\ o[q[1]].trip = d.trip
      BY <2>1 DEF RowsIn
    <2>3. QED
      BY <2>2
  <1>3. LoadIn(m2, o2, d.trip) = LoadIn(m, o, d.trip)
    BY <1>1, <1>2 DEF LoadIn
  <1>4. QED
    BY <1>3 DEF BoundIn

\* A step of somebody who owns trip t, none of whose dispatches is pending,
\* leaves the pending dispatches bound.
LEMMA OthersBound ==
    ASSUME TripInv, NEW t \in Trips,
           \A b \in Batches : td[b].trip = t => td'[b].status # "PENDING",
           \A b \in Batches : td'[b].status = "PENDING" => td'[b] = td[b],
           \A x \in Trips \ {t} : trip'[x] = trip[x],
           \A r \in Rows, x \in Trips \ {t} : (op'[r[1]].trip = x) <=> (op[r[1]].trip = x),
           \A r \in Rows : op[r[1]].trip \in Trips \ {t} => member'[r] = member[r]
    PROVE  PendingBound'
  <1>1. SUFFICES ASSUME NEW b \in Batches, td'[b].status = "PENDING"
                 PROVE  BoundIn(trip', member', op', td'[b])
    BY BoundIsNext DEF AllBound
  <1>2. td'[b] = td[b] /\ td[b].status = "PENDING"
    BY <1>1
  <1>3. td[b].trip \in Trips \ {t}
    BY <1>1, <1>2 DEF TripInv, DispatchRows
  <1>4. BoundIn(trip, member, op, td[b])
    BY <1>2, BoundIs DEF TripInv, AllBound
  <1>5. BoundIn(trip', member', op', td[b])
    <2>1. trip'[td[b].trip] = trip[td[b].trip]
      BY <1>3
    <2>2. \A r \in Rows : (op'[r[1]].trip = td[b].trip) <=> (op[r[1]].trip = td[b].trip)
      BY <1>3
    <2>3. \A r \in Rows : op[r[1]].trip = td[b].trip => member'[r] = member[r]
      BY <1>3
    <2>4. QED
      BY <2>1, <2>2, <2>3, <1>4, BoundKept
  <1>6. QED
    BY <1>2, <1>5

-----------------------------------------------------------------------------
(* Commands that only write the row of a trip *)

\* A trip that is not approved or has no pending work has rejected
\* dispatches only.
LEMMA DraftIsFree ==
    ASSUME TripInv, NEW t \in Trips, trip[t].status \in {"NONE", "DRAFT"},
           NEW b \in Batches, td[b].trip = t
    PROVE  td[b].status = "REJECTED"
  <1>1. td[b].status \in {"NONE", "PENDING", "REJECTED", "COMPLETED"}
    BY DEF TripInv, TripTypeOK, DispatchRow
  <1>2. td[b].status # "NONE"
    BY TripAssumption DEF TripInv, DispatchRows
  <1>3. td[b].status # "PENDING"
    BY DEF TripInv, PendingBound, BoundTrip
  <1>4. td[b].status # "COMPLETED"
    BY DEF TripInv, Departed
  <1>5. QED
    BY <1>1, <1>2, <1>3, <1>4

\* Writing the row of a trip without a pending dispatch keeps the invariant.
LEMMA TripOnly ==
    ASSUME TripInv, NEW t \in Trips, NEW row \in TripRow,
           trip' = [trip EXCEPT ![t] = row],
           stop' \in [Trips -> [Shipments -> {"NONE", "PENDING", "DELIVERED", "FAILED"}]],
           \A b \in Batches : td[b].trip = t =>
              \/ td[b].status = "REJECTED"
              \/ td[b].status = "COMPLETED" /\ row.status \in {"IN_PROGRESS", "COMPLETED"},
           UNCHANGED <<op, member, td, worker, courier, late>>
    PROVE  TripInv'
  <1>1. TripTypeOK'
    BY DEF TripInv, TripTypeOK
  <1>2. OpRows' /\ RowsAtHome' /\ OneWriter' /\ DispatchRows'
    BY DEF TripInv, OpRows, RowsAtHome, OneWriter, DispatchRows, TripOf
  <1>3. LeasesHeld'
    BY DEF TripInv, LeasesHeld, AtHome, Placed, Busy, TripOf
  <1>4. PendingBound'
    <2>1. \A b \in Batches : td[b].trip = t => td'[b].status # "PENDING"
      OBVIOUS
    <2>2. \A x \in Trips \ {t} : trip'[x] = trip[x]
      BY DEF TripInv, TripTypeOK
    <2>3. QED
      BY <2>1, <2>2, OthersBound
  <1>5. Departed'
    BY DEF TripInv, Departed, TripTypeOK, DispatchRows
  <1>6. QED
    BY <1>1, <1>2, <1>3, <1>4, <1>5 DEF TripInv

\* The types of the tables.
LEMMA Tables ==
    ASSUME TripInv
    PROVE  /\ trip \in [Trips -> TripRow]
           /\ op \in [Operations -> OpRow]
           /\ member \in [Rows -> MemberRow]
           /\ stop \in [Trips -> [Shipments -> {"NONE", "PENDING", "DELIVERED", "FAILED"}]]
           /\ td \in [Batches -> DispatchRow]
           /\ worker \in [Workers -> WorkerRow]
           /\ courier \in [Couriers -> CourierRow]
           /\ late \subseteq LateCall
  BY DEF TripInv, TripTypeOK

\* The next version of a trip, and a trip without its plan, are rows.
LEMMA NextVersion ==
    ASSUME NEW row \in TripRow,
           NEW status \in {"DRAFT", "CANCELED"}
    PROVE  /\ Bumped(row) \in TripRow
           /\ Unplanned(row, status) \in TripRow
  <1>1. row.version + 1 \in Nat /\ <<>> \in Seq(Shipments)
    BY DEF TripRow
  <1>2. Bumped(row) \in TripRow
    BY <1>1 DEF TripRow, Bumped
  <1>3. Unplanned(row, status) \in TripRow
    BY <1>1 DEF TripRow, Unplanned
  <1>4. QED
    BY <1>2, <1>3

\* createTrip
LEMMA CreateStep ==
    ASSUME TripInv, NEW t \in Trips, CreateTrip(t)
    PROVE  TripInv'
  <1> DEFINE row == [trip[t] EXCEPT !.status = "DRAFT", !.version = 1]
  <1>1. row \in TripRow /\ trip' = [trip EXCEPT ![t] = row]
    BY Tables DEF TripRow, CreateTrip
  <1>2. UNCHANGED <<op, member, stop, td, worker, courier, late>>
        /\ \A b \in Batches : td[b].trip = t => td[b].status = "REJECTED"
    BY DraftIsFree DEF CreateTrip
  <1> HIDE DEF row
  <1>3. QED
    BY <1>1, <1>2, Tables, TripOnly

\* updateTrip
LEMMA UpdateStep ==
    ASSUME TripInv, NEW t \in Trips, UpdateTrip(t)
    PROVE  TripInv'
  <1> DEFINE row == Bumped(trip[t])
  <1>1. row \in TripRow
    BY Tables, NextVersion
  <1>2. trip' = [trip EXCEPT ![t] = row]
    BY Tables DEF UpdateTrip, Touch
  <1>3. UNCHANGED <<op, member, stop, td, worker, courier, late>>
        /\ \A b \in Batches : td[b].trip = t => td[b].status = "REJECTED"
    BY DraftIsFree DEF UpdateTrip
  <1> HIDE DEF row
  <1>4. QED
    BY <1>1, <1>2, <1>3, Tables, TripOnly

\* approve
LEMMA ApproveStep ==
    ASSUME TripInv, NEW t \in Trips,
           NEW route \in [1 .. Cardinality(Stops(t)) -> Stops(t)], Approve(t, route)
    PROVE  TripInv'
  <1> DEFINE row == [status |-> "APPROVED", version |-> trip[t].version + 1,
                     plan |-> trip[t].version + 1, route |-> route]
  <1>1. Cardinality(Stops(t)) \in Nat
    BY TripAssumption, FS_Subset, FS_CardinalityType DEF Stops
  <1>2. route \in Seq(Shipments)
    <2>1. Stops(t) \subseteq Shipments
      BY DEF Stops
    <2>2. route \in [1 .. Cardinality(Stops(t)) -> Shipments]
      BY <2>1
    <2>3. QED
      BY <1>1, <2>2
  <1>3. row \in TripRow
    BY <1>2, Tables DEF TripRow
  <1>4. trip' = [trip EXCEPT ![t] = row]
    BY Tables DEF Approve
  <1>5. UNCHANGED <<op, member, stop, td, worker, courier, late>>
        /\ \A b \in Batches : td[b].trip = t => td[b].status = "REJECTED"
    BY DEF Approve, NoPending
  <1> HIDE DEF row
  <1>6. QED
    BY <1>3, <1>4, <1>5, Tables, TripOnly

\* reopen
LEMMA ReopenStep ==
    ASSUME TripInv, NEW t \in Trips, Reopen(t)
    PROVE  TripInv'
  <1> DEFINE row == Unplanned(trip[t], "DRAFT")
  <1>1. row \in TripRow
    BY Tables, NextVersion
  <1>2. trip' = [trip EXCEPT ![t] = row]
    BY Tables DEF Reopen
  <1>3. UNCHANGED <<op, member, stop, td, worker, courier, late>>
        /\ \A b \in Batches : td[b].trip = t => td[b].status = "REJECTED"
    BY DEF Reopen, NoPending
  <1> HIDE DEF row
  <1>4. QED
    BY <1>1, <1>2, <1>3, Tables, TripOnly

\* A driver reports the result of a stop.
LEMMA DeliverStep ==
    ASSUME TripInv, NEW t \in Trips, NEW s \in Shipments,
           NEW outcome \in {"DELIVERED", "FAILED"}, Deliver(t, s, outcome)
    PROVE  TripInv'
  <1> DEFINE last == \A q \in Shipments \ {s} : stop[t][q] # "PENDING"
  <1> DEFINE row == [trip[t] EXCEPT !.version = @ + 1,
                                    !.status = IF last THEN "COMPLETED" ELSE @]
  <1>1. trip' = [trip EXCEPT ![t] = row]
    BY Tables DEF Deliver
  <1>2. trip[t].status = "IN_PROGRESS"
    BY DEF Deliver
  <1> HIDE DEF last
  <1>3. row \in TripRow /\ row.status \in {"IN_PROGRESS", "COMPLETED"}
    <2>1. trip[t] \in TripRow /\ trip[t].version + 1 \in Nat
      BY Tables DEF TripRow
    <2>2. CASE last
      BY <2>1, <2>2 DEF TripRow
    <2>3. CASE ~last
      BY <1>2, <2>1, <2>3 DEF TripRow
    <2>4. QED
      BY <2>2, <2>3
  <1>4. stop' \in [Trips -> [Shipments -> {"NONE", "PENDING", "DELIVERED", "FAILED"}]]
    BY Tables DEF Deliver
  <1>5. ASSUME NEW b \in Batches, td[b].trip = t
        PROVE  td[b].status \in {"REJECTED", "COMPLETED"}
    <2>1. td[b].status \in {"NONE", "PENDING", "REJECTED", "COMPLETED"}
      BY Tables DEF DispatchRow
    <2>2. td[b].status # "NONE"
      BY <1>5, TripAssumption DEF TripInv, DispatchRows
    <2>3. td[b].status # "PENDING"
      BY <1>2, <1>5 DEF TripInv, PendingBound, BoundTrip
    <2>4. QED
      BY <2>1, <2>2, <2>3
  <1>6. UNCHANGED <<op, member, td, worker, courier, late>>
    BY DEF Deliver
  <1> HIDE DEF row
  <1>7. \A b \in Batches : td[b].trip = t =>
           \/ td[b].status = "REJECTED"
           \/ td[b].status = "COMPLETED" /\ row.status \in {"IN_PROGRESS", "COMPLETED"}
    BY <1>3, <1>5
  <1>8. QED
    BY <1>1, <1>3, <1>4, <1>6, <1>7, TripOnly
-----------------------------------------------------------------------------
(* Commands that leave an operation behind *)

StopTable == [Trips -> [Shipments -> {"NONE", "PENDING", "DELIVERED", "FAILED"}]]

\* A fresh id has no operation yet, and its row is well formed.
LEMMA FreshRow ==
    ASSUME TripInv, NEW i \in Operations, Fresh(i),
           NEW kind \in {"ADD", "REMOVE", "CANCEL", "SHIPMENT_CANCELED"},
           NEW t \in Trips, NEW u \in Users \cup {NoUser}
    PROVE  /\ op[i].status = "NONE"
           /\ [kind |-> kind, trip |-> t, actor |-> u, status |-> "PENDING",
               lock |-> TRUE, leased |-> FALSE] \in OpRow
  <1>1. i >= i
    BY TripAssumption
  <1>2. QED
    BY <1>1 DEF Fresh, OpRow

\* A new operation of trip t, which has no other writer: the rows it takes
\* are rows of t or its own.
LEMMA NewOperation ==
    ASSUME TripInv, NEW t \in Trips, NEW i \in Operations, NEW row \in TripRow,
           NEW kind \in {"ADD", "REMOVE", "CANCEL", "SHIPMENT_CANCELED"},
           NEW u \in Users \cup {NoUser},
           Fresh(i), ~Locked(t), NewOp(i, kind, t, u),
           \A b \in Batches : td[b].trip = t => td[b].status = "REJECTED",
           trip' = [trip EXCEPT ![t] = row],
           stop' \in StopTable,
           member' \in [Rows -> MemberRow],
           \A r \in Rows : \/ member'[r] = member[r]
                           \/ /\ member'[r].op = i /\ member'[r].state # "NONE"
                              /\ r[1] = i \/ TripOf(r) = t,
           UNCHANGED <<td, worker, courier, late>>
    PROVE  TripInv'
  <1> DEFINE o == [kind |-> kind, trip |-> t, actor |-> u, status |-> "PENDING",
                   lock |-> TRUE, leased |-> FALSE]
  <1>1. op[i].status = "NONE" /\ o \in OpRow
    BY FreshRow
  <1>2. o.trip = t /\ o.status = "PENDING" /\ o.lock
    OBVIOUS
  <1>3. op' = [op EXCEPT ![i] = o]
    BY DEF NewOp
  <1> HIDE DEF o
  <1>4. /\ op[i].trip = NoTrip /\ t # NoTrip
        /\ \A j \in Operations \ {i} : op'[j] = op[j]
        /\ op'[i] = o
    BY <1>1, <1>3, Tables, TripAssumption DEF TripInv, OpRows
  <1>5. \A r \in Rows : r[1] \in Operations
    BY DEF Rows
  <1>6. TripTypeOK'
    <2>1. op' \in [Operations -> OpRow] /\ trip' \in [Trips -> TripRow]
      BY <1>1, <1>3, Tables
    <2>2. QED
      BY <2>1, Tables DEF TripTypeOK, StopTable
  <1>7. OpRows'
    BY <1>2, <1>4 DEF TripInv, OpRows, Active
  <1>8. RowsAtHome'
    <2>1. SUFFICES ASSUME NEW r \in Rows, member'[r].state # "NONE"
                   PROVE  /\ op'[r[1]].trip \in Trips
                          /\ member'[r].op \in Operations
                          /\ op'[member'[r].op].trip = op'[r[1]].trip
      BY DEF RowsAtHome, TripOf
    <2>2. CASE member'[r] = member[r]
      <3>1. /\ op[r[1]].trip \in Trips /\ member[r].op \in Operations
            /\ op[member[r].op].trip = op[r[1]].trip
        BY <2>1, <2>2 DEF TripInv, RowsAtHome, TripOf
      <3>2. r[1] # i /\ member[r].op # i
        BY <3>1, <1>4, TripAssumption
      <3>3. QED
        BY <2>2, <3>1, <3>2, <1>4, <1>5
    <2>3. CASE /\ member'[r].op = i
               /\ r[1] = i \/ TripOf(r) = t
      BY <1>2, <1>4, <1>5, <2>3 DEF TripOf
    <2>4. QED
      BY <2>2, <2>3
  <1>9. LeasesHeld'
    <2>1. ASSUME NEW w \in Workers, Busy(w)
          PROVE  /\ worker[w].op \in Operations /\ op'[worker[w].op] = op[worker[w].op]
                 /\ op[worker[w].op].trip \in Trips
      <3>1. worker[w].op \in Operations /\ op[worker[w].op].status \in Active
        BY <2>1 DEF TripInv, LeasesHeld
      <3>2. worker[w].op # i
        BY <3>1, <1>1 DEF Active
      <3>3. QED
        BY <3>1, <3>2, <1>4 DEF TripInv, OpRows, Active
    <2>2. ASSUME NEW r \in Rows, NEW j \in Operations,
                 op[j].trip \in Trips, op'[j] = op[j], Placed(r, j)
          PROVE  Placed(r, j)'
      <3>1. r[1] # i
        BY <2>2, <1>4, TripAssumption DEF Placed, TripOf
      <3>2. QED
        BY <2>2, <3>1, <1>4, <1>5 DEF Placed, TripOf
    <2>3. ASSUME NEW w \in Workers, Busy(w)
          PROVE  AtHome(worker[w])'
      <3>1. worker[w].todo \subseteq Call
        BY Tables DEF WorkerRow
      <3>2. \A call \in Call : call.row \in Rows
        BY DEF Call
      <3>3. AtHome(worker[w])
        BY <2>3 DEF TripInv, LeasesHeld
      <3>4. QED
        BY <3>1, <3>2, <3>3, <2>1, <2>2, <2>3 DEF AtHome
    <2>4. QED
      BY <2>1, <2>3 DEF TripInv, LeasesHeld, Busy
  <1>10. OneWriter'
    BY <1>2, <1>4 DEF TripInv, OneWriter, Locked
  <1>11. DispatchRows'
    BY DEF TripInv, DispatchRows
  <1>12. PendingBound'
    <2>1. \A b \in Batches : td[b].trip = t => td'[b].status # "PENDING"
      OBVIOUS
    <2>2. \A x \in Trips \ {t} : trip'[x] = trip[x]
      BY Tables
    <2>3. \A r \in Rows, x \in Trips \ {t} :
             (op'[r[1]].trip = x) <=> (op[r[1]].trip = x)
      BY <1>2, <1>4, <1>5, TripAssumption
    <2>4. \A r \in Rows : op[r[1]].trip \in Trips \ {t} => member'[r] = member[r]
      BY <1>4, TripAssumption DEF TripOf
    <2>5. QED
      BY <2>1, <2>2, <2>3, <2>4, OthersBound
  <1>13. Departed'
    <2>1. \A b \in Batches : td[b].status = "COMPLETED" => td[b].trip \in Trips \ {t}
      BY DEF TripInv, DispatchRows
    <2>2. \A x \in Trips \ {t} : trip'[x] = trip[x]
      BY Tables
    <2>3. QED
      BY <2>1, <2>2 DEF TripInv, Departed
  <1>14. QED
    BY <1>6, <1>7, <1>8, <1>9, <1>10, <1>11, <1>12, <1>13 DEF TripInv

\* A row with a release request is well formed.
LEMMA ReleasingRow ==
    ASSUME NEW m \in MemberRow, NEW a \in Users \cup {NoUser}, NEW i \in Operations
    PROVE  /\ Releasing(m, a, i) \in MemberRow
           /\ Releasing(m, a, i).op = i
           /\ Releasing(m, a, i).state = "RELEASE_PENDING"
  <1>1. m.version \in Nat /\ m.rel.try + 1 \in Nat
    BY DEF MemberRow, ReleaseRequest
  <1>2. [try |-> m.rel.try + 1, actor |-> a, version |-> m.version] \in ReleaseRequest
    BY <1>1 DEF ReleaseRequest
  <1>3. QED
    BY <1>2 DEF MemberRow, Releasing

\* add
LEMMA AddStep ==
    ASSUME TripInv, NEW t \in Trips, NEW S \in SUBSET Shipments, NEW u \in Users,
           NEW i \in Operations, NEW asked \in [Shipments -> Nat],
           Add(t, S, u, i, asked)
    PROVE  TripInv'
  <1> DEFINE row == Bumped(trip[t])
  <1>1. Fresh(i) /\ ~Locked(t) /\ NewOp(i, "ADD", t, u)
    BY DEF Add
  <1>2. row \in TripRow
    BY Tables, NextVersion
  <1>3. trip' = [trip EXCEPT ![t] = row]
    BY Tables DEF Add, Touch
  <1>4. \A b \in Batches : td[b].trip = t => td[b].status = "REJECTED"
    BY DraftIsFree DEF Add
  <1>5. ASSUME NEW r \in Rows
        PROVE  /\ member'[r] \in MemberRow
               /\ \/ member'[r] = member[r]
                  \/ /\ member'[r].op = i /\ member'[r].state # "NONE"
                     /\ r[1] = i \/ TripOf(r) = t
    <2>1. member[r] \in MemberRow
      BY Tables
    <2>2. asked[r[2]] \in Nat
      BY DEF Rows
    <2>3. QED
      BY <2>1, <2>2 DEF Add, MemberRow
  <1>6. member' \in [Rows -> MemberRow]
    BY <1>5 DEF Add
  <1>7. stop' \in StopTable /\ UNCHANGED <<td, worker, courier, late>>
    BY Tables DEF Add, StopTable
  <1> HIDE DEF row
  <1>8. QED
    BY <1>1, <1>2, <1>3, <1>4, <1>5, <1>6, <1>7, NewOperation

\* Commands that release rows of a trip without another writer.
LEMMA ReleaseStep ==
    ASSUME TripInv, NEW t \in Trips, NEW R \in SUBSET ActiveRows(t), NEW u \in Users,
           NEW i \in Operations, NEW kind \in {"REMOVE", "CANCEL"},
           Fresh(i), ~Locked(t),
           \A b \in Batches : td[b].trip = t => td[b].status = "REJECTED",
           NewOp(i, kind, t, u), Release(R, u, i), Touch(t),
           UNCHANGED <<stop, td, worker, courier, late>>
    PROVE  TripInv'
  <1> DEFINE row == Bumped(trip[t])
  <1>1. row \in TripRow
    BY Tables, NextVersion
  <1>2. trip' = [trip EXCEPT ![t] = row]
    BY Tables DEF Touch
  <1>3. ASSUME NEW r \in Rows
        PROVE  /\ member'[r] \in MemberRow
               /\ \/ member'[r] = member[r]
                  \/ /\ member'[r].op = i /\ member'[r].state # "NONE"
                     /\ r[1] = i \/ TripOf(r) = t
    <2>1. member[r] \in MemberRow
      BY Tables
    <2>2. r \in R => TripOf(r) = t
      BY DEF ActiveRows, Aboard
    <2>3. member'[r] = IF r \in R THEN Releasing(member[r], u, i) ELSE member[r]
      BY DEF Release
    <2>4. CASE r \in R
      BY <2>1, <2>2, <2>3, <2>4, ReleasingRow
    <2>5. CASE r \notin R
      BY <2>1, <2>3, <2>5
    <2>6. QED
      BY <2>4, <2>5
  <1>4. member' \in [Rows -> MemberRow]
    BY <1>3 DEF Release
  <1>5. stop' \in StopTable
    BY Tables DEF StopTable
  <1>6. \A r \in Rows : \/ member'[r] = member[r]
                        \/ /\ member'[r].op = i /\ member'[r].state # "NONE"
                           /\ r[1] = i \/ TripOf(r) = t
    BY <1>3
  <1>7. /\ kind \in {"ADD", "REMOVE", "CANCEL", "SHIPMENT_CANCELED"}
        /\ u \in Users \cup {NoUser}
    OBVIOUS
  <1> HIDE DEF row
  <1>8. QED
    BY <1>1, <1>2, <1>4, <1>5, <1>6, <1>7, NewOperation

\* remove
LEMMA RemoveStep ==
    ASSUME TripInv, NEW t \in Trips, NEW S \in SUBSET Shipments, NEW u \in Users,
           NEW i \in Operations, Remove(t, S, u, i)
    PROVE  TripInv'
  <1> DEFINE R == {r \in ActiveRows(t) : r[2] \in S}
  <1>1. R \in SUBSET ActiveRows(t)
    OBVIOUS
  <1>2. \A b \in Batches : td[b].trip = t => td[b].status = "REJECTED"
    BY DraftIsFree DEF Remove
  <1>3. /\ Fresh(i) /\ ~Locked(t) /\ NewOp(i, "REMOVE", t, u)
        /\ Release(R, u, i) /\ Touch(t)
        /\ UNCHANGED <<stop, td, worker, courier, late>>
    BY DEF Remove
  <1> HIDE DEF R
  <1>4. QED
    BY <1>1, <1>2, <1>3, ReleaseStep

\* cancel
LEMMA CancelStep ==
    ASSUME TripInv, NEW t \in Trips, NEW u \in Users, NEW i \in Operations,
           CancelTrip(t, u, i)
    PROVE  TripInv'
  <1>1. /\ Fresh(i) /\ ~Locked(t) /\ NewOp(i, "CANCEL", t, u)
        /\ Release(ActiveRows(t), u, i) /\ Touch(t)
        /\ UNCHANGED <<stop, td, worker, courier, late>>
        /\ \A b \in Batches : td[b].trip = t => td[b].status = "REJECTED"
    BY DEF CancelTrip, NoPending
  <1>2. QED
    BY <1>1, ReleaseStep

\* The order of a shipment aboard is canceled.
LEMMA ShipmentCanceledStep ==
    ASSUME TripInv, NEW s \in Shipments, NEW v \in Nat, NEW i \in Operations,
           ShipmentCanceled(s, v, i)
    PROVE  TripInv'
  <1>1. PICK r \in RowsFor(s) :
            /\ trip[TripOf(r)].status \in {"DRAFT", "APPROVED"}
            /\ NoPending(TripOf(r)) /\ Fresh(i)
            /\ NewOp(i, "SHIPMENT_CANCELED", TripOf(r), op[r[1]].actor)
            /\ member' = [member EXCEPT
                            ![r] = Releasing([@ EXCEPT !.version = v], op[r[1]].actor, i)]
            /\ stop' = [stop EXCEPT ![TripOf(r)][s] = "NONE"]
            /\ trip' = [trip EXCEPT ![TripOf(r)] = Unplanned(@, "DRAFT")]
            /\ UNCHANGED <<td, worker, courier, late>>
    BY DEF ShipmentCanceled
  <1> DEFINE t == TripOf(r)
             u == op[r[1]].actor
             row == Unplanned(trip[t], "DRAFT")
             q == [member[r] EXCEPT !.version = v]
  <1>2. r \in Rows /\ member[r].state # "NONE"
    BY DEF RowsFor, Live
  <1>3. t \in Trips /\ u \in Users \cup {NoUser}
    BY <1>2, Tables DEF TripInv, RowsAtHome, Rows, OpRow
  <1>4. Fresh(i) /\ NewOp(i, "SHIPMENT_CANCELED", t, u)
    BY <1>1
  <1>5. row \in TripRow
    BY <1>3, Tables, NextVersion
  <1>6. trip' = [trip EXCEPT ![t] = row]
    BY <1>1, <1>3, Tables
  <1>7. /\ ~Locked(t)
        /\ \A b \in Batches : td[b].trip = t => td[b].status = "REJECTED"
        /\ UNCHANGED <<td, worker, courier, late>>
    BY <1>1 DEF NoPending
  <1>8. q \in MemberRow
    BY <1>2, Tables DEF MemberRow
  <1>9. Releasing(q, u, i) \in MemberRow /\ Releasing(q, u, i).op = i
        /\ Releasing(q, u, i).state # "NONE"
    BY <1>3, <1>8, ReleasingRow
  <1>10. member' = [member EXCEPT ![r] = Releasing(q, u, i)]
    BY <1>1, <1>2, Tables
  <1>11. stop' \in StopTable
    BY <1>1, <1>3, Tables DEF StopTable
  <1>12. t = TripOf(r)
    OBVIOUS
  <1> HIDE DEF row, t, u, q
  <1>13. member' \in [Rows -> MemberRow]
    BY <1>2, <1>9, <1>10, Tables
  <1>14. ASSUME NEW x \in Rows
         PROVE  \/ member'[x] = member[x]
                \/ /\ member'[x].op = i /\ member'[x].state # "NONE"
                   /\ x[1] = i \/ TripOf(x) = t
    BY <1>2, <1>9, <1>10, <1>12, Tables
  <1>15. QED
    BY <1>3, <1>4, <1>5, <1>6, <1>7, <1>11, <1>13, <1>14, NewOperation

-----------------------------------------------------------------------------
(* Carrying out an operation *)

\* A worker in state x is at work on operation i, with rows of its trip.
WorksOn(x, i) ==
    /\ x.phase # "idle" /\ x.op = i
    /\ x.phase = "finish" => x.answer \in {"COMPLETED", "REJECTED"}
    /\ \A call \in x.todo : Placed(call.row, i)
    /\ x.phase \in {"claiming", "claimed", "releasing", "released"} =>
          x.at \in Call /\ Placed(x.at.row, i)

\* What the only worker w of an active operation i may write: the operation,
\* its trip, rows of that trip, and its own state.
LEMMA WorkerStep ==
    ASSUME TripInv, NEW w \in Workers, NEW i \in Operations, op[i].status \in Active,
           \A y \in Workers \ {w} : Busy(y) => worker[y].op # i,
           op' \in [Operations -> OpRow],
           \A j \in Operations \ {i} : op'[j] = op[j],
           op'[i].trip = op[i].trip, op'[i].status # "NONE",
           op'[i].lock <=> op'[i].status \in Active,
           worker' \in [Workers -> WorkerRow],
           \A y \in Workers \ {w} : worker'[y] = worker[y],
           \/ worker'[w] = Idle
           \/ WorksOn(worker'[w], i) /\ op'[i].leased /\ op'[i].status \in Active,
           trip' \in [Trips -> TripRow],
           \A t \in Trips \ {op[i].trip} : trip'[t] = trip[t],
           stop' \in StopTable,
           member' \in [Rows -> MemberRow],
           \A r \in Rows : \/ member'[r] = member[r]
                           \/ /\ member[r].state # "NONE" /\ member'[r].state # "NONE"
                              /\ member'[r].op = member[r].op
                              /\ TripOf(r) = op[i].trip,
           late' \subseteq LateCall,
           UNCHANGED <<td, courier>>
    PROVE  TripInv'
  <1>1. op[i].trip \in Trips /\ op[i].lock
    BY DEF TripInv, OpRows, Active
  <1>2. \A j \in Operations : op'[j].trip = op[j].trip /\ (op'[j].lock => op[j].lock)
    BY <1>1
  <1>3. \A r \in Rows : r[1] \in Operations
    BY DEF Rows
  <1>4. \A b \in Batches : td[b].trip = op[i].trip => td[b].status = "REJECTED"
    BY <1>1 DEF TripInv, OneWriter
  <1>5. TripTypeOK'
    BY Tables DEF TripTypeOK, StopTable
  <1>6. OpRows'
    BY <1>1 DEF TripInv, OpRows
  <1>7. RowsAtHome'
    BY <1>2, <1>3 DEF TripInv, RowsAtHome, TripOf
  <1>8. LeasesHeld'
    <2>1. ASSUME NEW r \in Rows, NEW j \in Operations, Placed(r, j)
          PROVE  Placed(r, j)'
      BY <2>1, <1>2, <1>3 DEF Placed, TripOf
    <2>2. \A call \in Call : call.row \in Rows
      BY DEF Call
    <2>3. ASSUME NEW y \in Workers \ {w}, Busy(y)
          PROVE  /\ worker[y].op \in Operations /\ worker[y].op # i
                 /\ op'[worker[y].op] = op[worker[y].op]
                 /\ AtHome(worker[y])'
      <3>1. worker[y].op \in Operations /\ worker[y].op # i /\ AtHome(worker[y])
        BY <2>3 DEF TripInv, LeasesHeld
      <3>2. worker[y].todo \subseteq Call
        BY Tables DEF WorkerRow
      <3>3. worker'[y] = worker[y]
        BY <2>3
      <3>4. AtHome(worker[y])'
        BY <2>1, <2>2, <3>1, <3>2, <3>3 DEF AtHome
      <3>5. QED
        BY <3>1, <3>4
    <2>4. ASSUME WorksOn(worker'[w], i)
          PROVE  AtHome(worker[w])'
      <3>1. worker'[w].todo \subseteq Call
        BY DEF WorkerRow
      <3>2. worker'[w].op = i
        BY <2>4 DEF WorksOn
      <3>3. QED
        BY <2>1, <2>2, <2>4, <3>1, <3>2 DEF AtHome, WorksOn
    <2>5. ASSUME NEW y \in Workers
          PROVE  /\ worker'[y].phase = "idle" => worker'[y] = Idle
                 /\ worker'[y].phase = "finish"
                      => worker'[y].answer \in {"COMPLETED", "REJECTED"}
                 /\ Busy(y)' => /\ worker'[y].op \in Operations
                                /\ op'[worker'[y].op].leased
                                /\ op'[worker'[y].op].status \in Active
                                /\ AtHome(worker[y])'
      <3>1. CASE y = w
        BY <2>4, <3>1 DEF WorksOn, Idle, Busy
      <3>2. CASE y # w
        BY <2>3, <3>2 DEF TripInv, LeasesHeld, Busy
      <3>3. QED
        BY <3>1, <3>2
    <2>6. ASSUME NEW y \in Workers, NEW z \in Workers, Busy(y)', Busy(z)',
                 worker'[y].op = worker'[z].op
          PROVE  y = z
      <3>1. \A v \in Workers : Busy(v)' /\ v = w => worker'[v].op = i
        BY DEF WorksOn, Idle, Busy
      <3>2. \A v \in Workers \ {w} : Busy(v)' => Busy(v) /\ worker'[v].op # i
        BY DEF Busy
      <3>3. CASE y # w /\ z # w
        BY <2>6, <3>2, <3>3 DEF TripInv, LeasesHeld
      <3>4. QED
        BY <2>6, <3>1, <3>2, <3>3
    <2>7. QED
      BY <2>5, <2>6 DEF LeasesHeld
  <1>9. OneWriter'
    BY <1>2 DEF TripInv, OneWriter
  <1>10. DispatchRows'
    BY DEF TripInv, DispatchRows
  <1>11. PendingBound'
    <2>1. \A b \in Batches : td[b].trip = op[i].trip => td'[b].status # "PENDING"
      BY <1>4
    <2>2. \A r \in Rows, t \in Trips \ {op[i].trip} :
             (op'[r[1]].trip = t) <=> (op[r[1]].trip = t)
      BY <1>2, <1>3
    <2>3. \A r \in Rows : op[r[1]].trip \in Trips \ {op[i].trip} => member'[r] = member[r]
      BY DEF TripOf
    <2>4. QED
      BY <1>1, <2>1, <2>2, <2>3, OthersBound
  <1>12. Departed'
    BY <1>4 DEF TripInv, Departed, DispatchRows
  <1>13. QED
    BY <1>5, <1>6, <1>7, <1>8, <1>9, <1>10, <1>11, <1>12 DEF TripInv

\* A busy worker is the only one of its operation, and holds its lease.
LEMMA AtWork ==
    ASSUME TripInv, NEW w \in Workers, Busy(w)
    PROVE  /\ worker[w].op \in Operations
           /\ op[worker[w].op].status \in Active /\ op[worker[w].op].leased
           /\ op[worker[w].op].lock /\ op[worker[w].op].status # "NONE"
           /\ op[worker[w].op].trip \in Trips
           /\ \A y \in Workers \ {w} : Busy(y) => worker[y].op # worker[w].op
           /\ WorksOn(worker[w], worker[w].op)
  <1>1. /\ worker[w].op \in Operations
        /\ op[worker[w].op].status \in Active /\ op[worker[w].op].leased
        /\ AtHome(worker[w])
        /\ \A y \in Workers \ {w} : Busy(y) => worker[y].op # worker[w].op
        /\ worker[w].phase = "finish" => worker[w].answer \in {"COMPLETED", "REJECTED"}
    BY DEF TripInv, LeasesHeld
  <1>2. /\ op[worker[w].op].lock /\ op[worker[w].op].status # "NONE"
        /\ op[worker[w].op].trip \in Trips
    BY <1>1 DEF TripInv, OpRows, Active
  <1>3. WorksOn(worker[w], worker[w].op)
    BY <1>1 DEF AtHome, WorksOn, Busy
  <1>4. QED
    BY <1>1, <1>2, <1>3

\* A process that is not at work.
LEMMA IdleRow == Idle \in WorkerRow
  BY DEF Idle, WorkerRow

\* A step of a busy worker that writes no table.
LEMMA WorkerMoves ==
    ASSUME TripInv, NEW w \in Workers, Busy(w), NEW x \in WorkerRow,
           WorksOn(x, worker[w].op),
           worker' = [worker EXCEPT ![w] = x],
           UNCHANGED <<trip, op, member, stop, td, courier, late>>
    PROVE  TripInv'
  <1>1. worker' \in [Workers -> WorkerRow] /\ worker'[w] = x
    BY Tables
  <1>2. \A y \in Workers \ {w} : worker'[y] = worker[y]
    BY Tables
  <1>3. stop' \in StopTable
    BY Tables DEF StopTable
  <1>4. op'[worker[w].op].lock <=> op'[worker[w].op].status \in Active
    BY AtWork
  <1>5. QED
    BY <1>1, <1>2, <1>3, <1>4, AtWork, Tables, WorkerStep

\* A worker that ends its work, with or without giving back the lease.
LEMMA WorkerStops ==
    ASSUME TripInv, NEW w \in Workers, Busy(w),
           \/ UNCHANGED op
           \/ op' = [op EXCEPT ![worker[w].op].leased = FALSE],
           worker' = [worker EXCEPT ![w] = Idle],
           late' = late \/ late' = late \cup InFlight(w),
           UNCHANGED <<trip, member, stop, td, courier>>
    PROVE  TripInv'
  <1>1. worker' \in [Workers -> WorkerRow] /\ worker'[w] = Idle
    BY Tables, IdleRow
  <1>2. \A y \in Workers \ {w} : worker'[y] = worker[y]
    BY Tables
  <1>3. stop' \in StopTable
    BY Tables DEF StopTable
  <1>4. /\ op' \in [Operations -> OpRow]
        /\ \A j \in Operations \ {worker[w].op} : op'[j] = op[j]
        /\ op'[worker[w].op].trip = op[worker[w].op].trip
        /\ op'[worker[w].op].status = op[worker[w].op].status
        /\ op'[worker[w].op].lock = op[worker[w].op].lock
    <2>1. CASE UNCHANGED op
      BY <2>1, Tables
    <2>2. CASE op' = [op EXCEPT ![worker[w].op].leased = FALSE]
      <3> DEFINE i == worker[w].op
                 o == [op[i] EXCEPT !.leased = FALSE]
      <3>1. i \in Operations /\ op[i] \in OpRow
        BY Tables, AtWork
      <3>2. o \in OpRow /\ o.trip = op[i].trip /\ o.status = op[i].status
            /\ o.lock = op[i].lock
        BY <3>1 DEF OpRow
      <3>3. op' = [op EXCEPT ![i] = o]
        BY <2>2
      <3> HIDE DEF i, o
      <3>4. /\ op' \in [Operations -> OpRow] /\ op'[i] = o
            /\ \A j \in Operations \ {i} : op'[j] = op[j]
        BY <3>1, <3>2, <3>3, Tables
      <3>5. QED
        BY <3>2, <3>4 DEF i
    <2>3. QED
      BY <2>1, <2>2
  <1>5. op'[worker[w].op].status # "NONE"
        /\ (op'[worker[w].op].lock <=> op'[worker[w].op].status \in Active)
    BY <1>4, AtWork
  <1>6. late' \subseteq LateCall
    <2>1. InFlight(w) \subseteq Call
      BY AtWork DEF InFlight, WorksOn
    <2>2. QED
      BY <2>1, Tables DEF LateCall
  <1>7. /\ \A t \in Trips \ {op[worker[w].op].trip} : trip'[t] = trip[t]
        /\ trip' \in [Trips -> TripRow] /\ member' \in [Rows -> MemberRow]
        /\ \A r \in Rows : member'[r] = member[r]
        /\ UNCHANGED <<td, courier>>
    BY Tables
  <1>8. QED
    BY <1>1, <1>2, <1>3, <1>4, <1>5, <1>6, <1>7, AtWork, WorkerStep

\* The calls for the rows of an operation.
LEMMA CallsOf ==
    ASSUME TripInv, NEW i \in Operations
    PROVE  /\ ClaimCalls(i) \in SUBSET Call
           /\ \A call \in ClaimCalls(i) : Placed(call.row, i)
           /\ ReleaseCalls(member, i) \in SUBSET Call
           /\ \A call \in ReleaseCalls(member, i) : Placed(call.row, i)
  <1>1. ASSUME NEW r \in Rows, member[r].op = i, member[r].state # "NONE"
        PROVE  Placed(r, i) /\ member[r].rel \in ReleaseRequest
    BY <1>1, Tables DEF TripInv, RowsAtHome, Placed, MemberRow
  <1>2. ASSUME NEW call \in ClaimCalls(i)
        PROVE  call \in Call /\ Placed(call.row, i)
    BY <1>1 DEF ClaimCalls, RowsOf, Call
  <1>3. ASSUME NEW call \in ReleaseCalls(member, i)
        PROVE  call \in Call /\ Placed(call.row, i)
    BY <1>1 DEF ReleaseCalls, Call
  <1>4. QED
    BY <1>2, <1>3

\* resume
LEMMA ResumeStep ==
    ASSUME TripInv, NEW w \in Workers, NEW i \in Operations, Resume(w, i)
    PROVE  TripInv'
  <1> DEFINE claims == [Idle EXCEPT !.op = i, !.phase = "claims", !.todo = ClaimCalls(i)]
             releases == [Idle EXCEPT !.op = i, !.phase = "releases",
                                      !.todo = ReleaseCalls(member, i)]
             o == [op[i] EXCEPT !.leased = TRUE]
  <1>1. /\ claims \in WorkerRow /\ WorksOn(claims, i)
        /\ releases \in WorkerRow /\ WorksOn(releases, i)
    BY CallsOf DEF Idle, WorkerRow, WorksOn
  <1>2. op[i].status \in Active /\ ~op[i].leased
    BY DEF Resume, Active
  <1>3. /\ o \in OpRow /\ o.leased
        /\ o.trip = op[i].trip /\ o.status = op[i].status /\ o.lock = op[i].lock
    BY Tables DEF OpRow
  <1>4. op' = [op EXCEPT ![i] = o]
    BY DEF Resume
  <1>5. \/ worker' = [worker EXCEPT ![w] = claims]
        \/ worker' = [worker EXCEPT ![w] = releases]
    BY DEF Resume
  <1>6. UNCHANGED <<trip, member, stop, td, courier, late>>
    BY DEF Resume
  <1> HIDE DEF claims, releases, o
  <1>7. /\ op' \in [Operations -> OpRow] /\ op'[i] = o
        /\ \A j \in Operations \ {i} : op'[j] = op[j]
    BY <1>3, <1>4, Tables
  <1>8. /\ worker' \in [Workers -> WorkerRow] /\ WorksOn(worker'[w], i)
        /\ \A y \in Workers \ {w} : worker'[y] = worker[y]
    BY <1>1, <1>5, Tables
  <1>9. \A y \in Workers \ {w} : Busy(y) => worker[y].op # i
    BY <1>2, AtWork
  <1>10. /\ op'[i].trip = op[i].trip /\ op'[i].status # "NONE"
         /\ op'[i].leased /\ op'[i].status \in Active
         /\ op'[i].lock <=> op'[i].status \in Active
    BY <1>2, <1>3, <1>7 DEF TripInv, OpRows, Active
  <1>11. /\ \A t \in Trips \ {op[i].trip} : trip'[t] = trip[t]
         /\ trip' \in [Trips -> TripRow] /\ member' \in [Rows -> MemberRow]
         /\ \A r \in Rows : member'[r] = member[r]
         /\ stop' \in StopTable /\ late' \subseteq LateCall
         /\ UNCHANGED <<td, courier>>
    BY <1>6, Tables DEF StopTable
  <1>12. QED
    BY <1>2, <1>7, <1>8, <1>9, <1>10, <1>11, WorkerStep

\* The worker turns to the next row.
LEMMA SendStep ==
    ASSUME TripInv, NEW w \in Workers, NEW from \in {"claims", "releases"},
           NEW to \in {"claiming", "releasing"}, Send(w, from, to)
    PROVE  TripInv'
  <1>1. PICK call \in worker[w].todo :
            worker' = [worker EXCEPT ![w].phase = to, ![w].at = call, ![w].todo = @ \ {call}]
    BY DEF Send
  <1> DEFINE x == [worker[w] EXCEPT !.phase = to, !.at = call, !.todo = @ \ {call}]
  <1>2. worker' = [worker EXCEPT ![w] = x]
    BY <1>1, Tables
  <1>3. Busy(w) /\ WorksOn(worker[w], worker[w].op)
    BY AtWork DEF Send, Busy
  <1>4. x \in WorkerRow /\ call \in Call
    BY Tables DEF WorkerRow
  <1>5. WorksOn(x, worker[w].op)
    BY <1>3, <1>4, Tables DEF WorksOn, WorkerRow
  <1>6. UNCHANGED <<trip, op, member, stop, td, courier, late>>
    BY DEF Send
  <1> HIDE DEF x
  <1>7. QED
    BY <1>2, <1>3, <1>4, <1>5, <1>6, WorkerMoves

\* The answer of fulfillment arrives.
LEMMA AnsweredStep ==
    ASSUME TripInv, NEW w \in Workers, NEW from, NEW to,
           <<from, to>> \in {<<"claiming", "claimed">>, <<"releasing", "released">>},
           NEW a \in {"CLAIMED", "BAD_PLACE", "UNREADABLE", "REFUSED", "RELEASED"},
           Answered(w, from, to, a)
    PROVE  TripInv'
  <1> DEFINE x == [worker[w] EXCEPT !.phase = to, !.answer = a]
  <1>1. /\ from \in {"claiming", "releasing"} /\ to \in {"claimed", "released"}
    OBVIOUS
  <1>2. worker' = [worker EXCEPT ![w] = x]
    BY Tables DEF Answered
  <1>3. Busy(w) /\ WorksOn(worker[w], worker[w].op) /\ worker[w].phase = from
    BY <1>1, AtWork DEF Answered, Busy
  <1>4. x \in WorkerRow
    <2>1. worker[w] \in WorkerRow
      BY Tables
    <2>2. QED
      BY <1>1, <2>1 DEF WorkerRow
  <1>5. WorksOn(x, worker[w].op)
    BY <1>1, <1>3, Tables DEF WorksOn, WorkerRow
  <1>6. UNCHANGED <<trip, op, member, stop, td, courier, late>>
    BY DEF Answered
  <1> HIDE DEF x
  <1>7. QED
    BY <1>2, <1>3, <1>4, <1>5, <1>6, WorkerMoves

\* The worker gives up, or dies.
LEMMA GiveUpStep ==
    ASSUME TripInv, NEW w \in Workers, GiveUp(w) \/ CrashWorker(w)
    PROVE  TripInv'
  <1>1. Busy(w)
    BY DEF GiveUp, CrashWorker, Busy
  <1>2. QED
    BY <1>1, WorkerStops DEF GiveUp, CrashWorker

\* A lease runs out; nobody is at work on the operation.
LEMMA LeaseRunsOutStep ==
    ASSUME TripInv, NEW i \in Operations, LeaseRunsOut(i), ~LeaseExpires
    PROVE  TripInv'
  <1> DEFINE o == [op[i] EXCEPT !.leased = FALSE]
  <1>1. /\ o \in OpRow
        /\ o.trip = op[i].trip /\ o.status = op[i].status /\ o.lock = op[i].lock
    <2>1. op[i] \in OpRow
      BY Tables
    <2>2. QED
      BY <2>1 DEF OpRow
  <1>2. op' = [op EXCEPT ![i] = o]
    BY DEF LeaseRunsOut
  <1>3. UNCHANGED <<trip, member, stop, td, worker, courier, late>>
    BY DEF LeaseRunsOut
  <1>4. \A w \in Workers : worker[w].op # i
    BY DEF LeaseRunsOut, Working
  <1> HIDE DEF o
  <1>5. /\ op' \in [Operations -> OpRow]
        /\ \A j \in Operations : op'[j].trip = op[j].trip /\ op'[j].lock = op[j].lock
                                 /\ op'[j].status = op[j].status
        /\ \A j \in Operations \ {i} : op'[j] = op[j]
    BY <1>1, <1>2, Tables
  <1>6. \A r \in Rows : r[1] \in Operations
    BY DEF Rows
  <1>7. TripTypeOK'
    BY <1>3, <1>5, Tables DEF TripTypeOK
  <1>8. OpRows' /\ OneWriter'
    BY <1>3, <1>5 DEF TripInv, OpRows, OneWriter
  <1>9. RowsAtHome'
    BY <1>3, <1>5, <1>6 DEF TripInv, RowsAtHome, TripOf
  <1>10. LeasesHeld'
    <2>1. \A r \in Rows, j \in Operations : Placed(r, j) => Placed(r, j)'
      BY <1>3, <1>5, <1>6 DEF Placed, TripOf
    <2>2. \A call \in Call : call.row \in Rows
      BY DEF Call
    <2>3. ASSUME NEW w \in Workers, Busy(w)
          PROVE  AtHome(worker[w])'
      <3>1. worker[w].op \in Operations /\ AtHome(worker[w])
        BY <2>3 DEF TripInv, LeasesHeld
      <3>2. worker[w].todo \subseteq Call
        BY Tables DEF WorkerRow
      <3>3. QED
        BY <1>3, <2>1, <2>2, <3>1, <3>2 DEF AtHome
    <2>4. QED
      BY <1>3, <1>4, <1>5, <2>3 DEF TripInv, LeasesHeld, Busy
  <1>11. DispatchRows' /\ Departed'
    BY <1>3 DEF TripInv, DispatchRows, Departed
  <1>12. PendingBound'
    <2>1. SUFFICES ASSUME NEW b \in Batches, td'[b].status = "PENDING"
                   PROVE  BoundIn(trip', member', op', td'[b])
      BY BoundIsNext DEF AllBound
    <2>2. BoundIn(trip, member, op, td[b]) /\ td'[b] = td[b]
      BY <1>3, <2>1, BoundIs DEF TripInv, AllBound
    <2>3. trip'[td[b].trip] = trip[td[b].trip]
      BY <1>3
    <2>4. \A r \in Rows : (op'[r[1]].trip = td[b].trip) <=> (op[r[1]].trip = td[b].trip)
      BY <1>5, <1>6
    <2>5. \A r \in Rows : op[r[1]].trip = td[b].trip => member'[r] = member[r]
      BY <1>3
    <2>6. QED
      BY <2>2, <2>3, <2>4, <2>5, BoundKept
  <1>13. QED
    BY <1>7, <1>8, <1>9, <1>10, <1>11, <1>12 DEF TripInv

\* The rows that the answers of fulfillment make are well formed.
LEMMA AnsweredRow ==
    ASSUME NEW m \in MemberRow
    PROVE  /\ [m EXCEPT !.state = "ACTIVE", !.version = m.asked + 1] \in MemberRow
           /\ [m EXCEPT !.state = "ACTIVE", !.version = m.asked + 1].op = m.op
           /\ [m EXCEPT !.state = "ACTIVE", !.version = m.asked + 1].state = "ACTIVE"
           /\ [m EXCEPT !.state = "RELEASED", !.removed = TRUE] \in MemberRow
           /\ [m EXCEPT !.state = "RELEASED", !.removed = TRUE].op = m.op
           /\ [m EXCEPT !.state = "RELEASED", !.removed = TRUE].state = "RELEASED"
  <1>1. m.asked + 1 \in Nat
    BY DEF MemberRow
  <1>2. QED
    BY <1>1 DEF MemberRow

\* Writing a stop.
LEMMA StopWritten ==
    ASSUME TripInv, NEW t \in Trips, NEW s \in Shipments, NEW v \in {"NONE", "PENDING"}
    PROVE  [stop EXCEPT ![t][s] = v] \in StopTable
  <1>1. [stop[t] EXCEPT ![s] = v]
           \in [Shipments -> {"NONE", "PENDING", "DELIVERED", "FAILED"}]
    BY Tables
  <1>2. QED
    BY <1>1, Tables DEF StopTable

\* The end of the transaction that stores an answer.
GoesOn(w, phase) ==
    worker' = [worker EXCEPT ![w].phase = phase, ![w].at = NoCall, ![w].answer = "none"]

\* A busy worker stores the answer for its row in a transaction: the row
\* becomes new, a stop of its trip changes, and the worker goes on.
LEMMA PersistStep ==
    ASSUME TripInv, NEW w \in Workers, NEW phase \in {"claims", "releases"},
           worker[w].phase \in {"claimed", "released"},
           NEW new \in MemberRow, new.state # "NONE",
           new.op = member[worker[w].at.row].op,
           \/ UNCHANGED <<member, stop>>
           \/ member' = [member EXCEPT ![worker[w].at.row] = new] /\ stop' \in StopTable,
           GoesOn(w, phase),
           UNCHANGED <<trip, op, td, courier, late>>
    PROVE  TripInv'
  <1> DEFINE i == worker[w].op
             r == worker[w].at.row
             x == [worker[w] EXCEPT !.phase = phase, !.at = NoCall, !.answer = "none"]
  <1>1. Busy(w)
    BY DEF Busy
  <1>2. /\ i \in Operations /\ op[i].status \in Active /\ op[i].leased /\ op[i].lock
        /\ op[i].status # "NONE" /\ WorksOn(worker[w], i)
        /\ \A y \in Workers \ {w} : Busy(y) => worker[y].op # i
    BY <1>1, AtWork
  <1>3. r \in Rows /\ Placed(r, i)
    BY <1>2 DEF WorksOn, Call
  <1>4. worker' = [worker EXCEPT ![w] = x]
    BY Tables DEF GoesOn
  <1>5. x \in WorkerRow /\ WorksOn(x, i)
    <2>1. worker[w] \in WorkerRow /\ worker[w].op = i
      BY Tables
    <2> HIDE DEF r, i
    <2>2. x \in WorkerRow
      BY <2>1 DEF WorkerRow
    <2>3. x.phase = phase /\ x.op = i /\ x.todo = worker[w].todo
      BY <2>1 DEF WorkerRow
    <2> HIDE DEF x
    <2>4. QED
      BY <1>2, <2>2, <2>3 DEF WorksOn
  <1>6. \/ UNCHANGED <<member, stop>>
        \/ member' = [member EXCEPT ![r] = new] /\ stop' \in StopTable
    OBVIOUS
  <1>7. new.op = member[r].op
    OBVIOUS
  <1> HIDE DEF x, r, i
  <1>8. /\ worker' \in [Workers -> WorkerRow] /\ worker'[w] = x
        /\ \A y \in Workers \ {w} : worker'[y] = worker[y]
    BY <1>4, <1>5, Tables
  <1>9. member' \in [Rows -> MemberRow] /\ stop' \in StopTable
    BY <1>3, <1>6, Tables DEF StopTable
  <1>10. ASSUME NEW q \in Rows
         PROVE  \/ member'[q] = member[q]
                \/ /\ member[q].state # "NONE" /\ member'[q].state # "NONE"
                   /\ member'[q].op = member[q].op
                   /\ TripOf(q) = op[i].trip
    BY <1>3, <1>6, <1>7, Tables DEF Placed
  <1>11. op'[i].lock <=> op'[i].status \in Active
    BY <1>2
  <1>12. QED
    BY <1>2, <1>5, <1>8, <1>9, <1>10, <1>11, Tables, WorkerStep

\* persistClaim
LEMMA PersistClaimStep ==
    ASSUME TripInv, NEW w \in Workers, PersistClaim(w)
    PROVE  TripInv'
  <1> DEFINE r == worker[w].at.row
             new == [member[r] EXCEPT !.state = "ACTIVE", !.version = member[r].asked + 1]
  <1>1. Busy(w) /\ worker[w].phase = "claimed"
    BY DEF PersistClaim, Busy
  <1>2. r \in Rows /\ Placed(r, worker[w].op) /\ worker[w].op \in Operations
    BY <1>1, AtWork DEF WorksOn, Call
  <1>3. TripOf(r) \in Trips /\ r[2] \in Shipments
    BY <1>1, <1>2, AtWork DEF Placed, Rows
  <1>4. new \in MemberRow /\ new.state # "NONE" /\ new.op = member[r].op
    BY <1>2, Tables, AnsweredRow
  <1>5. \/ UNCHANGED <<member, stop>>
        \/ /\ member' = [member EXCEPT ![r] = new]
           /\ stop' = [stop EXCEPT ![TripOf(r)][r[2]] = "PENDING"]
    BY <1>2, Tables DEF PersistClaim
  <1>6. \/ UNCHANGED <<member, stop>>
        \/ member' = [member EXCEPT ![r] = new] /\ stop' \in StopTable
    <2>1. [stop EXCEPT ![TripOf(r)][r[2]] = "PENDING"] \in StopTable
      BY <1>3, StopWritten
    <2> HIDE DEF new, r
    <2>2. QED
      BY <1>5, <2>1
  <1>7. GoesOn(w, "claims") /\ UNCHANGED <<trip, op, td, courier, late>>
    BY DEF PersistClaim, GoesOn
  <1> HIDE DEF new
  <1>8. QED
    BY <1>1, <1>4, <1>6, <1>7, PersistStep

\* persistRelease
LEMMA PersistReleaseStep ==
    ASSUME TripInv, NEW w \in Workers, PersistRelease(w)
    PROVE  TripInv'
  <1> DEFINE r == worker[w].at.row
             new == [member[r] EXCEPT !.state = "RELEASED", !.removed = TRUE]
  <1>1. Busy(w) /\ worker[w].phase = "released"
    BY DEF PersistRelease, Busy
  <1>2. r \in Rows /\ Placed(r, worker[w].op) /\ worker[w].op \in Operations
    BY <1>1, AtWork DEF WorksOn, Call
  <1>3. TripOf(r) \in Trips /\ r[2] \in Shipments
    BY <1>1, <1>2, AtWork DEF Placed, Rows
  <1>4. new \in MemberRow /\ new.state # "NONE" /\ new.op = member[r].op
    BY <1>2, Tables, AnsweredRow
  <1>5. \/ UNCHANGED <<member, stop>>
        \/ /\ member' = [member EXCEPT ![r] = new]
           /\ stop' = [stop EXCEPT ![TripOf(r)][r[2]] = "NONE"]
    BY <1>2, Tables DEF PersistRelease
  <1>6. \/ UNCHANGED <<member, stop>>
        \/ member' = [member EXCEPT ![r] = new] /\ stop' \in StopTable
    <2>1. [stop EXCEPT ![TripOf(r)][r[2]] = "NONE"] \in StopTable
      BY <1>3, StopWritten
    <2> HIDE DEF new, r
    <2>2. QED
      BY <1>5, <2>1
  <1>7. GoesOn(w, "releases") /\ UNCHANGED <<trip, op, td, courier, late>>
    BY DEF PersistRelease, GoesOn
  <1> HIDE DEF new
  <1>8. QED
    BY <1>1, <1>4, <1>6, <1>7, PersistStep

\* beginCompensation
LEMMA CompensateStep ==
    ASSUME TripInv, NEW w \in Workers, Compensate(w)
    PROVE  TripInv'
  <1> DEFINE i == worker[w].op
             new == [r \in Rows |-> Compensated(Recorded(w, r), i)]
             x == [Idle EXCEPT !.op = i, !.phase = "releases", !.todo = ReleaseCalls(new, i)]
             o == [op[i] EXCEPT !.status = "COMPENSATING"]
  <1>1. Busy(w) /\ worker[w].phase = "claimed"
    BY DEF Compensate, BeginCompensation, Busy
  <1>2. /\ i \in Operations /\ op[i].status \in Active /\ op[i].leased /\ op[i].lock
        /\ \A y \in Workers \ {w} : Busy(y) => worker[y].op # i
    BY <1>1, AtWork
  <1>3. worker[w].at.row \in Rows /\ Placed(worker[w].at.row, i)
    BY <1>1, AtWork DEF WorksOn, Call
  <1>4. ASSUME NEW r \in Rows
        PROVE  /\ Recorded(w, r) \in MemberRow
               /\ Recorded(w, r).op = member[r].op
               /\ \/ Recorded(w, r) = member[r]
                  \/ Placed(r, i) /\ Recorded(w, r).state # "NONE"
    <2>1. member[r] \in MemberRow
      BY Tables
    <2>2. QED
      BY <1>3, <2>1, AnsweredRow DEF Recorded
  <1>5. ASSUME NEW m \in MemberRow
        PROVE  /\ Compensated(m, i) \in MemberRow
               /\ Compensated(m, i).op = m.op
               /\ \/ Compensated(m, i) = m
                  \/ /\ m.op = i /\ m.state # "NONE" /\ Compensated(m, i).state # "NONE"
    <2>1. op[i].actor \in Users \cup {NoUser}
      BY <1>2, Tables DEF OpRow
    <2>2. /\ Releasing(m, op[i].actor, i) \in MemberRow
          /\ Releasing(m, op[i].actor, i).op = i
          /\ Releasing(m, op[i].actor, i).state = "RELEASE_PENDING"
      BY <1>2, <2>1, ReleasingRow
    <2>3. CASE m.op = i /\ m.state = "ACTIVE"
      BY <2>2, <2>3 DEF Compensated
    <2>4. CASE m.op = i /\ m.state = "CLAIM_PENDING"
      BY <2>4, AnsweredRow DEF Compensated
    <2>5. CASE ~(m.op = i /\ m.state \in {"ACTIVE", "CLAIM_PENDING"})
      BY <2>5 DEF Compensated
    <2>6. QED
      BY <2>3, <2>4, <2>5
  <1>6. ASSUME NEW r \in Rows
        PROVE  /\ new[r] \in MemberRow /\ new[r].op = member[r].op
               /\ new[r].state # "NONE" => member[r].state # "NONE"
               /\ \/ new[r] = member[r]
                  \/ /\ member[r].state # "NONE" /\ new[r].state # "NONE"
                     /\ TripOf(r) = op[i].trip
    <2>1. Compensated(Recorded(w, r), i) = new[r]
      OBVIOUS
    <2>2. member[r].state # "NONE" /\ member[r].op = i => TripOf(r) = op[i].trip
      BY DEF TripInv, RowsAtHome
    <2> HIDE DEF new, i
    <2>3. QED
      BY <1>4, <1>5, <2>1, <2>2 DEF Placed
  <1>7. /\ member' = new
        /\ op' = [op EXCEPT ![i] = o]
        /\ worker' = [worker EXCEPT ![w] = x]
        /\ UNCHANGED <<trip, stop, td, courier, late>>
    BY DEF Compensate, BeginCompensation
  <1>8. new \in [Rows -> MemberRow]
    <2>1. \A r \in Rows : Compensated(Recorded(w, r), i) \in MemberRow
      BY <1>4, <1>5
    <2> DEFINE F(r) == Compensated(Recorded(w, r), i)
    <2>2. \A r \in Rows : F(r) \in MemberRow
      BY <2>1
    <2> HIDE DEF F
    <2>3. [r \in Rows |-> F(r)] \in [Rows -> MemberRow]
      BY <2>2
    <2>4. QED
      BY <2>3 DEF F
  <1>9. /\ o \in OpRow /\ o.leased = op[i].leased /\ o.trip = op[i].trip
        /\ o.status = "COMPENSATING" /\ o.lock = op[i].lock
    <2> HIDE DEF i, x, new
    <2>1. op[i] \in OpRow
      BY <1>2, Tables
    <2>2. QED
      BY <2>1 DEF OpRow
  <1> HIDE DEF new
  <1>10. x \in WorkerRow /\ WorksOn(x, i)
    <2>1. ASSUME NEW call \in ReleaseCalls(new, i)
          PROVE  call \in Call /\ Placed(call.row, i)
      <3>1. PICK r \in Rows : /\ call = [kind |-> "release", row |-> r, rel |-> new[r].rel]
                              /\ new[r].op = i /\ new[r].state = "RELEASE_PENDING"
        BY <2>1 DEF ReleaseCalls
      <3>2. new[r].rel \in ReleaseRequest
        BY <1>6 DEF MemberRow
      <3>3. member[r].op = i /\ member[r].state # "NONE"
        BY <1>6, <3>1
      <3>4. Placed(r, i)
        BY <3>3 DEF TripInv, RowsAtHome, Placed
      <3>5. QED
        BY <3>1, <3>2, <3>4 DEF Call
    <2>2. QED
      BY <1>2, <2>1 DEF Idle, WorkerRow, WorksOn
  <1> HIDE DEF x, o, i
  <1>11. /\ op' \in [Operations -> OpRow] /\ op'[i] = o
         /\ \A j \in Operations \ {i} : op'[j] = op[j]
    BY <1>2, <1>7, <1>9, Tables
  <1>12. /\ worker' \in [Workers -> WorkerRow] /\ worker'[w] = x
         /\ \A y \in Workers \ {w} : worker'[y] = worker[y]
    BY <1>7, <1>10, Tables
  <1>13. /\ op'[i].trip = op[i].trip /\ op'[i].status # "NONE"
         /\ op'[i].leased /\ op'[i].status \in Active
         /\ op'[i].lock <=> op'[i].status \in Active
    BY <1>2, <1>9, <1>11 DEF Active
  <1>14. /\ member' \in [Rows -> MemberRow]
         /\ \A r \in Rows : \/ member'[r] = member[r]
                            \/ /\ member[r].state # "NONE" /\ member'[r].state # "NONE"
                               /\ member'[r].op = member[r].op
                               /\ TripOf(r) = op[i].trip
    BY <1>6, <1>7, <1>8
  <1>15. /\ \A t \in Trips \ {op[i].trip} : trip'[t] = trip[t]
         /\ trip' \in [Trips -> TripRow] /\ stop' \in StopTable /\ late' \subseteq LateCall
         /\ UNCHANGED <<td, courier>>
    BY <1>7, Tables DEF StopTable
  <1>16. QED
    BY <1>2, <1>10, <1>11, <1>12, <1>13, <1>14, <1>15, WorkerStep

\* All claims of the list are stored, or another list is begun.
LEMMA EndClaimsStep ==
    ASSUME TripInv, NEW w \in Workers, EndClaims(w) \/ JoinCompensation(w) \/ EndReleases(w)
    PROVE  TripInv'
  <1> DEFINE i == worker[w].op
             joined == [worker[w] EXCEPT !.phase = "releases",
                                         !.todo = ReleaseCalls(member, i)]
             finished(status) == [worker[w] EXCEPT !.phase = "finish", !.answer = status]
  <1>1. Busy(w)
    BY DEF EndClaims, JoinCompensation, EndReleases, Busy
  <1>2. i \in Operations /\ WorksOn(worker[w], i) /\ worker[w] \in WorkerRow
    BY <1>1, AtWork, Tables
  <1>3. joined \in WorkerRow /\ WorksOn(joined, i)
    BY <1>2, CallsOf DEF WorkerRow, WorksOn
  <1>4. \A status \in {"COMPLETED", "REJECTED"} :
            finished(status) \in WorkerRow /\ WorksOn(finished(status), i)
    BY <1>2 DEF WorkerRow, WorksOn
  <1>5. UNCHANGED <<trip, member, stop, td, courier, late>>
    BY DEF EndClaims, JoinCompensation, EndReleases
  <1>6. ASSUME NEW status \in {"COMPLETED", "REJECTED"}, Finish(w, status)
        PROVE  TripInv'
    <2>1. worker' = [worker EXCEPT ![w] = finished(status)] /\ UNCHANGED op
      BY <1>6, Tables DEF Finish
    <2>2. finished(status) \in WorkerRow /\ WorksOn(finished(status), i)
      BY <1>4
    <2> HIDE DEF finished
    <2>3. QED
      BY <1>1, <1>5, <2>1, <2>2, WorkerMoves
  <1>7. ASSUME Stand(w)
        PROVE  TripInv'
    BY <1>1, <1>5, <1>7, WorkerStops DEF Stand
  <1>8. CASE JoinCompensation(w)
    <2>1. worker' = [worker EXCEPT ![w] = joined] /\ UNCHANGED op
      BY <1>8, Tables DEF JoinCompensation
    <2> HIDE DEF joined
    <2>2. QED
      BY <1>1, <1>3, <1>5, <2>1, WorkerMoves
  <1>9. CASE EndClaims(w)
    BY <1>6, <1>7, <1>9 DEF EndClaims
  <1>10. CASE EndReleases(w)
    BY <1>6, <1>7, <1>10 DEF EndReleases
  <1>11. QED
    BY <1>8, <1>9, <1>10

\* finalize
LEMMA FinalizeStep ==
    ASSUME TripInv, NEW w \in Workers, Finalize(w)
    PROVE  TripInv'
  <1> DEFINE i == worker[w].op
             t == op[i].trip
             o == [op[i] EXCEPT !.status = worker[w].answer, !.lock = FALSE, !.leased = FALSE]
             row == IF op[i].kind = "CANCEL" THEN Unplanned(trip[t], "CANCELED")
                    ELSE Bumped(trip[t])
  <1>1. Busy(w) /\ worker[w].phase = "finish"
    BY DEF Finalize, Busy
  <1>2. /\ i \in Operations /\ op[i].status \in Active /\ t \in Trips
        /\ \A y \in Workers \ {w} : Busy(y) => worker[y].op # i
        /\ worker[w].answer \in {"COMPLETED", "REJECTED"}
    BY <1>1, AtWork DEF WorksOn
  <1>3. trip' = [trip EXCEPT ![t] = row] /\ op' = [op EXCEPT ![i] = o]
        /\ worker' = [worker EXCEPT ![w] = Idle]
        /\ UNCHANGED <<member, stop, td, courier, late>>
    <2>1. trip' = [trip EXCEPT ![t] = row]
      BY DEF Finalize
    <2>2. op' = [op EXCEPT ![i] = o]
      BY Tables DEF Finalize
    <2>3. QED
      BY <2>1, <2>2 DEF Finalize
  <1>4. row \in TripRow
    BY <1>2, Tables, NextVersion
  <1>5. /\ o \in OpRow /\ o.trip = t /\ o.lock = FALSE
        /\ o.status \in {"COMPLETED", "REJECTED"}
    <2>1. op[i] \in OpRow
      BY <1>2, Tables
    <2>2. QED
      BY <1>2, <2>1 DEF OpRow
  <1>6. t = op[i].trip
    OBVIOUS
  <1>7. \A y \in Workers \ {w} : Busy(y) => worker[y].op # i
    BY <1>2
  <1> HIDE DEF i, t, o, row
  <1>8. /\ op' \in [Operations -> OpRow] /\ op'[i] = o
        /\ \A j \in Operations \ {i} : op'[j] = op[j]
    BY <1>2, <1>3, <1>5, Tables
  <1>9. /\ worker' \in [Workers -> WorkerRow] /\ worker'[w] = Idle
        /\ \A y \in Workers \ {w} : worker'[y] = worker[y]
    BY <1>3, IdleRow, Tables
  <1>10. /\ trip' \in [Trips -> TripRow]
         /\ \A x \in Trips \ {op[i].trip} : trip'[x] = trip[x]
    BY <1>2, <1>3, <1>4, <1>6, Tables
  <1>11. /\ op'[i].trip = op[i].trip /\ op'[i].status # "NONE"
         /\ op'[i].lock <=> op'[i].status \in Active
    BY <1>5, <1>6, <1>8 DEF Active
  <1>12. /\ member' \in [Rows -> MemberRow] /\ stop' \in StopTable /\ late' \subseteq LateCall
         /\ \A r \in Rows : member'[r] = member[r]
         /\ UNCHANGED <<td, courier>>
    BY <1>3, Tables DEF StopTable
  <1>13. QED
    BY <1>2, <1>7, <1>8, <1>9, <1>10, <1>11, <1>12, WorkerStep

-----------------------------------------------------------------------------
(* Dispatching a trip *)

\* Nothing but the dispatches and the processes that resume them changes: a
\* dispatch that changes was pending, and stays bound to what it was bound to
\* or is rejected.
LEMMA DispatchStep ==
    ASSUME TripInv,
           td' \in [Batches -> DispatchRow],
           \A b \in Batches : \/ td'[b] = td[b]
                              \/ /\ td[b].status = "PENDING"
                                 /\ td'[b].status \in {"PENDING", "REJECTED"}
                                 /\ td'[b].trip = td[b].trip
                                 /\ td'[b].version = td[b].version
                                 /\ td'[b].plan = td[b].plan
                                 /\ td'[b].load = td[b].load,
           courier' \in [Couriers -> CourierRow],
           \A c \in Couriers : courier'[c].phase # "idle" => courier'[c].batch \in Batches,
           late' \subseteq LateCall,
           UNCHANGED <<trip, op, member, stop, worker>>
    PROVE  TripInv'
  <1>1. TripTypeOK'
    BY Tables DEF TripTypeOK
  <1>2. OpRows' /\ RowsAtHome'
    BY DEF TripInv, OpRows, RowsAtHome, TripOf
  <1>3. LeasesHeld'
    BY DEF TripInv, LeasesHeld, AtHome, Placed, Busy, TripOf
  <1>4. \A b \in Batches : /\ td'[b].trip = td[b].trip
                           /\ td[b].status = "REJECTED" => td'[b].status = "REJECTED"
    OBVIOUS
  <1>5. OneWriter'
    BY <1>4 DEF TripInv, OneWriter
  <1>6. DispatchRows'
    BY DEF TripInv, DispatchRows
  <1>7. PendingBound'
    BY BoundIs, BoundIsNext DEF TripInv, AllBound, BoundIn
  <1>8. Departed'
    BY DEF TripInv, Departed
  <1>9. QED
    BY <1>1, <1>2, <1>3, <1>5, <1>6, <1>7, <1>8 DEF TripInv

\* A courier changes its own state only.
LEMMA CourierMoves ==
    ASSUME TripInv, NEW c \in Couriers, NEW x \in CourierRow,
           x.phase # "idle" => x.batch \in Batches,
           courier' = [courier EXCEPT ![c] = x],
           late' \subseteq LateCall,
           UNCHANGED <<trip, op, member, stop, td, worker>>
    PROVE  TripInv'
  <1>1. courier' \in [Couriers -> CourierRow]
    BY Tables
  <1>2. \A y \in Couriers : courier'[y].phase # "idle" => courier'[y].batch \in Batches
    BY Tables DEF TripInv, DispatchRows
  <1>3. td' \in [Batches -> DispatchRow] /\ \A b \in Batches : td'[b] = td[b]
    BY Tables
  <1>4. QED
    BY <1>1, <1>2, <1>3, DispatchStep

\* A courier at work has a dispatch.
LEMMA Underway ==
    ASSUME TripInv, NEW c \in Couriers, courier[c].phase # "idle"
    PROVE  courier[c].batch \in Batches
  BY DEF TripInv, DispatchRows

\* resume of a dispatch
LEMMA TakeUpStep ==
    ASSUME TripInv, NEW c \in Couriers, NEW b \in Batches, TakeUp(c, b)
    PROVE  TripInv'
  <1>1. PICK phase \in {"select", "commit", "call"} :
            courier' = [courier EXCEPT ![c] = [batch |-> b, answer |-> "none",
                                               phase |-> phase]]
    BY DEF TakeUp
  <1> DEFINE x == [batch |-> b, answer |-> "none", phase |-> phase]
  <1>2. x \in CourierRow /\ x.batch \in Batches
    BY DEF CourierRow
  <1>3. courier' = [courier EXCEPT ![c] = x]
    BY <1>1
  <1>4. late' \subseteq LateCall /\ UNCHANGED <<trip, op, member, stop, td, worker>>
    BY Tables DEF TakeUp
  <1> HIDE DEF x
  <1>5. QED
    BY <1>2, <1>3, <1>4, CourierMoves

\* The courier goes to another phase, with or without an answer, or stops.
LEMMA CourierGoes ==
    ASSUME TripInv, NEW c \in Couriers, courier[c].phase # "idle",
           NEW phase \in {"selected", "call", "answered", "commit", "failed", "reject"},
           NEW a \in {"none", "PENDING", "REJECTED", "COMPLETED"},
           \/ Goes(c, phase)
           \/ courier' = [courier EXCEPT ![c].phase = phase, ![c].answer = a]
           \/ courier' = [courier EXCEPT ![c] = Off]
    PROVE  /\ courier' \in [Couriers -> CourierRow]
           /\ \A y \in Couriers : courier'[y].phase # "idle" => courier'[y].batch \in Batches
  <1>1. PICK x \in CourierRow : /\ courier' = [courier EXCEPT ![c] = x]
                                /\ x.phase # "idle" => x.batch \in Batches
    <2> DEFINE goes == [courier[c] EXCEPT !.phase = phase]
               told == [courier[c] EXCEPT !.phase = phase, !.answer = a]
    <2>1. /\ goes \in CourierRow /\ goes.batch \in Batches
          /\ told \in CourierRow /\ told.batch \in Batches
          /\ Off \in CourierRow /\ Off.phase = "idle"
      <3>1. courier[c] \in CourierRow /\ courier[c].batch \in Batches
        BY Tables, Underway
      <3>2. goes \in CourierRow /\ goes.batch \in Batches
        BY <3>1 DEF CourierRow
      <3>3. told \in CourierRow /\ told.batch \in Batches
        BY <3>1 DEF CourierRow
      <3>4. QED
        BY <3>2, <3>3 DEF Off, CourierRow
    <2>2. CASE Goes(c, phase)
      <3>1. courier' = [courier EXCEPT ![c] = goes]
        BY <2>2 DEF Goes
      <3> HIDE DEF goes, told
      <3>2. QED
        BY <2>1, <3>1
    <2>3. CASE courier' = [courier EXCEPT ![c].phase = phase, ![c].answer = a]
      <3>1. courier' = [courier EXCEPT ![c] = told]
        BY <2>3, Tables
      <3> HIDE DEF goes, told
      <3>2. QED
        BY <2>1, <3>1
    <2>4. CASE courier' = [courier EXCEPT ![c] = Off]
      <3> HIDE DEF goes, told
      <3>1. QED
        BY <2>1, <2>4
    <2>5. QED
      BY <2>2, <2>3, <2>4
  <1>2. QED
    BY <1>1, Tables DEF TripInv, DispatchRows

\* The steps of a courier that write no table.
LEMMA CourierStep ==
    ASSUME TripInv, NEW c \in Couriers,
           \/ Select(c) \/ SelectConflict(c) \/ ReadStage(c) \/ LoseCourier(c)
           \/ \E a \in {"PENDING", "REJECTED", "COMPLETED"} : BatchAnswered(c, a)
    PROVE  TripInv'
  <1>1. courier[c].phase # "idle"
    BY DEF Select, SelectConflict, ReadStage, LoseCourier, BatchAnswered
  <1>2. PICK phase \in {"selected", "answered", "failed", "reject"},
             a \in {"none", "PENDING", "REJECTED", "COMPLETED"} :
           \/ Goes(c, phase)
           \/ courier' = [courier EXCEPT ![c].phase = phase, ![c].answer = a]
           \/ courier' = [courier EXCEPT ![c] = Off]
    BY DEF Select, SelectConflict, ReadStage, LoseCourier, BatchAnswered
  <1>3. /\ courier' \in [Couriers -> CourierRow]
        /\ \A y \in Couriers : courier'[y].phase # "idle" => courier'[y].batch \in Batches
    <2>1. phase \in {"selected", "call", "answered", "commit", "failed", "reject"}
      OBVIOUS
    <2>2. QED
      BY <1>1, <1>2, <2>1, CourierGoes
  <1>4. UNCHANGED <<trip, op, member, stop, td, worker>>
    BY DEF Select, SelectConflict, ReadStage, LoseCourier, BatchAnswered
  <1>5. late' \subseteq LateCall
    <2>1. CASE LoseCourier(c)
      <3>1. [kind |-> "batch", batch |-> courier[c].batch] \in LateCall
        BY <1>1, Underway DEF LateCall
      <3>2. QED
        BY <2>1, <3>1, Tables DEF LoseCourier
    <2>2. CASE UNCHANGED late
      BY <2>2, Tables
    <2>3. QED
      BY <2>1, <2>2 DEF Select, SelectConflict, ReadStage, BatchAnswered
  <1>6. td' \in [Batches -> DispatchRow] /\ \A b \in Batches : td'[b] = td[b]
    BY <1>4, Tables
  <1>7. QED
    BY <1>3, <1>4, <1>5, <1>6, DispatchStep

\* A pending dispatch moves to another stage or is rejected.
LEMMA DecidedRow ==
    ASSUME TripInv, NEW b \in Batches,
           NEW status \in {"PENDING", "REJECTED"},
           NEW stage \in {"SUBMITTED", "RECEIPTED", "REJECTED"},
           \/ UNCHANGED td
           \/ Decided(b, status, stage)
           \/ td[b].status = "PENDING" /\ td' = [td EXCEPT ![b].stage = stage]
    PROVE  /\ td' \in [Batches -> DispatchRow]
           /\ \A d \in Batches : \/ td'[d] = td[d]
                                 \/ /\ td[d].status = "PENDING"
                                    /\ td'[d].status \in {"PENDING", "REJECTED"}
                                    /\ td'[d].trip = td[d].trip
                                    /\ td'[d].version = td[d].version
                                    /\ td'[d].plan = td[d].plan
                                    /\ td'[d].load = td[d].load
  <1>1. td[b] \in DispatchRow
    BY Tables
  <1>2. PICK new \in DispatchRow :
            /\ td' = [td EXCEPT ![b] = new]
            /\ \/ new = td[b]
               \/ /\ td[b].status = "PENDING" /\ new.status \in {"PENDING", "REJECTED"}
                  /\ new.trip = td[b].trip /\ new.version = td[b].version
                  /\ new.plan = td[b].plan /\ new.load = td[b].load
    <2>1. CASE UNCHANGED td
      <3>1. td' = [td EXCEPT ![b] = td[b]]
        BY <2>1, Tables
      <3>2. QED
        BY <1>1, <3>1
    <2>2. CASE Decided(b, status, stage)
      <3> DEFINE moved == [td[b] EXCEPT !.status = status, !.stage = stage]
      <3>1. /\ moved \in DispatchRow /\ moved.status = status
            /\ moved.trip = td[b].trip /\ moved.version = td[b].version
            /\ moved.plan = td[b].plan /\ moved.load = td[b].load
        BY <1>1 DEF DispatchRow
      <3>2. td' = [td EXCEPT ![b] = IF td[b].status = "PENDING" THEN moved ELSE td[b]]
        BY <2>2 DEF Decided
      <3> HIDE DEF moved
      <3>3. CASE td[b].status = "PENDING"
        BY <3>1, <3>2, <3>3
      <3>4. CASE td[b].status # "PENDING"
        BY <1>1, <3>2, <3>4
      <3>5. QED
        BY <3>3, <3>4
    <2>3. CASE td[b].status = "PENDING" /\ td' = [td EXCEPT ![b].stage = stage]
      <3> DEFINE moved == [td[b] EXCEPT !.stage = stage]
      <3>1. /\ moved \in DispatchRow /\ moved.status = td[b].status
            /\ moved.trip = td[b].trip /\ moved.version = td[b].version
            /\ moved.plan = td[b].plan /\ moved.load = td[b].load
        BY <1>1 DEF DispatchRow
      <3>2. td' = [td EXCEPT ![b] = moved]
        BY <2>3
      <3> HIDE DEF moved
      <3>3. QED
        BY <2>3, <3>1, <3>2
    <2>4. QED
      BY <2>1, <2>2, <2>3
  <1>3. QED
    BY <1>2, Tables

\* The steps of a courier that submit, store a receipt or reject.
LEMMA DecisionStep ==
    ASSUME TripInv, NEW c \in Couriers,
           Submit(c) \/ StoreReceipt(c) \/ RejectTripDispatch(c)
    PROVE  TripInv'
  <1> DEFINE b == courier[c].batch
  <1>1. courier[c].phase # "idle"
    BY DEF Submit, StoreReceipt, RejectTripDispatch
  <1>2. b \in Batches
    BY <1>1, Underway
  <1>3. PICK phase \in {"call", "failed", "commit"} :
           \/ Goes(c, phase)
           \/ courier' = [courier EXCEPT ![c].phase = phase, ![c].answer = "none"]
           \/ courier' = [courier EXCEPT ![c] = Off]
    BY DEF Submit, StoreReceipt, RejectTripDispatch
  <1>4. PICK status \in {"PENDING", "REJECTED"}, stage \in {"SUBMITTED", "RECEIPTED", "REJECTED"} :
           \/ UNCHANGED td
           \/ Decided(b, status, stage)
           \/ td[b].status = "PENDING" /\ td' = [td EXCEPT ![b].stage = stage]
    <2>1. CASE Submit(c)
      <3>1. CASE UNCHANGED td
        BY <3>1
      <3>2. CASE td' = [td EXCEPT ![b].stage = IF td[b].status = "PENDING" /\ @ = "ACCEPTED"
                                               THEN "SUBMITTED" ELSE @]
        <4>1. CASE td[b].status = "PENDING" /\ td[b].stage = "ACCEPTED"
          BY <3>2, <4>1
        <4>2. CASE ~(td[b].status = "PENDING" /\ td[b].stage = "ACCEPTED")
          <5>1. td' = [td EXCEPT ![b] = [td[b] EXCEPT !.stage = td[b].stage]]
            BY <3>2, <4>2
          <5>2. td[b] \in DispatchRow
            BY <1>2, Tables
          <5>3. [td[b] EXCEPT !.stage = td[b].stage] = td[b]
            BY <5>2 DEF DispatchRow
          <5>4. UNCHANGED td
            BY <1>2, <5>1, <5>3, Tables
          <5>5. QED
            BY <5>4
        <4>3. QED
          BY <4>1, <4>2
      <3>3. QED
        BY <2>1, <3>1, <3>2 DEF Submit
    <2>2. CASE StoreReceipt(c)
      BY <2>2 DEF StoreReceipt
    <2>3. CASE RejectTripDispatch(c)
      BY <2>3 DEF RejectTripDispatch
    <2>4. QED
      BY <2>1, <2>2, <2>3
  <1>5. UNCHANGED <<trip, op, member, stop, worker, late>>
    BY DEF Submit, StoreReceipt, RejectTripDispatch
  <1> HIDE DEF b
  <1>6. /\ courier' \in [Couriers -> CourierRow]
        /\ \A y \in Couriers : courier'[y].phase # "idle" => courier'[y].batch \in Batches
    <2>1. phase \in {"selected", "call", "answered", "commit", "failed", "reject"}
      OBVIOUS
    <2>2. QED
      BY <1>1, <1>3, <2>1, CourierGoes
  <1>7. /\ td' \in [Batches -> DispatchRow]
        /\ \A d \in Batches : \/ td'[d] = td[d]
                              \/ /\ td[d].status = "PENDING"
                                 /\ td'[d].status \in {"PENDING", "REJECTED"}
                                 /\ td'[d].trip = td[d].trip
                                 /\ td'[d].version = td[d].version
                                 /\ td'[d].plan = td[d].plan
                                 /\ td'[d].load = td[d].load
    BY <1>2, <1>4, DecidedRow
  <1>8. late' \subseteq LateCall
    BY <1>5, Tables
  <1>9. QED
    BY <1>5, <1>6, <1>7, <1>8, DispatchStep

\* A dispatch is accepted: its trip has no other writer.
LEMMA StartStep ==
    ASSUME TripInv, NEW t \in Trips, NEW b \in Batches, StartTripDispatch(t, b)
    PROVE  TripInv'
  <1> DEFINE d == [trip |-> t, status |-> "PENDING", stage |-> "ACCEPTED",
                   version |-> trip[t].version, plan |-> trip[t].plan, load |-> Load(t)]
  <1>1. td' = [td EXCEPT ![b] = d] /\ td[b].status = "NONE"
        /\ UNCHANGED <<trip, op, member, stop, worker, courier, late>>
    BY DEF StartTripDispatch
  <1>2. /\ ~Locked(t) /\ \A x \in Batches : td[x].trip = t => td[x].status = "REJECTED"
        /\ trip[t].status = "APPROVED"
    BY DEF StartTripDispatch, NoPending, Selectable
  <1>3. Load(t) \in [Shipments -> Nat]
    <2>1. ASSUME NEW s \in Shipments, \E r \in ActiveRows(t) : r[2] = s
          PROVE  member[CHOOSE r \in ActiveRows(t) : r[2] = s].version \in Nat
      <3> DEFINE q == CHOOSE r \in ActiveRows(t) : r[2] = s
      <3>1. q \in ActiveRows(t)
        BY <2>1
      <3>2. q \in Rows
        BY <3>1 DEF ActiveRows, Aboard
      <3>3. QED
        BY <3>2, Tables DEF MemberRow
    <2>2. QED
      BY <2>1 DEF Load
  <1>4. /\ d \in DispatchRow /\ d.trip = t /\ d.status = "PENDING"
        /\ d.version = trip[t].version /\ d.plan = trip[t].plan /\ d.load = Load(t)
    BY <1>3, Tables DEF DispatchRow, TripRow
  <1> HIDE DEF d
  <1>5. /\ td' \in [Batches -> DispatchRow] /\ td'[b] = d
        /\ \A x \in Batches \ {b} : td'[x] = td[x]
    BY <1>1, <1>4, Tables
  <1>6. TripTypeOK'
    BY <1>1, <1>5, Tables DEF TripTypeOK
  <1>7. OpRows' /\ RowsAtHome'
    BY <1>1 DEF TripInv, OpRows, RowsAtHome, TripOf
  <1>8. LeasesHeld'
    BY <1>1 DEF TripInv, LeasesHeld, AtHome, Placed, Busy, TripOf
  <1>9. OneWriter'
    BY <1>1, <1>2, <1>4, <1>5 DEF TripInv, OneWriter, Locked
  <1>10. DispatchRows'
    BY <1>1, <1>4, <1>5 DEF TripInv, DispatchRows
  <1>11. PendingBound'
    <2>1. SUFFICES ASSUME NEW x \in Batches, td'[x].status = "PENDING"
                   PROVE  BoundIn(trip, member, op, td'[x])
      BY <1>1, BoundIsNext DEF AllBound
    <2>2. CASE x = b
      BY <1>2, <1>4, <1>5, <2>2, LoadIs DEF BoundIn
    <2>3. CASE x # b
      BY <1>5, <2>1, <2>3, BoundIs DEF TripInv, AllBound
    <2>4. QED
      BY <2>2, <2>3
  <1>12. Departed'
    BY <1>1, <1>4, <1>5 DEF TripInv, Departed
  <1>13. QED
    BY <1>6, <1>7, <1>8, <1>9, <1>10, <1>11, <1>12 DEF TripInv

\* commit: the trip leaves with its dispatch.
LEMMA CommitStep ==
    ASSUME TripInv, NEW c \in Couriers, CommitTrip(c)
    PROVE  TripInv'
  <1> DEFINE b == courier[c].batch
             t == td[b].trip
             row == [trip[t] EXCEPT !.status = "IN_PROGRESS", !.version = @ + 1]
             d == [td[b] EXCEPT !.status = "COMPLETED", !.stage = "COMPLETED"]
  <1>1. courier[c].phase # "idle" /\ b \in Batches
    BY Underway DEF CommitTrip
  <1>2. /\ courier' = [courier EXCEPT ![c] = Off]
        /\ UNCHANGED <<op, member, stop, worker, late>>
    BY DEF CommitTrip
  <1>3. /\ courier' \in [Couriers -> CourierRow]
        /\ \A y \in Couriers : courier'[y].phase # "idle" => courier'[y].batch \in Batches
    BY <1>1, <1>2, CourierGoes
  <1>4. CASE UNCHANGED <<trip, td>>
    BY <1>2, <1>3, <1>4, Tables, DispatchStep
  <1>5. CASE /\ td[b].status = "PENDING"
             /\ trip' = [trip EXCEPT ![t].status = "IN_PROGRESS", ![t].version = @ + 1]
             /\ td' = [td EXCEPT ![b].status = "COMPLETED", ![b].stage = "COMPLETED"]
    <2>1. t \in Trips /\ td[b].status = "PENDING" /\ td[b] \in DispatchRow
          /\ trip[t] \in TripRow
      BY <1>1, <1>5, Tables DEF TripInv, DispatchRows
    <2>2. trip' = [trip EXCEPT ![t] = row]
      BY <1>5, Tables
    <2>3. td' = [td EXCEPT ![b] = d]
      BY <1>5, Tables
    <2>4. row \in TripRow /\ row.status = "IN_PROGRESS"
      <3>1. trip[t].version + 1 \in Nat /\ trip[t] \in TripRow
        BY <2>1 DEF TripRow
      <3> HIDE DEF b, t, d
      <3>2. QED
        BY <3>1 DEF TripRow
    <2>5. d \in DispatchRow /\ d.status = "COMPLETED" /\ d.trip = t
      BY <2>1 DEF DispatchRow
    <2>6. t = td[b].trip
      OBVIOUS
    <2> HIDE DEF b, t, row, d
    <2>7. /\ trip' \in [Trips -> TripRow] /\ trip'[t] = row
          /\ \A x \in Trips \ {t} : trip'[x] = trip[x]
      BY <2>1, <2>2, <2>4, Tables
    <2>8. /\ td' \in [Batches -> DispatchRow] /\ td'[b] = d
          /\ \A x \in Batches \ {b} : td'[x] = td[x]
      BY <1>1, <2>3, <2>5, Tables
    <2>9. \A x \in Batches \ {b} : td[x].trip = t => td[x].status = "REJECTED"
      BY <1>1, <2>1, <2>6, TripAssumption DEF TripInv, OneWriter
    <2>10. TripTypeOK'
      BY <1>2, <1>3, <2>7, <2>8, Tables DEF TripTypeOK
    <2>11. OpRows' /\ RowsAtHome'
      BY <1>2 DEF TripInv, OpRows, RowsAtHome, TripOf
    <2>12. LeasesHeld'
      BY <1>2 DEF TripInv, LeasesHeld, AtHome, Placed, Busy, TripOf
    <2>13. OneWriter'
      <3>1. \A x \in Batches : /\ td'[x].trip = td[x].trip
                               /\ td'[x].status # "REJECTED" <=> td[x].status # "REJECTED"
        BY <2>1, <2>5, <2>6, <2>8
      <3>2. QED
        BY <1>2, <3>1 DEF TripInv, OneWriter
    <2>14. DispatchRows'
      BY <1>3, <2>1, <2>5, <2>8 DEF TripInv, DispatchRows
    <2>15. PendingBound'
      <3>1. \A x \in Batches : td[x].trip = t => td'[x].status # "PENDING"
        BY <2>5, <2>8, <2>9
      <3>2. \A x \in Batches : td'[x].status = "PENDING" => td'[x] = td[x]
        BY <2>5, <2>8
      <3>3. QED
        BY <1>2, <2>1, <2>7, <3>1, <3>2, OthersBound
    <2>16. Departed'
      BY <2>1, <2>4, <2>5, <2>7, <2>8, <2>9 DEF TripInv, Departed, DispatchRows
    <2>17. QED
      BY <2>10, <2>11, <2>12, <2>13, <2>14, <2>15, <2>16 DEF TripInv
  <1>6. QED
    BY <1>4, <1>5 DEF CommitTrip

-----------------------------------------------------------------------------
(* The theorems *)

\* Empty tables satisfy the invariant.
LEMMA TripInitially == TripInit => TripInv
  <1> SUFFICES ASSUME TripInit
               PROVE  TripInv
    OBVIOUS
  <1> USE DEF TripInit
  <1>1. TripTypeOK
    <2>1. <<>> \in Seq(Shipments)
      OBVIOUS
    <2>2. trip \in [Trips -> TripRow]
      BY <2>1 DEF TripRow
    <2>3. op \in [Operations -> OpRow]
      BY DEF OpRow
    <2>4. member \in [Rows -> MemberRow]
      BY DEF MemberRow, ReleaseRequest
    <2>5. td \in [Batches -> DispatchRow]
      BY DEF DispatchRow
    <2>6. worker \in [Workers -> WorkerRow] /\ courier \in [Couriers -> CourierRow]
      BY IdleRow DEF Off, CourierRow
    <2>7. QED
      BY <2>2, <2>3, <2>4, <2>5, <2>6 DEF TripTypeOK
  <1>2. OpRows /\ RowsAtHome
    BY DEF OpRows, RowsAtHome, Active
  <1>3. LeasesHeld
    BY DEF LeasesHeld, Idle, Busy
  <1>4. OneWriter /\ DispatchRows /\ PendingBound /\ Departed
    BY DEF OneWriter, DispatchRows, PendingBound, Departed, Off
  <1>5. QED
    BY <1>1, <1>2, <1>3, <1>4 DEF TripInv

\* Every step keeps the invariant, if no lease runs out under a busy worker.
LEMMA TripStep ==
    ASSUME ~LeaseExpires, TripInv, [TripNext]_tripVars
    PROVE  TripInv'
  <1>1. CASE TripCommand
    BY <1>1, CreateStep, UpdateStep, ReopenStep, ApproveStep, StartStep, CancelStep,
       RemoveStep DEF TripCommand
  <1>2. CASE TripDriver
    BY <1>2, DeliverStep DEF TripDriver
  <1>3. CASE TripFault
    BY <1>3, GiveUpStep, LeaseRunsOutStep, CourierStep DEF TripFault
  <1>4. CASE \E t \in Trips, u \in Users, i \in Operations :
               \E S \in SUBSET Shipments \ {{}}, asked \in [Shipments -> ShipVersions] :
                   Add(t, S, u, i, asked)
    <2>1. \A asked \in [Shipments -> ShipVersions] : asked \in [Shipments -> Nat]
      BY TripAssumption
    <2>2. QED
      BY <1>4, <2>1, AddStep
  <1>5. CASE \E s \in Shipments, v \in ShipVersions, i \in Operations : ShipmentCanceled(s, v, i)
    BY <1>5, TripAssumption, ShipmentCanceledStep
  <1>6. ASSUME NEW w \in Workers, TripWorker(w)
        PROVE  TripInv'
    BY <1>6, ResumeStep, SendStep, GiveUpStep, PersistClaimStep, CompensateStep,
       PersistReleaseStep, EndClaimsStep, FinalizeStep DEF TripWorker, SendClaim, SendRelease
  <1>7. ASSUME NEW w \in Workers,
               \/ \E a \in {"CLAIMED", "BAD_PLACE", "UNREADABLE", "REFUSED"} :
                     ClaimAnswered(w, a)
               \/ \E a \in {"RELEASED", "REFUSED"} : ReleaseAnswered(w, a)
        PROVE  TripInv'
    BY <1>7, AnsweredStep DEF ClaimAnswered, ReleaseAnswered
  <1>8. ASSUME NEW c \in Couriers,
               \/ TripCourier(c) \/ Select(c)
               \/ \E a \in {"PENDING", "REJECTED", "COMPLETED"} : BatchAnswered(c, a)
        PROVE  TripInv'
    BY <1>8, TakeUpStep, CourierStep, DecisionStep, CommitStep DEF TripCourier
  <1>9. CASE UNCHANGED tripVars
    <2>1. UNCHANGED <<trip, op, member, stop, td, worker, courier, late>>
      BY <1>9 DEF tripVars
    <2>2. \A c \in Couriers : courier'[c].phase # "idle" => courier'[c].batch \in Batches
      BY <2>1 DEF TripInv, DispatchRows
    <2>3. QED
      BY <2>1, <2>2, Tables, DispatchStep
  <1>10. QED
    BY <1>1, <1>2, <1>3, <1>4, <1>5, <1>6, <1>7, <1>8, <1>9 DEF TripNext

\* The invariant holds in every state of the transport-service, for any number
\* of trips, operations, dispatches and processes, if no lease runs out under
\* a busy worker: a trip has one writer at a time.
THEOREM TripSafe == ~LeaseExpires => (TripSpec => []TripInv)
  <1>1. SUFFICES ASSUME ~LeaseExpires
                 PROVE  TripSpec => []TripInv
    OBVIOUS
  <1>2. TripInv /\ [TripNext]_tripVars => TripInv'
    BY <1>1, TripStep
  <1>3. QED
    BY <1>2, TripInitially, PTL DEF TripSpec

\* The tables of the transport-service keep their types.
THEOREM TripTyped == ~LeaseExpires => (TripSpec => []TripTypeOK)
  <1>1. TripInv => TripTypeOK
    BY DEF TripInv
  <1>2. QED
    BY <1>1, TripSafe, PTL

\* A dispatch that was submitted to fulfillment keeps hold of its trip until
\* it is decided, whatever planners, drivers, workers and other couriers do:
\* commit never finds the binding of a granted trip changed.
THEOREM SubmittedKeepsTrip == ~LeaseExpires => (TripSpec => []SubmittedHolds)
  <1>1. TripInv => SubmittedHolds
    BY DEF TripInv, PendingBound, SubmittedHolds
  <1>2. QED
    BY <1>1, TripSafe, PTL
=============================================================================
