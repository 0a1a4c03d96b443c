------------------------------ MODULE Custody ------------------------------
(***************************************************************************)
(* What trips promise about shipments, without claims, receipts, retries   *)
(* or services: a shipment in the warehouse may be taken by one trip and   *)
(* given back; a trip leaves once, with everything it has taken; a         *)
(* shipment that is on the road comes to one outcome.  An order that is    *)
(* canceled withdraws its shipment, which a trip may still have to give    *)
(* back.  Module TripFulfillment implements this.                          *)
(***************************************************************************)
CONSTANTS Shipments, Trips, NoTrip

VARIABLES
    holder,   \* the trip that has taken a shipment
    place     \* where a shipment is

custodyVars == <<holder, place>>

Outcome == {"DELIVERED", "FAILED"}
Place == {"warehouse", "road", "withdrawn"} \cup Outcome

HeldBy(t) == {s \in Shipments : holder[s] = t}

CustodyInit ==
    /\ holder = [s \in Shipments |-> NoTrip]
    /\ place = [s \in Shipments |-> "warehouse"]

Take(s, t) ==
    /\ place[s] = "warehouse" /\ holder[s] = NoTrip
    /\ \A q \in HeldBy(t) : place[q] \in {"warehouse", "withdrawn"}
    /\ holder' = [holder EXCEPT ![s] = t]
    /\ UNCHANGED place

GiveBack(s) ==
    /\ place[s] \in {"warehouse", "withdrawn"}
    /\ holder' = [holder EXCEPT ![s] = NoTrip]
    /\ UNCHANGED place

\* The whole trip leaves: nothing it holds stays behind or follows later.
Depart(t) ==
    /\ HeldBy(t) # {}
    /\ \A s \in HeldBy(t) : place[s] = "warehouse"
    /\ place' = [s \in Shipments |-> IF s \in HeldBy(t) THEN "road" ELSE place[s]]
    /\ UNCHANGED holder

DepartAlone(s) ==
    /\ place[s] = "warehouse" /\ holder[s] = NoTrip
    /\ place' = [place EXCEPT ![s] = "road"]
    /\ UNCHANGED holder

Withdraw(s) ==
    /\ place[s] = "warehouse"
    /\ place' = [place EXCEPT ![s] = "withdrawn"]
    /\ UNCHANGED holder

Arrive(s, outcome) ==
    /\ place[s] = "road"
    /\ place' = [place EXCEPT ![s] = outcome]
    /\ UNCHANGED holder

CustodyNext ==
    \/ \E t \in Trips : Depart(t)
    \/ \E s \in Shipments :
          \/ GiveBack(s) \/ DepartAlone(s) \/ Withdraw(s)
          \/ \E t \in Trips : Take(s, t)
          \/ \E outcome \in Outcome : Arrive(s, outcome)

CustodySpec == CustodyInit /\ [][CustodyNext]_custodyVars
=============================================================================
