----------------------------- MODULE StockRetry -----------------------------
(***************************************************************************)
(* The FIFO retry of PENDING_STOCK orders when stock becomes available.    *)
(*                                                                         *)
(* order-service consumes StockReceived, StockReleased, OrderPendingStock  *)
(* and the OrderUpdated of a pending order.  One handler runs at a time    *)
(* for a warehouse (advisory lock): it reads the pending candidates with   *)
(* their versions, oldest first, and confirms them one after the other,    *)
(* each in a transaction of its own, while users confirm, edit and cancel  *)
(* the same orders.  A failed pass is redelivered; the inbox of an order   *)
(* keeps an event from deciding about it twice.                            *)
(*                                                                         *)
(* Here a call of inventory-service fails before it has an effect; what    *)
(* late calls do is the subject of module OrderReservation.                *)
(***************************************************************************)
EXTENDS Order, SequencesExt

CONSTANTS
    MaxQty, Products, Movements, Delta,    \* as in Inventory; all are receipts
    ManualVersion,     \* bound: users confirm or edit at this version at most
    MaxFailures,       \* bound: passes and calls that fail
    ManualRetry        \* do users retry orders that are PENDING_STOCK already?

VARIABLES
    onHand, reserved, rsv, applied,    \* inventory-service
    answer,       \* answer[o]: reserve's answer to the confirm in progress
    about,        \* about[o][v]: the products in the payload of o's event v
    handler,      \* the pass in progress: stage, event, candidates left
    processed,    \* inbox order-stock-events: events whose pass completed
    decided,      \* inboxes order-reservation:{id}: <<o, event>>
    failures      \* how many passes and calls failed so far

Inv == INSTANCE Inventory

stockVars == <<onHand, reserved, rsv, applied>>
replyVars == <<answer, about>>
retryVars == <<orderVars, stockVars, replyVars, handler, processed, decided, failures>>

-----------------------------------------------------------------------------
(* The events that wake the handler, and the products they are about. *)

Received == {"StockReceived"} \X Movements \X Products
Released == {"StockReleased"} \X Inv!Groups
Versions == 1 .. MaxVersion + 1
Pending == {"OrderPendingStock", "OrderUpdated"} \X Orders \X Versions

\* Mutant: OrderPendingStock does not wake the handler.
WakesOnStockOnly ==
    {e \in Received : e[2] \in applied /\ Delta[e[2]][e[3]] > 0}
    \cup {e \in Released : rsv[e[2]].status = "RELEASED"}

Wakes ==
    {e \in Received : e[2] \in applied /\ Delta[e[2]][e[3]] > 0}
    \cup {e \in Released : rsv[e[2]].status = "RELEASED"}
    \cup {<<e.type, e.order, e.version>> : e \in
            {f \in orderLog : /\ f.type \in {"OrderPendingStock", "OrderUpdated"}
                              /\ f.status = "PENDING_STOCK"}}

Asks(lines) == {p \in Products : lines[p] > 0}

\* shortageItems of an OrderPendingStock, orderLines of an OrderUpdated.
Touches(e) ==
    IF e[1] = "StockReceived" THEN {e[3]}
    ELSE IF e[1] = "StockReleased" THEN Asks(rsv[e[2]].lines)
    ELSE about[e[2]][e[3]]

Candidates(e) ==
    {o \in Orders : /\ order[o].status = "PENDING_STOCK"
                    /\ ~order[o].cancelling
                    /\ Asks(order[o].lines) \cap Touches(e) # {}}

\* Oldest pendingSince first; the clock makes no two of them equal.
Fifo(S) ==
    LET older(a, b) == order[a].since < order[b].since
        seq == SetToSortSeq(S, older)
    IN  [i \in 1 .. Len(seq) |-> [order |-> seq[i], version |-> order[seq[i]].version]]

Idle == [stage |-> "idle", event |-> <<>>, todo |-> <<>>]

RetryInit ==
    /\ OrderInit
    /\ Inv!InventoryInit
    /\ answer = [o \in Orders |-> "none"]
    /\ about = [o \in Orders |-> [v \in Versions |-> {}]]
    /\ handler = Idle
    /\ processed = {}
    /\ decided = {}
    /\ failures = 0

-----------------------------------------------------------------------------
(* The handler *)

StartPass(e) ==
    /\ handler.stage = "idle"
    /\ e \in Wakes \ processed
    /\ handler' = [stage |-> "next", event |-> e, todo |-> Fifo(Candidates(e))]
    /\ UNCHANGED <<orderVars, stockVars, replyVars, processed, decided, failures>>

Current == Head(handler.todo)

\* Mutant: the inbox of the order is not consulted.
SkipUndecided ==
    \/ ~assertConfirmable(Current.order, TRUE)
    \/ order[Current.order].version # Current.version

\* This event decided about the order before, or the order moved on: skipped.
Skip ==
    \/ <<Current.order, handler.event>> \in decided
    \/ ~assertConfirmable(Current.order, TRUE)
    \/ order[Current.order].version # Current.version

TryNext ==
    /\ handler.stage = "next"
    /\ handler.todo # <<>>
    /\ Unlocked(Current.order)
    /\ \/ /\ Skip
          /\ handler' = [handler EXCEPT !.todo = Tail(@)]
          /\ UNCHANGED <<orderVars, answer>>
       \/ /\ ~Skip
          /\ BeginConfirm(Current.order, Current.version, TRUE)
          /\ answer' = [answer EXCEPT ![Current.order] = "none"]
          /\ handler' = [handler EXCEPT !.stage = "confirming"]
    /\ UNCHANGED <<stockVars, about, processed, decided, failures>>

FinishPass ==
    /\ handler.stage = "next"
    /\ handler.todo = <<>>
    /\ processed' = processed \cup {handler.event}
    /\ handler' = Idle
    /\ UNCHANGED <<orderVars, stockVars, replyVars, decided, failures>>

Failure == failures < MaxFailures /\ failures' = failures + 1

\* A timeout or a crash between two candidates; the event is redelivered.
FailPass ==
    /\ handler.stage = "next"
    /\ handler' = Idle
    /\ Failure
    /\ UNCHANGED <<orderVars, stockVars, replyVars, processed, decided>>

-----------------------------------------------------------------------------
(* confirm, by a user or by the handler *)

Retrying(o) == handler.stage = "confirming" /\ Current.order = o

UserConfirm(o) ==
    /\ order[o].status = "DRAFT" \/ ManualRetry
    /\ order[o].version <= ManualVersion
    /\ BeginConfirm(o, order[o].version, FALSE)
    /\ answer' = [answer EXCEPT ![o] = "none"]
    /\ UNCHANGED <<stockVars, about, handler, processed, decided, failures>>

\* Products of order o that are short now.
Shortage(o) == {p \in Products : order[o].lines[p] > Inv!Available(p)}

\* The event of the next version, if one is emitted, names what is short here.
AnswerReserve(o) ==
    /\ tx[o].kind = "confirm"
    /\ answer[o] = "none"
    /\ Inv!Reserve(o, order[o].version, order[o].lines)
    /\ answer' = [answer EXCEPT ![o] =
                    Inv!ReserveOutcome(o, order[o].version, order[o].lines)]
    /\ about' = [about EXCEPT ![o][order[o].version + 1] = Shortage(o)]
    /\ UNCHANGED <<orderVars, handler, processed, decided, failures>>

\* The decision commits; for the handler together with the order's inbox.
CommitConfirm(o) ==
    /\ \/ answer[o] = "RESERVED" /\ CommitReserved(o)
       \/ answer[o] = "INSUFFICIENT" /\ CommitInsufficient(o)
    /\ IF Retrying(o)
       THEN /\ handler' = [handler EXCEPT !.stage = "next", !.todo = Tail(@)]
            /\ decided' = decided \cup {<<o, handler.event>>}
       ELSE UNCHANGED <<handler, decided>>
    /\ UNCHANGED <<stockVars, replyVars, processed, failures>>

\* The reserve call failed: a user's confirm is over, the handler's pass too.
FailConfirm(o) ==
    /\ tx[o].kind = "confirm"
    /\ answer[o] = "none"
    /\ Abort(o)
    /\ handler' = IF Retrying(o) THEN Idle ELSE handler
    /\ Failure
    /\ UNCHANGED <<stockVars, replyVars, processed, decided>>

-----------------------------------------------------------------------------
(* Other commands of users *)

NewOrder(o) ==
    /\ \E lines \in Demands : Create(o, lines)
    /\ UNCHANGED <<stockVars, replyVars, handler, processed, decided, failures>>

Edit(o) ==
    /\ order[o].version <= ManualVersion
    /\ Inv!Active(o) = {}
    /\ \E lines \in Demands : BeginUpdate(o, lines)
    /\ UNCHANGED <<stockVars, replyVars, handler, processed, decided, failures>>

Edited(o) ==
    /\ \E content \in BOOLEAN : CommitUpdate(o, content)
    /\ about' = [about EXCEPT ![o][order'[o].version] = Asks(order'[o].lines)]
    /\ UNCHANGED <<stockVars, answer, handler, processed, decided, failures>>

Cancel(o) ==
    /\ RequestCancel(o)
    /\ UNCHANGED <<stockVars, replyVars, handler, processed, decided, failures>>

ReleaseCanceled(o) ==
    /\ CanFinishCancel(o)
    /\ Inv!Active(o) # {}
    /\ Inv!ReleaseOrder(o)
    /\ UNCHANGED <<orderVars, replyVars, handler, processed, decided, failures>>

Canceled(o) ==
    /\ Inv!Active(o) = {}
    /\ FinishCancel(o)
    /\ UNCHANGED <<stockVars, replyVars, handler, processed, decided, failures>>

Receive(m) ==
    /\ Inv!ApplyMovement(m)
    /\ UNCHANGED <<orderVars, replyVars, handler, processed, decided, failures>>

RetryNext ==
    \/ \E e \in Wakes : StartPass(e)
    \/ TryNext \/ FinishPass \/ FailPass
    \/ \E o \in Orders :
          \/ UserConfirm(o) \/ AnswerReserve(o) \/ CommitConfirm(o) \/ FailConfirm(o)
          \/ NewOrder(o) \/ Edit(o) \/ Edited(o)
          \/ Cancel(o) \/ ReleaseCanceled(o) \/ Canceled(o)
    \/ \E m \in Movements : Receive(m)

HandlerStep == (\E e \in Wakes : StartPass(e)) \/ TryNext \/ FinishPass

(***************************************************************************)
(* Fairness: the consumer goes on to the next event or repeats a failed    *)
(* one, and a transaction in progress ends.  Users are not obliged to do   *)
(* anything, receipts need not arrive.                                     *)
(***************************************************************************)
RetryFairness ==
    /\ WF_retryVars(HandlerStep)
    /\ \A o \in Orders :
          WF_retryVars(AnswerReserve(o) \/ CommitConfirm(o) \/ Edited(o))

RetrySpec == RetryInit /\ [][RetryNext]_retryVars /\ RetryFairness

-----------------------------------------------------------------------------
(***************************************************************************)
(* An event decides about an order at most once, however often its pass    *)
(* fails and is redelivered.                                               *)
(***************************************************************************)
DecidedOnce ==
    [][\A o \in Orders : Retrying(o) /\ order'[o] # order[o]
          => <<o, handler.event>> \notin decided]_retryVars

\* A pending order whose lines could all be reserved now.
Satisfiable(o) ==
    /\ order[o].status = "PENDING_STOCK"
    /\ ~order[o].cancelling
    /\ \A p \in Products : Inv!Available(p) >= order[o].lines[p]

(***************************************************************************)
(* No lost wake-up: an order does not stay PENDING_STOCK for ever while    *)
(* the stock it needs is there.                                            *)
(***************************************************************************)
NoLostWakeUp ==
    \A o \in Orders : []<>~Satisfiable(o)
=============================================================================
