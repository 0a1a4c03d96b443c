---------------------------- MODULE OutboxProofs ----------------------------
(***************************************************************************)
(* The relays and consumers of module Outbox take the steps of module      *)
(* Delivery: whatever crashes, times out or arrives late, the events of an *)
(* aggregate take effect once each and in the order they were written.     *)
(* For any number of aggregates, events, relays and faults and for any     *)
(* batch size.                                                             *)
(*                                                                         *)
(* The order of events is nowhere looked at by the consumer, which only    *)
(* knows what it has had before.  It comes from the query of the relays,   *)
(* and has to be carried along every way a message can take: through a     *)
(* batch, a message given up and the log, where copies may be mixed with   *)
(* later events but the first copy of an event comes after the first copy  *)
(* of all earlier ones.                                                    *)
(***************************************************************************)
EXTENDS Outbox, FiniteSetTheorems, TLAPS

OutboxTypeOK ==
    /\ outbox \in Seq(Events)
    /\ published \subseteq Events /\ wire \subseteq Events /\ inbox \subseteq Events
    /\ relay \in [Relays -> [open : BOOLEAN, batch : SUBSET Events,
                             done : SUBSET Events, failed : SUBSET Events]]
    /\ log \in [Aggregates -> Seq(Events)]
    /\ offset \in [Aggregates -> Nat]
    /\ handled \in [Aggregates -> Seq(Nat)]

Rows == ToSet(outbox)

RowsOf(a) == {e \in Rows : e[1] = a}

\* The rows of an aggregate are numbered without gaps.
Numbered ==
    \A a \in Aggregates :
        IsFiniteSet(RowsOf(a)) /\ RowsOf(a) = {a} \X (1 .. Written(a))

Logged(e) == \E i \in 1 .. Len(log[e[1]]) : log[e[1]][i] = e

\* What a relay has marked is in the log, whether the mark was committed or not.
MarksTrue ==
    /\ \A e \in published : Logged(e)
    /\ \A r \in Relays : \A e \in relay[r].done : Logged(e)

Sendable(e) == e \in Rows /\ \A n \in 1 .. (e[2] - 1) : <<e[1], n>> \in published

\* Nothing is on its way to the log before its predecessors are published.
InFlight ==
    /\ \A e \in wire : Sendable(e)
    /\ \A r \in Relays : \A e \in relay[r].batch : Sendable(e)

\* A message in the log comes after a copy of each of its predecessors.
LogOrdered ==
    \A a \in Aggregates : \A i \in 1 .. Len(log[a]) :
        /\ log[a][i] \in RowsOf(a)
        /\ \A n \in 1 .. (log[a][i][2] - 1) : \E j \in 1 .. (i - 1) : log[a][j] = <<a, n>>

\* What the committed offset has passed took effect, and what took effect are
\* the first events of the aggregate.
Consumed ==
    \A a \in Aggregates :
        /\ offset[a] <= Len(log[a])
        /\ \A i \in 1 .. offset[a] : log[a][i] \in inbox
        /\ \A n \in Nat : <<a, n>> \in inbox <=> n \in 1 .. Len(handled[a])

OutboxInv ==
    OutboxTypeOK /\ Numbered /\ MarksTrue /\ InFlight /\ LogOrdered /\ Consumed

-----------------------------------------------------------------------------
(* Operators of the model *)

\* An event is a pair of an aggregate and a number.
LEMMA EventShape ==
    ASSUME NEW e \in Events
    PROVE  /\ e[1] \in Aggregates /\ e[2] \in Nat /\ e[2] >= 1 /\ e[2] <= MaxEvents[e[1]]
           /\ e = <<e[1], e[2]>>
  <1>1. PICK a \in Aggregates : e \in {a} \X (1 .. MaxEvents[a])
    BY DEF Events
  <1>2. MaxEvents[a] \in Nat
    BY OutboxAssumption
  <1> QED
    BY <1>1, <1>2

\* A pair within the bounds is an event.
LEMMA EventIs ==
    ASSUME NEW a \in Aggregates, NEW n \in Nat, n >= 1, n <= MaxEvents[a]
    PROVE  <<a, n>> \in Events
  <1>1. MaxEvents[a] \in Nat
    BY OutboxAssumption
  <1>2. <<a, n>> \in {a} \X (1 .. MaxEvents[a])
    BY <1>1
  <1> QED
    BY <1>2 DEF Events

\* Appending a row adds it to the set of rows.
LEMMA AppendRange ==
    ASSUME NEW S, NEW s \in Seq(S), NEW e \in S
    PROVE  /\ ToSet(s) \subseteq S
           /\ ToSet(Append(s, e)) = ToSet(s) \cup {e}
  <1>1. /\ Append(s, e) \in Seq(S)
        /\ Len(Append(s, e)) = Len(s) + 1
        /\ \A i \in 1 .. Len(s) : Append(s, e)[i] = s[i]
        /\ Append(s, e)[Len(s) + 1] = e
        /\ Len(s) \in Nat /\ DOMAIN s = 1 .. Len(s)
        /\ DOMAIN Append(s, e) = 1 .. (Len(s) + 1)
        /\ \A i \in 1 .. Len(s) : s[i] \in S
    OBVIOUS
  <1>2. ToSet(s) \subseteq S
    BY <1>1 DEF ToSet
  <1>3. ASSUME NEW x \in ToSet(Append(s, e))
        PROVE  x \in ToSet(s) \cup {e}
    <2>1. PICK i \in 1 .. (Len(s) + 1) : Append(s, e)[i] = x
      BY <1>1 DEF ToSet
    <2>2. CASE i \in 1 .. Len(s)
      BY <1>1, <2>1, <2>2 DEF ToSet
    <2>3. CASE i = Len(s) + 1
      BY <1>1, <2>1, <2>3
    <2> QED
      BY <1>1, <2>2, <2>3
  <1>4. ASSUME NEW x \in ToSet(s) \cup {e}
        PROVE  x \in ToSet(Append(s, e))
    <2>1. CASE x = e
      <3>1. Len(s) + 1 \in DOMAIN Append(s, e) /\ Append(s, e)[Len(s) + 1] = x
        BY <1>1, <2>1
      <3> QED
        BY <3>1 DEF ToSet
    <2>2. CASE x \in ToSet(s)
      <3>1. PICK i \in 1 .. Len(s) : s[i] = x
        BY <1>1, <2>2 DEF ToSet
      <3>2. i \in DOMAIN Append(s, e) /\ Append(s, e)[i] = x
        BY <1>1, <3>1
      <3> QED
        BY <3>2 DEF ToSet
    <2> QED
      BY <1>4, <2>1, <2>2
  <1> QED
    BY <1>2, <1>3, <1>4

\* The row that is written is the next of its aggregate, and only the count of
\* that aggregate changes.
LEMMA WrittenGrows ==
    ASSUME OutboxTypeOK, Numbered, NEW a \in Aggregates, WriteEvent(a)
    PROVE  /\ Written(a)' = Written(a) + 1
           /\ \A b \in Aggregates \ {a} : Written(b)' = Written(b)
           /\ \A b \in Aggregates : Written(b) \in Nat
           /\ Numbered'
           /\ outbox' \in Seq(Events)
           /\ Rows' = Rows \cup {<<a, Written(a) + 1>>}
  <1>1. \A b \in Aggregates : /\ Written(b) = Cardinality(RowsOf(b))
                              /\ Written(b)' = Cardinality(RowsOf(b)')
    BY DEF Written, RowsOf, Rows
  <1>2. \A b \in Aggregates : IsFiniteSet(RowsOf(b)) /\ RowsOf(b) = {b} \X (1 .. Written(b))
    BY DEF Numbered
  <1>3. \A b \in Aggregates : Written(b) \in Nat
    BY <1>1, <1>2, FS_CardinalityType
  <1> DEFINE e == <<a, Written(a) + 1>>
  <1>4. Written(a) < MaxEvents[a] /\ outbox' = Append(outbox, e)
    BY DEF WriteEvent
  <1>5. e \in Events
    <2>1. MaxEvents[a] \in Nat
      BY OutboxAssumption
    <2> QED
      BY <1>3, <1>4, <2>1, EventIs
  <1>6. e[1] = a
    OBVIOUS
  <1>7. e \notin RowsOf(a)
    BY <1>2, <1>3
  <1>8. outbox \in Seq(Events)
    BY DEF OutboxTypeOK
  <1>9. Rows' = Rows \cup {e} /\ outbox' \in Seq(Events)
    BY <1>4, <1>5, <1>8, AppendRange DEF Rows
  <1> HIDE DEF e
  <1>10. RowsOf(a)' = RowsOf(a) \cup {e}
    BY <1>6, <1>9 DEF RowsOf
  <1>11. \A b \in Aggregates \ {a} : RowsOf(b)' = RowsOf(b)
    BY <1>6, <1>9 DEF RowsOf
  <1>12. IsFiniteSet(RowsOf(a)') /\ Cardinality(RowsOf(a)') = Cardinality(RowsOf(a)) + 1
    BY <1>2, <1>7, <1>10, FS_AddElement
  <1>13. Written(a)' = Written(a) + 1
    BY <1>1, <1>12
  <1>14. \A b \in Aggregates \ {a} : Written(b)' = Written(b)
    BY <1>1, <1>11
  <1>15. RowsOf(a)' = {a} \X (1 .. Written(a)')
    BY <1>2, <1>3, <1>10, <1>13 DEF e
  <1>16. Numbered'
    <2>1. \A b \in Aggregates \ {a} :
             IsFiniteSet(RowsOf(b)') /\ RowsOf(b)' = {b} \X (1 .. Written(b)')
      BY <1>2, <1>11, <1>14
    <2> QED
      BY <1>12, <1>15, <2>1 DEF Numbered
  <1> QED
    BY <1>3, <1>9, <1>13, <1>14, <1>16 DEF e

\* The other actions leave the count of rows alone.
LEMMA WrittenStays ==
    ASSUME outbox' = outbox
    PROVE  /\ Rows' = Rows /\ Numbered' = Numbered
           /\ \A a \in Aggregates : Written(a)' = Written(a) /\ RowsOf(a)' = RowsOf(a)
  BY DEF Rows, RowsOf, Written, Numbered

-----------------------------------------------------------------------------
(* Messages reach the log *)

\* Publishing more, and writing more, keeps what is on its way sendable.
LEMMA StillSendable ==
    ASSUME NEW e, Sendable(e), Rows \subseteq Rows', published \subseteq published'
    PROVE  Sendable(e)'
  BY DEF Sendable

\* The log of an aggregate only grows: what is in it stays, in its place.
LEMMA LogGrows ==
    ASSUME OutboxTypeOK, NEW e \in Events,
           \/ log' = log
           \/ log' = [log EXCEPT ![e[1]] = Append(@, e)]
    PROVE  /\ log' \in [Aggregates -> Seq(Events)]
           /\ \A a \in Aggregates :
                 /\ Len(log[a]) \in Nat /\ Len(log[a]') \in Nat
                 /\ Len(log[a]) <= Len(log[a]')
                 /\ \A i \in 1 .. Len(log[a]) : log[a]'[i] = log[a][i]
                 /\ \A i \in 1 .. Len(log[a]') :
                       \/ i \in 1 .. Len(log[a])
                       \/ a = e[1] /\ i = Len(log[a]) + 1 /\ log[a]'[i] = e
           /\ \A f \in Events : Logged(f) => Logged(f)'
  <1>1. e[1] \in Aggregates
    BY EventShape
  <1>2. log \in [Aggregates -> Seq(Events)]
    BY DEF OutboxTypeOK
  <1>3. log' \in [Aggregates -> Seq(Events)]
    <2>1. CASE log' = log
      BY <1>2, <2>1
    <2>2. CASE log' = [log EXCEPT ![e[1]] = Append(@, e)]
      <3>1. Append(log[e[1]], e) \in Seq(Events)
        BY <1>1, <1>2
      <3> QED
        BY <1>2, <2>2, <3>1
    <2> QED
      BY <2>1, <2>2
  <1>4. ASSUME NEW a \in Aggregates
        PROVE  /\ Len(log[a]) \in Nat /\ Len(log[a]') \in Nat
               /\ Len(log[a]) <= Len(log[a]')
               /\ \A i \in 1 .. Len(log[a]) : log[a]'[i] = log[a][i]
               /\ \A i \in 1 .. Len(log[a]') :
                     \/ i \in 1 .. Len(log[a])
                     \/ a = e[1] /\ i = Len(log[a]) + 1 /\ log[a]'[i] = e
    <2>1. log[a] \in Seq(Events)
      BY <1>2
    <2>2. CASE log[a]' = log[a]
      BY <2>1, <2>2
    <2>3. CASE a = e[1] /\ log[a]' = Append(log[a], e)
      BY <2>1, <2>3
    <2> QED
      BY <1>1, <1>2, <2>2, <2>3
  <1>5. ASSUME NEW f \in Events, Logged(f)
        PROVE  Logged(f)'
    <2>1. f[1] \in Aggregates
      BY EventShape
    <2>2. PICK i \in 1 .. Len(log[f[1]]) : log[f[1]][i] = f
      BY <1>5 DEF Logged
    <2>3. i \in 1 .. Len(log[f[1]]') /\ log[f[1]]'[i] = f
      BY <1>4, <2>1, <2>2
    <2> QED
      BY <2>3 DEF Logged
  <1> QED
    BY <1>3, <1>4, <1>5

\* A message that may be sent keeps the log in order when it is appended, for
\* its predecessors are published, hence in the log.
LEMMA SendKeepsOrder ==
    ASSUME OutboxTypeOK, MarksTrue, LogOrdered, Consumed,
           NEW e \in Events, Sendable(e),
           \/ log' = log
           \/ log' = [log EXCEPT ![e[1]] = Append(@, e)],
           outbox' = outbox, offset' = offset, inbox' = inbox, handled' = handled
    PROVE  LogOrdered' /\ Consumed'
  <1>1. /\ e[1] \in Aggregates /\ e[2] \in Nat
        /\ e = <<e[1], e[2]>>
    BY EventShape
  <1>2. \A a \in Aggregates :
           /\ Len(log[a]) \in Nat /\ Len(log[a]') \in Nat
           /\ Len(log[a]) <= Len(log[a]')
           /\ \A i \in 1 .. Len(log[a]) : log[a]'[i] = log[a][i]
           /\ \A i \in 1 .. Len(log[a]') :
                 \/ i \in 1 .. Len(log[a])
                 \/ a = e[1] /\ i = Len(log[a]) + 1 /\ log[a]'[i] = e
    BY LogGrows
  <1>3. \A a \in Aggregates : RowsOf(a)' = RowsOf(a)
    BY WrittenStays
  <1>4. ASSUME NEW a \in Aggregates, NEW i \in 1 .. Len(log[a]')
        PROVE  /\ log[a]'[i] \in RowsOf(a)'
               /\ \A n \in 1 .. (log[a]'[i][2] - 1) : \E j \in 1 .. (i - 1) : log[a]'[j] = <<a, n>>
    <2>1. CASE i \in 1 .. Len(log[a])
      <3>1. /\ log[a][i] \in RowsOf(a)
            /\ \A n \in 1 .. (log[a][i][2] - 1) : \E j \in 1 .. (i - 1) : log[a][j] = <<a, n>>
        BY <2>1 DEF LogOrdered
      <3>2. log[a]'[i] = log[a][i]
        BY <1>2, <2>1
      <3>3. \A j \in 1 .. (i - 1) : log[a]'[j] = log[a][j]
        BY <1>2, <2>1
      <3> QED
        BY <1>3, <3>1, <3>2, <3>3
    <2>2. CASE a = e[1] /\ i = Len(log[a]) + 1 /\ log[a]'[i] = e
      <3>1. e \in RowsOf(a)
        BY <2>2 DEF Sendable, RowsOf
      <3>2. ASSUME NEW n \in 1 .. (e[2] - 1)
            PROVE  \E j \in 1 .. (i - 1) : log[a]'[j] = <<a, n>>
        <4>1. Logged(<<a, n>>)
          BY <2>2, <3>2 DEF Sendable, MarksTrue
        <4>2. PICK j \in 1 .. Len(log[a]) : log[a][j] = <<a, n>>
          BY <4>1 DEF Logged
        <4>3. j \in 1 .. (i - 1) /\ log[a]'[j] = <<a, n>>
          BY <1>2, <2>2, <4>2
        <4> QED
          BY <4>3
      <3> QED
        BY <1>3, <2>2, <3>1, <3>2
    <2> QED
      BY <1>2, <2>1, <2>2
  <1>5. ASSUME NEW a \in Aggregates
        PROVE  /\ offset'[a] <= Len(log[a]')
               /\ \A i \in 1 .. offset'[a] : log[a]'[i] \in inbox'
               /\ \A n \in Nat : <<a, n>> \in inbox' <=> n \in 1 .. Len(handled'[a])
    <2>1. /\ offset[a] <= Len(log[a])
          /\ \A i \in 1 .. offset[a] : log[a][i] \in inbox
          /\ \A n \in Nat : <<a, n>> \in inbox <=> n \in 1 .. Len(handled[a])
      BY DEF Consumed
    <2>2. offset[a] \in Nat
      BY DEF OutboxTypeOK
    <2>3. \A i \in 1 .. offset[a] : i \in 1 .. Len(log[a])
      BY <1>2, <2>1, <2>2
    <2>4. offset[a] <= Len(log[a]')
      BY <1>2, <2>1, <2>2
    <2> QED
      BY <1>2, <2>1, <2>3, <2>4
  <1>6. LogOrdered'
    BY <1>4 DEF LogOrdered
  <1>7. Consumed'
    BY <1>5 DEF Consumed
  <1> QED
    BY <1>6, <1>7

-----------------------------------------------------------------------------
(* The steps of the relays *)

RelayType == [open : BOOLEAN, batch : SUBSET Events, done : SUBSET Events, failed : SUBSET Events]

\* What a step of a relay has to respect.
LEMMA RelayFrame ==
    ASSUME OutboxInv, NEW e,
           \/ log' = log
           \/ e \in Events /\ Sendable(e) /\ log' = [log EXCEPT ![e[1]] = Append(@, e)],
           outbox' = outbox, offset' = offset, inbox' = inbox, handled' = handled,
           published \subseteq published', published' \subseteq Events,
           \A f \in published' : Logged(f)',
           relay' \in [Relays -> RelayType],
           \A q \in Relays : \A f \in relay'[q].batch : Sendable(f),
           \A q \in Relays : \A f \in relay'[q].done : Logged(f)',
           wire' \subseteq Events,
           \A f \in wire' : Sendable(f)
    PROVE  OutboxInv'
  <1>1. /\ OutboxTypeOK /\ Numbered /\ MarksTrue /\ InFlight /\ LogOrdered /\ Consumed
    BY DEF OutboxInv
  <1>2. Rows' = Rows /\ Numbered'
    BY <1>1, WrittenStays
  <1>3. /\ log' \in [Aggregates -> Seq(Events)]
        /\ LogOrdered' /\ Consumed'
    <2>1. CASE log' = log
      <3>1. log' \in [Aggregates -> Seq(Events)]
        BY <1>1, <2>1 DEF OutboxTypeOK
      <3>2. LogOrdered'
        <4>1. \A a \in Aggregates : RowsOf(a)' = RowsOf(a)
          BY WrittenStays
        <4>2. ASSUME NEW a \in Aggregates, NEW i \in 1 .. Len(log'[a])
              PROVE  /\ log'[a][i] \in RowsOf(a)'
                     /\ \A n \in 1 .. (log'[a][i][2] - 1) :
                           \E j \in 1 .. (i - 1) : log'[a][j] = <<a, n>>
          <5>1. log'[a] = log[a] /\ i \in 1 .. Len(log[a])
            BY <2>1
          <5>2. /\ log[a][i] \in RowsOf(a)
                /\ \A n \in 1 .. (log[a][i][2] - 1) :
                      \E j \in 1 .. (i - 1) : log[a][j] = <<a, n>>
            BY <1>1, <5>1 DEF LogOrdered
          <5> QED
            BY <4>1, <5>1, <5>2
        <4> QED
          BY <4>2 DEF LogOrdered
      <3>3. Consumed'
        BY <1>1, <2>1 DEF Consumed
      <3> QED
        BY <3>1, <3>2, <3>3
    <2>2. CASE e \in Events /\ Sendable(e) /\ log' = [log EXCEPT ![e[1]] = Append(@, e)]
      <3>1. e \in Events
        BY <2>2
      <3>2. log' \in [Aggregates -> Seq(Events)]
        BY <1>1, <2>2, <3>1, LogGrows
      <3>3. LogOrdered' /\ Consumed'
        <4>1. Sendable(e)
          BY <2>2
        <4>2. log' = log \/ log' = [log EXCEPT ![e[1]] = Append(@, e)]
          BY <2>2
        <4> QED
          BY <1>1, <3>1, <4>1, <4>2, SendKeepsOrder
      <3> QED
        BY <3>2, <3>3
    <2> QED
      BY <2>1, <2>2
  <1>4. OutboxTypeOK'
    BY <1>1, <1>3 DEF OutboxTypeOK, RelayType
  <1>5. \A f : Sendable(f) => Sendable(f)'
    BY <1>2, StillSendable
  <1>6. MarksTrue'
    BY DEF MarksTrue
  <1>7. InFlight'
    BY <1>5 DEF InFlight
  <1> QED
    BY <1>2, <1>3, <1>4, <1>6, <1>7 DEF OutboxInv

\* Facts of the invariant that the steps of the relays use.
LEMMA RelayFacts ==
    ASSUME OutboxInv
    PROVE  /\ relay \in [Relays -> RelayType]
           /\ published \subseteq Events /\ wire \subseteq Events
           /\ \A f \in wire : Sendable(f)
           /\ \A q \in Relays : /\ relay[q] \in RelayType
                                /\ \A f \in relay[q].batch : f \in Events /\ Sendable(f)
                                /\ \A f \in relay[q].done : f \in Events /\ Logged(f)
           /\ \A f \in published : Logged(f)
  <1>1. relay \in [Relays -> RelayType] /\ published \subseteq Events /\ wire \subseteq Events
    BY DEF OutboxInv, OutboxTypeOK, RelayType
  <1>2. \A q \in Relays : relay[q] \in RelayType
    BY <1>1
  <1>3. \A q \in Relays : relay[q].batch \subseteq Events /\ relay[q].done \subseteq Events
    BY <1>2 DEF RelayType
  <1> QED
    BY <1>1, <1>2, <1>3 DEF OutboxInv, MarksTrue, InFlight

\* A mark takes the event out of the batch, and the relay remembers no more
\* than it is told.
LEMMA MarkShape ==
    ASSUME OutboxInv, NEW r \in Relays, NEW e, NEW D \in SUBSET Events, NEW F \in SUBSET Events,
           Mark(r, e, D, F)
    PROVE  /\ relay' \in [Relays -> RelayType]
           /\ \A q \in Relays : /\ relay'[q].batch \subseteq relay[q].batch
                                /\ relay'[q].done \subseteq relay[q].done \cup D
  <1>1. relay \in [Relays -> RelayType] /\ \A q \in Relays : relay[q] \in RelayType
    BY RelayFacts
  <1> DEFINE new == IF ~relay[r].open THEN Quiet
                    ELSE [open |-> TRUE, batch |-> relay[r].batch \ {e},
                          done |-> relay[r].done \cup D, failed |-> relay[r].failed \cup F]
  <1>2. relay' = [relay EXCEPT ![r] = new]
    BY DEF Mark
  <1>3. /\ new \in RelayType
        /\ new.batch \subseteq relay[r].batch
        /\ new.done \subseteq relay[r].done \cup D
    BY <1>1 DEF RelayType, Quiet
  <1> HIDE DEF new
  <1>4. relay' \in [Relays -> RelayType]
    BY <1>1, <1>2, <1>3
  <1>5. \A q \in Relays : relay'[q] = IF q = r THEN new ELSE relay[q]
    BY <1>1, <1>2
  <1> QED
    BY <1>3, <1>4, <1>5

\* Starting over forgets the batch and the marks.
LEMMA QuietShape ==
    ASSUME OutboxInv, NEW r \in Relays, relay' = [relay EXCEPT ![r] = Quiet]
    PROVE  /\ relay' \in [Relays -> RelayType]
           /\ \A q \in Relays : /\ relay'[q].batch \subseteq relay[q].batch
                                /\ relay'[q].done \subseteq relay[q].done
  <1>1. relay \in [Relays -> RelayType]
    BY RelayFacts
  <1>2. Quiet \in RelayType /\ Quiet.batch = {} /\ Quiet.done = {}
    BY DEF Quiet, RelayType
  <1>3. relay' \in [Relays -> RelayType]
    BY <1>1, <1>2
  <1>4. \A q \in Relays : relay'[q] = IF q = r THEN Quiet ELSE relay[q]
    BY <1>1
  <1> QED
    BY <1>2, <1>3, <1>4

\* The query takes rows whose predecessors are published.
LEMMA FlushKeeps ==
    ASSUME OutboxInv, NEW r \in Relays, Flush(r)
    PROVE  OutboxInv'
  <1>1. outbox \in Seq(Events)
    BY DEF OutboxInv, OutboxTypeOK
  <1>2. \A f \in LockedBatch : f \in Rows /\ Ready(f)
    BY DEF LockedBatch, Rows, ToSet
  <1>3. Rows \subseteq Events
    BY <1>1 DEF Rows, ToSet
  <1>4. \A f \in LockedBatch : f \in Events /\ Sendable(f)
    BY <1>2, <1>3 DEF Ready, Sendable
  <1> DEFINE B == LockedBatch
             new == [Quiet EXCEPT !.open = TRUE, !.batch = B]
  <1>5. relay' = [relay EXCEPT ![r] = new]
    BY DEF Flush
  <1>6. \A f \in B : f \in Events /\ Sendable(f)
    BY <1>4
  <1> HIDE DEF B
  <1>7. new \in RelayType /\ new.batch = B /\ new.done = {}
    BY <1>6 DEF RelayType, Quiet
  <1> HIDE DEF new
  <1>8. relay \in [Relays -> RelayType]
    BY RelayFacts
  <1>9. relay' \in [Relays -> RelayType]
    BY <1>5, <1>7, <1>8
  <1>10. \A q \in Relays : relay'[q] = IF q = r THEN new ELSE relay[q]
    BY <1>5, <1>8
  <1>11. \A q \in Relays : \A f \in relay'[q].batch : Sendable(f)
    BY <1>6, <1>7, <1>10, RelayFacts
  <1>12. log' = log /\ UNCHANGED <<outbox, published, wire, offset, inbox, handled>>
    BY DEF Flush
  <1>13. \A f : Logged(f) => Logged(f)'
    BY <1>12 DEF Logged
  <1>14. \A q \in Relays : \A f \in relay'[q].done : Logged(f)'
    BY <1>7, <1>10, <1>13, RelayFacts
  <1>15. \A f \in published' : Logged(f)'
    BY <1>12, <1>13, RelayFacts
  <1> QED
    BY <1>9, <1>11, <1>12, <1>14, <1>15, RelayFacts, RelayFrame

\* A send that the broker has acknowledged.
LEMMA PublishRawKeeps ==
    ASSUME OutboxInv, NEW r \in Relays, PublishRaw(r)
    PROVE  OutboxInv'
  <1>1. PICK e \in relay[r].batch \ Refused :
             /\ log' = [log EXCEPT ![e[1]] = Append(@, e)]
             /\ Mark(r, e, {e}, {})
    BY DEF PublishRaw
  <1>2. e \in Events /\ Sendable(e)
    BY RelayFacts
  <1>3. UNCHANGED <<outbox, published, wire, offset, inbox, handled>>
    BY DEF PublishRaw
  <1>4. OutboxTypeOK
    BY DEF OutboxInv
  <1>5. e \in Events
    BY <1>2
  <1>6. \A f \in Events : Logged(f) => Logged(f)'
    BY <1>1, <1>4, <1>5, LogGrows
  <1>7. Logged(e)'
    <2>1. e[1] \in Aggregates
      BY <1>5, EventShape
    <2>2. log \in [Aggregates -> Seq(Events)]
      BY <1>4 DEF OutboxTypeOK
    <2>3. log[e[1]] \in Seq(Events) /\ log'[e[1]] = Append(log[e[1]], e)
      BY <1>1, <2>1, <2>2
    <2>4. /\ Len(log'[e[1]]) = Len(log[e[1]]) + 1 /\ Len(log[e[1]]) \in Nat
          /\ log'[e[1]][Len(log[e[1]]) + 1] = e
      BY <1>5, <2>3
    <2>5. Len(log[e[1]]) + 1 \in 1 .. Len(log'[e[1]])
      BY <2>4
    <2> QED
      BY <2>4, <2>5 DEF Logged
  <1>8. /\ relay' \in [Relays -> RelayType]
        /\ \A q \in Relays : /\ relay'[q].batch \subseteq relay[q].batch
                             /\ relay'[q].done \subseteq relay[q].done \cup {e}
    <2>1. {e} \in SUBSET Events /\ {} \in SUBSET Events
      BY <1>5
    <2> QED
      BY <1>1, <2>1, MarkShape
  <1>9. \A q \in Relays : \A f \in relay'[q].batch : Sendable(f)
    BY <1>8, RelayFacts
  <1>10. \A q \in Relays : \A f \in relay'[q].done : Logged(f)'
    BY <1>6, <1>7, <1>8, RelayFacts
  <1>11. \A f \in published' : Logged(f)'
    BY <1>3, <1>6, RelayFacts
  <1> QED
    BY <1>1, <1>2, <1>3, <1>8, <1>9, <1>10, <1>11, RelayFacts, RelayFrame

\* Steps that put nothing into the log: no relay takes anything on and the
\* messages given up are those of a batch.
LEMMA NothingSent ==
    ASSUME OutboxInv, UNCHANGED <<outbox, published, log, offset, inbox, handled>>,
           relay' \in [Relays -> RelayType],
           \A q \in Relays : /\ relay'[q].batch \subseteq relay[q].batch
                             /\ relay'[q].done \subseteq relay[q].done,
           NEW r \in Relays,
           wire' \subseteq wire \cup relay[r].batch
    PROVE  OutboxInv'
  <1>1. \A f : Logged(f) => Logged(f)'
    BY DEF Logged
  <1>2. \A q \in Relays : \A f \in relay'[q].batch : Sendable(f)
    BY RelayFacts
  <1>3. \A q \in Relays : \A f \in relay'[q].done : Logged(f)'
    BY <1>1, RelayFacts
  <1>4. \A f \in published' : Logged(f)'
    BY <1>1, RelayFacts
  <1>5. wire' \subseteq Events /\ \A f \in wire' : Sendable(f)
    BY RelayFacts
  <1> QED
    BY <1>2, <1>3, <1>4, <1>5, RelayFacts, RelayFrame

\* A refused message is not sent at all.
LEMMA PublishRefusedKeeps ==
    ASSUME OutboxInv, NEW r \in Relays, PublishRefused(r)
    PROVE  OutboxInv'
  <1>1. PICK e \in relay[r].batch \cap Refused : Mark(r, e, {}, {e})
    BY DEF PublishRefused
  <1>2. {} \in SUBSET Events /\ {e} \in SUBSET Events
    BY RelayFacts
  <1>3. /\ relay' \in [Relays -> RelayType]
        /\ \A q \in Relays : /\ relay'[q].batch \subseteq relay[q].batch
                             /\ relay'[q].done \subseteq relay[q].done \cup {}
    BY <1>1, <1>2, MarkShape
  <1>4. UNCHANGED <<outbox, published, wire, log, offset, inbox, handled>>
    BY DEF PublishRefused
  <1> QED
    BY <1>3, <1>4, NothingSent

\* A message given up may still arrive, and was sendable when it was sent.
LEMMA PublishFailsKeeps ==
    ASSUME OutboxInv, NEW r \in Relays, PublishFails(r)
    PROVE  OutboxInv'
  <1>1. PICK e \in relay[r].batch \ Refused : wire' = wire \cup {e} /\ Mark(r, e, {}, {e})
    BY DEF PublishFails
  <1>2. {} \in SUBSET Events /\ {e} \in SUBSET Events
    BY RelayFacts
  <1>3. /\ relay' \in [Relays -> RelayType]
        /\ \A q \in Relays : /\ relay'[q].batch \subseteq relay[q].batch
                             /\ relay'[q].done \subseteq relay[q].done \cup {}
    BY <1>1, <1>2, MarkShape
  <1>4. UNCHANGED <<outbox, published, log, offset, inbox, handled>>
    BY DEF PublishFails
  <1> QED
    BY <1>1, <1>3, <1>4, NothingSent

\* A relay that dies leaves at most the message it was sending.
LEMMA CrashRelayKeeps ==
    ASSUME OutboxInv, NEW r \in Relays, CrashRelay(r)
    PROVE  OutboxInv'
  <1>1. /\ relay' = [relay EXCEPT ![r] = Quiet]
        /\ wire' \subseteq wire \cup relay[r].batch
        /\ UNCHANGED <<outbox, published, log, offset, inbox, handled>>
    BY DEF CrashRelay
  <1> QED
    BY <1>1, QuietShape, NothingSent

\* The relay goes on with its batch, without its marks.
LEMMA TransactionTimeoutKeeps ==
    ASSUME OutboxInv, NEW r \in Relays, TransactionTimeout(r)
    PROVE  OutboxInv'
  <1> DEFINE new == [relay[r] EXCEPT !.open = FALSE, !.done = {}, !.failed = {}]
  <1>1. relay \in [Relays -> RelayType] /\ relay[r] \in RelayType
    BY RelayFacts
  <1>2. relay' = [relay EXCEPT ![r] = new]
    BY <1>1 DEF TransactionTimeout, RelayType
  <1>3. new \in RelayType /\ new.batch = relay[r].batch /\ new.done = {}
    BY <1>1 DEF RelayType
  <1> HIDE DEF new
  <1>4. relay' \in [Relays -> RelayType]
    BY <1>1, <1>2, <1>3
  <1>5. \A q \in Relays : relay'[q] = IF q = r THEN new ELSE relay[q]
    BY <1>1, <1>2
  <1>6. \A q \in Relays : /\ relay'[q].batch \subseteq relay[q].batch
                          /\ relay'[q].done \subseteq relay[q].done
    BY <1>3, <1>5
  <1>7. UNCHANGED <<outbox, published, wire, log, offset, inbox, handled>>
    BY DEF TransactionTimeout
  <1> QED
    BY <1>4, <1>6, <1>7, NothingSent

\* The marks of a committed batch were true.
LEMMA CommitBatchKeeps ==
    ASSUME OutboxInv, NEW r \in Relays, CommitBatch(r)
    PROVE  OutboxInv'
  <1>1. /\ relay' = [relay EXCEPT ![r] = Quiet]
        /\ UNCHANGED <<outbox, wire, log, offset, inbox, handled>>
    BY DEF CommitBatch
  <1>2. published' = published \/ published' = published \cup relay[r].done
    BY DEF CommitBatch
  <1>3. /\ relay' \in [Relays -> RelayType]
        /\ \A q \in Relays : /\ relay'[q].batch \subseteq relay[q].batch
                             /\ relay'[q].done \subseteq relay[q].done
    BY <1>1, QuietShape
  <1>4. \A f : Logged(f) => Logged(f)'
    BY <1>1 DEF Logged
  <1>5. /\ published \subseteq published' /\ published' \subseteq Events
        /\ \A f \in published' : Logged(f)'
    BY <1>2, <1>4, RelayFacts
  <1>6. \A q \in Relays : \A f \in relay'[q].batch : Sendable(f)
    BY <1>3, RelayFacts
  <1>7. \A q \in Relays : \A f \in relay'[q].done : Logged(f)'
    BY <1>3, <1>4, RelayFacts
  <1> QED
    BY <1>1, <1>3, <1>5, <1>6, <1>7, RelayFacts, RelayFrame

\* A row whose rest is over changes nothing but its turn.
LEMMA DueAgainKeeps ==
    ASSUME OutboxInv, NEW e \in Events, DueAgain(e)
    PROVE  OutboxInv'
  <1>1. UNCHANGED <<outbox, published, relay, wire, log, offset, inbox, handled>>
    BY DEF DueAgain
  <1>2. \A f : Logged(f) => Logged(f)'
    BY <1>1 DEF Logged
  <1>3. \A f \in published' : Logged(f)'
    BY <1>1, <1>2, RelayFacts
  <1>4. \A q \in Relays : \A f \in relay'[q].done : Logged(f)'
    BY <1>1, <1>2, RelayFacts
  <1> QED
    BY <1>1, <1>3, <1>4, RelayFacts, RelayFrame

\* A message given up was sendable and still is.
LEMMA StraggleKeeps ==
    ASSUME OutboxInv, NEW e \in Events, Straggle(e)
    PROVE  OutboxInv'
  <1>1. /\ e \in wire /\ wire' = wire \ {e}
        /\ UNCHANGED <<outbox, published, relay, offset, inbox, handled>>
        /\ \/ log' = log
           \/ log' = [log EXCEPT ![e[1]] = Append(@, e)]
    BY DEF Straggle
  <1>2. Sendable(e)
    BY <1>1, RelayFacts
  <1>3. OutboxTypeOK
    BY DEF OutboxInv
  <1>4. \A f \in Events : Logged(f) => Logged(f)'
    BY <1>1, <1>3, LogGrows
  <1>5. \A f \in published' : Logged(f)'
    BY <1>1, <1>4, RelayFacts
  <1>6. \A q \in Relays : \A f \in relay'[q].done : Logged(f)'
    BY <1>1, <1>4, RelayFacts
  <1> QED
    BY <1>1, <1>2, <1>5, <1>6, RelayFacts, RelayFrame

-----------------------------------------------------------------------------
(* The steps of the writer and of the consumer *)

\* A new row is the last of its aggregate and disturbs nothing on its way.
LEMMA WriteEventKeeps ==
    ASSUME OutboxInv, NEW a \in Aggregates, WriteEvent(a)
    PROVE  OutboxInv'
  <1>1. OutboxTypeOK /\ Numbered /\ MarksTrue /\ InFlight /\ LogOrdered /\ Consumed
    BY DEF OutboxInv
  <1>2. UNCHANGED <<published, relay, wire, log, offset, inbox, handled>>
    BY DEF WriteEvent
  <1>3. Numbered' /\ outbox' \in Seq(Events) /\ Rows \subseteq Rows'
    BY <1>1, WrittenGrows
  <1>4. OutboxTypeOK'
    BY <1>1, <1>2, <1>3 DEF OutboxTypeOK
  <1>5. MarksTrue'
    BY <1>1, <1>2 DEF MarksTrue, Logged
  <1>6. \A f : Sendable(f) => Sendable(f)'
    BY <1>2, <1>3, StillSendable
  <1>7. InFlight'
    BY <1>1, <1>2, <1>6 DEF InFlight
  <1>8. \A b \in Aggregates : RowsOf(b) \subseteq RowsOf(b)'
    BY <1>3 DEF RowsOf
  <1>9. LogOrdered'
    <2>1. ASSUME NEW b \in Aggregates, NEW i \in 1 .. Len(log[b])
          PROVE  /\ log[b][i] \in RowsOf(b)'
                 /\ \A n \in 1 .. (log[b][i][2] - 1) : \E j \in 1 .. (i - 1) : log[b][j] = <<b, n>>
      BY <1>1, <1>8 DEF LogOrdered
    <2> QED
      BY <1>2, <2>1 DEF LogOrdered
  <1>10. Consumed'
    BY <1>1, <1>2 DEF Consumed
  <1> QED
    BY <1>3, <1>4, <1>5, <1>7, <1>9, <1>10 DEF OutboxInv

\* The message at the offset is a copy of an event that took effect, or the
\* next event of its aggregate: all earlier ones stand before it in the log.
LEMMA NextMessage ==
    ASSUME OutboxInv, NEW a \in Aggregates, offset[a] < Len(log[a])
    PROVE  LET e == log[a][offset[a] + 1]
           IN  /\ e \in Events /\ e[1] = a /\ e = <<a, e[2]>>
               /\ e[2] \in Nat /\ e[2] <= Written(a) /\ Written(a) \in Nat
               /\ e \notin inbox => e[2] = Len(handled[a]) + 1
  <1> DEFINE e == log[a][offset[a] + 1]
             k == offset[a] + 1
  <1>1. OutboxTypeOK /\ Numbered /\ LogOrdered /\ Consumed
    BY DEF OutboxInv
  <1>2. log[a] \in Seq(Events) /\ offset[a] \in Nat /\ handled[a] \in Seq(Nat)
    BY <1>1 DEF OutboxTypeOK
  <1>3. k \in 1 .. Len(log[a]) /\ Len(handled[a]) \in Nat
    BY <1>2
  <1>4. e \in Events
    BY <1>2, <1>3
  <1>5. /\ e \in RowsOf(a)
        /\ \A n \in 1 .. (e[2] - 1) : \E j \in 1 .. (k - 1) : log[a][j] = <<a, n>>
    BY <1>1, <1>3 DEF LogOrdered
  <1>6. Written(a) \in Nat
    <2>1. Written(a) = Cardinality(RowsOf(a)) /\ IsFiniteSet(RowsOf(a))
      BY <1>1 DEF Written, RowsOf, Rows, Numbered
    <2> QED
      BY <2>1, FS_CardinalityType
  <1>7. e \in {a} \X (1 .. Written(a))
    BY <1>1, <1>5 DEF Numbered
  <1>8. e[1] = a /\ e = <<a, e[2]>> /\ e[2] \in Nat /\ e[2] >= 1 /\ e[2] <= Written(a)
    BY <1>6, <1>7
  <1>9. /\ \A i \in 1 .. offset[a] : log[a][i] \in inbox
        /\ \A n \in Nat : <<a, n>> \in inbox <=> n \in 1 .. Len(handled[a])
    BY <1>1 DEF Consumed
  <1> DEFINE m == e[2]
  <1>10. m \in Nat /\ m >= 1 /\ (<<a, m>> \in inbox <=> m \in 1 .. Len(handled[a])) /\ e = <<a, m>>
    BY <1>8, <1>9
  <1>11. \A n \in 1 .. (m - 1) : \E j \in 1 .. offset[a] : log[a][j] = <<a, n>>
    <2>1. k - 1 = offset[a]
      BY <1>2
    <2> HIDE DEF e, k
    <2> QED
      BY <1>5, <2>1
  <1> HIDE DEF e, m
  <1>12. ASSUME e \notin inbox
         PROVE  m = Len(handled[a]) + 1
    <2>1. m > Len(handled[a])
      BY <1>3, <1>10, <1>12
    <2>2. CASE m = 1
      BY <1>3, <2>1, <2>2
    <2>3. CASE m # 1
      <3>1. m - 1 \in 1 .. (m - 1) /\ m - 1 \in Nat
        BY <1>10, <2>3
      <3>2. <<a, m - 1>> \in inbox
        BY <1>9, <1>11, <3>1
      <3>3. m - 1 \in 1 .. Len(handled[a])
        BY <1>9, <3>1, <3>2
      <3> QED
        BY <1>3, <1>10, <2>1, <3>3
    <2> QED
      BY <2>2, <2>3
  <1> QED
    BY <1>4, <1>6, <1>8, <1>12 DEF m, e

\* What the handler and its inbox row come to.
LEMMA ApplyShape ==
    ASSUME OutboxInv, NEW a \in Aggregates, offset[a] < Len(log[a]),
           Apply(log[a][offset[a] + 1])
    PROVE  /\ inbox' \subseteq Events /\ inbox \subseteq inbox'
           /\ log[a][offset[a] + 1] \in inbox'
           /\ handled' \in [Aggregates -> Seq(Nat)]
           /\ \A b \in Aggregates : \A n \in Nat :
                 <<b, n>> \in inbox' <=> n \in 1 .. Len(handled'[b])
           /\ \/ handled' = handled
              \/ /\ Len(handled[a]) < Written(a)
                 /\ handled' = [handled EXCEPT ![a] = Append(@, Len(@) + 1)]
  <1> DEFINE e == log[a][offset[a] + 1]
  <1>1. /\ e \in Events /\ e[1] = a /\ e = <<a, e[2]>>
        /\ e[2] \in Nat /\ e[2] <= Written(a) /\ Written(a) \in Nat
        /\ e \notin inbox => e[2] = Len(handled[a]) + 1
    BY NextMessage
  <1>2. Apply(e)
    OBVIOUS
  <1> HIDE DEF e
  <1>3. /\ inbox \subseteq Events /\ handled \in [Aggregates -> Seq(Nat)]
        /\ \A b \in Aggregates : \A n \in Nat : <<b, n>> \in inbox <=> n \in 1 .. Len(handled[b])
    BY DEF OutboxInv, OutboxTypeOK, Consumed
  <1>4. CASE e \in inbox
    <2>1. inbox' = inbox /\ handled' = handled
      BY <1>2, <1>4 DEF Apply
    <2> QED
      BY <1>3, <1>4, <2>1 DEF e
  <1>5. CASE e \notin inbox
    <2> DEFINE k == Len(handled[a])
    <2>1. inbox' = inbox \cup {e} /\ handled' = [handled EXCEPT ![a] = Append(@, k + 1)]
      BY <1>1, <1>2, <1>5 DEF Apply
    <2>2. handled[a] \in Seq(Nat) /\ k \in Nat
      BY <1>3
    <2>3. /\ Append(handled[a], k + 1) \in Seq(Nat)
          /\ Len(Append(handled[a], k + 1)) = k + 1
      BY <2>2
    <2>4. /\ handled' \in [Aggregates -> Seq(Nat)]
          /\ \A b \in Aggregates : handled'[b] = IF b = a THEN Append(handled[a], k + 1)
                                                 ELSE handled[b]
      BY <1>3, <2>1, <2>3
    <2>5. e = <<a, k + 1>>
      BY <1>1, <1>5
    <2>6. k < Written(a)
      BY <1>1, <1>5, <2>2
    <2>7. ASSUME NEW b \in Aggregates, NEW n \in Nat
          PROVE  <<b, n>> \in inbox' <=> n \in 1 .. Len(handled'[b])
      <3>1. <<b, n>> \in inbox <=> n \in 1 .. Len(handled[b])
        BY <1>3
      <3>2. CASE b = a
        <4>1. <<b, n>> \in inbox' <=> (<<b, n>> \in inbox \/ n = k + 1)
          BY <2>1, <2>5, <3>2
        <4>2. Len(handled'[b]) = k + 1
          BY <2>3, <2>4, <3>2
        <4>3. n \in 1 .. (k + 1) <=> (n \in 1 .. k \/ n = k + 1)
          BY <2>2
        <4> QED
          BY <3>1, <3>2, <4>1, <4>2, <4>3
      <3>3. CASE b # a
        <4>1. <<b, n>> # e
          BY <2>5, <3>3
        <4> QED
          BY <2>1, <2>4, <3>1, <3>3, <4>1
      <3> QED
        BY <3>2, <3>3
    <2>8. inbox' \subseteq Events /\ inbox \subseteq inbox' /\ e \in inbox'
      BY <1>1, <1>3, <2>1
    <2> QED
      BY <2>1, <2>4, <2>6, <2>7, <2>8 DEF e
  <1> QED
    BY <1>4, <1>5

\* Both ends of a message at the consumer, with its offset stored or not.
LEMMA ConsumerKeeps ==
    ASSUME OutboxInv, NEW a \in Aggregates, EachMessage(a) \/ CrashConsumer(a)
    PROVE  OutboxInv'
  <1>1. OutboxTypeOK /\ Numbered /\ MarksTrue /\ InFlight /\ LogOrdered /\ Consumed
    BY DEF OutboxInv
  <1>2. /\ offset[a] < Len(log[a]) /\ Apply(log[a][offset[a] + 1])
        /\ UNCHANGED <<outbox, published, relay, wire, log>>
    BY DEF EachMessage, CrashConsumer
  <1>3. offset' = offset \/ offset' = [offset EXCEPT ![a] = @ + 1]
    BY DEF EachMessage, CrashConsumer
  <1>4. /\ inbox' \subseteq Events /\ inbox \subseteq inbox'
        /\ log[a][offset[a] + 1] \in inbox'
        /\ handled' \in [Aggregates -> Seq(Nat)]
        /\ \A b \in Aggregates : \A n \in Nat :
              <<b, n>> \in inbox' <=> n \in 1 .. Len(handled'[b])
    BY <1>2, ApplyShape
  <1>5. offset \in [Aggregates -> Nat] /\ offset' \in [Aggregates -> Nat]
    BY <1>1, <1>3 DEF OutboxTypeOK
  <1>6. OutboxTypeOK'
    BY <1>1, <1>2, <1>4, <1>5 DEF OutboxTypeOK
  <1>7. Numbered' /\ Rows' = Rows
    BY <1>1, <1>2, WrittenStays
  <1>8. MarksTrue'
    BY <1>1, <1>2 DEF MarksTrue, Logged
  <1>9. InFlight'
    BY <1>1, <1>2, <1>7 DEF InFlight, Sendable
  <1>10. LogOrdered'
    BY <1>1, <1>2, <1>7 DEF LogOrdered, RowsOf
  <1>11. ASSUME NEW b \in Aggregates
         PROVE  /\ offset'[b] <= Len(log[b])
                /\ \A i \in 1 .. offset'[b] : log[b][i] \in inbox'
    <2>1. /\ offset[b] <= Len(log[b]) /\ offset[b] \in Nat
          /\ \A i \in 1 .. offset[b] : log[b][i] \in inbox
          /\ log[b] \in Seq(Events) /\ Len(log[b]) \in Nat
      BY <1>1 DEF Consumed, OutboxTypeOK
    <2>2. CASE offset'[b] = offset[b]
      BY <1>4, <2>1, <2>2
    <2>3. CASE b = a /\ offset'[b] = offset[b] + 1
      <3>1. offset'[b] <= Len(log[b])
        BY <1>2, <2>1, <2>3
      <3>2. \A i \in 1 .. offset'[b] : i \in 1 .. offset[b] \/ i = offset[b] + 1
        BY <2>1, <2>3
      <3> QED
        BY <1>4, <2>1, <2>3, <3>1, <3>2
    <2> QED
      BY <1>3, <1>5, <2>2, <2>3
  <1>12. Consumed'
    BY <1>2, <1>4, <1>11 DEF Consumed
  <1> QED
    BY <1>6, <1>7, <1>8, <1>9, <1>10, <1>12 DEF OutboxInv

-----------------------------------------------------------------------------
(* The theorems *)

\* The empty outbox satisfies the invariant.
LEMMA OutboxInitInv == OutboxInit => OutboxInv
  <1> SUFFICES ASSUME OutboxInit PROVE OutboxInv
    OBVIOUS
  <1> USE DEF OutboxInit
  <1>1. OutboxTypeOK
    BY DEF OutboxTypeOK, Quiet
  <1>2. Rows = {}
    BY DEF Rows, ToSet
  <1>3. \A a \in Aggregates : RowsOf(a) = {} /\ Written(a) = 0 /\ IsFiniteSet(RowsOf(a))
    <2>1. \A a \in Aggregates : RowsOf(a) = {}
      BY <1>2 DEF RowsOf
    <2>2. \A a \in Aggregates : Written(a) = Cardinality(RowsOf(a))
      BY DEF RowsOf, Rows, Written
    <2> QED
      BY <2>1, <2>2, FS_EmptySet
  <1>4. Numbered
    BY <1>3 DEF Numbered
  <1>5. MarksTrue /\ InFlight
    BY DEF MarksTrue, InFlight, Quiet
  <1>6. \A a \in Aggregates : Len(log[a]) = 0 /\ Len(handled[a]) = 0 /\ offset[a] = 0
    OBVIOUS
  <1>7. LogOrdered
    BY <1>6 DEF LogOrdered
  <1>8. Consumed
    BY <1>6 DEF Consumed
  <1> QED
    BY <1>1, <1>4, <1>5, <1>7, <1>8 DEF OutboxInv

\* Every step keeps the invariant.
LEMMA OutboxNextInv == OutboxInv /\ [OutboxNext]_outboxVars => OutboxInv'
  <1> SUFFICES ASSUME OutboxInv, [OutboxNext]_outboxVars PROVE OutboxInv'
    OBVIOUS
  <1>1. ASSUME NEW a \in Aggregates, WriteEvent(a) PROVE OutboxInv'
    BY <1>1, WriteEventKeeps
  <1>2. ASSUME NEW a \in Aggregates, EachMessage(a) \/ CrashConsumer(a) PROVE OutboxInv'
    BY <1>2, ConsumerKeeps
  <1>3. ASSUME NEW r \in Relays, Flush(r) PROVE OutboxInv'
    BY <1>3, FlushKeeps
  <1>4. ASSUME NEW r \in Relays, RelayStep(r) PROVE OutboxInv'
    BY <1>4, PublishRawKeeps, PublishRefusedKeeps, CommitBatchKeeps DEF RelayStep
  <1>5. ASSUME NEW r \in Relays, PublishFails(r) PROVE OutboxInv'
    BY <1>5, PublishFailsKeeps
  <1>6. ASSUME NEW r \in Relays, TransactionTimeout(r) PROVE OutboxInv'
    BY <1>6, TransactionTimeoutKeeps
  <1>7. ASSUME NEW r \in Relays, CrashRelay(r) PROVE OutboxInv'
    BY <1>7, CrashRelayKeeps
  <1>8. ASSUME NEW e \in Events, DueAgain(e) PROVE OutboxInv'
    BY <1>8, DueAgainKeeps
  <1>9. ASSUME NEW e \in Events, Straggle(e) PROVE OutboxInv'
    BY <1>9, StraggleKeeps
  <1>10. CASE UNCHANGED outboxVars
    <2>1. UNCHANGED <<outbox, published, relay, wire, log, offset, inbox, handled>>
      BY <1>10 DEF outboxVars
    <2>2. \A f : Logged(f) => Logged(f)'
      BY <2>1 DEF Logged
    <2>3. \A f \in published' : Logged(f)'
      BY <2>1, <2>2, RelayFacts
    <2>4. \A q \in Relays : \A f \in relay'[q].done : Logged(f)'
      BY <2>1, <2>2, RelayFacts
    <2> QED
      BY <2>1, <2>3, <2>4, RelayFacts, RelayFrame
  <1> QED
    BY <1>1, <1>2, <1>3, <1>4, <1>5, <1>6, <1>7, <1>8, <1>9, <1>10 DEF OutboxNext

\* A step of the relays or of the consumer is a step of Delivery or none.
LEMMA StepDelivers ==
    OutboxInv /\ [OutboxNext]_outboxVars => [Deliv!DeliveryNext]_(Deliv!deliveryVars)
  <1> SUFFICES ASSUME OutboxInv, [OutboxNext]_outboxVars
               PROVE  [Deliv!DeliveryNext]_(Deliv!deliveryVars)
    OBVIOUS
  <1> DEFINE sent == [a \in Aggregates |-> Written(a)]
  <1>1. ASSUME NEW a \in Aggregates, WriteEvent(a)
        PROVE  Deliv!Send(a)
    <2>1. /\ Written(a)' = Written(a) + 1
          /\ \A b \in Aggregates \ {a} : Written(b)' = Written(b)
      BY <1>1, WrittenGrows DEF OutboxInv
    <2>2. sent' = [sent EXCEPT ![a] = @ + 1]
      BY <2>1
    <2>3. handled' = handled
      BY <1>1 DEF WriteEvent
    <2> QED
      BY <2>2, <2>3 DEF Deliv!Send
  <1>2. outbox' = outbox => sent' = sent
    BY WrittenStays
  <1>3. ASSUME NEW a \in Aggregates, EachMessage(a) \/ CrashConsumer(a)
        PROVE  Deliv!Handle(a) \/ (sent' = sent /\ handled' = handled)
    <2>1. /\ offset[a] < Len(log[a]) /\ Apply(log[a][offset[a] + 1])
          /\ outbox' = outbox
      BY <1>3 DEF EachMessage, CrashConsumer
    <2>2. \/ handled' = handled
          \/ /\ Len(handled[a]) < Written(a)
             /\ handled' = [handled EXCEPT ![a] = Append(@, Len(@) + 1)]
      BY <2>1, ApplyShape
    <2> QED
      BY <1>2, <2>1, <2>2 DEF Deliv!Handle
  <1>4. ASSUME UNCHANGED <<outbox, handled>>
        PROVE  UNCHANGED Deliv!deliveryVars
    BY <1>2, <1>4 DEF Deliv!deliveryVars
  <1>5. ASSUME NEW r \in Relays,
               \/ Flush(r) \/ RelayStep(r)
               \/ PublishFails(r) \/ TransactionTimeout(r) \/ CrashRelay(r)
        PROVE  UNCHANGED <<outbox, handled>>
    BY <1>5 DEF Flush, RelayStep, PublishRaw, PublishRefused, CommitBatch,
                PublishFails, TransactionTimeout, CrashRelay
  <1>6. ASSUME NEW e \in Events, DueAgain(e) \/ Straggle(e)
        PROVE  UNCHANGED <<outbox, handled>>
    BY <1>6 DEF DueAgain, Straggle
  <1>7. CASE UNCHANGED outboxVars
    BY <1>4, <1>7 DEF outboxVars
  <1>8. CASE \E a \in Aggregates : WriteEvent(a)
    BY <1>1, <1>8 DEF Deliv!DeliveryNext
  <1>9. CASE \E a \in Aggregates : EachMessage(a) \/ CrashConsumer(a)
    <2>1. PICK a \in Aggregates : Deliv!Handle(a) \/ (sent' = sent /\ handled' = handled)
      BY <1>3, <1>9
    <2>2. CASE Deliv!Handle(a)
      BY <2>2 DEF Deliv!DeliveryNext
    <2>3. CASE sent' = sent /\ handled' = handled
      BY <2>3 DEF Deliv!deliveryVars
    <2> QED
      BY <2>1, <2>2, <2>3
  <1> QED
    BY <1>4, <1>5, <1>6, <1>7, <1>8, <1>9 DEF OutboxNext

\* Whatever relays crash, time out and send twice, an event takes effect at the
\* consumer as the next of its aggregate or not at all (kafka-event-consumer.ts
\* behind prisma-outbox.store.ts): the safety half of ImplementsDelivery.
THEOREM DeliversInOrder ==
    OutboxSpec => Deliv!DeliveryInit /\ [][Deliv!DeliveryNext]_(Deliv!deliveryVars)
  <1>1. OutboxInit => Deliv!DeliveryInit
    <2> SUFFICES ASSUME OutboxInit PROVE Deliv!DeliveryInit
      OBVIOUS
    <2>1. ToSet(outbox) = {}
      BY DEF OutboxInit, ToSet
    <2>2. \A a \in Aggregates : {e \in ToSet(outbox) : e[1] = a} = {}
      BY <2>1
    <2>3. \A a \in Aggregates : Written(a) = 0
      BY <2>2, FS_EmptySet DEF Written
    <2>4. [a \in Aggregates |-> Written(a)] = [a \in Aggregates |-> 0]
      BY <2>3
    <2> QED
      BY <2>4 DEF Deliv!DeliveryInit, OutboxInit
  <1> QED
    BY <1>1, OutboxInitInv, OutboxNextInv, StepDelivers, PTL DEF OutboxSpec
=============================================================================
