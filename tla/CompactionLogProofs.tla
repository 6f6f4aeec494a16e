------------------------- MODULE CompactionLogProofs -------------------------
(***************************************************************************)
(* Proofs about CompactionLog, for logs of any length and any number of    *)
(* harness runs, thresholds and keep_last_n_events.                        *)
(***************************************************************************)
EXTENDS CompactionLog, FiniteSetTheorems, TLAPS

Positions == 1..Len(log)

\* What no record drops, whichever of them is the latest: a record, the first
\* user message, and the last events there were when it was emitted.
DroppedOK ==
    \A n \in Records(log) :
        /\ log[n].dropped \cap Records(log) = {}
        /\ log[n].dropped \cap FirstUser(log, Positions) = {}
        /\ log[n].dropped \cap LastOf(1..(n - 1), KeepLastN) = {}

\* The strengthened invariant.
InductiveInvariant == TypeOK /\ DroppedOK

-----------------------------------------------------------------------------
(* About the operators *)

\* An event is among the last of a larger set only if it is among the last of
\* the smaller one.
LEMMA LastOfSubset ==
    ASSUME NEW m \in Nat, NEW view \in SUBSET (1..m), NEW n \in view,
           n \in LastOf(1..m, KeepLastN)
    PROVE  n \in LastOf(view, KeepLastN)
<1>.  DEFINE above(set) == {k \in set : k > n}
<1>1. IsFiniteSet(above(1..m))
      BY FS_Interval, FS_Subset
<1>2. above(view) \subseteq above(1..m)
      OBVIOUS
<1>3. /\ Cardinality(above(view)) <= Cardinality(above(1..m))
      /\ Cardinality(above(view)) \in Nat /\ Cardinality(above(1..m)) \in Nat
      BY <1>1, <1>2, FS_Subset, FS_CardinalityType
<1>4. Cardinality(above(1..m)) < KeepLastN
      BY DEF LastOf
<1>.  QED  BY <1>3, <1>4, CompactionAssumption DEF LastOf

\* A plan made from any prefix of the log, at any later time, drops none of the
\* records, the first user message and the last events of the whole log.
LEMMA PlanSpares ==
    ASSUME InductiveInvariant, NEW k \in 0..Len(log)
    PROVE  LET prefix == SubSeq(log, 1, k)
               plan   == PlanTruncate(prefix, View(prefix))
           IN  /\ plan \subseteq 1..k
               /\ plan \cap Records(log) = {}
               /\ plan \cap FirstUser(log, Positions) = {}
               /\ plan \cap LastOf(Positions, KeepLastN) = {}
<1>.  DEFINE prefix == SubSeq(log, 1, k)
             view   == View(prefix)
             plan   == PlanTruncate(prefix, view)
<1>1. /\ log \in Seq(Event) /\ k \in Nat /\ k <= Len(log)
      /\ Len(prefix) = k /\ \A n \in 1..k : prefix[n] = log[n]
      BY DEF InductiveInvariant, TypeOK
<1>2. Records(prefix) = Records(log) \cap (1..k)
      BY <1>1 DEF Records, IsCompaction
<1>3. view \subseteq 1..k /\ plan \subseteq view
      BY <1>1 DEF View, PlanTruncate
<1>4. \A n \in 1..k : (\A r \in Records(log) : n \notin log[r].dropped) => n \in view
      BY <1>1, <1>2 DEF View, Dropped, Latest
<1>5. plan \cap Records(log) = {}
      BY <1>2, <1>3 DEF PlanTruncate, Kept
<1>6. ASSUME NEW n \in plan, n \in FirstUser(log, Positions)
      PROVE  FALSE
  <2>1. n \in view /\ log[n].kind = "user"
        BY <1>3, <1>6 DEF FirstUser
  <2>2. \A m \in view : prefix[m].kind = "user" => n <= m
        BY <1>1, <1>3, <1>6 DEF FirstUser, Positions
  <2>3. n \in FirstUser(prefix, view)
        BY <1>1, <1>3, <2>1, <2>2 DEF FirstUser
  <2>.  QED  BY <1>6, <2>3 DEF PlanTruncate, Kept
<1>7. ASSUME NEW n \in plan, n \in LastOf(Positions, KeepLastN)
      PROVE  FALSE
  <2>1. view \subseteq 1..Len(log) /\ n \in view
        BY <1>1, <1>3, <1>7
  <2>2. n \in LastOf(view, KeepLastN)
        BY <1>1, <1>7, <2>1, LastOfSubset DEF Positions
  <2>.  QED  BY <1>7, <2>2 DEF PlanTruncate, Kept
<1>.  QED  BY <1>3, <1>5, <1>6, <1>7

-----------------------------------------------------------------------------
(* The steps *)

\* What an append leaves of the log, its records and its first user message.
LEMMA AppendGrows ==
    ASSUME TypeOK, NEW e \in Event, log' = Append(log, e)
    PROVE  /\ log' \in Seq(Event) /\ Len(log') = Len(log) + 1
           /\ log'[Len(log) + 1] = e
           /\ \A n \in Positions : log'[n] = log[n]
           /\ Records(log') = IF IsCompaction(e) THEN Records(log) \cup {Len(log) + 1}
                                                 ELSE Records(log)
           /\ FirstUser(log', Positions') \subseteq
                   FirstUser(log, Positions) \cup {Len(log) + 1}
<1>1. /\ log \in Seq(Event) /\ log' \in Seq(Event) /\ Len(log) \in Nat
      /\ Len(log') = Len(log) + 1 /\ log'[Len(log) + 1] = e
      /\ \A n \in Positions : log'[n] = log[n]
      BY DEF TypeOK, Positions
<1>2. Records(log') = IF IsCompaction(e) THEN Records(log) \cup {Len(log) + 1}
                                         ELSE Records(log)
      BY <1>1 DEF Records, IsCompaction, Positions
<1>3. FirstUser(log', Positions') \subseteq FirstUser(log, Positions) \cup {Len(log) + 1}
      BY <1>1 DEF FirstUser, Positions
<1>.  QED  BY <1>1, <1>2, <1>3

\* A new event is in no record's list, and an event that is no record has none.
LEMMA AppendStep ==
    ASSUME InductiveInvariant, NEW kind \in Kinds, NEW chars \in {4, 12},
           AppendEvent(kind, chars)
    PROVE  InductiveInvariant'
<1>.  USE DEF InductiveInvariant
<1>1. /\ NewEvent(kind, chars) \in Event /\ ~ IsCompaction(NewEvent(kind, chars))
      /\ NewEvent(kind, chars).dropped = {} /\ log' = Append(log, NewEvent(kind, chars))
      BY DEF AppendEvent, NewEvent, Event, Kinds, IsCompaction
<1>2. TypeOK'
      BY <1>1, AppendGrows DEF AppendEvent, TypeOK, Positions
<1>3. \A n \in Records(log) : n \in Positions /\ log[n].dropped \subseteq 1..(n - 1)
      BY DEF TypeOK, Records, Positions
<1>4. Len(log) \in Nat
      BY DEF TypeOK
<1>5. DroppedOK'
  <2>.  SUFFICES ASSUME NEW n \in Records(log)
                 PROVE  /\ log'[n].dropped \cap Records(log') = {}
                        /\ log'[n].dropped \cap FirstUser(log', Positions') = {}
                        /\ log'[n].dropped \cap LastOf(1..(n - 1), KeepLastN) = {}
        BY <1>1, AppendGrows DEF DroppedOK
  <2>1. log'[n] = log[n] /\ Len(log) + 1 \notin log[n].dropped
        BY <1>1, <1>3, <1>4, AppendGrows DEF Positions
  <2>.  QED  BY <1>1, <2>1, AppendGrows DEF DroppedOK
<1>.  QED  BY <1>2, <1>5

\* A run remembers how much of the log it has read.
LEMMA ReadStep ==
    ASSUME InductiveInvariant, NEW h \in Harnesses, HarnessRead(h)
    PROVE  InductiveInvariant'
  BY DEF InductiveInvariant, TypeOK, DroppedOK, HarnessRead, Positions

\* A record that spares what it must, appended to a log whose records do, is
\* itself named by no older record.
LEMMA RecordStep ==
    ASSUME InductiveInvariant, NEW dropped \in SUBSET Positions,
           dropped \cap Records(log) = {},
           dropped \cap FirstUser(log, Positions) = {},
           dropped \cap LastOf(Positions, KeepLastN) = {},
           log' = Append(log, Record(dropped)),
           read' \in [Harnesses -> 0..Len(log)]
    PROVE  InductiveInvariant'
<1>.  USE DEF InductiveInvariant
<1>1. Len(log) \in Nat /\ Positions = 1..Len(log) /\ Len(log) + 1 \notin Positions
      BY DEF TypeOK, Positions
<1>2. /\ Record(dropped) \in Event /\ IsCompaction(Record(dropped))
      /\ Record(dropped).dropped = dropped
      BY <1>1 DEF Record, Event, Kinds, IsCompaction
<1>3. /\ log' \in Seq(Event) /\ Len(log') = Len(log) + 1
      /\ log'[Len(log) + 1].dropped = dropped
      /\ \A n \in Positions : log'[n] = log[n]
      /\ Records(log') = Records(log) \cup {Len(log) + 1}
      /\ FirstUser(log', Positions') \subseteq FirstUser(log, Positions) \cup {Len(log) + 1}
      BY <1>2, AppendGrows
<1>4. \A n \in Positions : log[n].dropped \subseteq 1..(n - 1)
      BY <1>1 DEF TypeOK
<1>5. TypeOK'
  <2>1. \A n \in 1..Len(log') : log'[n].dropped \subseteq 1..(n - 1)
    <3>.  SUFFICES ASSUME NEW n \in 1..Len(log') PROVE log'[n].dropped \subseteq 1..(n - 1)
          OBVIOUS
    <3>1. CASE n \in Positions
      <4>1. log'[n] = log[n]
            BY <1>3, <3>1
      <4>2. log[n].dropped \subseteq 1..(n - 1)
            BY <1>4, <3>1
      <4>.  QED  BY <4>1, <4>2
    <3>2. CASE n = Len(log) + 1
      <4>1. log'[n].dropped = dropped
            BY <1>3, <3>2
      <4>2. 1..(n - 1) = Positions
            BY <1>1, <3>2
      <4>.  QED  BY <4>1, <4>2
    <3>.  QED  BY <1>1, <1>3, <3>1, <3>2
  <2>2. read' \in [Harnesses -> 0..Len(log')]
    <3>1. 0..Len(log) \subseteq 0..Len(log')
          BY <1>1, <1>3
    <3>.  QED  BY <3>1
  <2>.  QED  BY <1>3, <2>1, <2>2 DEF TypeOK
<1>6. ASSUME NEW n \in Records(log)
      PROVE  /\ log'[n].dropped \cap Records(log') = {}
             /\ log'[n].dropped \cap FirstUser(log', Positions') = {}
             /\ log'[n].dropped \cap LastOf(1..(n - 1), KeepLastN) = {}
  <2>1. n \in Positions
        BY <1>1 DEF Records
  <2>2. log'[n] = log[n] /\ Len(log) + 1 \notin log[n].dropped
        BY <1>1, <1>3, <1>4, <2>1
  <2>.  QED  BY <1>3, <2>2 DEF DroppedOK
<1>7. /\ dropped \cap Records(log') = {} /\ dropped \cap FirstUser(log', Positions') = {}
      /\ dropped \cap LastOf(1..(Len(log) + 1 - 1), KeepLastN) = {}
      BY <1>1, <1>3
<1>8. DroppedOK'
  <2>.  SUFFICES ASSUME NEW n \in Records(log')
                 PROVE  /\ log'[n].dropped \cap Records(log') = {}
                        /\ log'[n].dropped \cap FirstUser(log', Positions') = {}
                        /\ log'[n].dropped \cap LastOf(1..(n - 1), KeepLastN) = {}
        BY DEF DroppedOK
  <2>1. CASE n \in Records(log)
        BY <1>6, <2>1
  <2>2. CASE n = Len(log) + 1
        BY <1>3, <1>7, <2>2
  <2>.  QED  BY <1>3, <2>1, <2>2
<1>.  QED  BY <1>5, <1>8

\* A run that emits its record, or finds it stored, or has nothing to drop.
LEMMA EmitStep ==
    ASSUME InductiveInvariant, NEW h \in Harnesses, HarnessEmit(h)
    PROVE  InductiveInvariant'
<1>.  DEFINE prefix == SubSeq(log, 1, read[h])
             plan   == PlanTruncate(prefix, View(prefix))
<1>1. Len(log) \in Nat /\ read[h] \in 0..Len(log)
      BY DEF InductiveInvariant, TypeOK
<1>2. read' \in [Harnesses -> 0..Len(log)]
      BY <1>1 DEF HarnessEmit, InductiveInvariant, TypeOK
<1>3. CASE UNCHANGED log
      BY <1>2, <1>3 DEF InductiveInvariant, TypeOK, DroppedOK, Positions
<1>4. CASE log' = Append(log, Record(plan))
  <2>1. /\ plan \subseteq Positions /\ plan \cap Records(log) = {}
        /\ plan \cap FirstUser(log, Positions) = {}
        /\ plan \cap LastOf(Positions, KeepLastN) = {}
        BY <1>1, PlanSpares DEF Positions
  <2>.  HIDE DEF plan
  <2>.  QED  BY <1>2, <1>4, <2>1, RecordStep
<1>.  QED  BY <1>3, <1>4 DEF HarnessEmit

\* An empty log has no record.
LEMMA InitInductive == Init => InductiveInvariant
  BY DEF Init, InductiveInvariant, TypeOK, DroppedOK, Records

\* Every step preserves the invariant.
LEMMA InductiveStep == InductiveInvariant /\ [Next]_vars => InductiveInvariant'
<1>.  SUFFICES ASSUME InductiveInvariant, [Next]_vars PROVE InductiveInvariant'
      OBVIOUS
<1>1. CASE UNCHANGED vars
      BY <1>1 DEF vars, InductiveInvariant, TypeOK, DroppedOK, Positions
<1>2. CASE Next
      BY <1>2, AppendStep, ReadStep, EmitStep DEF Next
<1>.  QED  BY <1>1, <1>2

\* Whatever is appended and however stale the reads of the runs that compact, no
\* record names what it must spare.
THEOREM InductiveInvariantHolds == Spec => []InductiveInvariant
  BY InitInductive, InductiveStep, PTL DEF Spec

-----------------------------------------------------------------------------
(* The theorems *)

\* What no record names is in the view.
LEMMA UndroppedIsActive ==
    ASSUME NEW n \in Positions, \A r \in Records(log) : n \notin log[r].dropped
    PROVE  n \in View(log)
  BY DEF Positions, View, Dropped, Latest

\* Events and records are well-formed, and a record names older events only.
THEOREM TypeCorrect == Spec => []TypeOK
  BY InductiveInvariantHolds, PTL DEF InductiveInvariant

\* The first user message is always in the view.
THEOREM FirstUserStays == Spec => []FirstUserStaysActive
<1>1. InductiveInvariant => FirstUserStaysActive
      BY UndroppedIsActive
      DEF InductiveInvariant, DroppedOK, FirstUserStaysActive, FirstUser, Positions
<1>.  QED  BY <1>1, InductiveInvariantHolds, PTL

\* The last keep_last_n_events before the latest record are in the view.
THEOREM RecentEventsStay == Spec => []RecentEventsStayActive
<1>1. InductiveInvariant => RecentEventsStayActive
  <2>.  SUFFICES ASSUME InductiveInvariant, NEW r \in Latest(log),
                        NEW n \in LastOf(1..(r - 1), KeepLastN)
                 PROVE  n \in View(log)
        BY DEF RecentEventsStayActive
  <2>1. r \in Records(log) /\ n \in 1..(r - 1) /\ Len(log) \in Nat /\ r \in 1..Len(log)
        BY DEF Latest, Records, LastOf, InductiveInvariant, TypeOK
  <2>2. n \in 1..Len(log) /\ n \notin log[r].dropped
        BY <2>1 DEF InductiveInvariant, DroppedOK
  <2>3. Latest(log) = {r}
        BY <2>1 DEF Latest, Records
  <2>.  QED  BY <2>2, <2>3 DEF View, Dropped
<1>.  QED  BY <1>1, InductiveInvariantHolds, PTL

\* No record is ever dropped from the view.
THEOREM RecordsStay == Spec => []RecordsStayActive
<1>1. InductiveInvariant => RecordsStayActive
      BY UndroppedIsActive
      DEF InductiveInvariant, DroppedOK, RecordsStayActive, Records, Positions
<1>.  QED  BY <1>1, InductiveInvariantHolds, PTL
=============================================================================
