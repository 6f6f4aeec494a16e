---------------------------- MODULE CompactionLog ---------------------------
(***************************************************************************)
(* Compaction over the life of one session's log: callers and the harness  *)
(* append events while harness runs, each of which may die and be started  *)
(* again, read the log, plan a truncate pass and emit its record           *)
(* (HarnessRuntime.run_session and _emit_compaction).                      *)
(***************************************************************************)
EXTENDS Compaction

CONSTANTS Harnesses,   \* runs of the harness on this session
          MaxEvents    \* bound on the log

ASSUME CompactionLogAssumption == MaxEvents \in Nat

VARIABLES log,     \* the session's events, in sequence order
          read     \* how much of the log a run that is compacting has read

vars == <<log, read>>

Kinds == {"user", "other"}

NewEvent(kind, chars) == [kind |-> kind, chars |-> chars, dropped |-> {}]

\* The payload of a record is a list of numbers, here as long as a small event.
Record(dropped) == [kind |-> "compaction", chars |-> 4, dropped |-> dropped]

Init == log = <<>> /\ read = [h \in Harnesses |-> 0]

\* Any emit_event but that of a compaction record.
AppendEvent(kind, chars) ==
    /\ Len(log) < MaxEvents
    /\ log' = Append(log, NewEvent(kind, chars))
    /\ UNCHANGED read

\* run_session reads the log and its view is over the threshold; a run that
\* died while compacting reads again.
HarnessRead(h) ==
    /\ ShouldCompact(log)
    /\ read' = [read EXCEPT ![h] = Len(log)]
    /\ UNCHANGED log

\* _emit_compaction: the record's id is derived from what it drops, so the
\* session service returns the stored record when there already is one.
HarnessEmit(h) ==
    LET snapshot == SubSeq(log, 1, read[h])
        dropped  == PlanTruncate(snapshot, View(snapshot))
    IN  /\ read[h] # 0
        /\ Len(log) < MaxEvents
        /\ IF dropped = {} \/ \E n \in Records(log) : log[n].dropped = dropped
           THEN UNCHANGED log
           ELSE log' = Append(log, Record(dropped))
        /\ read' = [read EXCEPT ![h] = 0]

Next == \/ \E kind \in Kinds, chars \in {4, 12} : AppendEvent(kind, chars)
        \/ \E h \in Harnesses : HarnessRead(h) \/ HarnessEmit(h)

Spec == Init /\ [][Next]_vars

-----------------------------------------------------------------------------
(* Properties *)

Event == [kind : Kinds \cup {"compaction"}, chars : Nat, dropped : SUBSET Nat]

\* Every variable holds a value of its kind; a record drops only older events.
TypeOK ==
    /\ log \in Seq(Event)
    /\ \A n \in 1..Len(log) : log[n].dropped \subseteq 1..(n - 1)
    /\ read \in [Harnesses -> 0..Len(log)]

\* However many passes run, on stale reads or twice over, the session's first
\* user message stays in the view (compaction.py: "anchors the conversation").
FirstUserStaysActive == FirstUser(log, 1..Len(log)) \subseteq View(log)

\* ... and so do the last keep_last_n_events there were as a record was emitted,
\* those it was planned without included,
RecentEventsStayActive ==
    \A n \in Latest(log) : LastOf(1..(n - 1), KeepLastN) \subseteq View(log)

\* ... and every compaction record ("so stacked compactions still resolve").
RecordsStayActive == Records(log) \subseteq View(log)

\* compaction.py: earlier records' "dropped sequences are either still dropped
\* by the latest record or were kept for a reason": what has left the view
\* does not come back.
DroppedStaysDropped ==
    [][\A n \in 1..Len(log) : n \notin View(log) => n \notin View(log')]_vars
=============================================================================
