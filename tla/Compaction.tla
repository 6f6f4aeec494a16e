----------------------------- MODULE Compaction -----------------------------
(***************************************************************************)
(* harness/compaction.py: which events of a log the model sees, when the   *)
(* harness compacts, and what one truncate pass drops.                     *)
(*                                                                         *)
(* A log is a sequence of events in sequence order, so that an event's     *)
(* position is its sequence number, and a view of it is the set of the     *)
(* positions it keeps. Of an event the model keeps its kind (its type,     *)
(* split by payload["type"] where the code looks at that), the characters  *)
(* of its payload, and dropped_sequences if it is a compaction record.     *)
(***************************************************************************)
EXTENDS Integers, Sequences, FiniteSets, FiniteSetsExt

CONSTANTS KeepLastN,   \* profile.context.keep_last_n_events
          Threshold    \* profile.context.resolved_compaction_threshold, tokens

ASSUME CompactionAssumption ==
    KeepLastN \in Nat \ {0} /\ Threshold \in Nat \ {0}

CHARS_PER_TOKEN == 4

IsCompaction(e) == e.kind = "compaction"

Records(log) == {n \in 1..Len(log) : IsCompaction(log[n])}

\* The record apply_compaction_view honours: the latest one only.
Latest(log) == {n \in Records(log) : \A m \in Records(log) : m <= n}

\* Variant: every record of the log counts.
DroppedByAny(log) == UNION {log[n].dropped : n \in Records(log)}

Dropped(log) == UNION {log[n].dropped : n \in Latest(log)}

\* apply_compaction_view
View(log) == (1..Len(log)) \ Dropped(log)

\* estimate_event_tokens
Tokens(log, view) ==
    LET Chars(n) == log[n].chars
        tokens == MapThenSumSet(Chars, view) \div CHARS_PER_TOKEN
    IN  IF tokens < 1 THEN 1 ELSE tokens

\* should_compact
ShouldCompact(log) == Tokens(log, View(log)) >= Threshold

FirstUser(log, view) ==
    {n \in view : /\ log[n].kind = "user"
                  /\ \A m \in view : log[m].kind = "user" => n <= m}

LastOf(view, count) == {n \in view : Cardinality({m \in view : m > n}) < count}

\* Variants: a pass forgets the first user message, or the tail's last event.
KeptWithoutFirstUser(log, view) ==
    (Records(log) \cap view) \cup LastOf(view, KeepLastN)
KeptShortTail(log, view) ==
    FirstUser(log, view) \cup (Records(log) \cap view) \cup LastOf(view, KeepLastN - 1)

\* What one truncate pass keeps of a view.
Kept(log, view) ==
    FirstUser(log, view) \cup (Records(log) \cap view) \cup LastOf(view, KeepLastN)

\* plan_truncate: an empty set is its None, nothing to drop.
PlanTruncate(log, view) == view \ Kept(log, view)
=============================================================================
