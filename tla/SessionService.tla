--------------------------- MODULE SessionService ---------------------------
(***************************************************************************)
(* The session service over PostgreSQL (sessions/service.py, store.py):    *)
(* emit_event and mark_complete as the transactions they are, statement by *)
(* statement, run by concurrent callers that may die at any statement, and *)
(* a reader that tails the log with get_events.                            *)
(*                                                                         *)
(* Isolation is READ COMMITTED (the engine sets none): a SELECT sees what  *)
(* is committed, an UPDATE takes the row's lock until its transaction      *)
(* ends, and a dead caller's transaction is rolled back.                   *)
(***************************************************************************)
EXTENDS Integers, FiniteSets

CONSTANTS Sessions,   \* rows of the sessions table
          Callers,    \* coroutines, threads or processes inside a service call
          EventIds,   \* ids callers emit under; the same id again is a replay
          PageLimit,  \* get_events' limit
          None        \* a free lock's holder, an idle caller's argument

ASSUME ServiceAssumption ==
    /\ PageLimit \in Nat \ {0}
    /\ None \notin Callers /\ None \notin Sessions /\ None \notin EventIds

VARIABLES
    status,         \* sessions.status
    last_sequence,  \* sessions.last_sequence
    events,         \* the committed rows of the events table
    advisory,       \* who holds the session's advisory lock
    row_lock,       \* who holds the lock on the session's row
    pc,             \* the statement each caller runs next
    on,             \* the session its call is about
    event_id,       \* emit_event's event_id argument
    new_sequence,   \* emit_event's new_sequence, or the replayed event's
    late,           \* history: the call began after the session was terminal
    answers,        \* history: the events emit_event has returned
    cursor,         \* the sequence up to which the reader has read
    yielded         \* the events the reader has been given

callVars   == <<on, event_id, new_sequence, late>>
tableVars  == <<status, last_sequence, events>>
lockVars   == <<advisory, row_lock>>
readerVars == <<cursor, yielded>>
vars == <<tableVars, lockVars, pc, callVars, answers, readerVars>>

Event == [session : Sessions, id : EventIds, sequence : Nat]

\* Only mark_complete writes the status, so these two are the ones the
\* program reaches; TERMINAL_STATUSES of the code also has failed and deleted.
Active    == "active"
Completed == "completed"
TERMINAL_STATUSES == {Completed}

EmitSteps == {"lock", "find", "load", "insert", "bump", "commit", "answer"}
MarkSteps == {"mark_read", "mark_update", "mark_commit"}

EventsOf(s) == {e \in events : e.session = s}

Init ==
    /\ status = [s \in Sessions |-> Active]
    /\ last_sequence = [s \in Sessions |-> 0]
    /\ events = {}
    /\ advisory = [s \in Sessions |-> None]
    /\ row_lock = [s \in Sessions |-> None]
    /\ pc = [c \in Callers |-> "idle"]
    /\ on = [c \in Callers |-> None]
    /\ event_id = [c \in Callers |-> None]
    /\ new_sequence = [c \in Callers |-> 0]
    /\ late = [c \in Callers |-> FALSE]
    /\ answers = {}
    /\ cursor = [s \in Sessions |-> 0]
    /\ yielded = [s \in Sessions |-> {}]

Goto(c, step) == pc' = [pc EXCEPT ![c] = step]

\* Variant: a session-scoped pg_advisory_lock, which COMMIT does not release.
ReleaseRowLockOnly(c) ==
    /\ row_lock' = [s \in Sessions |->
                        IF row_lock[s] = c THEN None ELSE row_lock[s]]
    /\ UNCHANGED advisory

\* COMMIT and ROLLBACK both release every lock the transaction holds.
ReleaseLocks(c) ==
    /\ advisory' = [s \in Sessions |->
                        IF advisory[s] = c THEN None ELSE advisory[s]]
    /\ row_lock' = [s \in Sessions |->
                        IF row_lock[s] = c THEN None ELSE row_lock[s]]

\* The call is over, by a return or by an exception: its locals are gone.
EndCall(c) ==
    /\ Goto(c, "idle")
    /\ on' = [on EXCEPT ![c] = None]
    /\ event_id' = [event_id EXCEPT ![c] = None]
    /\ new_sequence' = [new_sequence EXCEPT ![c] = 0]
    /\ late' = [late EXCEPT ![c] = FALSE]

-----------------------------------------------------------------------------
(* emit_event *)

\* The caller enters emit_event with a payload within MAX_PAYLOAD_BYTES; a
\* larger one is refused before the transaction and touches nothing.
EmitCall(c, s, i) ==
    /\ pc[c] = "idle"
    /\ Goto(c, "lock")
    /\ on' = [on EXCEPT ![c] = s]
    /\ event_id' = [event_id EXCEPT ![c] = i]
    /\ late' = [late EXCEPT ![c] = status[s] \in TERMINAL_STATUSES]
    /\ UNCHANGED <<tableVars, lockVars, new_sequence, answers, readerVars>>

\* Variant: emit_event takes no advisory lock.
EmitLockSkipped(c) ==
    /\ pc[c] = "lock"
    /\ Goto(c, "find")
    /\ UNCHANGED <<tableVars, lockVars, callVars, answers, readerVars>>

\* pg_advisory_xact_lock waits until the lock is free.
EmitLock(c) ==
    /\ pc[c] = "lock"
    /\ advisory[on[c]] = None
    /\ advisory' = [advisory EXCEPT ![on[c]] = c]
    /\ Goto(c, "find")
    /\ UNCHANGED <<tableVars, row_lock, callVars, answers, readerVars>>

\* A replayed id ends the transaction and returns the stored event, whatever
\* the session's status.
EmitFindHit(c) ==
    /\ pc[c] = "find"
    /\ \E e \in EventsOf(on[c]) :
          /\ e.id = event_id[c]
          /\ new_sequence' = [new_sequence EXCEPT ![c] = e.sequence]
    /\ ReleaseLocks(c)
    /\ Goto(c, "answer")
    /\ UNCHANGED <<tableVars, on, event_id, late, answers, readerVars>>

EmitFindMiss(c) ==
    /\ pc[c] = "find"
    /\ \A e \in EventsOf(on[c]) : e.id # event_id[c]
    /\ Goto(c, "load")
    /\ UNCHANGED <<tableVars, lockVars, callVars, answers, readerVars>>

\* load_session_for_emit; a terminal session raises FailedPreconditionError.
EmitLoadTerminal(c) ==
    /\ pc[c] = "load"
    /\ status[on[c]] \in TERMINAL_STATUSES
    /\ ReleaseLocks(c)
    /\ EndCall(c)
    /\ UNCHANGED <<tableVars, answers, readerVars>>

\* Variant: the status is not looked at.
EmitLoadUnchecked(c) ==
    /\ pc[c] = "load"
    /\ new_sequence' = [new_sequence EXCEPT ![c] = last_sequence[on[c]] + 1]
    /\ Goto(c, "insert")
    /\ UNCHANGED <<tableVars, lockVars, on, event_id, late, answers, readerVars>>

EmitLoad(c) ==
    /\ pc[c] = "load"
    /\ status[on[c]] \notin TERMINAL_STATUSES
    /\ new_sequence' = [new_sequence EXCEPT ![c] = last_sequence[on[c]] + 1]
    /\ Goto(c, "insert")
    /\ UNCHANGED <<tableVars, lockVars, on, event_id, late, answers, readerVars>>

\* A row with the primary key (session_id, id) or with the unique key
\* (session_id, sequence) of c's new event.
SameKey(c, s, id, sequence) ==
    on[c] = s /\ (event_id[c] = id \/ new_sequence[c] = sequence)

UniqueViolation(c) ==
    \E e \in events : SameKey(c, e.session, e.id, e.sequence)

\* The INSERT waits for an uncommitted row with its keys. A committed one is an
\* IntegrityError, raised as RuntimeError: the transaction rolls back.
EmitInsert(c) ==
    /\ pc[c] = "insert"
    /\ ~ \E d \in Callers \ {c} :
            /\ pc[d] \in {"bump", "commit"}
            /\ SameKey(c, on[d], event_id[d], new_sequence[d])
    /\ IF UniqueViolation(c)
       THEN ReleaseLocks(c) /\ EndCall(c)
       ELSE Goto(c, "bump") /\ UNCHANGED <<lockVars, callVars>>
    /\ UNCHANGED <<tableVars, answers, readerVars>>

\* Variant: the caller is answered before the transaction commits.
EmitBumpAnswered(c) ==
    /\ pc[c] = "bump"
    /\ row_lock[on[c]] = None
    /\ row_lock' = [row_lock EXCEPT ![on[c]] = c]
    /\ Goto(c, "commit")
    /\ answers' = answers \cup
          {[session |-> on[c], id |-> event_id[c], sequence |-> new_sequence[c]]}
    /\ UNCHANGED <<tableVars, advisory, callVars, readerVars>>

\* The UPDATE of last_sequence waits for the session's row.
EmitBump(c) ==
    /\ pc[c] = "bump"
    /\ row_lock[on[c]] = None
    /\ row_lock' = [row_lock EXCEPT ![on[c]] = c]
    /\ Goto(c, "commit")
    /\ UNCHANGED <<tableVars, advisory, callVars, answers, readerVars>>

NewEvent(c) ==
    [session |-> on[c], id |-> event_id[c], sequence |-> new_sequence[c]]

\* Variant: the event is inserted and last_sequence is left alone.
EmitCommitNoBump(c) ==
    /\ pc[c] = "commit"
    /\ events' = events \cup {NewEvent(c)}
    /\ ReleaseLocks(c)
    /\ Goto(c, "answer")
    /\ UNCHANGED <<status, last_sequence, callVars, answers, readerVars>>

\* Variant: the UPDATE writes the whole row back as it was loaded.
EmitCommitWholeRow(c) ==
    /\ pc[c] = "commit"
    /\ events' = events \cup {NewEvent(c)}
    /\ last_sequence' = [last_sequence EXCEPT ![on[c]] = new_sequence[c]]
    /\ status' = [status EXCEPT ![on[c]] = Active]
    /\ ReleaseLocks(c)
    /\ Goto(c, "answer")
    /\ UNCHANGED <<callVars, answers, readerVars>>

\* The end of engine.begin()'s block: both writes appear, all locks go.
EmitCommit(c) ==
    /\ pc[c] = "commit"
    /\ events' = events \cup {NewEvent(c)}
    /\ last_sequence' = [last_sequence EXCEPT ![on[c]] = new_sequence[c]]
    /\ ReleaseLocks(c)
    /\ Goto(c, "answer")
    /\ UNCHANGED <<status, callVars, answers, readerVars>>

EmitAnswer(c) ==
    /\ pc[c] = "answer"
    /\ answers' = answers \cup {NewEvent(c)}
    /\ EndCall(c)
    /\ UNCHANGED <<tableVars, lockVars, readerVars>>

-----------------------------------------------------------------------------
(* mark_complete: no advisory lock, a SELECT and then an UPDATE *)

MarkCall(c, s) ==
    /\ pc[c] = "idle"
    /\ Goto(c, "mark_read")
    /\ on' = [on EXCEPT ![c] = s]
    /\ UNCHANGED <<tableVars, lockVars, event_id, new_sequence, late, answers,
                   readerVars>>

MarkReadTerminal(c) ==
    /\ pc[c] = "mark_read"
    /\ status[on[c]] \in TERMINAL_STATUSES
    /\ EndCall(c)
    /\ UNCHANGED <<tableVars, lockVars, answers, readerVars>>

MarkRead(c) ==
    /\ pc[c] = "mark_read"
    /\ status[on[c]] \notin TERMINAL_STATUSES
    /\ Goto(c, "mark_update")
    /\ UNCHANGED <<tableVars, lockVars, callVars, answers, readerVars>>

MarkUpdate(c) ==
    /\ pc[c] = "mark_update"
    /\ row_lock[on[c]] = None
    /\ row_lock' = [row_lock EXCEPT ![on[c]] = c]
    /\ Goto(c, "mark_commit")
    /\ UNCHANGED <<tableVars, advisory, callVars, answers, readerVars>>

MarkCommit(c) ==
    /\ pc[c] = "mark_commit"
    /\ status' = [status EXCEPT ![on[c]] = Completed]
    /\ ReleaseLocks(c)
    /\ EndCall(c)
    /\ UNCHANGED <<last_sequence, events, answers, readerVars>>

-----------------------------------------------------------------------------
(* The caller dies, is cancelled or loses its connection: PostgreSQL rolls  *)
(* its transaction back. After the COMMIT only the answer is lost.          *)
Abort(c) ==
    /\ pc[c] # "idle"
    /\ ReleaseLocks(c)
    /\ EndCall(c)
    /\ UNCHANGED <<tableVars, answers, readerVars>>

-----------------------------------------------------------------------------
(* get_events: the first `limit` events from `start` on, by sequence *)

\* Variant: the lower bound is exclusive.
GetEventsAfter(s, start, limit) ==
    LET candidates == {e \in EventsOf(s) : e.sequence > start}
    IN  {e \in candidates :
            Cardinality({f \in candidates : f.sequence < e.sequence}) < limit}

GetEvents(s, start, limit) ==
    LET candidates == {e \in EventsOf(s) : e.sequence >= start}
    IN  {e \in candidates :
            Cardinality({f \in candidates : f.sequence < e.sequence}) < limit}

\* Variant: the cursor comes from the session's row and not from the page.
PollToRow(s) ==
    LET page == GetEvents(s, cursor[s] + 1, PageLimit) IN
    /\ page # {}
    /\ yielded' = [yielded EXCEPT ![s] = @ \cup page]
    /\ cursor' = [cursor EXCEPT ![s] = last_sequence[s]]
    /\ UNCHANGED <<tableVars, lockVars, pc, callVars, answers>>

\* A reader that asks for what follows the last event it was given, as the
\* SDK's _stream_events does.
Poll(s) ==
    LET page == GetEvents(s, cursor[s] + 1, PageLimit) IN
    /\ yielded' = [yielded EXCEPT ![s] = @ \cup page]
    /\ \E last \in page :
          /\ \A e \in page : e.sequence <= last.sequence
          /\ cursor' = [cursor EXCEPT ![s] = last.sequence]
    /\ UNCHANGED <<tableVars, lockVars, pc, callVars, answers>>

-----------------------------------------------------------------------------
\* What a call does once it waits for no lock.
Proceed(c) ==
    \/ EmitFindHit(c) \/ EmitFindMiss(c)
    \/ EmitLoadTerminal(c) \/ EmitLoad(c)
    \/ EmitInsert(c) \/ EmitCommit(c) \/ EmitAnswer(c)
    \/ MarkReadTerminal(c) \/ MarkRead(c) \/ MarkCommit(c)

Step(c) ==
    \/ \E s \in Sessions, i \in EventIds : EmitCall(c, s, i)
    \/ \E s \in Sessions : MarkCall(c, s)
    \/ EmitLock(c) \/ EmitBump(c) \/ MarkUpdate(c)
    \/ Proceed(c)
    \/ Abort(c)

Next == (\E c \in Callers : Step(c)) \/ (\E s \in Sessions : Poll(s))

Spec == Init /\ [][Next]_vars

\* A caller that is not killed goes on, and PostgreSQL queues the waiters of
\* a lock in order, so a wait for a lock that is released again and again ends.
\* Nobody has to call, and nobody has to die.
Fairness ==
    /\ \A c \in Callers : /\ WF_vars(Proceed(c))
                          /\ SF_vars(EmitLock(c))
                          /\ SF_vars(EmitBump(c))
                          /\ SF_vars(MarkUpdate(c))
    /\ \A s \in Sessions : WF_vars(Poll(s))

FairSpec == Spec /\ Fairness

-----------------------------------------------------------------------------
(* Properties *)

\* Every variable holds a value of its kind.
TypeOK ==
    /\ status \in [Sessions -> {Active, Completed}]
    /\ last_sequence \in [Sessions -> Nat]
    /\ events \in SUBSET Event
    /\ advisory \in [Sessions -> Callers \cup {None}]
    /\ row_lock \in [Sessions -> Callers \cup {None}]
    /\ pc \in [Callers -> {"idle"} \cup EmitSteps \cup MarkSteps]
    /\ on \in [Callers -> Sessions \cup {None}]
    /\ event_id \in [Callers -> EventIds \cup {None}]
    /\ new_sequence \in [Callers -> Nat]
    /\ late \in [Callers -> BOOLEAN]
    /\ answers \in SUBSET Event
    /\ cursor \in [Sessions -> Nat]
    /\ yielded \in [Sessions -> SUBSET Event]

\* The committed log of every session is numbered 1, 2, ..., last_sequence
\* without a gap, and no two of its events share a number or an id, however
\* emit_event calls interleave, are replayed or die (sessions/store.py says
\* "Sequence is monotonic and densely packed within a session").
DenseSequences ==
    \A s \in Sessions :
        /\ \A e \in EventsOf(s) : e.sequence \in 1..last_sequence[s]
        /\ \A n \in 1..last_sequence[s] : \E e \in EventsOf(s) : e.sequence = n
        /\ \A e, f \in EventsOf(s) :
              e.sequence = f.sequence \/ e.id = f.id => e = f

\* emit_event's INSERT never meets a committed row with its keys, so its
\* IntegrityError branch (RuntimeError "despite holding the advisory lock") is
\* dead: no other caller commits between a caller's reads and its insert.
NoUniqueViolation ==
    \A c \in Callers : pc[c] \in {"insert", "bump", "commit"} => ~ UniqueViolation(c)

\* An event that emit_event has returned is in the log, under the sequence
\* that was returned, in every later state: a crash or a replay never makes the
\* service take an answer back.
AnswersDurable == answers \subseteq events

\* A reader that polls get_events from the event after its last one has been
\* given exactly the events up to its cursor: no event is ever committed
\* behind a cursor that a concurrent reader has already moved past.
ReaderMissesNothing ==
    \A s \in Sessions :
        yielded[s] = {e \in EventsOf(s) : e.sequence <= cursor[s]}

\* A call of emit_event that begins after the session completed never gets as
\* far as an insert: only calls already past their status check can still land
\* an event after mark_complete.
LateEmitRejected ==
    \A c \in Callers : late[c] => pc[c] \notin {"insert", "bump", "commit"}

\* Every emit_event or mark_complete call ends, by a return, an error or the
\* caller's death: the advisory lock and the row's lock are always let go, and
\* the two are never waited for in a circle.
CallsEnd == \A c \in Callers : pc[c] # "idle" ~> pc[c] = "idle"

\* Every committed event reaches the polling reader in the end, whatever the
\* page limit.
EventsReachReader ==
    \A s \in Sessions, i \in EventIds :
        (\E e \in EventsOf(s) : e.id = i) ~> (\E e \in yielded[s] : e.id = i)

\* The inductive invariant behind the five above. A call that is under way has
\* its arguments; one inside emit_event's transaction holds its session's
\* advisory lock, and so what it has read of the log is still so: its id is
\* not there, its sequence is the next one. A call that has committed finds its
\* event in the log, a late one is at a session that is still terminal, and no
\* cursor is past the end of the log.
CallOK(c) ==
    /\ pc[c] # "idle" => on[c] \in Sessions
    /\ pc[c] \in EmitSteps => event_id[c] \in EventIds

LockOK(c) ==
    pc[c] \in {"find", "load", "insert", "bump", "commit"} => advisory[on[c]] = c

ReadsOK(c) ==
    /\ pc[c] \in {"load", "insert", "bump", "commit"} =>
          \A e \in EventsOf(on[c]) : e.id # event_id[c]
    /\ pc[c] \in {"insert", "bump", "commit"} =>
          new_sequence[c] = last_sequence[on[c]] + 1
    /\ pc[c] = "answer" => NewEvent(c) \in events

LateOK(c) ==
    late[c] => /\ pc[c] \in {"lock", "find", "load", "answer"}
               /\ status[on[c]] \in TERMINAL_STATUSES

InductiveInvariant ==
    /\ TypeOK
    /\ IsFiniteSet(events)
    /\ \A c \in Callers : CallOK(c) /\ LockOK(c) /\ ReadsOK(c) /\ LateOK(c)
    /\ DenseSequences
    /\ AnswersDurable
    /\ ReaderMissesNothing
    /\ \A s \in Sessions : cursor[s] <= last_sequence[s]

\* The log that EventLog speaks of.
LogOf(s) ==
    [n \in 1..last_sequence[s] |->
        (CHOOSE e \in EventsOf(s) : e.sequence = n).id]

Log == INSTANCE EventLog WITH
           log    <- [s \in Sessions |-> LogOf(s)],
           closed <- {s \in Sessions : status[s] \in TERMINAL_STATUSES},
           told   <- answers

\* The service implements EventLog: the log grows only at its end and by ids
\* new to it, a completed session stays completed (emit's UPDATE of the same row
\* does not undo mark_complete's, nor the reverse), and answers are never wrong.
ImplementsEventLog == Log!Spec
=============================================================================
