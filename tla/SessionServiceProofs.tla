------------------------ MODULE SessionServiceProofs ------------------------
(***************************************************************************)
(* Theorems about SessionService, for any sets of sessions, callers and    *)
(* event ids and any page limit.                                           *)
(***************************************************************************)
EXTENDS SessionService, Sequences, FiniteSetTheorems, TLAPS

\* A caller in the middle of a call has its arguments, so that the functions
\* of sessions are applied to sessions.
Typed == TypeOK /\ \A c \in Callers : CallOK(c)

-----------------------------------------------------------------------------
(* Type correctness *)

\* emit_event's INSERT either meets a row with its keys and ends the call, or
\* goes on to the UPDATE.
LEMMA InsertOutcome ==
    ASSUME NEW c \in Callers, EmitInsert(c)
    PROVE  /\ pc[c] = "insert"
           /\ UNCHANGED <<tableVars, answers, readerVars>>
           /\ \/ UniqueViolation(c) /\ ReleaseLocks(c) /\ EndCall(c)
              \/ Goto(c, "bump") /\ UNCHANGED <<lockVars, callVars>>
  BY DEF EmitInsert

\* Every variable of the service keeps to its type through every statement of
\* emit_event, mark_complete and get_events, and through callers' deaths.
LEMMA TypeStep == Typed /\ [Next]_vars => Typed'
<1>.  SUFFICES ASSUME Typed, [Next]_vars PROVE Typed'
      OBVIOUS
<1>.  USE ServiceAssumption DEF Typed, TypeOK, CallOK, EmitSteps, MarkSteps
<1>s. CASE UNCHANGED vars
      BY <1>s DEF vars, tableVars, lockVars, callVars, readerVars
<1>c. ASSUME NEW c \in Callers, Step(c) PROVE Typed'
  <2>1. ASSUME NEW s \in Sessions, NEW i \in EventIds, EmitCall(c, s, i) PROVE Typed'
        BY <2>1 DEF EmitCall, Goto, tableVars, lockVars, readerVars
  <2>2. ASSUME NEW s \in Sessions, MarkCall(c, s) PROVE Typed'
        BY <2>2 DEF MarkCall, Goto, tableVars, lockVars, readerVars
  <2>3. CASE EmitLock(c)
        BY <2>3 DEF EmitLock, Goto, tableVars, callVars, readerVars
  <2>4. CASE EmitBump(c)
        BY <2>4 DEF EmitBump, Goto, tableVars, callVars, readerVars
  <2>5. CASE MarkUpdate(c)
        BY <2>5 DEF MarkUpdate, Goto, tableVars, callVars, readerVars
  <2>6. CASE EmitFindHit(c)
        BY <2>6 DEF EmitFindHit, ReleaseLocks, Goto, tableVars, readerVars, Event, EventsOf
  <2>7. CASE EmitFindMiss(c)
        BY <2>7 DEF EmitFindMiss, Goto, tableVars, lockVars, callVars, readerVars
  <2>8. CASE EmitLoadTerminal(c)
        BY <2>8 DEF EmitLoadTerminal, ReleaseLocks, EndCall, Goto, tableVars, readerVars
  <2>9. CASE EmitLoad(c)
        BY <2>9 DEF EmitLoad, Goto, tableVars, lockVars, readerVars
  <2>10. CASE EmitInsert(c)
    <3>1. UNCHANGED <<tableVars, answers, readerVars>>
          BY InsertOutcome, <2>10
    <3>2. CASE ReleaseLocks(c) /\ EndCall(c)
          BY <3>1, <3>2 DEF ReleaseLocks, EndCall, Goto, tableVars, readerVars
    <3>3. CASE Goto(c, "bump") /\ UNCHANGED <<lockVars, callVars>>
          BY <3>1, <3>3, <2>10 DEF EmitInsert, Goto, tableVars, lockVars, callVars, readerVars
    <3>.  QED  BY <2>10, <3>2, <3>3, InsertOutcome
  <2>11. CASE EmitCommit(c)
        BY <2>11 DEF EmitCommit, NewEvent, Event, ReleaseLocks, Goto, callVars, readerVars
  <2>12. CASE EmitAnswer(c)
        BY <2>12 DEF EmitAnswer, NewEvent, Event, EndCall, Goto, tableVars, lockVars, readerVars
  <2>13. CASE MarkReadTerminal(c)
        BY <2>13 DEF MarkReadTerminal, EndCall, Goto, tableVars, lockVars, readerVars
  <2>14. CASE MarkRead(c)
        BY <2>14 DEF MarkRead, Goto, tableVars, lockVars, callVars, readerVars
  <2>15. CASE MarkCommit(c)
        BY <2>15 DEF MarkCommit, ReleaseLocks, EndCall, Goto, readerVars
  <2>16. CASE Abort(c)
        BY <2>16 DEF Abort, ReleaseLocks, EndCall, Goto, tableVars, readerVars
  <2>.  QED  BY <1>c, <2>1, <2>2, <2>3, <2>4, <2>5, <2>6, <2>7, <2>8, <2>9, <2>10,
                <2>11, <2>12, <2>13, <2>14, <2>15, <2>16 DEF Step, Proceed
<1>p. ASSUME NEW s \in Sessions, Poll(s) PROVE Typed'
      BY <1>p DEF Poll, GetEvents, EventsOf, Event, tableVars, lockVars, callVars
<1>.  QED  BY <1>s, <1>c, <1>p DEF Next

-----------------------------------------------------------------------------
(* What one caller's step leaves alone *)

\* Only the two COMMITs write the tables.
LEMMA OnlyCommitsWrite ==
    ASSUME NEW c \in Callers, Step(c)
    PROVE  UNCHANGED <<tableVars, readerVars>> \/ EmitCommit(c) \/ MarkCommit(c)
  BY DEF Step, Proceed, EmitCall, MarkCall, EmitLock, EmitBump, MarkUpdate,
         EmitFindHit, EmitFindMiss, EmitLoadTerminal, EmitLoad, EmitInsert,
         EmitAnswer, MarkReadTerminal, MarkRead, Abort, tableVars, readerVars

\* A caller's step moves no other caller, changes no other caller's locals and
\* takes no advisory lock from another caller.
LEMMA OthersKeep ==
    ASSUME Typed, NEW c \in Callers, Step(c), NEW d \in Callers \ {c}
    PROVE  /\ pc'[d] = pc[d] /\ on'[d] = on[d] /\ event_id'[d] = event_id[d]
           /\ new_sequence'[d] = new_sequence[d] /\ late'[d] = late[d]
           /\ \A s \in Sessions : advisory[s] = d => advisory'[s] = d
<1>.  USE ServiceAssumption DEF Typed, TypeOK, Goto, EndCall, ReleaseLocks,
          lockVars, callVars
<1>1. ASSUME NEW s \in Sessions, MarkCall(c, s) \/ \E i \in EventIds : EmitCall(c, s, i)
      PROVE  /\ pc'[d] = pc[d] /\ on'[d] = on[d] /\ event_id'[d] = event_id[d]
             /\ new_sequence'[d] = new_sequence[d] /\ late'[d] = late[d]
             /\ advisory' = advisory
      BY <1>1 DEF EmitCall, MarkCall
<1>2. CASE EmitLock(c) \/ EmitBump(c) \/ MarkUpdate(c) \/ EmitFindMiss(c) \/ EmitLoad(c)
      BY <1>2 DEF EmitLock, EmitBump, MarkUpdate, EmitFindMiss, EmitLoad
<1>3. CASE EmitFindHit(c) \/ EmitLoadTerminal(c) \/ EmitCommit(c) \/ EmitAnswer(c)
      BY <1>3 DEF EmitFindHit, EmitLoadTerminal, EmitCommit, EmitAnswer
<1>4. CASE EmitInsert(c)
  <2>1. UNCHANGED <<tableVars, answers, readerVars>>
        BY InsertOutcome, <1>4
  <2>2. CASE ReleaseLocks(c) /\ EndCall(c)
        BY <2>1, <2>2 DEF ReleaseLocks, EndCall, Goto, tableVars, readerVars
  <2>3. CASE Goto(c, "bump") /\ UNCHANGED <<lockVars, callVars>>
        BY <2>1, <2>3, <1>4 DEF EmitInsert, Goto, tableVars, lockVars, callVars, readerVars
  <2>.  QED  BY <1>4, <2>2, <2>3, InsertOutcome
<1>5. CASE MarkReadTerminal(c) \/ MarkRead(c) \/ MarkCommit(c) \/ Abort(c)
      BY <1>5 DEF MarkReadTerminal, MarkRead, MarkCommit, Abort
<1>.  QED
      BY <1>1, <1>2, <1>3, <1>4, <1>5 DEF Step, Proceed

-----------------------------------------------------------------------------
(* The invariants of the calls *)

\* The advisory lock: a call inside emit_event's transaction holds the lock of
\* its session until it commits, gives up or dies.
LEMMA LockStep ==
    Typed /\ (\A c \in Callers : LockOK(c)) /\ [Next]_vars
        => (\A c \in Callers : LockOK(c))'
<1>.  SUFFICES ASSUME Typed, \A c \in Callers : LockOK(c), [Next]_vars,
                      NEW d \in Callers
               PROVE  LockOK(d)'
      OBVIOUS
<1>s. CASE UNCHANGED vars
      BY <1>s DEF LockOK, vars, lockVars, callVars
<1>p. ASSUME NEW s \in Sessions, Poll(s) PROVE LockOK(d)'
      BY <1>p DEF Poll, LockOK, lockVars, callVars
<1>o. ASSUME NEW c \in Callers \ {d}, Step(c) PROVE LockOK(d)'
  <2>1. on[d] \in Sessions \/ pc[d] = "idle"
        BY DEF Typed, CallOK
  <2>.  QED  BY <1>o, <2>1, OthersKeep DEF LockOK
<1>c. CASE Step(d)
  <2>.  USE ServiceAssumption DEF Typed, TypeOK, LockOK, CallOK, EmitSteps, Goto
  <2>1. ASSUME NEW s \in Sessions, MarkCall(d, s) \/ \E i \in EventIds : EmitCall(d, s, i)
        PROVE  LockOK(d)'
        BY <2>1 DEF EmitCall, MarkCall
  <2>2. CASE EmitLock(d)
        BY <2>2 DEF EmitLock, callVars
  <2>3. CASE EmitBump(d) \/ EmitFindMiss(d) \/ EmitLoad(d)
        BY <2>3 DEF EmitBump, EmitFindMiss, EmitLoad, callVars, lockVars
  <2>4. CASE EmitInsert(d)
    <3>1. UNCHANGED <<tableVars, answers, readerVars>>
          BY InsertOutcome, <2>4
    <3>2. CASE ReleaseLocks(d) /\ EndCall(d)
          BY <3>1, <3>2 DEF ReleaseLocks, EndCall, Goto, tableVars, readerVars
    <3>3. CASE Goto(d, "bump") /\ UNCHANGED <<lockVars, callVars>>
          BY <3>1, <3>3, <2>4 DEF EmitInsert, Goto, tableVars, lockVars, callVars, readerVars
    <3>.  QED  BY <2>4, <3>2, <3>3, InsertOutcome
  <2>5. CASE EmitFindHit(d) \/ EmitCommit(d) \/ MarkRead(d) \/ MarkUpdate(d)
        BY <2>5 DEF EmitFindHit, EmitCommit, MarkRead, MarkUpdate
  <2>6. CASE EmitLoadTerminal(d) \/ EmitAnswer(d) \/ MarkReadTerminal(d)
             \/ MarkCommit(d) \/ Abort(d)
        BY <2>6 DEF EmitLoadTerminal, EmitAnswer, MarkReadTerminal, MarkCommit,
                    Abort, EndCall
  <2>.  QED  BY <1>c, <2>1, <2>2, <2>3, <2>4, <2>5, <2>6 DEF Step, Proceed
<1>.  QED  BY <1>s, <1>p, <1>o, <1>c DEF Next

\* What a call has read of the log stays so while it holds the lock, since
\* another call of the same session that commits an event holds it too.
LEMMA ReadsStep ==
    Typed /\ (\A c \in Callers : LockOK(c) /\ ReadsOK(c)) /\ [Next]_vars
        => (\A c \in Callers : ReadsOK(c))'
<1>.  SUFFICES ASSUME Typed, \A c \in Callers : LockOK(c) /\ ReadsOK(c), [Next]_vars,
                      NEW d \in Callers
               PROVE  ReadsOK(d)'
      OBVIOUS
<1>s. CASE UNCHANGED vars
      BY <1>s DEF ReadsOK, EventsOf, NewEvent, vars, tableVars, callVars
<1>p. ASSUME NEW s \in Sessions, Poll(s) PROVE ReadsOK(d)'
      BY <1>p DEF Poll, ReadsOK, EventsOf, NewEvent, tableVars, callVars
<1>o. ASSUME NEW c \in Callers \ {d}, Step(c) PROVE ReadsOK(d)'
  <2>1. CASE UNCHANGED tableVars
        BY <1>o, <2>1, OthersKeep DEF ReadsOK, EventsOf, NewEvent, tableVars
  <2>2. CASE MarkCommit(c)
        BY <1>o, <2>2, OthersKeep DEF MarkCommit, ReadsOK, EventsOf, NewEvent
  <2>3. CASE EmitCommit(c)
    <3>1. /\ events' = events \cup {NewEvent(c)}
          /\ last_sequence' = [last_sequence EXCEPT ![on[c]] = new_sequence[c]]
          BY <2>3 DEF EmitCommit
    <3>2. ASSUME pc[d] \in {"load", "insert", "bump", "commit"}
          PROVE  on[d] # on[c] /\ on[d] \in Sessions
          BY <2>3, <3>2 DEF EmitCommit, LockOK, Typed, CallOK
    <3>3. pc'[d] = pc[d] /\ on'[d] = on[d] /\ event_id'[d] = event_id[d]
              /\ new_sequence'[d] = new_sequence[d]
          BY <1>o, OthersKeep
    <3>4. ASSUME pc[d] \in {"load", "insert", "bump", "commit"}
          PROVE  /\ EventsOf(on[d])' = EventsOf(on[d])
                 /\ last_sequence'[on[d]] = last_sequence[on[d]]
          BY <3>1, <3>2, <3>3, <3>4 DEF EventsOf, NewEvent, Typed, TypeOK
    <3>5. NewEvent(d)' = NewEvent(d) /\ events \subseteq events'
          BY <3>1, <3>3 DEF NewEvent
    <3>6. (\A e \in EventsOf(on[d]) : e.id # event_id[d])'
              <=> \A e \in EventsOf(on[d])' : e.id # event_id[d]
          BY <3>3
    <3>.  QED
          BY <3>3, <3>4, <3>5, <3>6 DEF ReadsOK
  <2>.  QED  BY <1>o, <2>1, <2>2, <2>3, OnlyCommitsWrite DEF tableVars
<1>c. CASE Step(d)
  <2>.  USE ServiceAssumption DEF Typed, TypeOK, CallOK, ReadsOK, EmitSteps, Goto, EventsOf
  <2>1. ASSUME NEW s \in Sessions, MarkCall(d, s) \/ \E i \in EventIds : EmitCall(d, s, i)
        PROVE  ReadsOK(d)'
        BY <2>1 DEF EmitCall, MarkCall
  <2>2. CASE EmitLock(d) \/ MarkRead(d) \/ MarkUpdate(d)
        BY <2>2 DEF EmitLock, MarkRead, MarkUpdate
  <2>3. CASE EmitFindHit(d)
        BY <2>3 DEF EmitFindHit, NewEvent, Event, tableVars
  <2>4. CASE EmitFindMiss(d)
        BY <2>4 DEF EmitFindMiss, callVars, tableVars
  <2>5. CASE EmitLoad(d)
        BY <2>5 DEF EmitLoad, tableVars
  <2>6. CASE EmitInsert(d)
    <3>1. UNCHANGED <<tableVars, answers, readerVars>>
          BY InsertOutcome, <2>6
    <3>2. CASE ReleaseLocks(d) /\ EndCall(d)
          BY <3>1, <3>2 DEF EndCall
    <3>3. CASE Goto(d, "bump") /\ UNCHANGED <<lockVars, callVars>>
          BY <3>1, <3>3, <2>6 DEF EmitInsert, callVars, tableVars
    <3>.  QED  BY <2>6, <3>2, <3>3, InsertOutcome
  <2>7. CASE EmitBump(d)
        BY <2>7 DEF EmitBump, callVars, tableVars
  <2>8. CASE EmitCommit(d)
        BY <2>8 DEF EmitCommit, NewEvent, callVars
  <2>9. CASE EmitLoadTerminal(d) \/ EmitAnswer(d) \/ MarkReadTerminal(d)
             \/ MarkCommit(d) \/ Abort(d)
        BY <2>9 DEF EmitLoadTerminal, EmitAnswer, MarkReadTerminal, MarkCommit,
                    Abort, EndCall
  <2>.  QED  BY <1>c, <2>1, <2>2, <2>3, <2>4, <2>5, <2>6, <2>7, <2>8, <2>9 DEF Step, Proceed
<1>.  QED  BY <1>s, <1>p, <1>o, <1>c DEF Next

\* A call that begins at a terminal session finds it terminal at its status
\* check, because no step makes a session active again.
LEMMA LateStep ==
    Typed /\ (\A c \in Callers : LateOK(c)) /\ [Next]_vars
        => (\A c \in Callers : LateOK(c))'
<1>.  SUFFICES ASSUME Typed, \A c \in Callers : LateOK(c), [Next]_vars,
                      NEW d \in Callers
               PROVE  LateOK(d)'
      OBVIOUS
<1>.  USE DEF TERMINAL_STATUSES, Active, Completed
<1>s. CASE UNCHANGED vars
      BY <1>s DEF LateOK, vars, tableVars, callVars
<1>p. ASSUME NEW s \in Sessions, Poll(s) PROVE LateOK(d)'
      BY <1>p DEF Poll, LateOK, tableVars, callVars
<1>t. ASSUME NEW c \in Callers, Step(c), NEW s \in Sessions, status[s] \in TERMINAL_STATUSES
      PROVE  status'[s] \in TERMINAL_STATUSES
      BY <1>t, OnlyCommitsWrite DEF tableVars, EmitCommit, MarkCommit, Typed, TypeOK
<1>o. ASSUME NEW c \in Callers \ {d}, Step(c) PROVE LateOK(d)'
      BY <1>o, <1>t, OthersKeep DEF LateOK, Typed, CallOK
<1>c. CASE Step(d)
  <2>.  USE ServiceAssumption DEF Typed, TypeOK, CallOK, LateOK, EmitSteps, MarkSteps, Goto
  <2>1. ASSUME NEW s \in Sessions, MarkCall(d, s) \/ \E i \in EventIds : EmitCall(d, s, i)
        PROVE  LateOK(d)'
        BY <2>1 DEF EmitCall, MarkCall, tableVars
  <2>2. CASE EmitLock(d) \/ MarkRead(d) \/ MarkUpdate(d)
        BY <2>2 DEF EmitLock, MarkRead, MarkUpdate, callVars, tableVars
  <2>3. CASE EmitFindHit(d) \/ EmitFindMiss(d)
        BY <2>3 DEF EmitFindHit, EmitFindMiss, callVars, tableVars
  <2>4. CASE EmitLoad(d)
        BY <2>4 DEF EmitLoad
  <2>5. CASE EmitBump(d) \/ EmitCommit(d)
        BY <2>5 DEF EmitBump, EmitCommit, callVars
  <2>6. CASE EmitInsert(d)
    <3>1. CASE ReleaseLocks(d) /\ EndCall(d)
          BY <3>1 DEF EndCall
    <3>2. CASE Goto(d, "bump") /\ UNCHANGED <<lockVars, callVars>>
          BY <3>2, <2>6 DEF EmitInsert, callVars
    <3>.  QED  BY <2>6, <3>1, <3>2, InsertOutcome
  <2>7. CASE EmitLoadTerminal(d) \/ EmitAnswer(d) \/ MarkReadTerminal(d)
             \/ MarkCommit(d) \/ Abort(d)
        BY <2>7 DEF EmitLoadTerminal, EmitAnswer, MarkReadTerminal, MarkCommit,
                    Abort, EndCall
  <2>.  QED  BY <1>c, <2>1, <2>2, <2>3, <2>4, <2>5, <2>6, <2>7 DEF Step, Proceed
<1>.  QED  BY <1>s, <1>p, <1>o, <1>c DEF Next

-----------------------------------------------------------------------------
(* The invariants of the log and its reader *)

\* A transaction that commits an event adds it right after the log's last.
LEMMA DenseStep ==
    Typed /\ (\A c \in Callers : ReadsOK(c)) /\ DenseSequences /\ [Next]_vars
        => DenseSequences'
<1>.  SUFFICES ASSUME Typed, \A c \in Callers : ReadsOK(c), DenseSequences, [Next]_vars
               PROVE  DenseSequences'
      OBVIOUS
<1>u. ASSUME UNCHANGED <<events, last_sequence>> PROVE DenseSequences'
      BY <1>u DEF DenseSequences, EventsOf
<1>s. CASE UNCHANGED vars
      BY <1>s, <1>u DEF vars, tableVars
<1>p. ASSUME NEW s \in Sessions, Poll(s) PROVE DenseSequences'
      BY <1>p, <1>u DEF Poll, tableVars
<1>e. ASSUME NEW c \in Callers, EmitCommit(c) PROVE DenseSequences'
  <2>0. PICK t \in Sessions : t = on[c]
        BY <1>e DEF EmitCommit, Typed, CallOK
  <2>1. /\ last_sequence[t] \in Nat /\ event_id[c] \in EventIds
        /\ new_sequence[c] = last_sequence[t] + 1
        /\ \A e \in EventsOf(t) : e.id # event_id[c]
        BY <1>e, <2>0 DEF EmitCommit, Typed, TypeOK, CallOK, ReadsOK, EmitSteps
  <2>2. /\ events' = events \cup {NewEvent(c)}
        /\ last_sequence' = [last_sequence EXCEPT ![t] = last_sequence[t] + 1]
        BY <1>e, <2>0, <2>1 DEF EmitCommit
  <2>3. ASSUME NEW s \in Sessions, s # t
        PROVE  EventsOf(s)' = EventsOf(s) /\ last_sequence'[s] = last_sequence[s]
        BY <2>0, <2>2, <2>3 DEF EventsOf, NewEvent, Typed, TypeOK
  <2>4. /\ EventsOf(t)' = EventsOf(t) \cup {NewEvent(c)}
        /\ last_sequence'[t] = last_sequence[t] + 1
        BY <2>0, <2>1, <2>2 DEF EventsOf, NewEvent, Typed, TypeOK
  <2>5. NewEvent(c).sequence = last_sequence[t] + 1 /\ NewEvent(c).id = event_id[c]
        BY <2>1 DEF NewEvent
  <2>6. ASSUME NEW s \in Sessions
        PROVE  /\ \A e \in EventsOf(s)' : e.sequence \in 1..last_sequence'[s]
               /\ \A n \in 1..last_sequence'[s] : \E e \in EventsOf(s)' : e.sequence = n
               /\ \A e, f \in EventsOf(s)' : e.sequence = f.sequence \/ e.id = f.id => e = f
    <3>1. CASE s # t
          BY <2>3, <3>1 DEF DenseSequences
    <3>2. CASE s = t
      <4>.  DEFINE old == EventsOf(t)  n == last_sequence[t]
      <4>1. /\ \A e \in old : e.sequence \in 1..n
            /\ \A m \in 1..n : \E e \in old : e.sequence = m
            /\ \A e, f \in old : e.sequence = f.sequence \/ e.id = f.id => e = f
            BY <2>1 DEF DenseSequences
      <4>.  HIDE DEF old, n
      <4>2. /\ \A e \in old \cup {NewEvent(c)} : e.sequence \in 1..(n + 1)
            /\ \A m \in 1..(n + 1) : \E e \in old \cup {NewEvent(c)} : e.sequence = m
            /\ \A e, f \in old \cup {NewEvent(c)} :
                  e.sequence = f.sequence \/ e.id = f.id => e = f
            BY <2>1, <2>5, <4>1 DEF old, n
      <4>.  QED  BY <2>4, <3>2, <4>2 DEF old, n
    <3>.  QED  BY <3>1, <3>2
  <2>.  QED  BY <2>6 DEF DenseSequences
<1>c. ASSUME NEW c \in Callers, Step(c) PROVE DenseSequences'
  <2>1. CASE MarkCommit(c)
        BY <2>1, <1>u DEF MarkCommit
  <2>.  QED  BY <1>c, <1>u, <1>e, <2>1, OnlyCommitsWrite DEF tableVars
<1>.  QED  BY <1>s, <1>p, <1>c DEF Next

\* No step takes an event out of the log.
LEMMA EventsGrow == [Next]_vars => events \subseteq events'
<1>.  SUFFICES ASSUME [Next]_vars PROVE events \subseteq events'
      OBVIOUS
<1>1. ASSUME NEW c \in Callers, Step(c) PROVE events \subseteq events'
      BY <1>1, OnlyCommitsWrite DEF tableVars, EmitCommit, MarkCommit
<1>2. ASSUME NEW s \in Sessions, Poll(s) PROVE events \subseteq events'
      BY <1>2 DEF Poll, tableVars
<1>.  QED  BY <1>1, <1>2 DEF Next, vars, tableVars

\* An emit_event call answers with the event its transaction has committed, or
\* with the stored one it replayed.
LEMMA AnswersStep ==
    (\A c \in Callers : ReadsOK(c)) /\ AnswersDurable /\ [Next]_vars => AnswersDurable'
<1>.  SUFFICES ASSUME \A c \in Callers : ReadsOK(c), AnswersDurable, [Next]_vars
               PROVE  AnswersDurable'
      OBVIOUS
<1>u. ASSUME UNCHANGED answers PROVE AnswersDurable'
      BY <1>u, EventsGrow DEF AnswersDurable
<1>a. ASSUME NEW c \in Callers, EmitAnswer(c) PROVE AnswersDurable'
      BY <1>a, EventsGrow DEF AnswersDurable, EmitAnswer, ReadsOK
<1>c. ASSUME NEW c \in Callers, Step(c) PROVE UNCHANGED answers \/ EmitAnswer(c)
      BY <1>c DEF Step, Proceed, EmitCall, MarkCall, EmitLock, EmitBump, MarkUpdate,
         EmitFindHit, EmitFindMiss, EmitLoadTerminal, EmitLoad, EmitInsert,
         EmitCommit, MarkReadTerminal, MarkRead, MarkCommit, Abort
<1>p. ASSUME NEW s \in Sessions, Poll(s) PROVE UNCHANGED answers
      BY <1>p DEF Poll
<1>.  QED  BY <1>u, <1>a, <1>c, <1>p DEF Next, vars

\* A page of get_events leaves nothing out below its last event.
LEMMA PageIsPrefix ==
    ASSUME IsFiniteSet(events), TypeOK, NEW s \in Sessions, NEW start \in Nat,
           NEW last \in GetEvents(s, start, PageLimit), NEW e \in EventsOf(s),
           start <= e.sequence, e.sequence <= last.sequence
    PROVE  e \in GetEvents(s, start, PageLimit)
<1>.  DEFINE candidates == {f \in EventsOf(s) : f.sequence >= start}
             Below(g) == {f \in candidates : f.sequence < g.sequence}
<1>1. \A f \in EventsOf(s) : f.sequence \in Nat
      BY DEF EventsOf, TypeOK, Event
<1>2. last \in candidates /\ e \in candidates
      BY <1>1 DEF GetEvents
<1>3. Below(e) \subseteq Below(last)
      BY <1>1, <1>2
<1>4. IsFiniteSet(Below(last))
  <2>1. Below(last) \subseteq events
        BY DEF EventsOf
  <2>.  QED  BY <2>1, FS_Subset
<1>5. /\ Cardinality(Below(e)) <= Cardinality(Below(last))
      /\ Cardinality(Below(e)) \in Nat /\ Cardinality(Below(last)) \in Nat
      BY <1>3, <1>4, FS_Subset, FS_CardinalityType
<1>6. Cardinality(Below(last)) < PageLimit
      BY DEF GetEvents
<1>7. Cardinality(Below(e)) < PageLimit
      BY <1>5, <1>6, ServiceAssumption
<1>.  QED  BY <1>2, <1>7 DEF GetEvents

\* A reader is never ahead of its session, and the events are finitely many: a
\* page has a last event, and all that come before it.
CursorOK == /\ IsFiniteSet(events)
            /\ \A s \in Sessions : cursor[s] <= last_sequence[s]

\* Events are committed past every cursor, and a page takes the cursor no
\* further than the events it gives.
LEMMA ReaderStep ==
    /\ Typed /\ \A c \in Callers : ReadsOK(c)
    /\ DenseSequences /\ ReaderMissesNothing /\ CursorOK
    /\ [Next]_vars
    => ReaderMissesNothing' /\ CursorOK'
<1>.  SUFFICES ASSUME Typed, \A c \in Callers : ReadsOK(c), DenseSequences,
                      ReaderMissesNothing, CursorOK, [Next]_vars
               PROVE  ReaderMissesNothing' /\ CursorOK'
      OBVIOUS
<1>u. ASSUME UNCHANGED <<events, last_sequence, readerVars>>
      PROVE  ReaderMissesNothing' /\ CursorOK'
      BY <1>u DEF ReaderMissesNothing, CursorOK, EventsOf, readerVars
<1>p. ASSUME NEW s \in Sessions, Poll(s) PROVE ReaderMissesNothing' /\ CursorOK'
  <2>.  DEFINE page == GetEvents(s, cursor[s] + 1, PageLimit)
  <2>1. PICK last \in page :
             /\ \A e \in page : e.sequence <= last.sequence
             /\ cursor' = [cursor EXCEPT ![s] = last.sequence]
        BY <1>p DEF Poll
  <2>2. /\ UNCHANGED <<events, last_sequence>>
        /\ yielded' = [yielded EXCEPT ![s] = @ \cup page]
        BY <1>p DEF Poll, tableVars
  <2>3. /\ page \subseteq EventsOf(s) /\ cursor[s] \in Nat
        /\ \A e \in page : cursor[s] < e.sequence
        /\ \A e \in EventsOf(s) : e.sequence \in Nat
        BY DEF GetEvents, EventsOf, Typed, TypeOK, Event
  <2>4. \A e \in EventsOf(s) :
            cursor[s] < e.sequence /\ e.sequence <= last.sequence => e \in page
        BY <2>1, <2>3, PageIsPrefix DEF Typed, CursorOK
  <2>5. yielded'[s] = {e \in EventsOf(s) : e.sequence <= last.sequence}
    <3>1. yielded'[s] = {e \in EventsOf(s) : e.sequence <= cursor[s]} \cup page
          BY <2>2 DEF ReaderMissesNothing, Typed, TypeOK
    <3>.  HIDE DEF page
    <3>.  QED  BY <2>1, <2>3, <2>4, <3>1
  <2>6. last.sequence \in 1..last_sequence[s]
        BY <2>1, <2>3 DEF DenseSequences
  <2>7. ASSUME NEW t \in Sessions
        PROVE  /\ yielded'[t] = {e \in EventsOf(t) : e.sequence <= cursor'[t]}
               /\ cursor'[t] <= last_sequence[t]
    <3>1. CASE t = s
          BY <2>1, <2>5, <2>6, <3>1 DEF Typed, TypeOK
    <3>2. CASE t # s
          BY <2>1, <2>2, <3>2 DEF Typed, TypeOK, ReaderMissesNothing, CursorOK
    <3>.  QED  BY <3>1, <3>2
  <2>.  QED  BY <2>2, <2>7 DEF ReaderMissesNothing, CursorOK, EventsOf
<1>e. ASSUME NEW c \in Callers, EmitCommit(c) PROVE ReaderMissesNothing' /\ CursorOK'
  <2>1. /\ on[c] \in Sessions /\ last_sequence[on[c]] \in Nat
        /\ new_sequence[c] = last_sequence[on[c]] + 1
        BY <1>e DEF EmitCommit, Typed, TypeOK, CallOK, ReadsOK
  <2>2. /\ events' = events \cup {NewEvent(c)}
        /\ last_sequence' = [last_sequence EXCEPT ![on[c]] = last_sequence[on[c]] + 1]
        /\ UNCHANGED <<cursor, yielded>>
        BY <1>e, <2>1 DEF EmitCommit, readerVars
  <2>3. NewEvent(c).session = on[c] /\ NewEvent(c).sequence = last_sequence[on[c]] + 1
        BY <2>1 DEF NewEvent
  <2>4. IsFiniteSet(events')
        BY <2>2, FS_AddElement DEF CursorOK
  <2>5. ASSUME NEW s \in Sessions
        PROVE  /\ {e \in EventsOf(s)' : e.sequence <= cursor[s]}
                      = {e \in EventsOf(s) : e.sequence <= cursor[s]}
               /\ cursor[s] <= last_sequence'[s]
    <3>1. cursor[s] \in Nat /\ last_sequence[s] \in Nat /\ cursor[s] <= last_sequence[s]
          BY DEF Typed, TypeOK, CursorOK
    <3>2. EventsOf(s)' = {e \in events' : e.session = s}
          BY DEF EventsOf
    <3>.  QED
          BY <2>1, <2>2, <2>3, <3>1, <3>2 DEF EventsOf, Typed, TypeOK
  <2>.  QED  BY <2>2, <2>4, <2>5 DEF ReaderMissesNothing, CursorOK
<1>c. ASSUME NEW c \in Callers, Step(c) PROVE ReaderMissesNothing' /\ CursorOK'
  <2>1. CASE MarkCommit(c)
        BY <2>1, <1>u DEF MarkCommit
  <2>.  QED  BY <1>c, <1>u, <1>e, <2>1, OnlyCommitsWrite DEF tableVars
<1>s. CASE UNCHANGED vars
      BY <1>s, <1>u DEF vars, tableVars
<1>.  QED  BY <1>s, <1>p, <1>c DEF Next

-----------------------------------------------------------------------------
(* The theorems *)

\* Empty tables and idle callers satisfy the inductive invariant.
LEMMA InitInductive == Init => InductiveInvariant
<1>.  SUFFICES ASSUME Init PROVE InductiveInvariant
      OBVIOUS
<1>.  USE ServiceAssumption DEF Init
<1>1. TypeOK
      BY DEF TypeOK, Event
<1>2. IsFiniteSet(events)
      BY FS_EmptySet
<1>3. \A c \in Callers : CallOK(c) /\ LockOK(c) /\ ReadsOK(c) /\ LateOK(c)
      BY DEF CallOK, LockOK, ReadsOK, LateOK, EmitSteps
<1>4. DenseSequences /\ AnswersDurable /\ ReaderMissesNothing
      BY DEF DenseSequences, AnswersDurable, ReaderMissesNothing, EventsOf
<1>5. \A s \in Sessions : cursor[s] <= last_sequence[s]
      OBVIOUS
<1>.  QED  BY <1>1, <1>2, <1>3, <1>4, <1>5 DEF InductiveInvariant

\* Every statement of every caller, and every poll, preserves it.
LEMMA InductiveStep == InductiveInvariant /\ [Next]_vars => InductiveInvariant'
<1>.  SUFFICES ASSUME InductiveInvariant, [Next]_vars PROVE InductiveInvariant'
      OBVIOUS
<1>1. /\ Typed /\ CursorOK /\ DenseSequences /\ AnswersDurable /\ ReaderMissesNothing
      /\ \A c \in Callers : LockOK(c) /\ ReadsOK(c)
      /\ \A c \in Callers : LockOK(c)
      /\ \A c \in Callers : ReadsOK(c)
      /\ \A c \in Callers : LateOK(c)
      BY DEF InductiveInvariant, Typed, CursorOK
<1>2. Typed' /\ DenseSequences' /\ AnswersDurable'
      BY <1>1, TypeStep, DenseStep, AnswersStep
<1>3. (\A c \in Callers : LockOK(c))' /\ (\A c \in Callers : ReadsOK(c))'
      BY <1>1, LockStep, ReadsStep
<1>4. (\A c \in Callers : LateOK(c))' /\ ReaderMissesNothing' /\ CursorOK'
      BY <1>1, LateStep, ReaderStep
<1>.  QED  BY <1>2, <1>3, <1>4 DEF InductiveInvariant, Typed, CursorOK

\* Whatever callers of emit_event and mark_complete do and wherever they die, the
\* invariant holds: locks have the owners they should, and what a caller read
\* under the advisory lock is still so when it writes.
THEOREM InductiveInvariantHolds == Spec => []InductiveInvariant
  BY InitInductive, InductiveStep, PTL DEF Spec

\* Every variable of the service keeps to its type through every statement of
\* emit_event, mark_complete and get_events, and through callers' deaths.
THEOREM TypeCorrect == Spec => []TypeOK
<1>1. InductiveInvariant => TypeOK
      BY DEF InductiveInvariant
<1>.  QED  BY <1>1, InductiveInvariantHolds, PTL

\* Every session's log is numbered densely and without duplicates, however
\* emit_event calls of any number of callers interleave, are replayed or die
\* (the advisory lock of store.py is held from the first read to the COMMIT).
THEOREM LogsAreDense == Spec => []DenseSequences
<1>1. InductiveInvariant => DenseSequences
      BY DEF InductiveInvariant
<1>.  QED  BY <1>1, InductiveInvariantHolds, PTL

\* emit_event's INSERT never meets a row with its keys: the id is not in the
\* log and the sequence is past the log's end. Its IntegrityError branch is dead.
THEOREM InsertNeverConflicts == Spec => []NoUniqueViolation
<1>1. InductiveInvariant => NoUniqueViolation
  <2>.  SUFFICES ASSUME InductiveInvariant, NEW c \in Callers,
                        pc[c] \in {"insert", "bump", "commit"}, NEW e \in events,
                        SameKey(c, e.session, e.id, e.sequence)
                 PROVE  FALSE
        BY DEF NoUniqueViolation, UniqueViolation
  <2>1. e \in EventsOf(on[c]) /\ on[c] \in Sessions /\ last_sequence[on[c]] \in Nat
        BY DEF SameKey, EventsOf, InductiveInvariant, TypeOK, CallOK
  <2>2. e.sequence \in 1..last_sequence[on[c]]
        BY <2>1 DEF InductiveInvariant, DenseSequences
  <2>3. e.id # event_id[c] /\ new_sequence[c] = last_sequence[on[c]] + 1
        BY <2>1 DEF InductiveInvariant, ReadsOK
  <2>.  QED  BY <2>1, <2>2, <2>3 DEF SameKey
<1>.  QED  BY <1>1, InductiveInvariantHolds, PTL

\* What emit_event has answered is in the log from then on.
THEOREM AnswersStayTrue == Spec => []AnswersDurable
<1>1. InductiveInvariant => AnswersDurable
      BY DEF InductiveInvariant
<1>.  QED  BY <1>1, InductiveInvariantHolds, PTL

\* A reader that tails the log with get_events, whatever its limit, has been
\* given exactly the events up to its cursor.
THEOREM ReaderIsComplete == Spec => []ReaderMissesNothing
<1>1. InductiveInvariant => ReaderMissesNothing
      BY DEF InductiveInvariant
<1>.  QED  BY <1>1, InductiveInvariantHolds, PTL

\* An emit_event call that begins at a terminal session never reaches its INSERT.
THEOREM LateEmitsRejected == Spec => []LateEmitRejected
<1>1. InductiveInvariant => LateEmitRejected
      BY DEF InductiveInvariant, LateEmitRejected, LateOK
<1>.  QED  BY <1>1, InductiveInvariantHolds, PTL

-----------------------------------------------------------------------------
(* The service implements EventLog *)

\* The abstract log of a session is the ids of its events in sequence order.
LogIsOfEvents ==
    \A s \in Sessions :
        /\ LogOf(s) \in Seq(EventIds)
        /\ Len(LogOf(s)) = last_sequence[s]
        /\ \A e \in EventsOf(s) : e.sequence \in 1..last_sequence[s]
                                  /\ LogOf(s)[e.sequence] = e.id

\* Dense sequences make the ids of a session's events, by sequence, a log.
LEMMA LogOfEvents == Typed /\ DenseSequences => LogIsOfEvents
<1>.  SUFFICES ASSUME Typed, DenseSequences, NEW s \in Sessions
               PROVE  /\ LogOf(s) \in Seq(EventIds)
                      /\ Len(LogOf(s)) = last_sequence[s]
                      /\ \A e \in EventsOf(s) : e.sequence \in 1..last_sequence[s]
                                                /\ LogOf(s)[e.sequence] = e.id
      BY DEF LogIsOfEvents
<1>1. last_sequence[s] \in Nat /\ \A e \in EventsOf(s) : e.id \in EventIds
      BY DEF Typed, TypeOK, EventsOf, Event
<1>2. ASSUME NEW n \in 1..last_sequence[s]
      PROVE  (CHOOSE e \in EventsOf(s) : e.sequence = n) \in EventsOf(s)
      BY <1>2 DEF DenseSequences
<1>3. ASSUME NEW e \in EventsOf(s)
      PROVE  e.sequence \in 1..last_sequence[s] /\ LogOf(s)[e.sequence] = e.id
  <2>1. e.sequence \in 1..last_sequence[s]
        BY DEF DenseSequences
  <2>2. (CHOOSE f \in EventsOf(s) : f.sequence = e.sequence) = e
        BY <2>1 DEF DenseSequences
  <2>.  QED  BY <2>1, <2>2 DEF LogOf
<1>.  QED  BY <1>1, <1>2, <1>3 DEF LogOf

\* The same of the next state.
LEMMA LogOfEventsNext == Typed' /\ DenseSequences' => LogIsOfEvents'
  BY LogOfEvents, PTL

\* With the tables unchanged, so is the abstract log.
LEMMA SameLog ==
    ASSUME UNCHANGED <<events, last_sequence>>, NEW s \in Sessions
    PROVE  LogOf(s)' = LogOf(s)
  BY DEF LogOf, EventsOf

\* Empty tables are the empty logs of EventLog.
LEMMA LogInit == Init => Log!Init
  BY DEF Init, Log!Init, LogOf, EventsOf, TERMINAL_STATUSES, Active, Completed

\* A sequence that is one longer and agrees with the other on its positions.
LEMMA AppendByElements ==
    ASSUME NEW S, NEW x \in S, NEW old \in Seq(S), NEW new \in Seq(S),
           Len(new) = Len(old) + 1, new[Len(old) + 1] = x,
           \A n \in 1..Len(old) : new[n] = old[n]
    PROVE  new = Append(old, x)
  OBVIOUS

\* The COMMIT of emit_event appends its event to the abstract log.
LEMMA CommitAppends ==
    ASSUME InductiveInvariant, InductiveInvariant', NEW c \in Callers, EmitCommit(c)
    PROVE  Log!AppendEvent(on[c], event_id[c]) /\ on[c] \in Sessions /\ event_id[c] \in EventIds
<1>0. PICK t \in Sessions : t = on[c]
      BY DEF EmitCommit, InductiveInvariant, CallOK
<1>1. /\ Typed /\ DenseSequences /\ Typed' /\ DenseSequences'
      /\ last_sequence[t] \in Nat /\ event_id[c] \in EventIds
      /\ new_sequence[c] = last_sequence[t] + 1
      /\ \A e \in EventsOf(t) : e.id # event_id[c]
      BY <1>0 DEF InductiveInvariant, EmitCommit, Typed, TypeOK, CallOK, ReadsOK, EmitSteps
<1>2. /\ events' = events \cup {NewEvent(c)}
      /\ last_sequence' = [last_sequence EXCEPT ![t] = last_sequence[t] + 1]
      /\ UNCHANGED <<status, answers>>
      BY <1>0, <1>1 DEF EmitCommit
<1>3. ASSUME NEW s \in Sessions, s # t PROVE LogOf(s)' = LogOf(s)
  <2>1. EventsOf(s)' = EventsOf(s) /\ last_sequence'[s] = last_sequence[s]
        BY <1>0, <1>2, <1>3 DEF EventsOf, NewEvent, Typed, TypeOK
  <2>.  QED  BY <2>1 DEF LogOf
<1>4. LogOf(t)' = Append(LogOf(t), event_id[c])
  <2>1. EventsOf(t)' = EventsOf(t) \cup {NewEvent(c)}
        BY <1>0, <1>2 DEF EventsOf, NewEvent
  <2>2. NewEvent(c).sequence = last_sequence[t] + 1 /\ NewEvent(c).id = event_id[c]
        BY <1>1 DEF NewEvent
  <2>3. last_sequence'[t] = last_sequence[t] + 1
        BY <1>1, <1>2 DEF Typed, TypeOK
  <2>4. /\ LogOf(t) \in Seq(EventIds) /\ Len(LogOf(t)) = last_sequence[t]
        /\ \A e \in EventsOf(t) : LogOf(t)[e.sequence] = e.id
        BY <1>1, LogOfEvents DEF LogIsOfEvents
  <2>5. /\ LogOf(t)' \in Seq(EventIds) /\ Len(LogOf(t)') = last_sequence[t] + 1
        /\ \A e \in EventsOf(t)' : LogOf(t)'[e.sequence] = e.id
        BY <1>1, <2>3, LogOfEventsNext DEF LogIsOfEvents
  <2>6. LogOf(t)'[last_sequence[t] + 1] = event_id[c]
        BY <2>1, <2>2, <2>5
  <2>7. ASSUME NEW n \in 1..last_sequence[t] PROVE LogOf(t)'[n] = LogOf(t)[n]
    <3>1. PICK e \in EventsOf(t) : e.sequence = n
          BY <1>1 DEF DenseSequences
    <3>.  QED  BY <2>1, <2>4, <2>5, <3>1
  <2>.  QED  BY <1>1, <2>4, <2>5, <2>6, <2>7, AppendByElements
<1>5. \A i \in 1..Len(LogOf(t)) : LogOf(t)[i] # event_id[c]
  <2>1. SUFFICES ASSUME NEW i \in 1..last_sequence[t] PROVE LogOf(t)[i] # event_id[c]
        BY <1>1, LogOfEvents DEF LogIsOfEvents
  <2>2. PICK e \in EventsOf(t) : e.sequence = i
        BY <1>1 DEF DenseSequences
  <2>.  QED  BY <1>1, <2>2, LogOfEvents DEF LogIsOfEvents
<1>.  QED
      BY <1>0, <1>1, <1>2, <1>3, <1>4, <1>5 DEF Log!AppendEvent

\* Every step of the service is a step of EventLog or leaves its state alone.
LEMMA LogStep ==
    InductiveInvariant /\ InductiveInvariant' /\ [Next]_vars => [Log!Next]_(Log!logVars)
<1>.  SUFFICES ASSUME InductiveInvariant, InductiveInvariant', [Next]_vars
               PROVE  [Log!Next]_(Log!logVars)
      OBVIOUS
<1>u. ASSUME UNCHANGED <<tableVars, answers>> PROVE UNCHANGED Log!logVars
      BY <1>u, SameLog DEF tableVars, Log!logVars
<1>e. ASSUME NEW c \in Callers, EmitCommit(c) PROVE Log!Next
      BY <1>e, CommitAppends DEF Log!Next
<1>m. ASSUME NEW c \in Callers, MarkCommit(c) PROVE Log!Next
  <2>1. PICK t \in Sessions : t = on[c]
        BY <1>m DEF MarkCommit, InductiveInvariant, CallOK
  <2>2. status' = [status EXCEPT ![t] = Completed] /\ UNCHANGED <<events, last_sequence, answers>>
        BY <1>m, <2>1 DEF MarkCommit
  <2>3. Log!Close(t)
        BY <2>2, SameLog DEF Log!Close, InductiveInvariant, TypeOK, TERMINAL_STATUSES
  <2>.  QED  BY <2>3 DEF Log!Next
<1>a. ASSUME NEW c \in Callers, EmitAnswer(c) PROVE Log!Next
  <2>1. PICK t \in Sessions : t = on[c]
        BY <1>a DEF EmitAnswer, InductiveInvariant, CallOK
  <2>2. NewEvent(c) \in EventsOf(t)
        BY <1>a, <2>1 DEF EmitAnswer, InductiveInvariant, ReadsOK, EventsOf, NewEvent
  <2>3. /\ NewEvent(c).sequence \in 1..Len(LogOf(t))
        /\ LogOf(t)[new_sequence[c]] = event_id[c]
        BY <2>2, LogOfEvents DEF LogIsOfEvents, InductiveInvariant, Typed, NewEvent
  <2>4. /\ answers' = answers \cup {NewEvent(c)}
        /\ UNCHANGED <<status, events, last_sequence>>
        BY <1>a DEF EmitAnswer, tableVars
  <2>5. Log!Tell(t, new_sequence[c])
        BY <2>1, <2>3, <2>4, SameLog DEF Log!Tell, Log!Receipt, NewEvent
  <2>.  QED  BY <2>3, <2>5 DEF Log!Next, NewEvent
<1>c. ASSUME NEW c \in Callers, Step(c)
      PROVE  UNCHANGED <<tableVars, answers>> \/ EmitCommit(c) \/ MarkCommit(c) \/ EmitAnswer(c)
      BY <1>c DEF Step, Proceed, EmitCall, MarkCall, EmitLock, EmitBump, MarkUpdate,
         EmitFindHit, EmitFindMiss, EmitLoadTerminal, EmitLoad, EmitInsert,
         MarkReadTerminal, MarkRead, Abort
<1>p. ASSUME NEW s \in Sessions, Poll(s) PROVE UNCHANGED <<tableVars, answers>>
      BY <1>p DEF Poll
<1>.  QED  BY <1>u, <1>e, <1>m, <1>a, <1>c, <1>p DEF Next, vars, tableVars

\* The statement-by-statement service implements the abstract event log.
THEOREM ServiceImplementsEventLog == Spec => ImplementsEventLog
  BY InductiveInvariantHolds, LogInit, LogStep, PTL DEF Spec, ImplementsEventLog, Log!Spec
=============================================================================
