------------------------------- MODULE SdkSend ------------------------------
(***************************************************************************)
(* AsyncSessionHandle.send (sdk/sessions.py): write the user's message,    *)
(* start a harness run as a task of its own, and stream the session's      *)
(* events by polling until the task is done.  The session is what EventLog *)
(* promises, here no more than a length; the run emits what it likes.      *)
(***************************************************************************)
EXTENDS Integers, Sequences

CONSTANTS Sends,       \* calls of send on one session
          PageLimit,   \* the default limit of get_events
          MaxEvents    \* bound: where the harness stops to emit

ASSUME SendAssumption == PageLimit \in Nat \ {0} /\ MaxEvents \in Nat

VARIABLES length, closed,   \* the session: how many events, and is it terminal
          pc,               \* what each send awaits
          last_sequence,    \* its pointer
          page,             \* how many of the events it has read are not yielded
          task,             \* its harness task
          got,              \* history: the sequences it has yielded,
          base,             \* ... where its pointer began,
          ran_to,           \* ... how long the log was as its task ended,
          outcome           \* ... and how it ended

session  == <<length, closed>>
history  == <<base, ran_to, outcome>>
vars     == <<length, closed, pc, last_sequence, page, task, got, base, ran_to, outcome>>

Done == {"returned", "raised", "timeout", "cancelled"}   \* asyncio.Task.done()

Init ==
    /\ length \in {0, PageLimit + 1} /\ closed \in BOOLEAN
    /\ pc = [s \in Sends |-> "idle"]
    /\ last_sequence = [s \in Sends |-> 0] /\ page = [s \in Sends |-> 0]
    /\ task = [s \in Sends |-> "none"] /\ got = [s \in Sends |-> <<>>]
    /\ base = [s \in Sends |-> 0] /\ ran_to = [s \in Sends |-> 0]
    /\ outcome = [s \in Sends |-> "none"]

\* How many events get_events(start) returns.
Fetched(after) == IF length - after > PageLimit THEN PageLimit ELSE length - after

Goto(s, step) == pc' = [pc EXCEPT ![s] = step]

-----------------------------------------------------------------------------
(* The harness task *)

HarnessEmits(s) ==
    /\ task[s] = "running" /\ ~ closed /\ length < MaxEvents
    /\ length' = length + 1
    /\ UNCHANGED <<closed, pc, last_sequence, page, task, got, history>>

TaskEnds(s, how) ==
    /\ task' = [task EXCEPT ![s] = how]
    /\ ran_to' = [ran_to EXCEPT ![s] = length]
    /\ UNCHANGED <<length, pc, last_sequence, page, got, base, outcome>>

\* run_session returns, after its mark_complete.
HarnessReturns(s) == task[s] = "running" /\ closed' = TRUE /\ TaskEnds(s, "returned")

\* ... or raises: TimeoutError or anything else, an emit on a session that is
\* completed included.
HarnessRaises(s) ==
    /\ task[s] = "running"
    /\ \E how \in {"raised", "timeout"} : TaskEnds(s, how)
    /\ UNCHANGED closed

\* A loop that is being closed cancels the run itself.
HarnessCut(s) ==
    /\ task[s] = "running"
    /\ task' = [task EXCEPT ![s] = "cancelling"]
    /\ UNCHANGED <<session, pc, last_sequence, page, got, history>>

\* A cancelled run ends, by the cancellation or by what its `finally` raises.
HarnessCancelled(s) ==
    /\ task[s] = "cancelling"
    /\ \E how \in {"cancelled", "raised"} : TaskEnds(s, how)
    /\ UNCHANGED closed

-----------------------------------------------------------------------------
(* send *)

\* The pointer, before the user's message: the last of the first page there is.
Call(s) ==
    /\ pc[s] = "idle"
    /\ Goto(s, "emit")
    /\ last_sequence' = [last_sequence EXCEPT ![s] = Fetched(0)]
    /\ base' = [base EXCEPT ![s] = Fetched(0)]
    /\ UNCHANGED <<session, page, task, got, ran_to, outcome>>

\* That first read is cancelled, or raises.
CallFails(s) ==
    /\ pc[s] = "idle"
    /\ Goto(s, "ended")
    /\ \E how \in {"cancelled", "raised"} : outcome' = [outcome EXCEPT ![s] = how]
    /\ UNCHANGED <<session, last_sequence, page, task, got, base, ran_to>>

EmitUser(s) ==
    /\ pc[s] = "emit" /\ ~ closed
    /\ length' = length + 1
    /\ task' = [task EXCEPT ![s] = "running"]
    /\ Goto(s, "poll")
    /\ UNCHANGED <<closed, last_sequence, page, got, history>>

\* emit_event raises on a completed session; there is no task yet.
EmitRejected(s) ==
    /\ pc[s] = "emit" /\ closed
    /\ Goto(s, "ended")
    /\ outcome' = [outcome EXCEPT ![s] = "rejected"]
    /\ UNCHANGED <<session, last_sequence, page, task, got, base, ran_to>>

\* The send is cancelled as it emits, or the emit raises; the message may be in the
\* log all the same.
EmitFails(s) ==
    /\ pc[s] = "emit"
    /\ Goto(s, "ended")
    /\ \E how \in {"cancelled", "raised"} : outcome' = [outcome EXCEPT ![s] = how]
    /\ length' \in {length, IF closed THEN length ELSE length + 1}
    /\ UNCHANGED <<closed, last_sequence, page, task, got, base, ran_to>>

\* Variant: from the last event instead of the one after it.
FetchInclusive(s, step) ==
    /\ Goto(s, step)
    /\ last_sequence' = [last_sequence EXCEPT ![s] = IF @ = 0 THEN 0 ELSE @ - 1]
    /\ page' = [page EXCEPT ![s] = Fetched(last_sequence'[s])]

Fetch(s, step) ==
    /\ Goto(s, step)
    /\ page' = [page EXCEPT ![s] = Fetched(last_sequence[s])]
    /\ UNCHANGED last_sequence

Poll(s) ==
    /\ pc[s] = "poll"
    /\ Fetch(s, "yield")
    /\ UNCHANGED <<session, task, got, history>>

\* The consumer takes an event and comes back for the next.
Yield(s) ==
    /\ pc[s] \in {"yield", "drain"} /\ page[s] > 0
    /\ got' = [got EXCEPT ![s] = Append(@, last_sequence[s] + 1)]
    /\ last_sequence' = [last_sequence EXCEPT ![s] = @ + 1]
    /\ page' = [page EXCEPT ![s] = @ - 1]
    /\ UNCHANGED <<session, pc, task, history>>

\* Variant: no trailing read.
PageDoneNoDrain(s) ==
    /\ pc[s] = "yield" /\ page[s] = 0
    /\ Goto(s, IF task[s] \in Done THEN "drain" ELSE "wait")
    /\ UNCHANGED <<session, last_sequence, page, task, got, history>>

\* The trailing read, if the task is done.
PageDone(s) ==
    /\ pc[s] = "yield" /\ page[s] = 0
    /\ IF task[s] \in Done
       THEN Fetch(s, "drain")
       ELSE Goto(s, "wait") /\ UNCHANGED <<last_sequence, page>>
    /\ UNCHANGED <<session, task, got, history>>

\* wait_for times out after POLL_INTERVAL_SECONDS; or it returns; or it raises the
\* harness's TimeoutError, which the same `except` takes for its own.
WaitEnds(s) ==
    /\ pc[s] = "wait" /\ task[s] \notin {"raised", "cancelled"}
    /\ Goto(s, "poll")
    /\ UNCHANGED <<session, last_sequence, page, task, got, history>>

-----------------------------------------------------------------------------
(* How it ends *)

\* `finally` with the task done: its exception, if it has one; of a cancelled
\* task exception() raises CancelledError.
Ends(s, otherwise) ==
    /\ Goto(s, "ended")
    /\ page' = [page EXCEPT ![s] = 0]
    /\ outcome' = [outcome EXCEPT ![s] =
                      CASE task[s] \in {"raised", "timeout"} -> "raised"
                        [] task[s] = "cancelled"             -> "cancelled"
                        [] OTHER                             -> otherwise]
    /\ UNCHANGED <<session, last_sequence, task, got, base, ran_to>>

\* The last event of the trailing page has been taken.
Drained(s) == pc[s] = "drain" /\ page[s] = 0 /\ Ends(s, "returned")

\* wait_for raises what the harness raised, or that it was cancelled.
WaitRaises(s) ==
    pc[s] = "wait" /\ task[s] \in {"raised", "cancelled"} /\ Ends(s, "raised")

\* The consumer closes the iterator at an event, the send is cancelled, or one of
\* its reads raises: the run goes with it.
Interrupt(s) ==
    /\ pc[s] \in {"poll", "yield", "drain", "wait"}
    /\ IF task[s] \notin Done
       THEN /\ task' = [task EXCEPT ![s] = "cancelling"]
            /\ Goto(s, "cancel")
            /\ UNCHANGED <<session, last_sequence, page, got, history>>
       ELSE Ends(s, "closed")

\* Variant: the task is cancelled and not awaited.
CancelUnawaited(s) == pc[s] = "cancel" /\ Ends(s, "closed")

\* The cancelled task has been awaited.
Cancelled(s) == pc[s] = "cancel" /\ task[s] \in Done /\ Ends(s, "closed")

SendStep(s) == \/ EmitUser(s) \/ EmitRejected(s) \/ Poll(s) \/ Yield(s) \/ PageDone(s)
               \/ WaitEnds(s) \/ Drained(s) \/ WaitRaises(s) \/ Cancelled(s)

Breaks(s) == CallFails(s) \/ EmitFails(s) \/ Interrupt(s)

Next == \E s \in Sends : \/ Call(s) \/ SendStep(s) \/ Breaks(s)
                         \/ HarnessEmits(s) \/ HarnessReturns(s) \/ HarnessRaises(s)
                         \/ HarnessCut(s) \/ HarnessCancelled(s)

Spec == Init /\ [][Next]_vars

-----------------------------------------------------------------------------
(* Properties *)

\* Every variable holds a value of its kind; a pointer is never past the log.
TypeOK ==
    /\ length \in Nat /\ closed \in BOOLEAN
    /\ pc \in [Sends -> {"idle", "emit", "poll", "yield", "wait", "drain", "cancel", "ended"}]
    /\ last_sequence \in [Sends -> 0..length] /\ page \in [Sends -> 0..PageLimit]
    /\ task \in [Sends -> {"none", "running", "cancelling"} \cup Done]
    /\ got \in [Sends -> Seq(Nat)]
    /\ base \in [Sends -> 0..length] /\ ran_to \in [Sends -> 0..length]
    /\ outcome \in [Sends -> {"none", "rejected", "returned", "raised", "cancelled", "closed"}]

\* "Yields every event with sequence > last_seen": what a send has yielded is an
\* unbroken run of the log, each event once and in order, whoever else writes. It
\* goes on from the last event of a first page, which on a log longer than a page is
\* not its last.
StreamInOrder ==
    \A s \in Sends : \A i \in 1..Len(got[s]) : got[s][i] = base[s] + i

\* The harness run of a send never outlives it, however the send ends.
NoRunOutlivesSend ==
    \A s \in Sends : pc[s] = "ended" => task[s] \in Done \cup {"none"}

\* A send that returns did so on a run that returned, and it has yielded all
\* there was as the run ended, those between its last poll and the run's end
\* included - if they are no more than a page: the trailing read is not repeated.
ReturnedIsComplete ==
    \A s \in Sends : outcome[s] = "returned" =>
        /\ task[s] = "returned"
        /\ ran_to[s] - base[s] <= PageLimit => Len(got[s]) >= ran_to[s] - base[s]
=============================================================================
