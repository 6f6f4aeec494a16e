------------------------------- MODULE SdkSync --------------------------------
(***************************************************************************)
(* The synchronous client (sdk/client.py, sdk/runtime.py and SessionHandle *)
(* of sdk/sessions.py): threads of the user's hand coroutines to an event  *)
(* loop on a thread of its own. BackgroundLoop.run blocks on the           *)
(* coroutine's future; SessionHandle.send drives the asynchronous send     *)
(* there (SdkSend) and reads what it yields from a queue, up to a          *)
(* sentinel. Tename.close stops the loop, which cancels the tasks there    *)
(* are, awaits them and closes.                                            *)
(***************************************************************************)
EXTENDS SdkSend, FiniteSets

CONSTANT Runs   \* calls of BackgroundLoop.run

ASSUME SyncAssumption == Runs \cap Sends = {}

VARIABLES loop,      \* running, cancelling its tasks, or closed
          client,    \* open, stopping the loop, or closed: _loop is None
          pending,   \* the tasks the loop cancelled
          coro,      \* each send's _drive and each run's coroutine, on the loop
          queue,     \* q of each send
          user,      \* the thread of each call
          received   \* history: the events each send gave its user

syncVars == <<loop, client, pending, coro, queue, user, received>>

SyncInit ==
    /\ Init
    /\ loop = "running" /\ client = "open" /\ pending = {}
    /\ coro = [c \in Sends \cup Runs |-> "none"]
    /\ queue = [s \in Sends |-> <<>>]
    /\ user = [c \in Sends \cup Runs |-> "idle"]
    /\ received = [s \in Sends |-> <<>>]

Item(kind, n) == [kind |-> kind, n |-> n]
Sentinel == Item("sentinel", 0)
Exception == Item("exception", 0)

-----------------------------------------------------------------------------
(* The user's threads *)

\* submit or run: call_soon_threadsafe, and wait for the queue or the future. A
\* loop that is gone, or closed, raises RuntimeError.
Submit(c) ==
    /\ user[c] = "idle"
    /\ IF client = "closed" \/ loop = "closed"
       THEN user' = [user EXCEPT ![c] = "raised"] /\ UNCHANGED coro
       ELSE /\ user' = [user EXCEPT ![c] = "waiting"]
            /\ coro' = [coro EXCEPT ![c] = "scheduled"]
    /\ UNCHANGED <<vars, loop, client, pending, queue, received>>

\* q.get() and the end of the generator, an exception, or an event for the user.
Take(s) ==
    /\ user[s] = "waiting" /\ queue[s] # <<>>
    /\ queue' = [queue EXCEPT ![s] = Tail(@)]
    /\ LET item == Head(queue[s]) IN
       /\ user' = [user EXCEPT ![s] = CASE item.kind = "event"     -> "holding"
                                        [] item.kind = "exception" -> "raised"
                                        [] item.kind = "sentinel"  -> "returned"]
       /\ received' = [received EXCEPT ![s] =
                          IF item.kind = "event" THEN Append(@, item.n) ELSE @]
    /\ UNCHANGED <<vars, loop, client, pending, coro>>

\* The user asks for the next event, or drops the iterator: the drive goes on.
NextEvent(s) ==
    /\ user[s] = "holding"
    /\ \E what \in {"waiting", "dropped"} : user' = [user EXCEPT ![s] = what]
    /\ UNCHANGED <<vars, loop, client, pending, coro, queue, received>>

\* Tename.close: the engines are disposed of, then the loop is told to stop.
Close ==
    /\ client = "open"
    /\ client' = "stopping"
    /\ UNCHANGED <<vars, loop, pending, coro, queue, user, received>>

\* stop has joined the thread, or waited for five seconds, and forgets the loop.
Joined ==
    /\ client = "stopping"
    /\ client' = "closed"
    /\ UNCHANGED <<vars, loop, pending, coro, queue, user, received>>

-----------------------------------------------------------------------------
(* The loop *)

\* The callback of run_coroutine_threadsafe makes the task.
CreateTask(c) ==
    /\ loop # "closed" /\ coro[c] = "scheduled"
    /\ coro' = [coro EXCEPT ![c] = "created"]
    /\ UNCHANGED <<vars, loop, client, pending, queue, user, received>>

\* loop.stop has run: what tasks there are are cancelled.
StopLoop ==
    /\ client # "open" /\ loop = "running"
    /\ loop' = "cancelling"
    /\ pending' = {c \in Sends \cup Runs : coro[c] \in {"created", "begun"}}
    /\ UNCHANGED <<vars, client, coro, queue, user, received>>

\* Variant: the loop is closed as soon as the tasks are cancelled.
CloseLoopAtOnce ==
    /\ loop = "cancelling"
    /\ loop' = "closed"
    /\ UNCHANGED <<vars, client, pending, coro, queue, user, received>>

\* gather has awaited them: the loop is closed, and what else there is on it stays.
CloseLoop ==
    /\ loop = "cancelling"
    /\ \A c \in pending : coro[c] \in {"done", "lost"}
    /\ loop' = "closed"
    /\ UNCHANGED <<vars, client, pending, coro, queue, user, received>>

\* A task nobody cancelled goes on.
Free(c) == loop # "closed" /\ c \notin pending

Cut(c) == loop = "cancelling" /\ c \in pending

\* A task cancelled before its first step: its coroutine never begins, and a
\* _drive that never begins puts no sentinel.
LoseFirstStep(s) ==
    /\ Cut(s) /\ coro[s] = "created"
    /\ coro' = [coro EXCEPT ![s] = "lost"]
    /\ UNCHANGED <<vars, loop, client, pending, queue, user, received>>

\* The coroutine of a run ends, however it ends, and so does its future; that of
\* a cancelled task too.
EndRun(r) ==
    /\ coro[r] = "created" /\ (Free(r) \/ Cut(r))
    /\ coro' = [coro EXCEPT ![r] = "done"]
    /\ user' = [user EXCEPT ![r] = IF Cut(r) THEN "raised" ELSE "returned"]
    /\ UNCHANGED <<vars, loop, client, pending, queue, received>>

\* _drive begins, and with it the asynchronous send and its first read.
Begin(s) ==
    /\ coro[s] = "created" /\ Free(s)
    /\ coro' = [coro EXCEPT ![s] = "begun"]
    /\ UNCHANGED <<vars, loop, client, pending, queue, user, received>>

\* The events a step of the asynchronous send yielded.
Yielded(s) ==
    [i \in 1..(Len(got'[s]) - Len(got[s])) |-> Item("event", got'[s][Len(got[s]) + i])]

\* Variant: only the harness's own exceptions are put.
EndItemsOfHarness(s) ==
    IF pc'[s] # "ended" THEN <<>>
    ELSE IF outcome'[s] # "raised" THEN <<Sentinel>> ELSE <<Exception, Sentinel>>

\* Variant: a cancellation is no Exception, and the sentinel is put outside `finally`.
EndItemsUnlessCancelled(s) ==
    IF pc'[s] # "ended" \/ outcome'[s] = "cancelled" THEN <<>>
    ELSE IF outcome'[s] = "returned" THEN <<Sentinel>> ELSE <<Exception, Sentinel>>

\* How it ended: an exception if it did not return, and in any case the sentinel.
EndItems(s) ==
    IF pc'[s] # "ended" THEN <<>>
    ELSE IF outcome'[s] = "returned" THEN <<Sentinel>> ELSE <<Exception, Sentinel>>

\* A step of the asynchronous send, and what _drive puts in the queue. A cancelled
\* one is interrupted wherever it is, and awaits its cancelled run.
Drive(s) ==
    /\ coro[s] = "begun"
    /\ \/ Free(s) /\ (Call(s) \/ SendStep(s) \/ Breaks(s))
       \/ Cut(s) /\ (Breaks(s) \/ Cancelled(s))
    /\ queue' = [queue EXCEPT ![s] = @ \o Yielded(s) \o EndItems(s)]
    /\ coro' = [coro EXCEPT ![s] = IF pc'[s] = "ended" THEN "done" ELSE @]
    /\ UNCHANGED <<loop, client, pending, user, received>>

\* The run of a send is a task of the same loop, which cancels it with the others.
Harness(s) ==
    /\ \/ Free(s) /\ (HarnessEmits(s) \/ HarnessReturns(s) \/ HarnessRaises(s))
       \/ Cut(s) /\ HarnessCut(s)
       \/ loop # "closed" /\ HarnessCancelled(s)
    /\ UNCHANGED syncVars

HarnessEnds(s) ==
    /\ \/ Free(s) /\ (HarnessReturns(s) \/ HarnessRaises(s))
       \/ loop # "closed" /\ HarnessCancelled(s)
    /\ UNCHANGED syncVars

-----------------------------------------------------------------------------
LoopStep(s) == CreateTask(s) \/ LoseFirstStep(s) \/ Begin(s) \/ Drive(s)
RunStep(r)  == CreateTask(r) \/ EndRun(r)
UserStep(s) == Take(s) \/ NextEvent(s)

SyncNext ==
    \/ \E c \in Sends \cup Runs : Submit(c)
    \/ \E s \in Sends : LoopStep(s) \/ UserStep(s) \/ Harness(s)
    \/ \E r \in Runs : RunStep(r)
    \/ Close \/ Joined \/ StopLoop \/ CloseLoop

allVars == <<vars, syncVars>>

SyncSpec == SyncInit /\ [][SyncNext]_allVars

\* The loop runs what is ready, a run of the harness ends, and a user takes what
\* there is. Nobody need ever close the client.
SyncFairness ==
    /\ \A s \in Sends : /\ WF_allVars(LoopStep(s)) /\ WF_allVars(HarnessEnds(s))
                        /\ WF_allVars(UserStep(s))
    /\ \A r \in Runs : WF_allVars(RunStep(r))
    /\ WF_allVars(StopLoop) /\ WF_allVars(CloseLoop)

FairSyncSpec == SyncSpec /\ SyncFairness

-----------------------------------------------------------------------------
(* Properties *)

\* What the asynchronous send has yielded and the user has not.
Waiting(s) ==
    [i \in 1..(Len(got[s]) - Len(received[s])) |-> Item("event", got[s][Len(received[s]) + i])]

\* "Sync mirror": the user of a send gets what the asynchronous send yields, in its
\* order and with nothing lost on the way between the threads; an iterator that ends
\* normally has given all of it, and the asynchronous send returned.
MirrorsAsync ==
    \A s \in Sends :
        /\ Len(received[s]) <= Len(got[s])
        /\ \A i \in 1..Len(received[s]) : received[s][i] = got[s][i]
        /\ \E end \in {<<>>, <<Sentinel>>, <<Exception, Sentinel>>} :
               queue[s] = Waiting(s) \o end
        /\ user[s] = "returned" => outcome[s] = "returned" /\ received[s] = got[s]

\* A closed loop has no run of the harness left in the middle of its work, but for
\* sends that were submitted as the client was closing.
NoRunOutlivesLoop ==
    loop = "closed" =>
        \A s \in pending \cap Sends : task[s] \in Done \cup {"none"}

\* Whoever closes the client, and when: a send that has begun ends, and its user is
\* told so or has dropped the iterator; and a call of run whose task was made ends,
\* unless the loop was being closed already.
CallersReturn ==
    /\ \A s \in Sends : loop = "running" /\ coro[s] = "begun"
                            ~> pc[s] = "ended" /\ user[s] \in {"returned", "raised", "dropped"}
    /\ \A r \in Runs : loop = "running" /\ coro[r] = "created"
                            ~> user[r] \in {"returned", "raised"}
==============================================================================
