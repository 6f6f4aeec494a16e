---------------------------- MODULE HarnessRuntime ----------------------------
(***************************************************************************)
(* HarnessRuntime.run_session (harness/service.py): runs of the harness on *)
(* one session, which read the log, compact it, stream a model turn, run   *)
(* its tool calls and emit what happens, while a user writes to the        *)
(* session and the process may die or a run be cancelled at any await.     *)
(*                                                                         *)
(* The session service is taken at the promise EventLog states: emit_event *)
(* appends, or raises once the session is completed. The model's stream    *)
(* and the tools' outcomes are external and arbitrary. All runs of the     *)
(* model live in one process and share its Sandbox.                        *)
(***************************************************************************)
EXTENDS Context

CONSTANTS Runs,         \* calls of run_session
          PageLimit,    \* DEFAULT_EVENTS_LIMIT, what get_events returns at most
          MaxTurns,     \* profile.stop_conditions.max_turns
          MaxChunks,    \* bound on the chunks of a stream
          MaxUsers,     \* bound on the user messages
          MaxFaults     \* bound on crashes and cancellations

ASSUME HarnessAssumption ==
    /\ PageLimit \in Nat \ {0} /\ MaxTurns \in Nat
    /\ MaxChunks \in Nat /\ MaxUsers \in Nat /\ MaxFaults \in Nat

VARIABLES
    log,          \* the session's events, in sequence order
    completed,    \* the session is terminal
    pc,           \* what each run awaits next
    turn,         \* its turn
    read,         \* how many events it read for this turn's context
    chunks,       \* how many chunks of the stream it has taken
    text,         \* text_parts is not empty
    calls,        \* the turn's tool calls it has yet to answer
    sandbox,      \* the sandbox it found or provisioned for the next call
    provisioned,  \* provisioned_sandbox_ids
    failed,       \* an exception is on its way through `finally`
    containers,   \* the sandboxes the process's Sandbox knows alive
    faults,       \* history: crashes and cancellations so far
    quiet,        \* history: nobody has disturbed the session's only run
    abandoned     \* history: what the process's clean-ups that were cut short left behind

runVars  == <<turn, read, chunks, text, calls>>
boxVars  == <<sandbox, provisioned, containers>>
histVars == <<faults, quiet, abandoned>>
vars == <<log, completed, pc, runVars, boxVars, failed, histVars>>

\* A sandbox is named by how many were provisioned before it. An event of the
\* log counts for one token.
NoSandbox == 0

Ev(kind, call, box, dropped) ==
    [kind |-> kind, chars |-> CHARS_PER_TOKEN, call |-> call, sandbox |-> box,
     dropped |-> dropped]

Plain(kind) == Ev(kind, 0, NoSandbox, {})

Going(r) == pc[r] \notin {"new", "done"}

Prefix(n) == SubSeq(log, 1, n)

PageEnd == IF Len(log) < PageLimit THEN Len(log) ELSE PageLimit

\* The context a run in its turn has sent to the model.
ContextOf(r) == BuildContext(Prefix(read[r]), View(Prefix(read[r])))

Init ==
    /\ log = <<>>
    /\ completed = FALSE
    /\ pc = [r \in Runs |-> "new"]
    /\ turn = [r \in Runs |-> 0]
    /\ read = [r \in Runs |-> 0]
    /\ chunks = [r \in Runs |-> 0]
    /\ text = [r \in Runs |-> FALSE]
    /\ calls = [r \in Runs |-> <<>>]
    /\ sandbox = [r \in Runs |-> NoSandbox]
    /\ provisioned = [r \in Runs |-> {}]
    /\ failed = [r \in Runs |-> FALSE]
    /\ containers = {}
    /\ faults = 0
    /\ quiet = TRUE
    /\ abandoned = {}

Goto(r, step) == pc' = [pc EXCEPT ![r] = step]

\* The exception emit_event raises on a completed session leaves the loop by
\* way of `finally`.
Raise(r) == Goto(r, "destroy") /\ failed' = [failed EXCEPT ![r] = TRUE]

\* emit_event: the run goes on at `step`, or the session is completed.
Emit(r, e, step) ==
    IF completed
    THEN Raise(r) /\ UNCHANGED log
    ELSE Goto(r, step) /\ log' = Append(log, e) /\ UNCHANGED failed

-----------------------------------------------------------------------------
(* The user: the SDK's send and complete, or another client *)

SendUser ==
    /\ ~ completed
    /\ Cardinality({n \in DOMAIN log : log[n].kind = "user"}) < MaxUsers
    /\ log' = Append(log, Plain("user"))
    /\ quiet' = (quiet /\ \A r \in Runs : ~ Going(r))
    /\ UNCHANGED <<completed, pc, runVars, boxVars, failed, faults, abandoned>>

CompleteByUser ==
    /\ ~ completed
    /\ completed' = TRUE
    /\ quiet' = FALSE
    /\ UNCHANGED <<log, pc, runVars, boxVars, failed, faults, abandoned>>

-----------------------------------------------------------------------------
(* run_session *)

\* wake refuses a terminal session. A run beside another disturbs the session.
Start(r) ==
    /\ pc[r] = "new"
    /\ Goto(r, IF completed THEN "done" ELSE "seed")
    /\ quiet' = (quiet /\ \A q \in Runs \ {r} : ~ Going(q))
    /\ UNCHANGED <<log, completed, runVars, boxVars, failed, faults, abandoned>>

\* Variant: the prompt's id is fresh.
SeedEachRun(r) ==
    /\ pc[r] = "seed"
    /\ IF completed
       THEN Goto(r, "done") /\ UNCHANGED log
       ELSE Goto(r, "top") /\ log' = Append(log, Plain("prompt"))
    /\ UNCHANGED <<completed, runVars, boxVars, failed, histVars>>

\* _seed_system_prompt_if_needed: the id is the session's, so a second emit
\* returns the first one's event, even from a completed session.
Seed(r) ==
    /\ pc[r] = "seed"
    /\ IF \E n \in DOMAIN log : log[n].kind = "prompt"
       THEN Goto(r, "top") /\ UNCHANGED log
       ELSE IF completed
       THEN Goto(r, "done") /\ UNCHANGED log
       ELSE Goto(r, "top") /\ log' = Append(log, Plain("prompt"))
    /\ UNCHANGED <<completed, runVars, boxVars, failed, histVars>>

\* The context is built: without a user turn the run stops.
Respond(r, n) ==
    /\ read' = [read EXCEPT ![r] = n]
    /\ Goto(r, IF \E i \in View(Prefix(n)) : log[i].kind = "user"
               THEN "stream" ELSE "destroy")

\* max_turns is used up, or max_duration_seconds (no model of the clock).
TurnsOver(r) ==
    /\ pc[r] = "top"
    /\ Goto(r, "destroy")
    /\ UNCHANGED <<log, completed, runVars, boxVars, failed, histVars>>

\* The head of the loop: read the log, and compact it or build the context.
TurnBegin(r) ==
    /\ pc[r] = "top"
    /\ turn[r] < MaxTurns
    /\ turn' = [turn EXCEPT ![r] = @ + 1]
    /\ chunks' = [chunks EXCEPT ![r] = 0]
    /\ text' = [text EXCEPT ![r] = FALSE]
    /\ IF ShouldCompact(Prefix(PageEnd))
       THEN Goto(r, "compact") /\ read' = [read EXCEPT ![r] = PageEnd]
       ELSE Respond(r, PageEnd)
    /\ UNCHANGED <<log, completed, calls, boxVars, failed, histVars>>

\* _emit_compaction of what was read. Its id is derived from what it drops.
Compact(r) ==
    LET prefix  == Prefix(read[r])
        dropped == PlanTruncate(prefix, View(prefix))
        again   == \E n \in Records(log) : log[n].dropped = dropped
    IN  /\ pc[r] = "compact"
        /\ IF dropped = {} \/ again
           THEN Goto(r, "reread") /\ UNCHANGED <<log, failed>>
           ELSE Emit(r, Ev("compaction", 0, NoSandbox, dropped), "reread")
        /\ UNCHANGED <<completed, runVars, boxVars, histVars>>

Reread(r) ==
    /\ pc[r] = "reread"
    /\ Respond(r, PageEnd)
    /\ UNCHANGED <<log, completed, turn, chunks, text, calls, boxVars, failed, histVars>>

-----------------------------------------------------------------------------
(* _run_turn: the model's stream, chunk by chunk *)

NextChunk(r) ==
    /\ pc[r] = "stream"
    /\ chunks[r] < MaxChunks
    /\ chunks' = [chunks EXCEPT ![r] = @ + 1]

TextDelta(r) ==
    /\ NextChunk(r)
    /\ Emit(r, Plain("delta"), "stream")
    /\ text' = [text EXCEPT ![r] = TRUE]
    /\ UNCHANGED <<completed, turn, read, calls, boxVars, histVars>>

\* Variant: ids derived from the turn and the number of the call in it.
CallIdOfTurn(r) == 10 * turn[r] + Len(calls[r])

\* A tool_call event gets a fresh uuid4.
CallId(r) == Len(log) + 1

ToolCallEnd(r) ==
    /\ NextChunk(r)
    /\ Emit(r, Ev("call", CallId(r), NoSandbox, {}), "stream")
    /\ calls' = [calls EXCEPT ![r] = IF completed THEN @ ELSE Append(@, CallId(r))]
    /\ UNCHANGED <<completed, turn, read, text, boxVars, histVars>>

\* An error chunk ends the turn and the run.
ErrorChunk(r) ==
    /\ NextChunk(r)
    /\ Emit(r, Plain("error"), "destroy")
    /\ UNCHANGED <<completed, turn, read, text, calls, boxVars, histVars>>

\* The stream is over: the closer, if there was text, and on to the tools.
EndTurn(r) ==
    LET next == IF calls[r] = <<>> THEN "destroy" ELSE "tool" IN
    /\ pc[r] = "stream"
    /\ IF text[r]
       THEN Emit(r, Plain("closer"), next)
       ELSE Goto(r, next) /\ UNCHANGED <<log, failed>>
    /\ UNCHANGED <<completed, runVars, boxVars, histVars>>

-----------------------------------------------------------------------------
(* _execute_tool_calls: one call after the other *)

\* A proxy tool, or a name no tool has: the result is emitted whatever it is.
ToolWithoutSandbox(r) ==
    /\ pc[r] = "tool"
    /\ Goto(r, "result")
    /\ UNCHANGED <<log, completed, runVars, boxVars, failed, histVars>>

\* _latest_sandbox_id
LatestSandbox(events) ==
    LET records == {n \in DOMAIN events : events[n].kind = "sandbox"}
    IN  IF records = {} THEN NoSandbox ELSE events[Max(records)].sandbox

\* The recorded sandbox is used again if the Sandbox says it lives.
ToolFindsSandbox(r) ==
    LET latest == LatestSandbox(Prefix(PageEnd)) IN
    /\ pc[r] = "tool"
    /\ IF latest \in containers
       THEN /\ sandbox' = [sandbox EXCEPT ![r] = latest]
            /\ provisioned' = [provisioned EXCEPT ![r] = @ \cup {latest}]
            /\ Goto(r, "execute")
       ELSE Goto(r, "provision") /\ UNCHANGED <<sandbox, provisioned>>
    /\ UNCHANGED <<log, completed, runVars, containers, failed, histVars>>

\* Names count up; the log and the runs remember the ones in use.
NewSandbox ==
    Max({NoSandbox} \cup containers \cup (UNION {provisioned[r] : r \in Runs})
        \cup {log[n].sandbox : n \in DOMAIN log}) + 1

\* Variant: the id is noted once its event is emitted.
ProvisionUnnoted(r) ==
    /\ pc[r] = "provision"
    /\ sandbox' = [sandbox EXCEPT ![r] = NewSandbox]
    /\ containers' = containers \cup {NewSandbox}
    /\ Goto(r, "record")
    /\ UNCHANGED <<log, completed, runVars, provisioned, failed, histVars>>

Provision(r) ==
    /\ pc[r] = "provision"
    /\ sandbox' = [sandbox EXCEPT ![r] = NewSandbox]
    /\ containers' = containers \cup {NewSandbox}
    /\ provisioned' = [provisioned EXCEPT ![r] = @ \cup {NewSandbox}]
    /\ Goto(r, "record")
    /\ UNCHANGED <<log, completed, runVars, failed, histVars>>

\* _run_sandbox_tool answers with an error result.
ProvisionFails(r) ==
    /\ pc[r] = "provision"
    /\ Goto(r, "result")
    /\ UNCHANGED <<log, completed, runVars, boxVars, failed, histVars>>

\* The sandbox_provisioned event; emit's exception is taken for a failure to
\* provision.
RecordSandbox(r) ==
    /\ pc[r] = "record"
    /\ IF completed
       THEN Goto(r, "result") /\ UNCHANGED log
       ELSE Goto(r, "execute") /\ log' = Append(log, Ev("sandbox", 0, sandbox[r], {}))
    /\ UNCHANGED <<completed, runVars, boxVars, failed, histVars>>

\* The tool runs, or fails for any reason; a timeout kills the container.
Execute(r) ==
    /\ pc[r] = "execute"
    /\ containers' \in {containers, containers \ {sandbox[r]}}
    /\ Goto(r, "result")
    /\ UNCHANGED <<log, completed, runVars, sandbox, provisioned, failed, histVars>>

\* Variant: the loop returns after its first call.
ResultOfFirst(r) ==
    /\ pc[r] = "result"
    /\ Emit(r, Ev("result", Head(calls[r]), NoSandbox, {}), "top")
    /\ calls' = [calls EXCEPT ![r] = <<>>]
    /\ sandbox' = [sandbox EXCEPT ![r] = NoSandbox]
    /\ UNCHANGED <<completed, turn, read, chunks, text, provisioned, containers, histVars>>

Result(r) ==
    /\ pc[r] = "result"
    /\ Emit(r, Ev("result", Head(calls[r]), NoSandbox, {}),
            IF Len(calls[r]) = 1 THEN "top" ELSE "tool")
    /\ calls' = [calls EXCEPT ![r] = Tail(@)]
    /\ sandbox' = [sandbox EXCEPT ![r] = NoSandbox]
    /\ UNCHANGED <<completed, turn, read, chunks, text, provisioned, containers, histVars>>

-----------------------------------------------------------------------------
(* `finally` and mark_complete *)

\* Variant: an id the Sandbox no longer knows is not taken off the list.
DestroyKnownSandbox(r) ==
    /\ pc[r] = "destroy"
    /\ \E id \in provisioned[r] \cap containers :
          /\ provisioned' = [provisioned EXCEPT ![r] = @ \ {id}]
          /\ containers' = containers \ {id}
    /\ UNCHANGED <<log, completed, pc, runVars, sandbox, failed, histVars>>

\* Destroying a sandbox that is gone already is no error.
DestroySandbox(r) ==
    /\ pc[r] = "destroy"
    /\ \E id \in provisioned[r] :
          /\ provisioned' = [provisioned EXCEPT ![r] = @ \ {id}]
          /\ containers' = containers \ {id}
    /\ UNCHANGED <<log, completed, pc, runVars, sandbox, failed, histVars>>

Destroyed(r) ==
    /\ pc[r] = "destroy"
    /\ provisioned[r] = {}
    /\ Goto(r, IF failed[r] THEN "done" ELSE "complete")
    /\ UNCHANGED <<log, completed, runVars, boxVars, failed, histVars>>

MarkComplete(r) ==
    /\ pc[r] = "complete"
    /\ completed' = TRUE
    /\ Goto(r, "done")
    /\ UNCHANGED <<log, runVars, boxVars, failed, histVars>>

-----------------------------------------------------------------------------
(* Faults *)

Fault ==
    /\ faults < MaxFaults
    /\ faults' = faults + 1
    /\ quiet' = FALSE

\* The run's task is cancelled, or an await raises (the database, the router).
Cancel(r) ==
    /\ Fault
    /\ Going(r)
    /\ pc[r] # "destroy"
    /\ IF pc[r] \in {"seed", "complete"}
       THEN Goto(r, "done") /\ UNCHANGED failed
       ELSE Raise(r)
    /\ UNCHANGED <<log, completed, runVars, boxVars, abandoned>>

\* A cancellation during `finally` leaves the other sandboxes alone.
CancelDestroy(r) ==
    /\ Fault
    /\ pc[r] = "destroy"
    /\ Goto(r, "done")
    /\ abandoned' = abandoned \cup provisioned[r]
    /\ provisioned' = [provisioned EXCEPT ![r] = {}]
    /\ UNCHANGED <<log, completed, runVars, sandbox, containers, failed>>

\* The process dies: its runs end, and a new process knows no container.
Crash ==
    /\ Fault
    /\ \E r \in Runs : Going(r)
    /\ pc' = [r \in Runs |-> IF Going(r) THEN "done" ELSE pc[r]]
    /\ provisioned' = [r \in Runs |-> {}]
    /\ containers' = {} /\ abandoned' = {}
    /\ UNCHANGED <<log, completed, runVars, sandbox, failed>>

-----------------------------------------------------------------------------
RunStep(r) ==
    \/ Seed(r) \/ TurnBegin(r) \/ TurnsOver(r) \/ Compact(r) \/ Reread(r)
    \/ TextDelta(r) \/ ToolCallEnd(r) \/ ErrorChunk(r) \/ EndTurn(r)
    \/ ToolWithoutSandbox(r) \/ ToolFindsSandbox(r) \/ Provision(r) \/ ProvisionFails(r)
    \/ RecordSandbox(r) \/ Execute(r) \/ Result(r)
    \/ DestroySandbox(r) \/ Destroyed(r) \/ MarkComplete(r)

Next ==
    \/ SendUser \/ CompleteByUser \/ Crash
    \/ \E r \in Runs : Start(r) \/ RunStep(r) \/ Cancel(r) \/ CancelDestroy(r)

Spec == Init /\ [][Next]_vars

\* A run that is not cut off goes on: the model's stream ends, a tool returns
\* (execute has a timeout), the services answer.
FairSpec == Spec /\ \A r \in Runs : WF_vars(RunStep(r))

-----------------------------------------------------------------------------
(* Properties *)

Event == [kind : {"user", "prompt", "delta", "call", "closer", "result", "error",
                  "sandbox", "compaction"},
          chars : Nat, call : Nat, sandbox : Nat, dropped : SUBSET Nat]

\* Every variable holds a value of its kind, and a run that answers tool calls
\* has one to answer.
TypeOK ==
    /\ log \in Seq(Event)
    /\ completed \in BOOLEAN /\ quiet \in BOOLEAN /\ faults \in 0..MaxFaults
    /\ pc \in [Runs -> {"new", "seed", "top", "compact", "reread", "stream", "tool",
                        "provision", "record", "execute", "result", "destroy",
                        "complete", "done"}]
    /\ turn \in [Runs -> 0..MaxTurns]
    /\ read \in [Runs -> 0..Len(log)]
    /\ chunks \in [Runs -> 0..MaxChunks]
    /\ text \in [Runs -> BOOLEAN]
    /\ calls \in [Runs -> Seq(Nat)]
    /\ sandbox \in [Runs -> Nat]
    /\ provisioned \in [Runs -> SUBSET Nat]
    /\ failed \in [Runs -> BOOLEAN]
    /\ containers \in SUBSET Nat /\ abandoned \in SUBSET Nat
    /\ \A r \in Runs : pc[r] \in {"tool", "provision", "record", "execute", "result"} =>
                            calls[r] # <<>>

Positions(kind) == {n \in DOMAIN log : log[n].kind = kind}

\* However often run_session is started, cut off or run twice at once, the
\* system prompt is in the log once, ahead of all that any run emits.
PromptSeededOnce ==
    /\ Cardinality(Positions("prompt")) <= 1
    /\ \A n \in DOMAIN log : log[n].kind \notin {"user", "prompt"} =>
          \E m \in Positions("prompt") : m < n

\* Every tool call has its own id, and every result answers exactly one call,
\* an earlier one that no other result answers, across crashes and runs.
ResultsMatchCalls ==
    /\ \A m, n \in Positions("call") : log[m].call = log[n].call => m = n
    /\ \A n \in Positions("result") :
          /\ \E m \in Positions("call") : m < n /\ log[m].call = log[n].call
          /\ \A m \in Positions("result") : log[m].call = log[n].call => m = n

\* A context has been sent, and nothing has come of it yet.
Sends(r) == pc[r] = "stream" /\ chunks[r] = 0

\* What it was made of has been compacted once at the most.
CompactedOnce(r) == \A m, n \in Records(Prefix(read[r])) : m = n

\* As long as one run has the session to itself (no crash, no second run, no user
\* message under way), every tool result in a context it sends is right after the
\* message that has its call, however often the log was compacted. If it was once at
\* most, and read in full, the calls of each message have all their results there: a
\* second record brings calls back without them.
PairedUnlessDisturbed ==
    quiet => \A r \in Runs : Sends(r) =>
        /\ ResultsFollow(ContextOf(r))
        /\ CompactedOnce(r) /\ Len(log) <= PageLimit => Paired(ContextOf(r))

\* Whatever runs, crashes and compactions there are, a context that is sent has no word
\* twice, moved, or of what a compaction dropped: its texts are those of the prompt, the
\* user's messages and the closers of the view, in the order of the log. None of them is
\* missing if a run has the session to itself and compacts it once at the most.
TextKeptUnlessDisturbed ==
    \A r \in Runs : Sends(r) =>
        LET said == {n \in View(Prefix(read[r])) : log[n].kind \in {"prompt", "user", "closer"}}
        IN  /\ TextsInOrder(ContextOf(r), said)
            /\ quiet /\ CompactedOnce(r) => NoTextMissing(ContextOf(r), said)

\* Such a run marks the session complete only with every tool call answered,
\* unless the model ended with an error.
CompletedIsAnswered ==
    quiet /\ completed => \/ Positions("error") # {}
                          \/ \A m \in Positions("call") :
                                \E n \in Positions("result") : log[n].call = log[m].call

\* A sandbox the process knows alive is on the list of a run that will destroy it,
\* whichever exception or cancellation ends the run and however often; what is left
\* behind is what a run still had on its list as its clean-up was itself cancelled.
SandboxesOwned ==
    \A c \in containers \ abandoned : \E r \in Runs : Going(r) /\ c \in provisioned[r]

\* Every run ends.
RunsEnd == \A r \in Runs : Going(r) ~> pc[r] = "done"

\* principles.md: "Kill the harness at any moment, start a new instance, ... it
\* resumes exactly where the old one stopped": what a new instance, alone on the
\* session, sends is a conversation the model's provider accepts.
ResumedContextsPaired ==
    [][\A r \in Runs :
          pc[r] # "stream" /\ pc'[r] = "stream" /\ (\A q \in Runs \ {r} : ~ Going(q))
          => Paired(ContextOf(r)')]_vars
=============================================================================
