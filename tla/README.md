# Tename: a TLA+ verification project

Tename runs AI agents whose every fact lives in an append-only event log. This
project models the parts of `src/src/tename/` that keep that log, read it back and
act on it, checks them with TLC on small instances, and proves the core with
TLAPS. Paths below are relative to `src/tename/` of the repository.

## 1. The system

| Component | State | Operations | Interacts with |
|---|---|---|---|
| Session service (`sessions/`) | `sessions` and `events` tables in PostgreSQL | `create_session`, `emit_event`, `mark_complete`, `wake`, `get_events`, `get_agent` | called by harness and SDK |
| Agents (`sdk/agents.py`) | `agents` table | create, fetch, list, delete | foreign key from sessions |
| Harness runtime (`harness/service.py`) | none beyond one run: turn, stream, calls, sandbox ids | `run_session` | session service, router, sandbox, proxy |
| Compaction (`harness/compaction.py`) | none: records in the log | view, threshold, plan | harness |
| Framework adapters (`harness/adapters/`) | none | `build_context`, `chunk_to_event`, `get_tools` | harness |
| Profiles (`harness/profiles.py`) | none: files on disk | `load`: search path, `extends`, merge, validation | harness, router |
| Model router (`router/`) | per call: a client, a connection, the open blocks | `complete`: a stream of chunks, retried before its first | harness |
| Sandbox and Docker backend (`sandbox/`) | status per id, containers tracked, containers in Docker | `provision`, `execute`, `destroy`, `status` | harness |
| Tool proxy (`proxy/`) | registry of tools | `execute` | harness, vault |
| Vault (`vault/`) | an encrypted file, a passphrase | `store`, `retrieve`, `revoke`, `list`, `change_passphrase` | proxy, CLI |
| SDK (`sdk/`) | a task per `send`, a background loop with its thread, a queue per synchronous `send` | `send`, `get_events`, `complete`, `close` | all of the above |
| CLI, migrations, configuration | none at run time | I/O | |

What is hard here: callers of one session race inside PostgreSQL transactions; a
client retries an emit whose first answer it lost; a harness process dies between
any two awaits and another takes over from the log; two runs serve one session; a
plan to compact is made from a read that is stale when its record lands; tools time
out and their containers are killed while others use them; a cancelled coroutine
leaves its worker thread running; a consumer closes a stream while the run behind it
goes on, or closes the client under it; a reader leaves three nested generators
behind for the event loop to close; threads and processes rewrite one file of
credentials while tools look them up. `PROJECT.json` lists these, each with its line,
under `hazards`.

What makes each part correct:

* session service: dense sequences per session, an id stored once, an answer that
  stays true, a reader that misses nothing, no event on a session that was already
  closed when the emit began, every call ending;
* creation: one session per request id whoever races, and no session without agent;
* profiles: the nearest file's word counts, and a bad chain is refused for what it is;
* router: a stream of the promised shape, tool calls whole, retries counted, every
  connection closed;
* proxy: a tool runs with what is stored, and is not locked out by a change under way;
* compaction: what a pass promises to keep is kept, however often and on however
  old a read it runs;
* harness: one system prompt, results that match calls, conversations the provider
  accepts, sandboxes always owned by somebody who destroys them, runs that end;
* sandbox: what is dead stays out of use, and no container is forgotten;
* vault: every credential decrypts with the passphrase of who asks, and a write
  changes the one credential it is about;
* send: a consumer gets an unbroken run of the log, and no harness run outlives it;
  the synchronous client hands on exactly that, and its callers return.

## 2. Modules

```
EventLog  <-- implements --  SessionService  <-- SessionServiceProofs
                             SessionCreation <-- SessionCreationProofs
Compaction <-- CompactionLog                 <-- CompactionLogProofs
           <-- Context <-- HarnessRuntime    <-- HarnessRuntimeProofs
                           (session service taken as EventLog promises it)
                           Sandbox         <-- SandboxProofs
                           (what HarnessRuntime calls containers, in full)
ModelStream <-- implements -- ModelCall      <-- ModelCallProofs
Profiles, Router <-- ModelCall
                           (what HarnessRuntime calls the chunks of a stream, in full)
SdkSend (a session is a length, a run emits what it likes)
        <-- SdkSync                          <-- SdkSendProofs
CredentialStore <-- implements (one object) -- Vault
                    Vault <-- ToolProxy      <-- VaultProofs
```

An arrow points from the module that extends to the one it is built on, so ModelCall
composes the loader with the router, SdkSync puts the asynchronous send on a loop that
may be closed under it, and ToolProxy looks up credentials in a vault that other
threads write.

`MC*` modules instantiate them for TLC. Operators named as a *Variant* are plausible
bugs of the definition they precede. No run uses them; each shows that one of the
properties would notice that bug.

**SessionService** has the two tables as committed rows (`events`, `status`,
`last_sequence`), the two kinds of lock (`advisory`, `row_lock`) and for each caller
the statement it runs next. `EmitLock`, `EmitFindHit/Miss`, `EmitLoad(Terminal)`,
`EmitInsert`, `EmitBump`, `EmitCommit`, `EmitAnswer` are the statements of
`emit_event` in order; `MarkRead(Terminal)`, `MarkUpdate`, `MarkCommit` those of
`mark_complete`, which takes no advisory lock. Isolation is READ COMMITTED, as the
engine sets none. An uncommitted INSERT is seen only by the unique indexes: another
INSERT of the key waits. `Abort` is a caller dying or cancelled at any statement.
`Poll` is a reader that asks `get_events` for what follows the last event it has.
`answers`, `late` and `yielded` are history.

**EventLog** is what that promises: a sequence per session that grows at its end,
sessions that close, receipts that stay true. `SessionService` implements it with
`log[s]` the ids of `s`'s committed events by sequence.

**SessionCreation** has `create_session` (merge of metadata and argument, look-up,
INSERT against the partial unique index and the foreign key, re-read after an
IntegrityError) and the agents' INSERT and DELETE. A `request_id` in metadata may be
a number: the code looks up strings only, while the index compares texts.

**Compaction** holds `estimate_event_tokens`, `apply_compaction_view`,
`should_compact` and `plan_truncate` as operators on a log, **CompactionLog** the
life of a log under them.

**Context** is the adapters' `build_context`: a recursive function over the log, one
round of the loop for each event, whose value is the function's locals. The text of messages is the position of the event it comes from. `Paired`
says what the provider asks of a conversation.

**HarnessRuntime** is `run_session`. Each action is what happens between two awaits;
`pc[r]` names what run `r` awaits:

| pc | awaits | actions |
|---|---|---|
| seed | emit of the system prompt | Seed |
| top | get_events at the head of the loop | TurnBegin, TurnsOver |
| compact, reread | emit of the record, second get_events | Compact, Reread |
| stream | next chunk, and the emit it causes | TextDelta, ToolCallEnd, ErrorChunk, EndTurn |
| tool | dispatch of the first unanswered call | ToolWithoutSandbox, ToolFindsSandbox |
| provision, record, execute | sandbox calls, emit of sandbox_provisioned | Provision, ProvisionFails, RecordSandbox, Execute |
| result | emit of the tool_result | Result |
| destroy | `finally` | DestroySandbox, Destroyed |
| complete | mark_complete | MarkComplete |

`Crash` ends every run of the process; `Cancel` is a cancelled task or any await that
raises; `CancelDestroy` is either during `finally`. Two variables are history. `quiet`:
the session has had one run, and nobody else wrote to it since that began. `abandoned`:
the sandboxes that a run still had on its list as its `finally` was cut short. How often
the log was compacted is no part of `quiet`; the properties that depend on it say so
(`CompactedOnce`).

**Sandbox** has the service's tracker (`status`), the backend's dictionary
(`containers`), Docker's own state (`docker`) and the worker threads under way
(`stopping`, `killing`). A worker thread outlives a cancelled coroutine. `lost` is history:
the containers that a provision cut short, a failed stop or the death of the process has
put out of `destroy`'s reach.

**Vault** has the file (a salt, and a token for each name) and for each `Vault` object
its passphrase and its lock. A token is the value with the passphrase and the salt it
was encrypted under, and decrypts under those only. A call is two steps, because
threads of other objects can act between them: `Store`, `Revoke` and
`ChangePassphrase` take the lock (`Enter`), read the file and make up what to write
(`draft`); `Write`, `WriteFails` and `WriteShort` are the outcomes of `_write_state`.
Reads change nothing, so `Retrieve` is an operator. A new salt is any that nothing is
encrypted with. `Restart` is a process that dies, in a call or not, and one that opens
the file next, with a passphrase that opens it if there is one. `botched` is history:
a `change_passphrase` of the object failed to write.

**CredentialStore** is what a vault promises: credentials stored and revoked one at a
time. Vault implements it with `stored` the values of the file, or Unreadable.

**SdkSend** is `AsyncSessionHandle.send`, several on one session, each with the harness
task it starts. Each action is what happens between two awaits:

| pc | awaits | actions |
|---|---|---|
| idle | the first get_events | Call, CallFails |
| emit | emit of the user's message | EmitUser, EmitRejected, EmitFails |
| poll | get_events after the pointer | Poll |
| yield | the consumer | Yield, PageDone |
| wait | the task, for the poll interval | WaitEnds, WaitRaises |
| drain | the consumer, after the trailing read | Yield, Drained |
| cancel | the cancelled task | Cancelled |

`Interrupt` is the consumer closing the iterator, a cancelled send or a read that
raises. A task is running, being cancelled, or done in one of four ways. The log is no
more than its length, since `send` looks at sequences only.

A send that is cancelled while it emits has emitted or not (`EmitFails`). `base` is where
the pointer begins: the end of the first page, not of the log.

**SdkSync** is the synchronous client around it: `BackgroundLoop` (`loop`, the `pending`
tasks it cancels as it stops), `Tename.close` (`client`), the coroutine of each call on
the loop (`coro`: scheduled, created, begun, done, or lost if it was cancelled before
its first step), `SessionHandle.send`'s `queue` and the `user` thread that reads it. A
step of `_drive` is a step of the asynchronous send, with what it puts in the queue
(`Yielded`, `EndItems`). A cancelled task may only break off, and wait for its run, which
the loop cancels as well (`HarnessCut`).
`Runs` are other calls of `BackgroundLoop.run`.

**Profiles** is the loader. `files` is what the directories hold, the bundled package
last; `_resolve`'s recursion is `visited` and `chain` (what the calls have read), and
what the calls return on the way back is `Merged`. A section is a mapping or a value,
since a `null` replaces what a mapping would be merged into.

**Router** is `ModelRouter.complete` over `AnthropicProvider`. `pc` is where the call is:
`open` and `sleep` in the retry loop, `read` among the server's events, `exit`, `last`
and `close` in what follows them, `given` while the reader has a chunk (`next` says what
comes when it returns). `Abandon` is the reader that leaves: nobody calls `aclose`, so the
event loop closes the generators one after the other (`closing`), each letting go of the
one inside. `server` is the message as the server sends it, blocks interleaved.

**ModelStream** is what `ProviderInterface` promises of the types of the chunks.
**ModelCall** loads a profile, projects it (`ToRouterProfile`) and makes the call.

**ToolProxy** is the registry and `execute`: `Lookup`, one `RetrieveNext` per credential
under the vault's lock, `RunTool`, `ToolReturns`. `OtherCall` is any call of Vault by
other threads. `touched` is history: the credentials written since a call began.

## 3. Runs

| Run | Instance | What it shows |
|---|---|---|
| sessions | 1 session, 2 callers, 2 ids, page of 1 | density, uniqueness, durable answers, complete reads, late emits refused, the refinement of EventLog; every call ends and every committed event reaches the reader |
| creation | 3 callers, 2 request ids, 1 agent, 3 sessions | one session per request, the loser of a race finds the winner, every call ends |
| compaction | 2 harnesses, log of 7 | first user message and last events stay in the view |
| compaction_resurface | 1 harness, log of 7 | **violated**: a second record brings back what the first dropped |
| harness | 2 runs, 1 turn, 1 chunk, 1 fault | one prompt, results match calls, sandboxes owned or abandoned by a clean-up cut short, runs end |
| harness_alone | 1 run, 4 turns of 2 chunks | in contexts, results follow their calls and words keep their order; across one compaction no result and no word is missing; no call unanswered at the end |
| harness_resume | 2 runs, 1 fault | **violated**: after a crash the resumed context has a tool_use without result |
| model_call | 3 names in 2 directories, 7 bodies, depth 2; 2 blocks, 6 events | the loader's verdict and merge; chunks in the promised order, tool calls whole, retries exhausted, connections closed, the call ends |
| proxy | 1 vault, 2 threads, a proxy with it and one without, 2 names, 2 passphrases, 3 salts | everything retrievable, the refinement of CredentialStore, credentials of this call, no lock-out |
| sdk_sync | 1 send, 1 other call, page of 2, log of 4 | the mirror loses nothing, streams in order and complete, no run outlives its send or the loop, callers return |
| sandbox | 3 callers, 2 containers, 2 faults | dead stays dead, no tool in a container being destroyed, no fault but those `lost` stands for leaves a container behind |
| vault_two | 2 objects on one file | **violated**: a write takes back what the other object stored |

The type invariants of SessionService, SessionCreation, CompactionLog, Sandbox, Vault,
SdkSend, HarnessRuntime and Router are proved, and in no run.

### Bounds

* Sessions: every lock, index and counter is per session, so one session has every
  interleaving; two callers are a holder and a waiter, two ids give a replay and a
  fresh event at once. The page is smaller than the log, so reading takes several
  polls. The safety properties and the refinement are proved for any number of
  callers, ids and sessions, so the instance is as small as liveness allows.
* Creation: three callers race on two ids, with one agent that may go away between
  a caller's check and its INSERT. `SessionIds` bounds the sessions ever made.
* Compaction: `MaxEvents` 7 with a threshold of 4 tokens and events of 1 or 3
  allows three records, planned on stale reads by two runs.
* Harness: `MaxTurns`, `MaxChunks`, `MaxUsers`, `MaxFaults` bound a run. Two runs with
  one fault are enough to be concurrent and to have one cut off anywhere and the other
  take over. The single run has parallel calls in a turn, text before, between and
  after them, and enough turns to cross the threshold.
* `PageLimit` is 1000 in the code. 100 stands for a log that fits.
* Model call: every user file of the instance is absent, broken, or extends any name,
  nothing, or no string, with one of seven bodies; the bundled file may be hidden by one
  of the user's. That is chains of up to three files against a depth of two, and cycles
  that begin anywhere. `max_retries` is 1, 3 or none at all; two blocks and six events let
  two tool calls interleave and each have two fragments.
* Proxy: two threads are one in a call of the vault and one that waits; a tool of two
  credentials is caught between them; three salts are one in the file, one in a draft
  and one before. The vault's own theorems are for any number.
* SdkSync: logs that begin empty or longer than a page, and a harness that emits up to
  `MaxEvents` and may end anywhere. Sends share nothing but the log, and `SdkSendProofs`
  proves their safety for any number; the other call shows that the loop serves both.
* Deadlock is checked in `sessions`. The other systems stop: all runs
  done, all ids used, the log full.

### Fairness

* Sessions: weak fairness of what a caller does once it waits for no lock
  (`Proceed`), strong fairness of taking a lock (PostgreSQL's lock queues are fair),
  none of beginning a call or dying. `EventsReachReader` adds weak fairness of
  `Poll`: the reader polls in a loop.
* Creation: the same, with strong fairness of the INSERT that waits for an index entry.
* Harness: weak fairness of each run's own steps. It includes that a model's stream
  ends (it is bounded, and the router has timeouts) and that a tool returns (`execute`
  runs under `wait_for`). Users and faults owe nothing.
* Model call: weak fairness of the loader, of the call's own steps (the server's stream
  ends or the client's timeouts cut it), of the reader coming back or leaving, and of
  the event loop's closing of what was left.
* SdkSync: weak fairness of the steps of each call on the loop, of its user's (it takes
  what there is, or drops the iterator) and of the end of its run, cancelled or not,
  which is what `RunsEnd` says of it; of the loop's stopping once it was told to. Nobody
  need close the client, drop an iterator or cancel anything.

## 4. What is proved

`SessionServiceProofs` proves for every set of sessions, callers and ids and every page
size (from `ServiceAssumption` only: the page is positive and `None` is not a value):

* `TypeCorrect`, `LogsAreDense`, `InsertNeverConflicts`, `AnswersStayTrue`,
  `ReaderIsComplete`, `LateEmitsRejected`: the invariants of run `sessions`;
* `ServiceImplementsEventLog`: `Spec => ImplementsEventLog`.

None of the invariants is inductive alone. `InductiveInvariant` adds

* `LockOK`: a caller between its EmitLock and its COMMIT holds the session's advisory
  lock, and one that has run its UPDATE the row lock, so no two callers are past
  EmitLock on one session;
* `ReadsOK`: a caller past its load has `new_sequence = last_sequence + 1`, and its id is
  not in the log: nobody else can change either while the lock is held;
* `CallOK` and `LateOK`: what a caller's locals may be at each statement.

From these an INSERT never conflicts, so a COMMIT adds the one row
`last_sequence + 1`, so logs stay dense and the reader's cursor covers a prefix. The
refinement then needs only that `EmitCommit` is the one step that changes a log and
that it appends (`CommitAppends`), `MarkCommit` the one that closes, `EmitAnswer` and
replays the ones that tell.

`SessionCreationProofs` (any callers, agents, request ids; `CreationAssumption`) proves
`TypeCorrect`, `OneSessionPerRequest`, `AgentsStay` and `LoserFindsWinner`. What makes
them inductive is that rows being inserted already occupy the indexes: `IndexOK` (no
two rows, committed or not, with one request id), `ForeignKeyOK` (the agent of an
uncommitted row is present and cannot be deleted), `AnswersOK` (an answer names a
committed row). `RaceLoserFindsWinner` then holds because rows are never deleted.

`CompactionLogProofs` (any number of runs, any threshold and `keep_last_n_events`, logs of
any length) proves `FirstUserStays`, `RecentEventsStay` and `RecordsStay`. The
invariant `DroppedOK` says of every record what the theorems say of the latest. Its
step rests on `PlanSpares`: a plan made from a prefix of the log drops nothing
that counts for the whole log, because the first user message of a longer log is the
same, its records in the prefix are the same, and an event among the last of the whole is among
the last of any view that has it (`LastOfSubset`, a fact about cardinalities).

`SandboxProofs` (any callers, containers and faults; `SandboxAssumption`) proves
`NoLeaks`, `ToolsKeepOut` and `TheDeadStayDead`. The invariant adds `ProvisionOK` (an id
being provisioned has one owner and was returned to nobody, so its status cannot
be touched by another call) and `CondemnedOK` (what destroy was called for has left the dictionary).
`NoLeaks` holds after any number of faults; what it excuses is `lost`.
The two action properties go through the actions one by one; the one that
needs the code's care is `StatusReturns`, where `status` writes back what it read.

`VaultProofs` proves, for any number of objects on the file (`VaultAssumption`),
`TypeCorrect` and `SaltsAgree`; the invariant `SaltsOK` says of every draft what the
theorem says of the file, since a draft becomes the file. For one object that any
number of threads use (`OneObject`) it proves `AllRetrievable` and
`VaultImplementsStore`. `OneObjectInvariant` adds `LockOK` (so at most one call at a
time), `FileOK` (the passphrase opens the file unless a rotation is under way or
failed) and `DraftOK` (what a call is about to write differs from the file *as it is
now* in the credential of the call only: the clause that two objects break).

The same module carries this over to the proxy (`ProxyAssumption`, which now says too
that no value is an error's name). `ProxyKeepsVault` is `ProxySpec => Spec`: every step
of a tool call is a step of the vault or a stutter of it, so `ProxiedVaultKeepsAll`
follows at once. `CallsOwnCredentials` needs `ProxyInvariant`: what a call has been given
so far is, credential by credential, what is stored or what `touched` excuses (`GivenOK`),
and a call that runs its tool was given all of them (`CallOK`). `LookupsWait`, for one
object, is about the step: a lookup that finds the vault locked out has the lock, so no
change is under way, and `FileOK` leaves a failed change as the only reason.

`SdkSendProofs` (any sends, page and events; `SendAssumption`) proves `TypeCorrect`,
`StreamsInOrder`, `RunsEndFirst` and `ReturnsComplete`. The invariant says that the
pointer has moved by what was yielded (`PointerOK`), that a page read is in the log
(`PageOK`), what task a send at each await can have (`TaskOK`), and that the trailing
page reaches to where the run ended or is whole (`DrainOK`), which stays so because the
run of a send that drains is done and can no longer emit.

It then proves `SyncKeepsSends` (`SyncSpec => Spec`), so that `SyncSendsKeep` has the three
safety properties under the synchronous client, and over it `SyncMirrorsAsync` and
`LoopClosesLast`. The invariant of SdkSync relates coroutine and send (a coroutine that is
done has a send that is over, one that was lost never began it), says what a queue holds
behind the events (nothing, the sentinel, or an exception and the sentinel) by how the
send ended, and that a loop that is closed has waited for all that it cancelled.

`HarnessRuntimeProofs` (any runs, bounds, threshold and number of faults;
`HarnessAssumption`) proves `TypeCorrect`, `PromptOnce`, `ResultsMatch` and
`SandboxesAreOwned`, the invariants of run `harness`. The invariant adds `NamesOK` (names of sandboxes are
bounded, so there is a next one), `PromptOK` (a run past Seed finds the prompt in the
log), `CallsOK` (an id is the call's position, so it is fresh; what a run has
yet to answer are calls without a result, each on one list) and `OwnedOK` (a run
outside its loop holds no sandbox, and one alive is on a list or `abandoned`). `StepShape` reduces the steps to three as far as the
log is concerned: one appends a call, one a result, and the others neither.
`CompletionsAnswer` adds what holds while nobody disturbs a run: it is the only one, and
none was before it unless the session is completed (`AloneOK`); and the calls without a
result are those it has yet to answer, of which there are none outside of stream and
tools (`AnsweredOK`).

The contexts of such a run take two arguments. One is about the log, whatever the steps
(`ShapeHolds`): the users have spoken before the run begins, the calls of a turn are
answered before the next turn's calls and closer, between two closers is a result, and the
first compaction drops everything up to one place but users' messages. That is what makes `ShapeOK`
inductive; none of it follows from the two properties themselves. The other is about
`build_context`, whatever the log. Its recursion defines a function (`FoldExists`), so a
statement that one round keeps holds after all of them (`Up`). `TextsKept`: every text
that comes out is of one event of the view, in order, of any view; and if there is a
result between any two closers in it, then no text is still pending when the next one
comes, and none is missing (`WordsAreKept`). `OrderlyFollow`: if the log has its results
where `Orderly` says, then in a view of it, whatever it leaves out, the calls of a
message that is open are all the results ahead can answer (`FollowState`), so results
come right after their calls after any number of compactions. `LegalPaired`: if the view is `Legal` (each call answered once, later, and before
the next turn; prompt and users before all calls), the loop is at any time either
waiting, with all results flushed next to their calls, or collecting the results of the
message before, and a flush closes what is open (`ContextsPair`).

`ModelCallProofs` (any file systems, blocks and events; `RouterAssumption`) proves
`TypeCorrect`, `PromiseKept` (`Spec => ImplementsModelStream`) and `RetriesAreExhausted`, the
last provided `max_retries` is not negative, as the schema has it (`RetriesValid`). `GivenOK`
says what has been given out by where the call is, and by what comes next once the
reader is back; `RetriesOK` that a call that is still opening has attempts left.
`CallsAreWhole` rests on `WholeOK`: an open block's buffer is the fragments given out of its
index, which has a start and no end yet; a closed or unopened one has no buffer.

Of the loader (`ProfilesAssumption`; `FilesAssumption`: what a file extends is a name,
nothing, or no string) it proves `ChainsJudged` and `NearestFileWins`. `LoaderOK` says that
`visited` is the path from the first name, every file on it usable and no name twice, and
what each verdict says of how it goes on. `ChainOK` is as much as the merge needs; the rest
(`NearestHasWon`) is about `DeepMerge`: `MergeSays` for one merge, and `Down`, an induction
from the file that wins to the first. The functions that `Path` and `Merged` define by
recursion are shown to exist first (`PathExists`, `MergeExists`).

Model-checked only: liveness (`CallsEnd`, `EventsReachReader`, `CreateEnds`, `RunsEnd`,
`ModelCallEnds`, `ConnectionsClosed`, `CallersReturn`), which needs fairness and ENABLED.
Every invariant and action property of a passing run is stated by a theorem.

## 5. Where code and documents disagree

Three violation runs, in `PROJECT.json` under `findings`: compaction resurfaces dropped
events; a crash between tool_call and tool_result leaves a conversation the provider
refuses; two vaults on one file lose updates.

Met while modelling and not a run:

* `mark_complete` takes no advisory lock, so it can commit between the load and the
  COMMIT of an `emit_event` under way, whose event then follows the closing
  (`sessions/service.py:191`, `:280`, against the docstring at `:245`).
  `LateEmitRejected` says what does hold.
* A second `destroy`, or `status`, says DESTROYED while the first one is still
  stopping the container ("stop + remove complete", `docs/architecture/sandbox.md:102`).
* `apply_compaction_view` honours the latest record only (`harness/compaction.py:63-72`),
  so a run that has the session to itself and compacts it twice sends contexts with a
  tool call whose result is gone (the first record dropped the call, the second its
  result), which the provider refuses, and without a text of its own (two closers come
  together, and `build_context` overwrites the first's). TLC shows both on
  `harness_alone` without `CompactedOnce` in the two properties. What holds after any
  number of compactions is their other half: results follow their calls, and words are
  neither moved nor doubled.
* A user's message that arrives while a run is under way may land between a call and its
  result, and parts the two in the context. `quiet` leaves that out.
* `send` takes its pointer from the last event of one `get_events`, the first 1000
  (`sdk/sessions.py:74`). On a longer log it begins in the middle, and yields old events
  as if they were new, against "stream events as they land" (`:65`).
* `send` "Yields every event" (`sdk/sessions.py:67`), but if the harness raises while it
  waits (`:117`), what the run had emitted since the last poll is not yielded; and the
  trailing read is one page. `ReturnedIsComplete` says what does hold. Closing an
  iterator whose run was cancelled surfaces a CancelledError, as `exception()` of a
  cancelled task raises it.
* The harness reads `get_events` with its default limit, the first 1000 events
  (`harness/service.py:135`); "Rebuild context from ALL events"
  (`docs/architecture/harness-runtime.md:32`). A longer session's context misses its
  latest messages, and where the page ends between a tool call and its result, it has the
  call alone. `PairedUnlessDisturbed` therefore asks for every result on logs within the
  page only.
* The first compaction drops the system prompt (`plan_truncate` does not keep it), and
  seeding it again returns the dropped event by its id. No document says it must stay.
* A synchronous `send` whose `_drive` is cancelled before its first step, or is submitted
  as the client closes, gets no sentinel, and its `q.get()` never returns
  (`sdk/sessions.py:194`, against "termination comes via the sentinel arriving in the
  queue" at `:189-190`).
  `CallersReturn` says of which calls it does hold.
* A second `Tename.close()` raises RuntimeError, as `run` finds no loop, where
  `AsyncTename.close` is "Safe to call more than once"; `stop` gives up its join after
  five seconds; `__init__` stops its loop on a ConfigurationError only.
* The profile format's example of inheritance has a top-level `description`
  (`docs/harness/profile-format.md:162`), which Profile, with `extra="forbid"`, refuses. A
  user's file that extends the bundled profile of its own name is reported as a cycle.
  `effective_budget: 1` gives a threshold of 0.
* `_normalize_result` may raise from `json.dumps`, outside of `execute`'s try, against
  "never as an uncaught raise" (`proxy/service.py:53`).
* `change_passphrase` takes the new passphrase before the file is written
  (`vault/service.py:196`): if the write fails, the object cannot read the old file.
* `os.write` may take less than it is given, and its result is not read
  (`vault/service.py:295`): what then replaces the file is its beginning, against
  "can never corrupt".

## 6. Not modelled, and why

* Tools in the container: their outcome is any result and any error. They keep no state
  that a session depends on.
* The router's request (`_build_params` and the messages' wire format), usage numbers and
  pricing: data that nothing modelled branches on. A cancellation that lands exactly in
  the `await` of the manager's exit or of the client's close is left out, so
  `ConnectionsClosed` does not speak of it. That property also takes for granted that the
  loop goes on: the background loop stops without shutting down its asynchronous
  generators (`sdk/runtime.py:51-62`), so what a reader left behind as the client closes
  is not covered.
* Files that change while a profile is loaded; fields of a profile that no rule relates.
* The construction of the SDK's client, and its parts that pass a call on.
* Encryption itself: a token decrypts with the key that made it and no other.
* CLI, configuration, migrations: I/O and data. The indexes and keys of the migration are
  guards in SessionService and SessionCreation.
* Sizes of payloads, wording and cost counts: nothing here depends on them, save the token
  estimate, which CompactionLog keeps.
* `max_duration_seconds`: `TurnsOver` may end the loop at any turn.
* Agents without a system prompt: such a run skips `Seed` and does the rest.
* `list_agents`, `fetch_agent`, `wake`, `Vault.list` and `status`'s answer: reads.

## 7. Plan

1. *Done*: session service and its abstract log, creation, compaction, context, harness
   runtime, sandbox, vault and its abstract store, proxy, the SDK's `send` and its
   synchronous mirror, profiles and router with the abstract stream.
2. *Done*: every safety property of the runs as a theorem for all constants, and the three
   refinements. Left: shorter proofs of what `Context`'s loop does, with one lemma for
   each local that both arguments share.
3. Where a component's safety is proved for all constants, its run can shrink to what
   liveness and the mutants need, as `sessions` has; new runs should merge with those.
