-------------------------------- MODULE Router -------------------------------
(***************************************************************************)
(* One completion: ModelRouter.complete (router/service.py) over           *)
(* AnthropicProvider.complete and _stream (router/providers/anthropic.py), *)
(* three nested asynchronous generators, between the model's server and a  *)
(* reader that may leave at any chunk.                                     *)
(*                                                                         *)
(* A text or a fragment of a tool call's JSON is named by how many events  *)
(* the server had sent before it; the numbers of the usage chunk, and the  *)
(* events that only carry them, are left out.                              *)
(***************************************************************************)
EXTENDS Integers, Sequences, FiniteSets

CONSTANTS MaxBlocks,   \* bound on the content blocks of a message
          MaxEvents    \* bound on the events of a stream

ASSUME RouterAssumption == MaxBlocks \in Nat /\ MaxEvents \in Nat

VARIABLES
    profile,      \* the RouterProfile of the call
    owned,        \* _owns_client
    pc,           \* where the call is
    attempt,      \* how many attempts to open the stream have failed
    manager,      \* the connection of the stream: none, open or closed
    client,       \* the provider's own client: none, open or closed
    tool_blocks,  \* the fragments of each open tool_use block, by index
    next,         \* what _stream does when the reader takes the chunk it gave
    out,          \* history: the chunks given out
    sent,         \* the server: how many events it has sent
    server,       \* ... and the kinds of its blocks: text, tool_use or stopped
    closing       \* closes the event loop has yet to run for a reader that left

callVars   == <<pc, attempt, manager, client, tool_blocks, next, out, closing>>
serverVars == <<sent, server>>
routerVars == <<profile, owned, callVars, serverVars>>

\* max_attempts of _open_stream_with_retry
MaxAttempts == IF profile.retry_on_transient THEN profile.max_retries + 1 ELSE 1

Chunk(type, index, data) == [type |-> type, index |-> index, data |-> data]

RouterInit ==
    /\ owned \in BOOLEAN
    /\ pc = "idle" /\ attempt = 0
    /\ manager = "none" /\ client = "none"
    /\ tool_blocks = <<>> /\ next = "read" /\ out = <<>>
    /\ sent = 0 /\ server = <<>>
    /\ closing = {}

Goto(step) == pc' = step

\* `yield`: the reader has the chunk, and what is next waits for it.
Yield(chunk, step) ==
    /\ out' = Append(out, chunk)
    /\ next' = step
    /\ Goto("given")

-----------------------------------------------------------------------------
(* The call, and the stream opened with retries *)

\* No provider has the profile's name: ValueError.
UnknownProvider ==
    /\ pc = "call" /\ profile.provider # "anthropic"
    /\ Goto("raised")
    /\ UNCHANGED <<profile, owned, attempt, manager, client, tool_blocks, next, out,
                   closing, serverVars>>

Call ==
    /\ pc = "call" /\ profile.provider = "anthropic"
    /\ client' = (IF owned THEN "open" ELSE client)
    /\ Goto("open")
    /\ UNCHANGED <<profile, owned, attempt, manager, tool_blocks, next, out, closing,
                   serverVars>>

Opened ==
    /\ pc = "open"
    /\ manager' = "open"
    /\ Goto("read")
    /\ UNCHANGED <<profile, owned, attempt, client, tool_blocks, next, out, closing,
                   serverVars>>

\* A status below 500.
OpenRejected ==
    /\ pc = "open"
    /\ Yield(Chunk("error", 0, FALSE), "close")
    /\ UNCHANGED <<profile, owned, attempt, manager, client, tool_blocks, closing,
                   serverVars>>

\* Variant: as many attempts as retries.
OpenFailsEarly ==
    /\ pc = "open"
    /\ attempt' = attempt + 1
    /\ IF attempt + 1 < MaxAttempts - 1
       THEN Goto("sleep") /\ UNCHANGED <<next, out>>
       ELSE Yield(Chunk("error", 0, TRUE), "close")
    /\ UNCHANGED <<profile, owned, manager, client, tool_blocks, closing, serverVars>>

\* Variant: the attempts are not counted.
OpenFailsUncounted ==
    /\ pc = "open"
    /\ Goto("sleep")
    /\ UNCHANGED <<profile, owned, attempt, manager, client, tool_blocks, next, out,
                   closing, serverVars>>

\* A status of 500 or more, no connection, a timeout: again after a while, or an
\* error that may be retried.
OpenFails ==
    /\ pc = "open"
    /\ attempt' = attempt + 1
    /\ IF attempt + 1 < MaxAttempts
       THEN Goto("sleep") /\ UNCHANGED <<next, out>>
       ELSE Yield(Chunk("error", 0, TRUE), "close")
    /\ UNCHANGED <<profile, owned, manager, client, tool_blocks, closing, serverVars>>

Slept ==
    /\ pc = "sleep"
    /\ Goto("open")
    /\ UNCHANGED <<profile, owned, attempt, manager, client, tool_blocks, next, out,
                   closing, serverVars>>

\* Any other exception, or the task is cancelled while it opens or sleeps.
OpenRaises ==
    /\ pc \in {"open", "sleep"}
    /\ next' = "raise"
    /\ Goto("close")
    /\ UNCHANGED <<profile, owned, attempt, manager, client, tool_blocks, out, closing,
                   serverVars>>

-----------------------------------------------------------------------------
(* The events of the stream *)

Event ==
    /\ pc = "read" /\ sent < MaxEvents
    /\ sent' = sent + 1
    /\ UNCHANGED <<profile, owned, attempt, manager, client, closing>>

\* content_block_start: blocks are numbered from 0.
BlockStart ==
    /\ Event
    /\ Len(server) < MaxBlocks
    /\ \E kind \in {"text", "tool_use"} :
          LET index == Len(server) IN
          /\ server' = Append(server, kind)
          /\ IF kind = "tool_use"
             THEN /\ tool_blocks' = [i \in DOMAIN tool_blocks \cup {index} |->
                                        IF i = index THEN <<>> ELSE tool_blocks[i]]
                  /\ Yield(Chunk("tool_call_start", index, 0), "read")
             ELSE UNCHANGED <<pc, tool_blocks, next, out>>

TextDelta ==
    /\ Event
    /\ \E i \in DOMAIN server :
          /\ server[i] = "text"
          /\ Yield(Chunk("text_delta", i - 1, sent), "read")
    /\ UNCHANGED <<server, tool_blocks>>

\* Variant: one buffer for the message.
InputJsonDeltaShared ==
    /\ Event
    /\ \E i \in DOMAIN server :
          /\ server[i] = "tool_use"
          /\ tool_blocks' = [j \in DOMAIN tool_blocks |-> Append(tool_blocks[j], sent)]
          /\ Yield(Chunk("tool_call_delta", i - 1, sent), "read")
    /\ UNCHANGED server

InputJsonDelta ==
    /\ Event
    /\ \E i \in DOMAIN server :
          /\ server[i] = "tool_use"
          /\ tool_blocks' = [tool_blocks EXCEPT ![i - 1] = Append(@, sent)]
          /\ Yield(Chunk("tool_call_delta", i - 1, sent), "read")
    /\ UNCHANGED server

\* _safe_json_loads: nothing, or what is no JSON, is the empty input.
SafeJsonLoads(fragments) == {<<>>, fragments}

\* content_block_stop pops the block and ends its call.
BlockStop ==
    /\ Event
    /\ \E i \in DOMAIN server :
          /\ server[i] # "stopped"
          /\ server' = [server EXCEPT ![i] = "stopped"]
          /\ IF i - 1 \in DOMAIN tool_blocks
             THEN /\ tool_blocks' = [j \in DOMAIN tool_blocks \ {i - 1} |-> tool_blocks[j]]
                  /\ \E input \in SafeJsonLoads(tool_blocks[i - 1]) :
                        Yield(Chunk("tool_call_end", i - 1, input), "read")
             ELSE UNCHANGED <<pc, tool_blocks, next, out>>

-----------------------------------------------------------------------------
(* The end of the stream *)

\* It is over, or a status error (retryable if 500 or more), no connection or a
\* timeout cuts it off, or anything else raises, a cancellation included.
StreamEnds ==
    /\ pc = "read"
    /\ next' \in {"usage", "error", "error_status", "raise"}
    /\ Goto("exit")
    /\ UNCHANGED <<profile, owned, attempt, manager, client, tool_blocks, out, closing,
                   serverVars>>

\* `finally` of _stream: manager.__aexit__.
ManagerExits ==
    /\ pc = "exit"
    /\ manager' = "closed"
    /\ Goto(IF next = "raise" THEN "close" ELSE "last")
    /\ UNCHANGED <<profile, owned, attempt, client, tool_blocks, next, out, closing,
                   serverVars>>

\* Variant: an error does not return.
LastChunksAfterError ==
    /\ pc = "last"
    /\ CASE next = "usage"        -> Yield(Chunk("usage", 0, 0), "done")
         [] next = "error"        -> Yield(Chunk("error", 0, TRUE), "usage")
         [] next = "error_status" -> Yield(Chunk("error", 0, FALSE), "usage")
         [] next = "done"         -> Yield(Chunk("done", 0, 0), "close")
    /\ UNCHANGED <<profile, owned, attempt, manager, client, tool_blocks, closing,
                   serverVars>>

\* The error, or the usage and then done.
LastChunks ==
    /\ pc = "last"
    /\ CASE next = "usage"        -> Yield(Chunk("usage", 0, 0), "done")
         [] next = "error"        -> Yield(Chunk("error", 0, TRUE), "close")
         [] next = "error_status" -> Yield(Chunk("error", 0, FALSE), "close")
         [] next = "done"         -> Yield(Chunk("done", 0, 0), "close")
    /\ UNCHANGED <<profile, owned, attempt, manager, client, tool_blocks, closing,
                   serverVars>>

\* `finally` of complete: a client of its own is closed.
ClientCloses ==
    /\ pc = "close"
    /\ client' = (IF owned THEN "closed" ELSE client)
    /\ Goto(IF next = "raise" THEN "raised" ELSE "ended")
    /\ UNCHANGED <<profile, owned, attempt, manager, tool_blocks, next, out, closing,
                   serverVars>>

-----------------------------------------------------------------------------
(* The reader *)

\* It comes back for more.
Take ==
    /\ pc = "given"
    /\ Goto(IF next \in {"read", "close"} THEN next ELSE "last")
    /\ UNCHANGED <<profile, owned, attempt, manager, client, tool_blocks, next, out,
                   closing, serverVars>>

\* It leaves: _run_turn breaks at an error, its emit raises or is cancelled. Nobody
\* calls aclose: the event loop closes each generator as the one around it lets go.
Abandon ==
    /\ pc = "given"
    /\ Goto("abandoned")
    /\ closing' = {"router"}
    /\ UNCHANGED <<profile, owned, attempt, manager, client, tool_blocks, next, out,
                   serverVars>>

CloseRouter ==
    /\ "router" \in closing
    /\ closing' = (closing \ {"router"}) \cup {"provider"}
    /\ UNCHANGED <<profile, owned, pc, attempt, manager, client, tool_blocks, next, out,
                   serverVars>>

\* GeneratorExit in complete: it lets go of _stream and awaits client.close().
CloseProvider ==
    /\ "provider" \in closing
    /\ closing' = (closing \ {"provider"}) \cup {"stream", "client"}
    /\ UNCHANGED <<profile, owned, pc, attempt, manager, client, tool_blocks, next, out,
                   serverVars>>

CloseClient ==
    /\ "client" \in closing
    /\ closing' = closing \ {"client"}
    /\ client' = (IF owned THEN "closed" ELSE client)
    /\ UNCHANGED <<profile, owned, pc, attempt, manager, tool_blocks, next, out, serverVars>>

\* Variant: no `finally` around the events.
CloseStreamUnprotected ==
    /\ "stream" \in closing
    /\ closing' = closing \ {"stream"}
    /\ UNCHANGED <<profile, owned, pc, attempt, manager, client, tool_blocks, next, out,
                   serverVars>>

\* GeneratorExit in _stream: among its events, its `finally` exits the manager.
CloseStream ==
    /\ "stream" \in closing
    /\ closing' = closing \ {"stream"}
    /\ manager' = (IF manager = "open" THEN "closed" ELSE manager)
    /\ UNCHANGED <<profile, owned, pc, attempt, client, tool_blocks, next, out, serverVars>>

-----------------------------------------------------------------------------
CallStep ==
    \/ UnknownProvider \/ Call
    \/ Opened \/ OpenRejected \/ OpenFails \/ Slept \/ OpenRaises
    \/ BlockStart \/ TextDelta \/ InputJsonDelta \/ BlockStop
    \/ StreamEnds \/ ManagerExits \/ LastChunks \/ ClientCloses

Closing == CloseRouter \/ CloseProvider \/ CloseClient \/ CloseStream

RouterNext == CallStep \/ Take \/ Abandon \/ Closing

\* The server's stream ends or fails (the client's timeouts), the reader takes a
\* chunk or leaves, and the event loop runs what it has scheduled.
RouterFairness ==
    WF_routerVars(CallStep) /\ WF_routerVars(Take \/ Abandon) /\ WF_routerVars(Closing)

-----------------------------------------------------------------------------
(* Properties *)

\* Every variable of a call holds a value of its kind.
RouterTypeOK ==
    /\ owned \in BOOLEAN
    /\ pc \in {"idle", "call", "open", "sleep", "read", "given", "exit", "last", "close",
               "ended", "raised", "abandoned"}
    /\ attempt \in Nat
    /\ manager \in {"none", "open", "closed"} /\ client \in {"none", "open", "closed"}
    /\ next \in {"read", "usage", "done", "error", "error_status", "close", "raise"}
    /\ out \in Seq({out[i] : i \in DOMAIN out})
    /\ \A i \in DOMAIN tool_blocks : tool_blocks[i] \in Seq(Nat)
    /\ sent \in 0..MaxEvents
    /\ server \in Seq({"text", "tool_use", "stopped"})
    /\ closing \subseteq {"router", "provider", "stream", "client"}

\* The chunks of a type and a block that were given out before the chunk at i.
Before(type, index, i) == {j \in 1..(i - 1) : out[j].type = type /\ out[j].index = index}

\* s is the fragments of a call that were given out before the chunk at i, in order.
AreFragments(s, index, i) ==
    LET deltas == Before("tool_call_delta", index, i)
    IN  /\ Len(s) = Cardinality(deltas)
        /\ \A j \in deltas : s[Cardinality({l \in deltas : l <= j})] = out[j].data

\* A tool call's fragments, and its end, follow its own start and no end of it; its
\* input is all its fragments in order, or empty if they are no JSON, however the
\* blocks of a message are interleaved.
ToolCallsWhole ==
    \A i \in DOMAIN out : out[i].type \in {"tool_call_delta", "tool_call_end"} =>
        /\ Before("tool_call_start", out[i].index, i) # {}
        /\ Before("tool_call_end", out[i].index, i) = {}
        /\ out[i].type = "tool_call_end" =>
              out[i].data = <<>> \/ AreFragments(out[i].data, out[i].index, i)

\* A call that fails to open with an error marked retryable has made every attempt
\* its profile grants; one marked otherwise gave up at once.
RetriesExhausted ==
    \A i \in DOMAIN out :
        out[i].type = "error" /\ manager = "none" =>
            IF out[i].data THEN attempt = MaxAttempts ELSE attempt < MaxAttempts

\* Whatever ends the call (the stream, an error, an exception, a cancellation, a
\* reader that leaves), its connection and its client are closed in the end.
ConnectionsClosed ==
    /\ manager = "open" ~> manager = "closed"
    /\ client = "open" ~> client = "closed"
==============================================================================
