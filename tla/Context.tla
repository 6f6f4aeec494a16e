------------------------------- MODULE Context -------------------------------
(***************************************************************************)
(* The adapters' build_context (harness/adapters/vanilla.py; that of       *)
(* deep_agents.py does the same): the fold of the view of a log into the   *)
(* messages a model is sent.                                               *)
(*                                                                         *)
(* An event has the fields of Compaction and the tool call it is or        *)
(* answers. A message has a role, the position of the event its text comes *)
(* from (0 if it has none), and the calls of its tool_use and tool_result  *)
(* blocks.                                                                 *)
(***************************************************************************)
EXTENDS Compaction, SequencesExt

Message(role, text, uses, results) ==
    [role |-> role, text |-> text, uses |-> uses, results |-> results]

\* build_context's locals: messages, pending_text, pending_tool_uses and
\* pending_tool_results.
Nothing == [messages |-> <<>>, text |-> 0, uses |-> <<>>, results |-> <<>>]

FlushAssistant(s) ==
    IF s.text = 0 /\ s.uses = <<>> THEN s
    ELSE [s EXCEPT !.messages = Append(@, Message("assistant", s.text, s.uses, <<>>)),
                   !.text = 0, !.uses = <<>>]

FlushToolResults(s) ==
    IF s.results = <<>> THEN s
    ELSE [s EXCEPT !.messages = Append(@, Message("tool", 0, <<>>, s.results)),
                   !.results = <<>>]

Flush(s) == FlushToolResults(FlushAssistant(s))

Say(s, role, n) ==
    [Flush(s) EXCEPT !.messages = Append(@, Message(role, n, <<>>, <<>>))]

\* Variant: a call after results joins the assistant message before them.
AddCallUnflushed(s, call) == [s EXCEPT !.uses = Append(@, call)]

AddCall(s, call) ==
    LET t == IF s.results = <<>> THEN s ELSE Flush(s)
    IN  [t EXCEPT !.uses = Append(@, call)]

\* Variant: ... before the assistant's message is flushed.
AddResultSkippedFirst(s, call, calls) ==
    IF call \in calls THEN [FlushAssistant(s) EXCEPT !.results = Append(@, call)] ELSE s

\* A result whose call is not in the view is skipped.
AddResult(s, call, calls) ==
    LET t == FlushAssistant(s)
    IN  IF call \in calls THEN [t EXCEPT !.results = Append(@, call)] ELSE t

\* One round of build_context's loop. A closer is an assistant_message with
\* is_complete; deltas, harness events, errors and other system events add nothing.
AddEvent(s, e, n, calls) ==
    CASE e.kind = "prompt" -> Say(s, "system", n)
      [] e.kind = "user"   -> Say(s, "user", n)
      [] e.kind = "closer" -> [FlushToolResults(s) EXCEPT !.text = n]
      [] e.kind = "call"   -> AddCall(s, e.call)
      [] e.kind = "result" -> AddResult(s, e.call, calls)
      [] OTHER             -> s

\* build_context of the events of a log at the positions in view: one round for each.
BuildContext(log, view) ==
    LET calls == {log[n].call : n \in {m \in view : log[m].kind = "call"}}
        state[n \in 0..Len(log)] ==
            IF n = 0 THEN Nothing
            ELSE IF n \in view THEN AddEvent(state[n - 1], log[n], n, calls)
            ELSE state[n - 1]
    IN  Flush(state[Len(log)]).messages

\* The message at j comes next after the one at i in what the Anthropic provider sends
\* as the conversation: _split_system moves the system messages out of it.
NextInConversation(messages, i, j) ==
    /\ i < j /\ messages[i].role # "system" /\ messages[j].role # "system"
    /\ \A k \in (i + 1)..(j - 1) : messages[k].role = "system"

\* Every assistant message with tool_use blocks is followed by the message with
\* exactly their results, and results come nowhere else.
Paired(messages) ==
    /\ \A i \in DOMAIN messages : messages[i].uses # <<>> =>
          \E j \in DOMAIN messages : /\ NextInConversation(messages, i, j)
                                     /\ ToSet(messages[j].results) = ToSet(messages[i].uses)
    /\ \A j \in DOMAIN messages : messages[j].results # <<>> =>
          \E i \in DOMAIN messages : /\ NextInConversation(messages, i, j)
                                     /\ ToSet(messages[i].uses) = ToSet(messages[j].results)

\* Half of it: results come right after the message that has their calls, and that may
\* have others.
ResultsFollow(messages) ==
    \A j \in DOMAIN messages : messages[j].results # <<>> =>
       \E i \in DOMAIN messages : /\ NextInConversation(messages, i, j)
                                  /\ ToSet(messages[j].results) \subseteq ToSet(messages[i].uses)

\* The texts of the messages are those of events in said, each at most once and in the
\* order of the log ...
TextsInOrder(messages, said) ==
    /\ \A i \in DOMAIN messages : messages[i].text # 0 => messages[i].text \in said
    /\ \A i, j \in DOMAIN messages :
          i < j /\ messages[i].text # 0 /\ messages[j].text # 0 => messages[i].text < messages[j].text

\* ... and none is missing.
NoTextMissing(messages, said) ==
    \A n \in said : \E i \in DOMAIN messages : messages[i].text = n
==============================================================================
