----------------------------- MODULE ModelStream -----------------------------
(***************************************************************************)
(* What a model provider promises the reader of a completion               *)
(* (router/providers/base.py, ProviderInterface): "any mix of text_deltas  *)
(* and tool_call events, followed by a single usage chunk, followed by     *)
(* done"; a failure ends the stream with one error chunk. The stream may   *)
(* also stop anywhere: the call raises, or its reader leaves.              *)
(* Router implements this specification (ModelCall!Promise).               *)
(***************************************************************************)
EXTENDS Naturals, Sequences

VARIABLES types,   \* the types of the chunks given out
          over     \* there will be no more

Content == {"text_delta", "tool_call_start", "tool_call_delta", "tool_call_end"}

\* Neither the usage nor an error is out.
Streaming == ~ over /\ \A i \in 1..Len(types) : types[i] \in Content

Init == types = <<>> /\ over = FALSE

Give(type) == types' = Append(types, type)

ContentChunk == Streaming /\ UNCHANGED over /\ \E type \in Content : Give(type)

UsageChunk == Streaming /\ UNCHANGED over /\ Give("usage")

DoneChunk ==
    /\ ~ over /\ types # <<>> /\ types[Len(types)] = "usage"
    /\ Give("done") /\ UNCHANGED over

ErrorChunk == Streaming /\ Give("error") /\ UNCHANGED over

Stop == over' = TRUE /\ UNCHANGED types

Next == ContentChunk \/ UsageChunk \/ DoneChunk \/ ErrorChunk \/ Stop

Spec == Init /\ [][Next]_<<types, over>>
==============================================================================
