--------------------------- MODULE ModelCallProofs ----------------------------
(***************************************************************************)
(* Proofs about ModelCall, for any file systems and profiles, and blocks   *)
(* and events of any number.                                               *)
(***************************************************************************)
EXTENDS ModelCall, FiniteSetTheorems, SequenceTheorems, WellFoundedInduction, TLAPS

Content == {"text_delta", "tool_call_start", "tool_call_delta", "tool_call_end"}

OnlyContent == \A i \in DOMAIN out : out[i].type \in Content

LastIsUsage == out # <<>> /\ out[Len(out)].type = "usage"

\* Where the call is tells what it has given out: content until the stream is left,
\* and still then before the one error, or the usage that done follows.
GivenOK ==
    /\ pc \in {"idle", "call", "open", "sleep", "read", "exit"} => OnlyContent
    /\ pc = "exit" => next \in {"usage", "error", "error_status", "raise"}
    /\ pc = "given" => /\ next \in {"read", "done", "close"}
                       /\ next = "read" => OnlyContent
                       /\ next = "done" => LastIsUsage
    /\ pc = "last" => /\ next \in {"usage", "error", "error_status", "done"}
                      /\ IF next = "done" THEN LastIsUsage ELSE OnlyContent

\* The strengthened invariant.
InductiveInvariant == RouterTypeOK /\ GivenOK

-----------------------------------------------------------------------------
(* Sequences of chunks *)

\* The chunks of a sequence are the elements of a sequence over them, and so they are
\* when there is one more.
LEMMA OneMore ==
    ASSUME NEW S, NEW s \in Seq(S), NEW c
    PROVE  /\ Append(s, c) \in Seq({Append(s, c)[i] : i \in DOMAIN Append(s, c)})
           /\ Len(s) \in Nat /\ Len(Append(s, c)) = Len(s) + 1
           /\ DOMAIN s = 1..Len(s) /\ DOMAIN Append(s, c) = 1..(Len(s) + 1)
           /\ Append(s, c)[Len(s) + 1] = c
           /\ \A i \in DOMAIN s : Append(s, c)[i] = s[i]
<1>.  DEFINE t == Append(s, c)
<1>1. s \in Seq(S \cup {c}) /\ c \in S \cup {c}
      OBVIOUS
<1>2. /\ t \in Seq(S \cup {c}) /\ Len(s) \in Nat /\ Len(t) = Len(s) + 1
      /\ DOMAIN s = 1..Len(s) /\ DOMAIN t = 1..(Len(s) + 1)
      /\ t[Len(s) + 1] = c
      /\ \A i \in DOMAIN s : t[i] = s[i]
      BY <1>1
<1>.  HIDE DEF t
<1>3. t \in Seq({t[i] : i \in DOMAIN t})
      BY <1>2
<1>.  QED  BY <1>2, <1>3 DEF t

\* The types of the chunks given out: what ModelStream is about.
Types == [i \in DOMAIN out |-> out[i].type]

\* A chunk given out is the last of them.
LEMMA YieldShape ==
    ASSUME RouterTypeOK, NEW c, NEW step, Yield(c, step)
    PROVE  /\ out' \in Seq({out'[i] : i \in DOMAIN out'})
           /\ Types \in Seq({Types[i] : i \in DOMAIN Types})
           /\ Types' = Append(Types, c.type) /\ Len(Types) = Len(out)
           /\ out' # <<>> /\ out'[Len(out')] = c
           /\ OnlyContent /\ c.type \in Content => OnlyContent'
           /\ pc' = "given" /\ next' = step
<1>.  DEFINE S == {out[i] : i \in DOMAIN out}
<1>1. out \in Seq(S) /\ out' = Append(out, c) /\ pc' = "given" /\ next' = step
      BY DEF RouterTypeOK, Yield, Goto
<1>.  HIDE DEF S
<1>2. /\ out' \in Seq({out'[i] : i \in DOMAIN out'})
      /\ Len(out) \in Nat /\ Len(out') = Len(out) + 1
      /\ DOMAIN out = 1..Len(out) /\ DOMAIN out' = 1..(Len(out) + 1)
      /\ out'[Len(out) + 1] = c
      /\ \A i \in DOMAIN out : out'[i] = out[i]
      BY <1>1, OneMore
<1>3. /\ Types \in Seq({Types[i] : i \in DOMAIN Types}) /\ Len(Types) = Len(out)
      /\ DOMAIN Types = 1..Len(out) /\ \A i \in DOMAIN out : Types[i] = out[i].type
      BY <1>2 DEF Types
<1>4. Types' = Append(Types, c.type)
  <2>1. /\ Append(Types, c.type) \in Seq({Append(Types, c.type)[i] :
                                            i \in DOMAIN Append(Types, c.type)})
        /\ DOMAIN Append(Types, c.type) = 1..(Len(out) + 1)
        /\ Append(Types, c.type)[Len(out) + 1] = c.type
        /\ \A i \in DOMAIN Types : Append(Types, c.type)[i] = Types[i]
        BY <1>3, OneMore
  <2>2. Append(Types, c.type) = [i \in 1..(Len(out) + 1) |-> Append(Types, c.type)[i]]
        BY <2>1
  <2>3. \A i \in 1..(Len(out) + 1) : Append(Types, c.type)[i] = out'[i].type
    <3>1. \A i \in DOMAIN out : Append(Types, c.type)[i] = out'[i].type
      <4>1. \A i \in DOMAIN out : Append(Types, c.type)[i] = Types[i]
            BY <1>2, <1>3, <2>1
      <4>.  QED  BY <1>2, <1>3, <4>1
    <3>2. Append(Types, c.type)[Len(out) + 1] = out'[Len(out) + 1].type
          BY <1>2, <2>1
    <3>3. \A i \in 1..(Len(out) + 1) : i \in DOMAIN out \/ i = Len(out) + 1
          BY <1>2
    <3>.  QED  BY <3>1, <3>2, <3>3
  <2>.  QED  BY <1>2, <2>2, <2>3 DEF Types
<1>5. out' # <<>>
      BY <1>2
<1>6. OnlyContent /\ c.type \in Content => OnlyContent'
      BY <1>2 DEF OnlyContent
<1>.  QED  BY <1>1, <1>2, <1>3, <1>4, <1>5, <1>6

-----------------------------------------------------------------------------
(* The types *)

LEMMA InitInvariant ==
    ASSUME Init
    PROVE  InductiveInvariant
<1>1. <<>> \in Seq({<<>>[i] : i \in DOMAIN <<>>}) /\ DOMAIN <<>> = {}
      OBVIOUS
<1>2. RouterTypeOK
      BY <1>1, RouterAssumption DEF Init, RouterInit, RouterTypeOK
<1>.  QED  BY <1>1, <1>2 DEF Init, RouterInit, InductiveInvariant, GivenOK, OnlyContent

\* The steps of a call that give nothing out.
SilentStep ==
    \/ UnknownProvider \/ Call \/ Opened \/ Slept \/ OpenRaises \/ StreamEnds
    \/ ManagerExits \/ ClientCloses \/ Take \/ Abandon \/ Closing

LEMMA TypesOfSilent ==
    ASSUME RouterTypeOK, SilentStep
    PROVE  RouterTypeOK'
<1>.  USE DEF RouterTypeOK, serverVars, Goto
<1>1. CASE UnknownProvider \/ Call \/ Opened \/ Slept \/ OpenRaises
      BY <1>1 DEF UnknownProvider, Call, Opened, Slept, OpenRaises
<1>2. CASE StreamEnds \/ ManagerExits \/ ClientCloses \/ Take \/ Abandon
      BY <1>2 DEF StreamEnds, ManagerExits, ClientCloses, Take, Abandon
<1>3. CASE Closing
  <2>1. CASE CloseRouter \/ CloseProvider
    <3>1. closing' \subseteq closing \cup {"provider", "stream", "client"}
          BY <2>1 DEF CloseRouter, CloseProvider
    <3>2. UNCHANGED <<owned, pc, attempt, manager, client, tool_blocks, next, out, sent, server>>
          BY <2>1 DEF CloseRouter, CloseProvider
    <3>.  QED  BY <3>1, <3>2
  <2>2. CASE CloseClient
        BY <2>2 DEF CloseClient
  <2>3. CASE CloseStream
        BY <2>3 DEF CloseStream
  <2>.  QED  BY <1>3, <2>1, <2>2, <2>3 DEF Closing
<1>.  QED  BY <1>1, <1>2, <1>3 DEF SilentStep

\* The last chunks: done or an error, or the usage before done.
LEMMA LastShape ==
    ASSUME GivenOK, LastChunks
    PROVE  \E c, step : /\ Yield(c, step)
                        /\ \/ OnlyContent /\ c.type = "usage" /\ step = "done"
                           \/ OnlyContent /\ c.type = "error" /\ step = "close"
                           \/ LastIsUsage /\ c.type = "done" /\ step = "close"
<1>1. /\ next \in {"usage", "error", "error_status", "done"}
      /\ IF next = "done" THEN LastIsUsage ELSE OnlyContent
      BY DEF GivenOK, LastChunks
<1>2. \A type, data : Chunk(type, 0, data).type = type
      BY DEF Chunk
<1>3. CASE next = "usage"
  <2>1. Yield(Chunk("usage", 0, 0), "done")
        BY <1>3 DEF LastChunks
  <2>.  QED  BY <1>1, <1>2, <1>3, <2>1
<1>4. CASE next \in {"error", "error_status"}
  <2>1. \E retryable : Yield(Chunk("error", 0, retryable), "close")
        BY <1>4 DEF LastChunks
  <2>.  QED  BY <1>1, <1>2, <1>4, <2>1
<1>5. CASE next = "done"
  <2>1. Yield(Chunk("done", 0, 0), "close")
        BY <1>5 DEF LastChunks
  <2>.  QED  BY <1>1, <1>2, <1>5, <2>1
<1>.  QED  BY <1>1, <1>3, <1>4, <1>5

LEMMA TypesOfOpening ==
    ASSUME RouterTypeOK, OpenRejected \/ OpenFails \/ LastChunks, GivenOK
    PROVE  RouterTypeOK'
<1>1. CASE OpenRejected
      BY <1>1, YieldShape DEF OpenRejected, RouterTypeOK, serverVars
<1>2. CASE OpenFails
  <2>1. attempt' \in Nat
        BY <1>2 DEF OpenFails, RouterTypeOK
  <2>2. CASE Yield(Chunk("error", 0, TRUE), "close")
        BY <1>2, <2>1, <2>2, YieldShape DEF OpenFails, RouterTypeOK, serverVars
  <2>3. CASE Goto("sleep") /\ UNCHANGED <<next, out>>
        BY <1>2, <2>1, <2>3 DEF OpenFails, RouterTypeOK, serverVars, Goto
  <2>.  QED  BY <1>2, <2>2, <2>3 DEF OpenFails
<1>3. CASE LastChunks
  <2>1. PICK c, step : Yield(c, step) /\ step \in {"done", "close"}
        BY <1>3, LastShape
  <2>.  QED  BY <1>3, <2>1, YieldShape DEF LastChunks, RouterTypeOK, serverVars
<1>.  QED  BY <1>1, <1>2, <1>3

LEMMA TypesOfStream ==
    ASSUME RouterTypeOK, BlockStart \/ TextDelta \/ InputJsonDelta \/ BlockStop
    PROVE  RouterTypeOK'
<1>1. /\ sent \in Nat /\ sent' \in 0..MaxEvents
      /\ UNCHANGED <<profile, owned, attempt, manager, client, closing>>
      BY RouterAssumption DEF BlockStart, TextDelta, InputJsonDelta, BlockStop, Event, RouterTypeOK
<1>2. \/ \E c : Yield(c, "read")
      \/ UNCHANGED <<pc, next, out>>
      BY DEF BlockStart, TextDelta, InputJsonDelta, BlockStop
<1>3. /\ out' \in Seq({out'[i] : i \in DOMAIN out'})
      /\ pc' \in {pc, "given"} /\ next' \in {next, "read"}
      BY <1>2, YieldShape DEF RouterTypeOK
<1>4. server' \in Seq({"text", "tool_use", "stopped"})
  <2>1. CASE BlockStart
        BY <2>1 DEF BlockStart, RouterTypeOK
  <2>2. CASE BlockStop
        BY <2>2 DEF BlockStop, RouterTypeOK
  <2>3. CASE TextDelta \/ InputJsonDelta
        BY <2>3 DEF TextDelta, InputJsonDelta, RouterTypeOK
  <2>.  QED  BY <2>1, <2>2, <2>3
<1>5. \A i \in DOMAIN tool_blocks' : tool_blocks'[i] \in Seq(Nat)
  <2>1. CASE BlockStart
    <3>1. PICK index : \/ tool_blocks' = [i \in DOMAIN tool_blocks \cup {index} |->
                                            IF i = index THEN <<>> ELSE tool_blocks[i]]
                       \/ tool_blocks' = tool_blocks
          BY <2>1 DEF BlockStart
    <3>2. <<>> \in Seq(Nat)
          OBVIOUS
    <3>3. CASE tool_blocks' = [i \in DOMAIN tool_blocks \cup {index} |->
                                  IF i = index THEN <<>> ELSE tool_blocks[i]]
          BY <3>2, <3>3 DEF RouterTypeOK
    <3>.  QED  BY <3>1, <3>3 DEF RouterTypeOK
  <2>2. CASE BlockStop
    <3>1. \/ \E i : tool_blocks' = [j \in DOMAIN tool_blocks \ {i} |-> tool_blocks[j]]
          \/ tool_blocks' = tool_blocks
          BY <2>2 DEF BlockStop
    <3>.  QED  BY <3>1 DEF RouterTypeOK
  <2>3. CASE InputJsonDelta
        BY <1>1, <2>3 DEF InputJsonDelta, RouterTypeOK
  <2>4. CASE TextDelta
        BY <2>4 DEF TextDelta, RouterTypeOK
  <2>.  QED  BY <2>1, <2>2, <2>3, <2>4
<1>.  QED  BY <1>1, <1>3, <1>4, <1>5 DEF RouterTypeOK

LEMMA TypesStep ==
    ASSUME InductiveInvariant, [Next]_vars
    PROVE  RouterTypeOK'
<1>0. RouterTypeOK /\ GivenOK
      BY DEF InductiveInvariant
<1>1. CASE UNCHANGED routerVars
      BY <1>0, <1>1 DEF routerVars, callVars, serverVars, RouterTypeOK
<1>2. CASE Complete
      BY <1>0, <1>2 DEF Complete, serverVars, RouterTypeOK
<1>3. CASE RouterNext
      BY <1>0, <1>3, TypesOfSilent, TypesOfOpening, TypesOfStream
      DEF RouterNext, CallStep, SilentStep
<1>.  QED  BY <1>1, <1>2, <1>3 DEF Next, Load, vars

-----------------------------------------------------------------------------
(* What is given out, and when *)

\* The events of the stream give out content, or nothing.
LEMMA StreamShape ==
    ASSUME BlockStart \/ TextDelta \/ InputJsonDelta \/ BlockStop
    PROVE  UNCHANGED <<pc, next, out>> \/ \E c : c.type \in Content /\ Yield(c, "read")
<1>1. \A type, index, data : Chunk(type, index, data).type = type
      BY DEF Chunk
<1>2. CASE BlockStart
      BY <1>1, <1>2 DEF BlockStart, Content
<1>3. CASE TextDelta \/ InputJsonDelta
      BY <1>1, <1>3 DEF TextDelta, InputJsonDelta, Content
<1>4. CASE BlockStop
      BY <1>1, <1>4 DEF BlockStop, Content
<1>.  QED  BY <1>2, <1>3, <1>4

LEMMA GivenStep ==
    ASSUME InductiveInvariant, [Next]_vars
    PROVE  GivenOK'
<1>0. RouterTypeOK /\ GivenOK
      BY DEF InductiveInvariant
<1>1. CASE UNCHANGED routerVars
      BY <1>0, <1>1 DEF routerVars, callVars, GivenOK, OnlyContent, LastIsUsage
<1>2. CASE Complete
      BY <1>0, <1>2 DEF Complete, GivenOK, OnlyContent
<1>3. CASE SilentStep
  <2>1. out' = out
        BY <1>3 DEF SilentStep, UnknownProvider, Call, Opened, Slept, OpenRaises, StreamEnds,
              ManagerExits, ClientCloses, Take, Abandon, Closing, CloseRouter, CloseProvider,
              CloseClient, CloseStream
  <2>2. OnlyContent' = OnlyContent /\ LastIsUsage' = LastIsUsage
        BY <2>1 DEF OnlyContent, LastIsUsage
  <2>3. CASE UnknownProvider \/ Call \/ Opened \/ Slept \/ OpenRaises
        BY <1>0, <2>2, <2>3 DEF UnknownProvider, Call, Opened, Slept, OpenRaises, Goto, GivenOK
  <2>4. CASE StreamEnds \/ ManagerExits
        BY <1>0, <2>2, <2>4 DEF StreamEnds, ManagerExits, Goto, GivenOK
  <2>5. CASE ClientCloses \/ Take \/ Abandon
        BY <1>0, <2>2, <2>5 DEF ClientCloses, Take, Abandon, Goto, GivenOK
  <2>6. CASE Closing
        BY <1>0, <2>2, <2>6
        DEF Closing, CloseRouter, CloseProvider, CloseClient, CloseStream, GivenOK
  <2>.  QED  BY <1>3, <2>3, <2>4, <2>5, <2>6 DEF SilentStep
<1>4. CASE OpenRejected \/ OpenFails
  <2>1. ASSUME NEW c, Yield(c, "close")
        PROVE  GivenOK'
    <3>1. pc' = "given" /\ next' = "close"
          BY <2>1 DEF Yield, Goto
    <3>.  QED  BY <3>1 DEF GivenOK
  <2>2. CASE Goto("sleep") /\ UNCHANGED <<next, out>>
        BY <1>0, <1>4, <2>2 DEF OpenRejected, OpenFails, Goto, GivenOK, OnlyContent
  <2>.  QED  BY <1>4, <2>1, <2>2 DEF OpenRejected, OpenFails
<1>5. CASE BlockStart \/ TextDelta \/ InputJsonDelta \/ BlockStop
  <2>1. OnlyContent /\ pc = "read"
        BY <1>0, <1>5 DEF BlockStart, TextDelta, InputJsonDelta, BlockStop, Event, GivenOK
  <2>2. UNCHANGED <<pc, next, out>> \/ \E c : c.type \in Content /\ Yield(c, "read")
        BY <1>5, StreamShape
  <2>3. CASE UNCHANGED <<pc, next, out>>
        BY <1>0, <2>3 DEF GivenOK, OnlyContent, LastIsUsage
  <2>4. ASSUME NEW c, c.type \in Content, Yield(c, "read")
        PROVE  GivenOK'
    <3>1. pc' = "given" /\ next' = "read" /\ OnlyContent'
          BY <1>0, <2>1, <2>4, YieldShape
    <3>.  QED  BY <3>1 DEF GivenOK
  <2>.  QED  BY <2>2, <2>3, <2>4
<1>6. CASE LastChunks
  <2>1. PICK c, step : Yield(c, step) /\ (step = "close" \/ (step = "done" /\ c.type = "usage"))
        BY <1>0, <1>6, LastShape
  <2>2. pc' = "given" /\ next' = step /\ out' # <<>> /\ out'[Len(out')] = c
        BY <1>0, <2>1, YieldShape
  <2>.  QED  BY <2>1, <2>2 DEF GivenOK, LastIsUsage
<1>.  QED  BY <1>1, <1>2, <1>3, <1>4, <1>5, <1>6
           DEF Next, Load, RouterNext, CallStep, SilentStep, vars

\* The strengthened invariant is one of a model call: types, and what has been given
\* out by where the call is.
THEOREM InductiveInvariantHolds == Spec => []InductiveInvariant
<1>1. InductiveInvariant /\ [Next]_vars => InductiveInvariant'
      BY TypesStep, GivenStep DEF InductiveInvariant
<1>.  QED  BY <1>1, InitInvariant, PTL DEF Spec

\* Every variable of ModelRouter.complete and AnthropicProvider._stream holds a value
\* of its kind.
THEOREM TypeCorrect == Spec => []RouterTypeOK
<1>1. InductiveInvariant => RouterTypeOK
      BY DEF InductiveInvariant
<1>.  QED  BY <1>1, InductiveInvariantHolds, PTL

-----------------------------------------------------------------------------
(* ModelStream *)

StreamOver == pc \in {"ended", "raised", "abandoned"}

\* While it has given out content only, the stream of ModelStream goes on.
LEMMA StillStreaming ==
    ASSUME RouterTypeOK, OnlyContent, ~ StreamOver
    PROVE  Promise!Streaming
<1>.  DEFINE S == {out[i] : i \in DOMAIN out}
<1>1. out \in Seq(S)
      BY DEF RouterTypeOK
<1>.  HIDE DEF S
<1>2. DOMAIN out = 1..Len(out) /\ Len(out) \in Nat
      BY <1>1
<1>3. Types \in Seq(Content) /\ Len(Types) = Len(out)
      BY <1>2 DEF OnlyContent, Types
<1>.  QED  BY <1>3 DEF Promise!Streaming, Promise!Content, Types, StreamOver, Content

\* A chunk is content while the stream goes on, its one error, the usage, or done
\* after the usage.
LEMMA YieldImplements ==
    ASSUME RouterTypeOK, ~ StreamOver, NEW c, NEW step, Yield(c, step),
           \/ OnlyContent /\ c.type \in Content \cup {"usage", "error"}
           \/ LastIsUsage /\ c.type = "done"
    PROVE  Promise!Next
<1>1. Types' = Append(Types, c.type) /\ pc' = "given"
      BY YieldShape
<1>2. Promise!Give(c.type) /\ ~ StreamOver /\ ~ StreamOver'
      BY <1>1 DEF Promise!Give, Types, StreamOver
<1>3. CASE OnlyContent /\ c.type \in Content \cup {"usage", "error"}
  <2>1. Promise!Streaming
        BY <1>3, StillStreaming
  <2>.  QED  BY <1>2, <1>3, <2>1
             DEF Promise!Next, Promise!ContentChunk, Promise!UsageChunk, Promise!ErrorChunk,
                 Promise!Content, Content, StreamOver
<1>4. CASE LastIsUsage /\ c.type = "done"
  <2>.  DEFINE S == {out[i] : i \in DOMAIN out}
  <2>1. out \in Seq(S)
        BY DEF RouterTypeOK
  <2>.  HIDE DEF S
  <2>2. DOMAIN out = 1..Len(out) /\ Len(out) \in Nat /\ Len(out) # 0
        BY <1>4, <2>1 DEF LastIsUsage
  <2>3. Len(out) \in DOMAIN out
        BY <2>2
  <2>4. Len(Types) = Len(out)
        BY YieldShape
  <2>5. Types[Len(Types)] = "usage"
        BY <1>4, <2>3, <2>4 DEF LastIsUsage, Types
  <2>6. Types # <<>>
    <3>1. Len(<<>>) = 0
          OBVIOUS
    <3>.  QED  BY <2>2, <2>4, <3>1
  <2>.  QED  BY <1>2, <1>4, <2>5, <2>6 DEF Promise!Next, Promise!DoneChunk, Types, StreamOver
<1>.  QED  BY <1>3, <1>4

LEMMA PromiseInit ==
    ASSUME Init
    PROVE  Promise!Init
<1>1. out = <<>> /\ pc = "idle"
      BY DEF Init, RouterInit
<1>2. Types = <<>>
      BY <1>1 DEF Types
<1>.  QED  BY <1>1, <1>2 DEF Promise!Init, Types

\* What ModelStream sees of a step: nothing, the end, or a chunk.
LEMMA PromiseStep ==
    ASSUME InductiveInvariant, [Next]_vars
    PROVE  [Promise!Next]_<<Types, StreamOver>>
<1>0. RouterTypeOK /\ GivenOK
      BY DEF InductiveInvariant
<1>.  DEFINE Quiet == out' = out /\ (StreamOver' <=> StreamOver)
<1>1. CASE Quiet
  <2>1. Types' = Types /\ StreamOver' = StreamOver
        BY <1>1 DEF Types, StreamOver
  <2>.  QED  BY <2>1
<1>2. CASE out' = out /\ StreamOver'
  <2>1. Types' = Types /\ StreamOver' = TRUE
        BY <1>2 DEF Types, StreamOver
  <2>2. Promise!Stop
        BY <2>1 DEF Promise!Stop, Types, StreamOver
  <2>.  QED  BY <2>2 DEF Promise!Next
<1>3. CASE UNCHANGED routerVars \/ Complete
      BY <1>1, <1>3 DEF routerVars, callVars, Complete, StreamOver
<1>4. CASE SilentStep
  <2>1. CASE UnknownProvider \/ Abandon \/ ClientCloses
        BY <1>2, <2>1 DEF UnknownProvider, Abandon, ClientCloses, Goto, StreamOver
  <2>2. CASE Call \/ Opened \/ Slept \/ OpenRaises \/ StreamEnds \/ ManagerExits \/ Take
        BY <1>1, <2>2 DEF Call, Opened, Slept, OpenRaises, StreamEnds, ManagerExits, Take, Goto,
              StreamOver
  <2>3. CASE Closing
        BY <1>1, <2>3 DEF Closing, CloseRouter, CloseProvider, CloseClient, CloseStream, StreamOver
  <2>.  QED  BY <1>4, <2>1, <2>2, <2>3 DEF SilentStep
<1>5. CASE OpenRejected \/ OpenFails
  <2>1. pc = "open" /\ OnlyContent /\ ~ StreamOver
        BY <1>0, <1>5 DEF OpenRejected, OpenFails, GivenOK, StreamOver
  <2>2. CASE \E retryable : Yield(Chunk("error", 0, retryable), "close")
    <3>1. \A retryable : Chunk("error", 0, retryable).type = "error"
          BY DEF Chunk
    <3>.  QED  BY <1>0, <2>1, <2>2, <3>1, YieldImplements
  <2>3. CASE Goto("sleep") /\ out' = out
        BY <1>1, <2>1, <2>3 DEF Goto, StreamOver
  <2>.  QED  BY <1>5, <2>2, <2>3 DEF OpenRejected, OpenFails
<1>6. CASE BlockStart \/ TextDelta \/ InputJsonDelta \/ BlockStop
  <2>1. pc = "read" /\ OnlyContent /\ ~ StreamOver
        BY <1>0, <1>6 DEF BlockStart, TextDelta, InputJsonDelta, BlockStop, Event, GivenOK,
              StreamOver
  <2>2. CASE UNCHANGED <<pc, next, out>>
        BY <1>1, <2>2 DEF StreamOver
  <2>3. CASE \E c : c.type \in Content /\ Yield(c, "read")
        BY <1>0, <2>1, <2>3, YieldImplements
  <2>.  QED  BY <1>6, <2>2, <2>3, StreamShape
<1>7. CASE LastChunks
  <2>1. ~ StreamOver
        BY <1>7 DEF LastChunks, StreamOver
  <2>2. \E c, step : /\ Yield(c, step)
                     /\ \/ OnlyContent /\ c.type \in Content \cup {"usage", "error"}
                        \/ LastIsUsage /\ c.type = "done"
        BY <1>0, <1>7, LastShape
  <2>.  QED  BY <1>0, <2>1, <2>2, YieldImplements
<1>.  QED  BY <1>3, <1>4, <1>5, <1>6, <1>7
           DEF Next, Load, RouterNext, CallStep, SilentStep, vars

\* ProviderInterface: whatever the server and the reader do, what a call gives out is content,
\* then one error, or the usage and then done, and nothing after its end.
THEOREM PromiseKept == Spec => ImplementsModelStream
<1>1. InductiveInvariant /\ [Next]_vars => [Promise!Next]_<<Types, StreamOver>>
      BY PromiseStep
<1>.  QED  BY <1>1, PromiseInit, InductiveInvariantHolds, PTL
           DEF Spec, ImplementsModelStream, Promise!Spec, Types, StreamOver

-----------------------------------------------------------------------------
(* The retries *)

\* A retry is open to the call while it opens the stream; once it is open, no error
\* counts as a failure to open it.
RetriesOK ==
    /\ pc \in {"idle", "call"} => attempt = 0
    /\ pc \in {"open", "sleep"} => attempt < MaxAttempts
    /\ pc \in {"read", "exit", "last"} => manager # "none"
    /\ pc = "given" /\ next \in {"read", "done"} => manager # "none"
    /\ RetriesExhausted

RetriesInvariant == InductiveInvariant /\ RetriesOK

\* ErrorHandling: max_retries is a Field with ge=0.
RetriesValid == profile.max_retries \in Nat

\* What a chunk given out asks for.
LEMMA RetriesYield ==
    ASSUME RouterTypeOK, RetriesExhausted, NEW c, NEW step, Yield(c, step),
           manager' = manager, MaxAttempts' = MaxAttempts,
           OnlyContent \/ attempt' = attempt,
           manager = "none" /\ c.type = "error" =>
              IF c.data THEN attempt' = MaxAttempts ELSE attempt' < MaxAttempts
    PROVE  RetriesExhausted'
<1>.  DEFINE S == {out[i] : i \in DOMAIN out}
<1>1. out \in Seq(S) /\ out' = Append(out, c)
      BY DEF RouterTypeOK, Yield
<1>.  HIDE DEF S
<1>2. /\ DOMAIN out' = DOMAIN out \cup {Len(out) + 1} /\ out'[Len(out) + 1] = c
      /\ \A i \in DOMAIN out : out'[i] = out[i]
      BY <1>1
<1>3. CASE OnlyContent
      BY <1>2, <1>3 DEF RetriesExhausted, OnlyContent, Content
<1>4. CASE attempt' = attempt
      BY <1>2, <1>4 DEF RetriesExhausted
<1>.  QED  BY <1>3, <1>4

LEMMA RetriesStep ==
    ASSUME RetriesInvariant, [Next]_vars, RetriesValid, RetriesValid'
    PROVE  RetriesOK'
<1>0. RouterTypeOK /\ GivenOK /\ RetriesOK /\ RetriesExhausted /\ attempt \in Nat
      BY DEF RetriesInvariant, InductiveInvariant, RetriesOK, RouterTypeOK
<1>1. CASE UNCHANGED routerVars
      BY <1>0, <1>1 DEF routerVars, callVars, RetriesOK, RetriesExhausted, MaxAttempts
<1>2. CASE Complete
  <2>1. OnlyContent /\ out' = out /\ pc' = "call" /\ attempt' = 0
        BY <1>0, <1>2 DEF Complete, GivenOK, RetriesOK
  <2>2. RetriesExhausted'
        BY <2>1 DEF OnlyContent, Content, RetriesExhausted
  <2>.  QED  BY <2>1, <2>2 DEF RetriesOK
<1>3. CASE RouterNext
  <2>1. profile' = profile /\ MaxAttempts' = MaxAttempts
        BY <1>3 DEF RouterNext, CallStep, UnknownProvider, Call, Opened, OpenRejected, OpenFails,
              Slept, OpenRaises, BlockStart, TextDelta, InputJsonDelta, BlockStop, Event,
              StreamEnds, ManagerExits, LastChunks, ClientCloses, Take, Abandon, Closing,
              CloseRouter, CloseProvider, CloseClient, CloseStream, MaxAttempts
  <2>2. MaxAttempts \in Nat \ {0}
        BY DEF MaxAttempts, RetriesValid
  <2>3. CASE SilentStep
    <3>1. out' = out /\ attempt' = attempt /\ (manager' = "none" => manager = "none")
          BY <2>3 DEF SilentStep, UnknownProvider, Call, Opened, Slept, OpenRaises, StreamEnds,
                ManagerExits, ClientCloses, Take, Abandon, Closing, CloseRouter, CloseProvider,
                CloseClient, CloseStream
    <3>2. RetriesExhausted'
          BY <1>0, <2>1, <3>1 DEF RetriesExhausted
    <3>3. CASE UnknownProvider \/ Call \/ Opened \/ Slept \/ OpenRaises
          BY <1>0, <2>1, <2>2, <3>2, <3>3
          DEF UnknownProvider, Call, Opened, Slept, OpenRaises, Goto, RetriesOK
    <3>4. CASE StreamEnds \/ ManagerExits
          BY <1>0, <3>2, <3>4 DEF StreamEnds, ManagerExits, Goto, RetriesOK
    <3>5. CASE ClientCloses \/ Take \/ Abandon
          BY <1>0, <3>2, <3>5 DEF ClientCloses, Take, Abandon, Goto, RetriesOK, GivenOK
    <3>6. CASE Closing
          BY <1>0, <2>1, <3>1, <3>2, <3>6
          DEF Closing, CloseRouter, CloseProvider, CloseClient, CloseStream, RetriesOK
    <3>.  QED  BY <2>3, <3>3, <3>4, <3>5, <3>6 DEF SilentStep
  <2>4. CASE OpenRejected \/ OpenFails
    <3>1. pc = "open" /\ OnlyContent /\ attempt < MaxAttempts /\ manager' = manager
          BY <1>0, <2>4 DEF OpenRejected, OpenFails, GivenOK, RetriesOK
    <3>2. \A retryable : /\ Chunk("error", 0, retryable).type = "error"
                         /\ Chunk("error", 0, retryable).data = retryable
          BY DEF Chunk
    <3>3. ASSUME NEW retryable, Yield(Chunk("error", 0, retryable), "close"),
                 IF retryable THEN attempt' = MaxAttempts ELSE attempt' < MaxAttempts
          PROVE  RetriesOK'
      <4>1. RetriesExhausted'
            BY <1>0, <2>1, <3>1, <3>2, <3>3, RetriesYield
      <4>.  QED  BY <3>3, <4>1 DEF Yield, Goto, RetriesOK
    <3>4. CASE OpenRejected
          BY <2>1, <3>1, <3>3, <3>4 DEF OpenRejected
    <3>5. CASE OpenFails /\ attempt + 1 < MaxAttempts
      <4>1. out' = out /\ pc' = "sleep" /\ attempt' = attempt + 1
            BY <3>5 DEF OpenFails, Goto
      <4>2. RetriesExhausted'
            BY <3>1, <4>1 DEF RetriesExhausted, OnlyContent, Content
      <4>.  QED  BY <2>1, <3>5, <4>1, <4>2 DEF RetriesOK
    <3>6. CASE OpenFails /\ ~ (attempt + 1 < MaxAttempts)
      <4>1. attempt' = attempt + 1 /\ Yield(Chunk("error", 0, TRUE), "close")
            BY <3>6 DEF OpenFails
      <4>2. attempt' = MaxAttempts
            BY <1>0, <2>2, <3>1, <3>6, <4>1
      <4>.  QED  BY <3>3, <4>1, <4>2
    <3>.  QED  BY <2>4, <3>4, <3>5, <3>6
  <2>5. CASE BlockStart \/ TextDelta \/ InputJsonDelta \/ BlockStop
    <3>1. /\ pc = "read" /\ OnlyContent /\ manager # "none"
          /\ manager' = manager /\ attempt' = attempt
          BY <1>0, <2>5
          DEF BlockStart, TextDelta, InputJsonDelta, BlockStop, Event, GivenOK, RetriesOK
    <3>2. RetriesExhausted'
          BY <3>1 DEF RetriesExhausted
    <3>3. pc' \in {"read", "given"}
          BY <2>5, <3>1, StreamShape DEF Yield, Goto
    <3>.  QED  BY <3>1, <3>2, <3>3 DEF RetriesOK
  <2>6. CASE LastChunks
    <3>1. pc = "last" /\ manager # "none" /\ manager' = manager /\ pc' = "given"
          BY <1>0, <2>6, LastShape DEF LastChunks, RetriesOK, Yield, Goto
    <3>.  QED  BY <3>1 DEF RetriesExhausted, RetriesOK
  <2>.  QED  BY <1>3, <2>3, <2>4, <2>5, <2>6 DEF RouterNext, CallStep, SilentStep
<1>.  QED  BY <1>1, <1>2, <1>3 DEF Next, Load, vars

\* _open_stream_with_retry gives up as retryable with every attempt made that the profile
\* grants, and as final before, provided the schema keeps max_retries from being negative.
THEOREM RetriesAreExhausted == Spec /\ []RetriesValid => []RetriesExhausted
<1>1. Init => RetriesOK
      BY DEF Init, RouterInit, RetriesOK, RetriesExhausted
<1>2. RetriesInvariant /\ [Next]_vars /\ RetriesValid /\ RetriesValid' => RetriesOK'
      BY RetriesStep
<1>3. RetriesInvariant => RetriesExhausted
      BY DEF RetriesInvariant, RetriesOK
<1>4. RetriesInvariant <=> InductiveInvariant /\ RetriesOK
      BY DEF RetriesInvariant
<1>.  QED  BY <1>1, <1>2, <1>3, <1>4, InductiveInvariantHolds, PTL DEF Spec

-----------------------------------------------------------------------------
(* The tool calls of a stream *)

CallChunks == {"tool_call_delta", "tool_call_end"}

OpenCalls == {i - 1 : i \in {j \in DOMAIN server : server[j] = "tool_use"}}

\* An open call's start is out, no end of it is, and its buffer is the fragments that are.
OpenOK(index) ==
    /\ Before("tool_call_start", index, Len(out) + 1) # {}
    /\ Before("tool_call_end", index, Len(out) + 1) = {}
    /\ AreFragments(tool_blocks[index], index, Len(out) + 1)

\* The buffers are those of the server's open tool_use blocks, and no chunk is of a
\* block that is yet to come.
WholeOK ==
    /\ ToolCallsWhole
    /\ DOMAIN tool_blocks = OpenCalls
    /\ \A index \in DOMAIN tool_blocks : OpenOK(index)
    /\ \A j \in DOMAIN out : out[j].type \in CallChunks => out[j].index \in 0..(Len(server) - 1)

\* A step that gives nothing out.
LEMMA BeforeSame ==
    ASSUME out' = out
    PROVE  /\ \A type, index, i : Before(type, index, i)' = Before(type, index, i)
           /\ \A s, index, i : AreFragments(s, index, i)' <=> AreFragments(s, index, i)
           /\ ToolCallsWhole' <=> ToolCallsWhole
<1>1. \A type, index, i : Before(type, index, i)' = Before(type, index, i)
      BY DEF Before
<1>2. \A s, index, i : AreFragments(s, index, i)' <=> AreFragments(s, index, i)
      BY DEF Before, AreFragments
<1>3. ToolCallsWhole' <=> ToolCallsWhole
      BY DEF ToolCallsWhole, Before, AreFragments
<1>.  QED  BY <1>1, <1>2, <1>3

\* ... and leaves a buffer alone.
LEMMA OpenSame ==
    ASSUME out' = out, NEW index, tool_blocks'[index] = tool_blocks[index], OpenOK(index)
    PROVE  OpenOK(index)'
BY DEF OpenOK, Before, AreFragments

\* What a chunk given out adds to the chunks before a place.
LEMMA BeforeYield ==
    ASSUME RouterTypeOK, NEW c, NEW step, Yield(c, step)
    PROVE  /\ Len(out) \in Nat /\ Len(out') = Len(out) + 1
           /\ DOMAIN out = 1..Len(out) /\ DOMAIN out' = 1..(Len(out) + 1)
           /\ out'[Len(out) + 1] = c /\ \A i \in DOMAIN out : out'[i] = out[i]
           /\ \A type, index : \A i \in 1..(Len(out) + 1) :
                 Before(type, index, i)' = Before(type, index, i)
           /\ \A type, index : Before(type, index, Len(out) + 1)' =
                 Before(type, index, Len(out) + 1)
                 \cup IF c.type = type /\ c.index = index THEN {Len(out) + 1} ELSE {}
<1>.  DEFINE S == {out[i] : i \in DOMAIN out}
<1>1. out \in Seq(S) /\ out' = Append(out, c)
      BY DEF RouterTypeOK, Yield
<1>.  HIDE DEF S
<1>2. /\ Len(out) \in Nat /\ Len(out') = Len(out) + 1
      /\ DOMAIN out = 1..Len(out) /\ DOMAIN out' = 1..(Len(out) + 1)
      /\ out'[Len(out) + 1] = c /\ \A i \in DOMAIN out : out'[i] = out[i]
      BY <1>1, OneMore
<1>3. ASSUME NEW type, NEW index, NEW i \in 1..(Len(out) + 1)
      PROVE  Before(type, index, i)' = Before(type, index, i)
      BY <1>2 DEF Before
<1>4. ASSUME NEW type, NEW index
      PROVE  Before(type, index, Len(out) + 1)' =
                Before(type, index, Len(out) + 1)
                \cup IF c.type = type /\ c.index = index THEN {Len(out) + 1} ELSE {}
  <2>1. Before(type, index, Len(out) + 1)' =
           {j \in 1..(Len(out) + 1) : out'[j].type = type /\ out'[j].index = index}
        BY <1>2 DEF Before
  <2>2. Before(type, index, Len(out) + 1) =
           {j \in 1..Len(out) : out[j].type = type /\ out[j].index = index}
        BY <1>2 DEF Before
  <2>3. 1..(Len(out) + 1) = 1..Len(out) \cup {Len(out) + 1}
        BY <1>2
  <2>.  QED  BY <1>2, <2>1, <2>2, <2>3
<1>.  QED  BY <1>2, <1>3, <1>4

\* The fragments before a place stay what they are.
LEMMA FragmentsKept ==
    ASSUME RouterTypeOK, NEW c, NEW step, Yield(c, step), NEW s, NEW index,
           NEW i \in 1..(Len(out) + 1), AreFragments(s, index, i)
    PROVE  AreFragments(s, index, i)'
<1>1. /\ Before("tool_call_delta", index, i)' = Before("tool_call_delta", index, i)
      /\ \A j \in Before("tool_call_delta", index, i) : out'[j] = out[j]
      BY BeforeYield DEF Before
<1>.  QED  BY <1>1 DEF AreFragments

LEMMA FragmentsSkip ==
    ASSUME RouterTypeOK, NEW c, NEW step, Yield(c, step), NEW s, NEW index,
           AreFragments(s, index, Len(out) + 1),
           ~ (c.type = "tool_call_delta" /\ c.index = index)
    PROVE  AreFragments(s, index, Len(out) + 1)'
<1>.  DEFINE deltas == Before("tool_call_delta", index, Len(out) + 1)
<1>1. deltas' = deltas
  <2>1. Before("tool_call_delta", index, Len(out) + 1)' =
           Before("tool_call_delta", index, Len(out) + 1) \cup {}
        BY BeforeYield
  <2>.  QED  BY <2>1
<1>2. \A j \in deltas : out'[j] = out[j]
      BY BeforeYield DEF Before
<1>3. s' = s
      OBVIOUS
<1>.  QED  BY <1>1, <1>2 DEF AreFragments

\* A fragment appended to the buffer is the last one given out.
LEMMA FragmentsMore ==
    ASSUME RouterTypeOK, NEW c, NEW step, Yield(c, step), NEW s \in Seq(Nat), NEW index,
           AreFragments(s, index, Len(out) + 1), c.data \in Nat,
           c.type = "tool_call_delta", c.index = index
    PROVE  AreFragments(Append(s, c.data), index, Len(out) + 1)'
<1>.  DEFINE D == Before("tool_call_delta", index, Len(out) + 1)
             n == Len(out) + 1
             t == Append(s, c.data)
             UpTo(S, j) == {l \in S : l <= j}
<1>1. /\ n \in Nat /\ D \subseteq 1..(n - 1) /\ D' = D \cup {n}
      /\ out'[n] = c /\ \A j \in D : out'[j] = out[j]
      BY BeforeYield DEF Before
<1>2. Len(s) = Cardinality(D) /\ \A j \in D : s[Cardinality(UpTo(D, j))] = out[j].data
      BY DEF AreFragments
<1>3. /\ Len(s) \in Nat /\ Len(t) = Len(s) + 1 /\ t[Len(s) + 1] = c.data
      /\ \A k \in 1..Len(s) : t[k] = s[k]
      OBVIOUS
<1>.  SUFFICES /\ Len(t) = Cardinality(D')
               /\ \A j \in D' : t[Cardinality(UpTo(D', j))] = out'[j].data
      BY DEF AreFragments
<1>.  HIDE DEF D, n, t
<1>4. IsFiniteSet(D) /\ n \notin D /\ \A j \in D : j \in Nat /\ j < n
  <2>0. 1 \in Int /\ n - 1 \in Int
        BY <1>1
  <2>4. IsFiniteSet(1..(n - 1))
        BY <2>0, FS_Interval
  <2>1. IsFiniteSet(1..(n - 1)) /\ \A j \in 1..(n - 1) : j \in Nat /\ j < n
        BY <1>1, <2>4
  <2>2. IsFiniteSet(D) /\ \A j \in D : j \in Nat /\ j < n
        BY <1>1, <2>1, FS_Subset
  <2>3. n \notin D
        BY <1>1, <2>2
  <2>.  QED  BY <2>2, <2>3
<1>5. Cardinality(D \cup {n}) = Len(s) + 1
      BY <1>2, <1>4, FS_AddElement
<1>6. ASSUME NEW j \in D
      PROVE  t[Cardinality(UpTo(D', j))] = out'[j].data
  <2>1. UpTo(D', j) = UpTo(D, j)
        BY <1>1, <1>4
  <2>2. UpTo(D, j) \subseteq D /\ j \in UpTo(D, j)
        BY <1>4
  <2>.  HIDE DEF UpTo
  <2>3. /\ IsFiniteSet(UpTo(D, j)) /\ Cardinality(UpTo(D, j)) <= Cardinality(D)
        /\ Cardinality(UpTo(D, j)) \in Nat /\ Cardinality(UpTo(D, j)) # 0
        BY <1>4, <2>2, FS_Subset, FS_CardinalityType, FS_EmptySet
  <2>4. Cardinality(UpTo(D, j)) \in 1..Len(s)
        BY <1>2, <1>3, <2>3
  <2>5. t[Cardinality(UpTo(D', j))] = s[Cardinality(UpTo(D, j))]
        BY <1>3, <2>1, <2>4
  <2>6. s[Cardinality(UpTo(D, j))] = out[j].data
        BY <1>2 DEF UpTo
  <2>.  QED  BY <1>1, <2>5, <2>6
<1>7. t[Cardinality(UpTo(D', n))] = out'[n].data
  <2>0. \A j \in D \cup {n} : j <= n
        BY <1>1, <1>4
  <2>1. UpTo(D', n) = D \cup {n}
        BY <1>1, <2>0
  <2>.  QED  BY <1>1, <1>3, <1>5, <2>1
<1>.  QED  BY <1>1, <1>3, <1>5, <1>6, <1>7

\* A chunk that is not of an open call leaves it what it is.
LEMMA OpenKept ==
    ASSUME RouterTypeOK, NEW c, NEW step, Yield(c, step), NEW index, OpenOK(index),
           ~ (c.type \in CallChunks /\ c.index = index),
           tool_blocks'[index] = tool_blocks[index]
    PROVE  OpenOK(index)'
<1>1. PICK s : s = tool_blocks[index]
      OBVIOUS
<1>2. AreFragments(s, index, Len(out) + 1)'
      BY <1>1, FragmentsSkip DEF OpenOK, CallChunks
<1>3. AreFragments(tool_blocks[index], index, Len(out) + 1)'
      BY <1>1, <1>2 DEF AreFragments
<1>4. /\ Before("tool_call_start", index, Len(out) + 1)' # {}
      /\ Before("tool_call_end", index, Len(out) + 1)' = {}
      BY BeforeYield DEF OpenOK, CallChunks
<1>.  QED  BY <1>3, <1>4 DEF OpenOK

\* What a chunk must be for the calls to stay whole.
LEMMA WholeYield ==
    ASSUME RouterTypeOK, ToolCallsWhole, NEW c, NEW step, Yield(c, step),
           c.type \in CallChunks =>
              /\ Before("tool_call_start", c.index, Len(out) + 1) # {}
              /\ Before("tool_call_end", c.index, Len(out) + 1) = {}
              /\ c.type = "tool_call_end" =>
                    c.data = <<>> \/ AreFragments(c.data, c.index, Len(out) + 1)
    PROVE  ToolCallsWhole'
<1>.  SUFFICES ASSUME NEW i \in DOMAIN out', out'[i].type \in CallChunks
               PROVE  /\ Before("tool_call_start", out[i].index, i)' # {}
                      /\ Before("tool_call_end", out[i].index, i)' = {}
                      /\ out'[i].type = "tool_call_end" =>
                            out'[i].data = <<>> \/ AreFragments(out[i].data, out[i].index, i)'
      BY DEF ToolCallsWhole, CallChunks
<1>1. /\ Len(out) \in Nat /\ DOMAIN out = 1..Len(out) /\ DOMAIN out' = 1..(Len(out) + 1)
      /\ out'[Len(out) + 1] = c /\ \A k \in DOMAIN out : out'[k] = out[k]
      BY BeforeYield
<1>2. i \in 1..(Len(out) + 1)
      BY <1>1
<1>3. PICK x : x = out'[i]
      OBVIOUS
<1>4. /\ Before("tool_call_start", x.index, i) # {}
      /\ Before("tool_call_end", x.index, i) = {}
      /\ x.type = "tool_call_end" => x.data = <<>> \/ AreFragments(x.data, x.index, i)
  <2>1. CASE i = Len(out) + 1
        BY <1>1, <1>3, <2>1
  <2>2. CASE i \in DOMAIN out
        BY <1>1, <1>3, <2>2 DEF ToolCallsWhole, CallChunks
  <2>.  QED  BY <1>1, <1>2, <2>1, <2>2
<1>5. /\ Before("tool_call_start", x.index, i)' # {}
      /\ Before("tool_call_end", x.index, i)' = {}
      BY <1>2, <1>4, BeforeYield
<1>6. x.type = "tool_call_end" => x.data = <<>> \/ AreFragments(x.data, x.index, i)'
      BY <1>2, <1>4, FragmentsKept
<1>.  QED  BY <1>3, <1>5, <1>6 DEF AreFragments, Before

\* A chunk that is of no call, while the blocks stay what they are.
LEMMA WholeOther ==
    ASSUME RouterTypeOK, WholeOK, NEW c, NEW step, Yield(c, step),
           c.type \notin CallChunks, UNCHANGED <<tool_blocks, server>>
    PROVE  WholeOK'
<1>1. ToolCallsWhole'
      BY WholeYield DEF WholeOK
<1>2. (DOMAIN tool_blocks)' = OpenCalls'
      BY DEF WholeOK, OpenCalls
<1>3. ASSUME NEW index \in DOMAIN tool_blocks
      PROVE  OpenOK(index)'
      BY <1>3, OpenKept DEF WholeOK, CallChunks
<1>4. \A j \in DOMAIN out' : out'[j].type \in CallChunks => out'[j].index \in 0..(Len(server) - 1)
      BY BeforeYield DEF WholeOK
<1>.  QED  BY <1>1, <1>2, <1>3, <1>4 DEF WholeOK

\* A block starts: its index is a new one.
LEMMA WholeStart ==
    ASSUME RouterTypeOK, WholeOK, BlockStart
    PROVE  WholeOK'
<1>1. PICK kind \in {"text", "tool_use"} :
         /\ server' = Append(server, kind)
         /\ IF kind = "tool_use"
            THEN /\ tool_blocks' = [i \in DOMAIN tool_blocks \cup {Len(server)} |->
                                       IF i = Len(server) THEN <<>> ELSE tool_blocks[i]]
                 /\ Yield(Chunk("tool_call_start", Len(server), 0), "read")
            ELSE UNCHANGED <<pc, tool_blocks, next, out>>
      BY DEF BlockStart
<1>2. /\ server \in Seq({"text", "tool_use", "stopped"}) /\ Len(server) \in Nat
      /\ DOMAIN server = 1..Len(server) /\ DOMAIN server' = 1..(Len(server) + 1)
      /\ Len(server') = Len(server) + 1
      /\ server'[Len(server) + 1] = kind /\ \A i \in DOMAIN server : server'[i] = server[i]
      BY <1>1 DEF RouterTypeOK
<1>3. OpenCalls' = IF kind = "tool_use" THEN OpenCalls \cup {Len(server)} ELSE OpenCalls
      BY <1>2 DEF OpenCalls
<1>4. 0..(Len(server) - 1) \subseteq 0..(Len(server') - 1)
      BY <1>2
<1>5. CASE kind = "text"
  <2>1. tool_blocks' = tool_blocks /\ out' = out
        BY <1>1, <1>5
  <2>2. ToolCallsWhole'
        BY <2>1, BeforeSame DEF WholeOK
  <2>3. \A index \in DOMAIN tool_blocks' : OpenOK(index)'
        BY <2>1, OpenSame DEF WholeOK
  <2>.  QED  BY <1>3, <1>4, <1>5, <2>1, <2>2, <2>3 DEF WholeOK
<1>6. CASE kind = "tool_use"
  <2>.  DEFINE c == Chunk("tool_call_start", Len(server), 0)
  <2>0. PICK new : new = Len(server)
        OBVIOUS
  <2>1. /\ Yield(Chunk("tool_call_start", new, 0), "read")
        /\ tool_blocks' = [i \in DOMAIN tool_blocks \cup {new} |->
                              IF i = new THEN <<>> ELSE tool_blocks[i]]
        BY <1>1, <1>6, <2>0
  <2>2. /\ Chunk("tool_call_start", new, 0).type = "tool_call_start"
        /\ Chunk("tool_call_start", new, 0).index = new
        BY DEF Chunk
  <2>3. ToolCallsWhole'
        BY <2>1, <2>2, WholeYield DEF WholeOK, CallChunks
  <2>4. \A j \in DOMAIN out' :
           out'[j].type \in CallChunks => out'[j].index \in 0..(Len(server') - 1)
        BY <1>4, <2>1, <2>2, BeforeYield DEF WholeOK, CallChunks
  <2>5. new \notin OpenCalls
        BY <1>2, <2>0 DEF OpenCalls
  <2>6. ASSUME NEW index \in OpenCalls
        PROVE  OpenOK(index)'
    <3>1. OpenOK(index) /\ index \in DOMAIN tool_blocks
          BY DEF WholeOK
    <3>2. tool_blocks'[index] = tool_blocks[index]
          BY <2>1, <2>5, <3>1
    <3>.  QED  BY <2>1, <2>2, <3>1, <3>2, OpenKept DEF CallChunks
  <2>7. OpenOK(new)'
    <3>1. \A j \in DOMAIN out : out[j].type \in CallChunks => out[j].index # new
          BY <1>2, <2>0 DEF WholeOK
    <3>2. /\ Before("tool_call_delta", new, Len(out) + 1)' = {}
          /\ Before("tool_call_end", new, Len(out) + 1)' = {}
          /\ Before("tool_call_start", new, Len(out) + 1)' # {}
          BY <2>1, <2>2, <3>1, BeforeYield DEF Before, CallChunks
    <3>3. tool_blocks'[new] = <<>> /\ Len(<<>>) = 0 /\ Cardinality({}) = 0
          BY <2>1, FS_EmptySet
    <3>4. AreFragments(tool_blocks[new], new, Len(out) + 1)'
          BY <3>2, <3>3 DEF AreFragments
    <3>.  QED  BY <3>2, <3>4 DEF OpenOK
  <2>8. (DOMAIN tool_blocks)' = OpenCalls'
        BY <1>3, <1>6, <2>0, <2>1 DEF WholeOK
  <2>9. \A index \in DOMAIN tool_blocks' : OpenOK(index)'
        BY <2>1, <2>6, <2>7 DEF WholeOK
  <2>.  QED  BY <2>3, <2>4, <2>8, <2>9 DEF WholeOK
<1>.  QED  BY <1>5, <1>6

\* A fragment goes to the buffer of its own block, and out.
LEMMA WholeDelta ==
    ASSUME RouterTypeOK, WholeOK, InputJsonDelta
    PROVE  WholeOK'
<1>1. PICK i \in DOMAIN server :
         /\ server[i] = "tool_use"
         /\ tool_blocks' = [tool_blocks EXCEPT ![i - 1] = Append(@, sent)]
         /\ Yield(Chunk("tool_call_delta", i - 1, sent), "read")
      BY DEF InputJsonDelta
<1>2. PICK index, d : index = i - 1 /\ d = sent
      OBVIOUS
<1>3. /\ server' = server /\ DOMAIN server = 1..Len(server) /\ Len(server) \in Nat
      /\ d \in Nat
      BY <1>2, RouterAssumption DEF InputJsonDelta, RouterTypeOK
<1>4. index \in OpenCalls /\ index \in 0..(Len(server) - 1)
      BY <1>1, <1>2, <1>3 DEF OpenCalls
<1>5. PICK c : c = Chunk("tool_call_delta", index, d)
      OBVIOUS
<1>6. /\ Yield(c, "read") /\ c.type = "tool_call_delta" /\ c.index = index /\ c.data = d
      BY <1>1, <1>2, <1>5 DEF Chunk
<1>7. /\ DOMAIN tool_blocks = OpenCalls
      /\ tool_blocks' = [tool_blocks EXCEPT ![index] = Append(@, d)]
      BY <1>1, <1>2 DEF WholeOK
<1>8. PICK s : s = tool_blocks[index]
      OBVIOUS
<1>9. s \in Seq(Nat) /\ OpenOK(index) /\ AreFragments(s, index, Len(out) + 1)
      BY <1>4, <1>7, <1>8 DEF RouterTypeOK, WholeOK, OpenOK
<1>10. ToolCallsWhole'
       BY <1>6, <1>9, WholeYield DEF WholeOK, OpenOK, CallChunks
<1>11. ASSUME NEW other \in OpenCalls, other # index
       PROVE  OpenOK(other)'
  <2>1. OpenOK(other) /\ tool_blocks'[other] = tool_blocks[other]
        BY <1>7, <1>11 DEF WholeOK
  <2>.  QED  BY <1>6, <1>11, <2>1, OpenKept
<1>12. OpenOK(index)'
  <2>1. AreFragments(Append(s, c.data), index, Len(out) + 1)'
        BY <1>3, <1>6, <1>9, FragmentsMore
  <2>2. tool_blocks'[index] = Append(s, c.data)
        BY <1>4, <1>6, <1>7, <1>8
  <2>3. AreFragments(tool_blocks[index], index, Len(out) + 1)'
        BY <2>1, <2>2 DEF AreFragments
  <2>4. /\ Before("tool_call_start", index, Len(out) + 1)' # {}
        /\ Before("tool_call_end", index, Len(out) + 1)' = {}
        BY <1>6, <1>9, BeforeYield DEF OpenOK
  <2>.  QED  BY <2>3, <2>4 DEF OpenOK
<1>13. \A j \in DOMAIN out' :
          out'[j].type \in CallChunks => out'[j].index \in 0..(Len(server') - 1)
       BY <1>3, <1>4, <1>6, BeforeYield DEF WholeOK
<1>14. (DOMAIN tool_blocks)' = OpenCalls' /\ OpenCalls' = OpenCalls
       BY <1>3, <1>7 DEF OpenCalls
<1>15. \A other \in DOMAIN tool_blocks' : OpenOK(other)'
       BY <1>11, <1>12, <1>14
<1>.  QED  BY <1>10, <1>13, <1>14, <1>15 DEF WholeOK

\* A block stops: a call ends with its buffer, or with nothing.
LEMMA WholeStop ==
    ASSUME RouterTypeOK, WholeOK, BlockStop
    PROVE  WholeOK'
<1>1. PICK i \in DOMAIN server :
         /\ server[i] # "stopped"
         /\ server' = [server EXCEPT ![i] = "stopped"]
         /\ IF i - 1 \in DOMAIN tool_blocks
            THEN /\ tool_blocks' = [j \in DOMAIN tool_blocks \ {i - 1} |-> tool_blocks[j]]
                 /\ \E input \in SafeJsonLoads(tool_blocks[i - 1]) :
                       Yield(Chunk("tool_call_end", i - 1, input), "read")
            ELSE UNCHANGED <<pc, tool_blocks, next, out>>
      BY DEF BlockStop
<1>2. PICK index : index = i - 1
      OBVIOUS
<1>3. /\ DOMAIN server = 1..Len(server) /\ Len(server) \in Nat /\ Len(server') = Len(server)
      /\ DOMAIN server' = DOMAIN server
      /\ server'[i] = "stopped" /\ \A j \in DOMAIN server : j # i => server'[j] = server[j]
      BY <1>1 DEF RouterTypeOK
<1>4. OpenCalls' = OpenCalls \ {index}
  <2>1. \A j \in DOMAIN server : j - 1 = index <=> j = i
        BY <1>2, <1>3
  <2>.  QED  BY <1>3, <2>1 DEF OpenCalls
<1>5. DOMAIN tool_blocks = OpenCalls
      BY DEF WholeOK
<1>6. CASE index \notin OpenCalls
  <2>1. tool_blocks' = tool_blocks /\ out' = out
        BY <1>1, <1>2, <1>5, <1>6
  <2>2. ToolCallsWhole'
        BY <2>1, BeforeSame DEF WholeOK
  <2>3. \A other \in DOMAIN tool_blocks' : OpenOK(other)'
        BY <2>1, OpenSame DEF WholeOK
  <2>.  QED  BY <1>3, <1>4, <1>5, <1>6, <2>1, <2>2, <2>3 DEF WholeOK
<1>7. CASE index \in OpenCalls
  <2>1. PICK input \in SafeJsonLoads(tool_blocks[index]) :
           Yield(Chunk("tool_call_end", index, input), "read")
        BY <1>1, <1>2, <1>5, <1>7
  <2>2. tool_blocks' = [j \in OpenCalls \ {index} |-> tool_blocks[j]]
        BY <1>1, <1>2, <1>5, <1>7
  <2>3. PICK c : c = Chunk("tool_call_end", index, input)
        OBVIOUS
  <2>4. Yield(c, "read") /\ c.type = "tool_call_end" /\ c.index = index /\ c.data = input
        BY <2>1, <2>3 DEF Chunk
  <2>5. OpenOK(index) /\ (input = <<>> \/ input = tool_blocks[index])
        BY <1>5, <1>7, <2>1 DEF WholeOK, SafeJsonLoads
  <2>6. ToolCallsWhole'
        BY <2>4, <2>5, WholeYield DEF WholeOK, OpenOK, CallChunks
  <2>7. ASSUME NEW other \in OpenCalls \ {index}
        PROVE  OpenOK(other)'
    <3>1. OpenOK(other) /\ tool_blocks'[other] = tool_blocks[other]
          BY <1>5, <2>2 DEF WholeOK
    <3>.  QED  BY <2>4, <3>1, OpenKept
  <2>8. index \in 0..(Len(server') - 1)
        BY <1>2, <1>3
  <2>9. \A j \in DOMAIN out' :
           out'[j].type \in CallChunks => out'[j].index \in 0..(Len(server') - 1)
        BY <1>3, <2>4, <2>8, BeforeYield DEF WholeOK
  <2>10. (DOMAIN tool_blocks)' = OpenCalls'
        BY <1>4, <2>2
  <2>11. \A other \in DOMAIN tool_blocks' : OpenOK(other)'
        BY <2>2, <2>7
  <2>.  QED  BY <2>6, <2>9, <2>10, <2>11 DEF WholeOK
<1>.  QED  BY <1>6, <1>7

LEMMA WholeStep ==
    ASSUME InductiveInvariant, WholeOK, [Next]_vars
    PROVE  WholeOK'
<1>0. RouterTypeOK /\ GivenOK
      BY DEF InductiveInvariant
<1>1. CASE UNCHANGED <<out, tool_blocks, server>>
  <2>1. ToolCallsWhole'
        BY <1>1, BeforeSame DEF WholeOK
  <2>2. \A index \in DOMAIN tool_blocks' : OpenOK(index)'
        BY <1>1, OpenSame DEF WholeOK
  <2>3. (DOMAIN tool_blocks)' = OpenCalls'
        BY <1>1 DEF WholeOK, OpenCalls
  <2>.  QED  BY <1>1, <2>1, <2>2, <2>3 DEF WholeOK
<1>2. CASE UNCHANGED routerVars \/ Complete
      BY <1>1, <1>2 DEF routerVars, callVars, serverVars, Complete
<1>3. CASE SilentStep
      BY <1>1, <1>3 DEF SilentStep, UnknownProvider, Call, Opened, Slept, OpenRaises, StreamEnds,
            ManagerExits, ClientCloses, Take, Abandon, Closing, CloseRouter, CloseProvider,
            CloseClient, CloseStream, serverVars
<1>4. CASE OpenRejected \/ OpenFails
  <2>1. UNCHANGED <<tool_blocks, server>>
        BY <1>4 DEF OpenRejected, OpenFails, serverVars
  <2>2. out' = out \/ \E retryable : Yield(Chunk("error", 0, retryable), "close")
        BY <1>4 DEF OpenRejected, OpenFails
  <2>3. ASSUME NEW retryable, Yield(Chunk("error", 0, retryable), "close")
        PROVE  WholeOK'
    <3>1. Chunk("error", 0, retryable).type \notin CallChunks
          BY DEF Chunk, CallChunks
    <3>.  QED  BY <1>0, <2>1, <2>3, <3>1, WholeOther
  <2>.  QED  BY <1>1, <2>1, <2>2, <2>3
<1>5. CASE LastChunks
  <2>1. UNCHANGED <<tool_blocks, server>>
        BY <1>5 DEF LastChunks, serverVars
  <2>2. PICK c, step : Yield(c, step) /\ c.type \in {"usage", "error", "done"}
        BY <1>0, <1>5, LastShape
  <2>.  QED  BY <1>0, <2>1, <2>2, WholeOther DEF CallChunks
<1>6. CASE TextDelta
  <2>1. UNCHANGED <<tool_blocks, server>>
        BY <1>6 DEF TextDelta
  <2>2. \E c : Yield(c, "read") /\ c.type = "text_delta"
        BY <1>6 DEF TextDelta, Chunk
  <2>.  QED  BY <1>0, <2>1, <2>2, WholeOther DEF CallChunks
<1>.  QED  BY <1>0, <1>1, <1>2, <1>3, <1>4, <1>5, <1>6, WholeStart, WholeDelta, WholeStop
           DEF Next, Load, RouterNext, CallStep, SilentStep, vars

\* _stream keeps a buffer for each open tool_use block, gives out a call's fragments
\* between its start and its one end, and ends it with all of them in their order, or
\* with an empty input: however many blocks a message has and however the server
\* interleaves their events.
THEOREM CallsAreWhole == Spec => []ToolCallsWhole
<1>1. ASSUME Init
      PROVE  WholeOK
  <2>1. out = <<>> /\ server = <<>> /\ tool_blocks = <<>>
        BY <1>1 DEF Init, RouterInit
  <2>2. DOMAIN <<>> = {}
        OBVIOUS
  <2>3. OpenCalls = {}
        BY <2>1, <2>2 DEF OpenCalls
  <2>.  QED  BY <2>1, <2>2, <2>3 DEF WholeOK, ToolCallsWhole
<1>2. InductiveInvariant /\ WholeOK /\ [Next]_vars => WholeOK'
      BY WholeStep
<1>3. WholeOK => ToolCallsWhole
      BY DEF WholeOK
<1>.  QED  BY <1>1, <1>2, <1>3, InductiveInvariantHolds, PTL DEF Spec

-----------------------------------------------------------------------------
(* The path that `extends` leads along *)

LEMMA LeastOfNat ==
    ASSUME NEW S \in SUBSET Nat, S # {}
    PROVE  \E least \in S : \A k \in S : least <= k
<1>1. PICK least \in S : \A k \in S : ~ (<<k, least>> \in OpToRel(<, Nat))
      BY NatLessThanWellFounded, WFMin
<1>2. \A k \in S : ~ (k < least)
  <2>1. \A k \in S : k < least => <<k, least>> \in OpToRel(<, Nat)
        BY DEF OpToRel
  <2>.  QED  BY <1>1, <2>1
<1>3. \A k \in S : k \in Nat /\ least \in Nat
      OBVIOUS
<1>.  QED  BY <1>2, <1>3

IsPath(path, origin, last) ==
    path = [k \in 0..last |-> IF k = 0 THEN origin
                              ELSE IF path[k - 1] \in Names THEN Parent(path[k - 1]) ELSE None]

\* The recursion that defines Path has a solution.
LEMMA PathExists ==
    ASSUME NEW origin
    PROVE  \E path : IsPath(path, origin, MaxDepth)
<1>.  DEFINE Bad == {k \in Nat : ~ \E path : IsPath(path, origin, k)}
<1>0. MaxDepth \in Nat
      BY ProfilesAssumption
<1>1. SUFFICES ASSUME Bad # {} PROVE FALSE
      BY <1>0
<1>2. PICK k \in Bad : \A l \in Bad : k <= l
      BY <1>1, LeastOfNat
<1>3. k # 0
  <2>1. IsPath([l \in 0..0 |-> origin], origin, 0)
    <3>1. \A l \in 0..0 : l = 0
          OBVIOUS
    <3>.  QED  BY <3>1 DEF IsPath
  <2>.  QED  BY <1>2, <2>1
<1>4. k \in Nat /\ k - 1 \in Nat /\ k - 1 \notin Bad
      BY <1>2, <1>3
<1>5. PICK path : IsPath(path, origin, k - 1)
      BY <1>4
<1>.  DEFINE longer == [l \in 0..k |->
                IF l = k THEN IF path[k - 1] \in Names THEN Parent(path[k - 1]) ELSE None
                ELSE path[l]]
<1>6. /\ k - 1 \in 0..k /\ longer[k - 1] = path[k - 1]
      /\ \A l \in 0..k : l # k => l \in 0..(k - 1) /\ (l # 0 => l - 1 \in 0..k /\ l - 1 # k)
      BY <1>4
<1>7. \A l \in 0..(k - 1) : path[l] = IF l = 0 THEN origin
                           ELSE IF path[l - 1] \in Names THEN Parent(path[l - 1]) ELSE None
      BY <1>5 DEF IsPath
<1>8. \A l \in 0..k : longer[l] = IF l = 0 THEN origin
                     ELSE IF longer[l - 1] \in Names THEN Parent(longer[l - 1]) ELSE None
      BY <1>3, <1>6, <1>7
<1>9. longer = [l \in 0..k |-> longer[l]]
      OBVIOUS
<1>.  HIDE DEF longer
<1>10. IsPath(longer, origin, k)
       BY <1>8, <1>9 DEF IsPath
<1>.  QED  BY <1>2, <1>10

LEMMA PathShape ==
    ASSUME NEW origin
    PROVE  /\ Path(origin)[0] = origin
           /\ \A k \in 1..MaxDepth :
                 Path(origin)[k] = IF Path(origin)[k - 1] \in Names
                                   THEN Parent(Path(origin)[k - 1]) ELSE None
<1>1. Path(origin) = CHOOSE path : IsPath(path, origin, MaxDepth)
      BY DEF Path, IsPath
<1>2. IsPath(Path(origin), origin, MaxDepth)
      BY <1>1, PathExists, Zenon
<1>3. MaxDepth \in Nat /\ \A k \in 1..MaxDepth : k \in 0..MaxDepth /\ k # 0
      BY ProfilesAssumption
<1>4. PICK path : path = Path(origin)
      OBVIOUS
<1>5. path = [k \in 0..MaxDepth |-> IF k = 0 THEN origin
                              ELSE IF path[k - 1] \in Names THEN Parent(path[k - 1]) ELSE None]
      BY <1>2, <1>4 DEF IsPath
<1>6. \A k \in 0..MaxDepth : path[k] = IF k = 0 THEN origin
                              ELSE IF path[k - 1] \in Names THEN Parent(path[k - 1]) ELSE None
      BY <1>5
<1>.  QED  BY <1>3, <1>4, <1>6

\* A file that _resolve reads on along, or returns from.
Good(n) ==
    /\ n \in Names /\ Places(n) # {} /\ Read(n) # Broken /\ Read(n).extends # NotAString

FilesOK ==
    \A d \in 1..Directories, n \in Names :
        files[d][n] \in {Absent, Broken} \/ files[d][n].extends \in Names \cup {None, NotAString}

\* What _resolve has visited is the path so far, with no name twice ...
VisitedOK ==
    /\ visited \in Seq(Names) /\ Len(visited) <= MaxDepth
    /\ \A i, j \in DOMAIN visited : visited[i] = visited[j] => i = j
    /\ \A i \in DOMAIN visited :
          Good(visited[i]) /\ (i + 1 \in DOMAIN visited => Parent(visited[i]) = visited[i + 1])

\* ... and `name` is what comes next on it; a verdict says how the path went on.
VerdictOK ==
    /\ name \in Names
    /\ IF verdict \in {"resolved", "loaded"}
       THEN visited # <<>> /\ Parent(visited[Len(visited)]) = None
       ELSE verdict # "invalid" /\ visited # <<>> => Parent(visited[Len(visited)]) = name
    /\ verdict = "cycle" => \E i \in DOMAIN visited : visited[i] = name
    /\ verdict = "too deep" => Len(visited) = MaxDepth
    /\ verdict = "not found" => Places(name) = {}

LoaderOK == verdict # "used" => FilesOK /\ VisitedOK /\ VerdictOK

\* The path begins with what was visited, and goes on to `name` or to its end.
LEMMA VisitedIsPath ==
    ASSUME LoaderOK, verdict # "used", NEW path,
           path = Path(IF visited = <<>> THEN name ELSE visited[1])
    PROVE  /\ \A i \in DOMAIN visited : path[i - 1] = visited[i]
           /\ verdict \notin {"resolved", "loaded", "invalid"} => path[Len(visited)] = name
           /\ verdict \in {"resolved", "loaded"} =>
                 \A k \in Len(visited)..MaxDepth : path[k] = None
<1>.  DEFINE n == Len(visited)
<1>1. /\ path[0] = IF visited = <<>> THEN name ELSE visited[1]
      /\ \A k \in 1..MaxDepth :
            path[k] = IF path[k - 1] \in Names THEN Parent(path[k - 1]) ELSE None
      BY PathShape
<1>0. visited \in Seq(Names) /\ Len(visited) <= MaxDepth
      BY DEF LoaderOK, FilesOK, VisitedOK, VerdictOK
<1>2. visited \in Seq(Names) /\ n \in Nat /\ MaxDepth \in Nat /\ n <= MaxDepth
      BY <1>0, ProfilesAssumption
<1>3. DOMAIN visited = 1..n /\ \A i \in 1..n : visited[i] \in Names
      BY <1>2
<1>4. n = 0 <=> visited = <<>>
      BY <1>2, EmptySeq
<1>5. \A i \in 1..(n - 1) : Parent(visited[i]) = visited[i + 1]
  <2>1. \A i \in DOMAIN visited : i + 1 \in DOMAIN visited => Parent(visited[i]) = visited[i + 1]
        BY DEF LoaderOK, FilesOK, VisitedOK, VerdictOK
  <2>2. \A i \in 1..(n - 1) : i \in 1..n /\ i + 1 \in 1..n
        BY <1>2
  <2>.  QED  BY <1>3, <2>1, <2>2
<1>6. \A i \in DOMAIN visited : path[i - 1] = visited[i]
  <2>.  DEFINE Bad == {i \in 1..n : path[i - 1] # visited[i]}
  <2>1. SUFFICES ASSUME Bad # {} PROVE FALSE
        BY <1>3
  <2>2. Bad \subseteq Nat
        OBVIOUS
  <2>3. PICK i \in Bad : \A j \in Bad : i <= j
        BY <2>1, <2>2, LeastOfNat
  <2>4. i # 1
        BY <1>1, <1>2, <1>4, <2>3
  <2>5. i \in 1..n /\ i - 1 \in 1..n /\ i - 1 \notin Bad
        BY <1>2, <2>3, <2>4
  <2>6. path[(i - 1) - 1] = visited[i - 1] /\ visited[i - 1] \in Names
        BY <1>3, <2>5
  <2>7. i - 1 \in 1..MaxDepth /\ i - 1 \in 1..(n - 1) /\ (i - 1) + 1 = i
        BY <1>2, <2>5
  <2>8. path[i - 1] = Parent(visited[i - 1])
        BY <1>1, <2>6, <2>7
  <2>9. Parent(visited[i - 1]) = visited[i]
        BY <1>5, <2>7
  <2>.  QED  BY <2>3, <2>8, <2>9
<1>7. n # 0 => path[n] = Parent(visited[n])
  <2>.  SUFFICES ASSUME n # 0 PROVE path[n] = Parent(visited[n])
        OBVIOUS
  <2>1. n \in 1..n /\ n \in 1..MaxDepth
        BY <1>2
  <2>2. path[n - 1] = visited[n] /\ visited[n] \in Names
        BY <1>3, <1>6, <2>1
  <2>.  QED  BY <1>1, <2>1, <2>2
<1>8. verdict \notin {"resolved", "loaded", "invalid"} => path[n] = name
      BY <1>1, <1>4, <1>7 DEF LoaderOK, FilesOK, VisitedOK, VerdictOK
<1>9. ASSUME verdict \in {"resolved", "loaded"}
      PROVE  \A k \in n..MaxDepth : path[k] = None
  <2>.  DEFINE Bad == {k \in n..MaxDepth : path[k] # None}
  <2>1. SUFFICES ASSUME Bad # {} PROVE FALSE
        OBVIOUS
  <2>2. Bad \subseteq Nat
        BY <1>2
  <2>3. PICK k \in Bad : \A j \in Bad : k <= j
        BY <2>1, <2>2, LeastOfNat
  <2>4. path[n] = None
        BY <1>4, <1>7, <1>9 DEF LoaderOK, FilesOK, VisitedOK, VerdictOK
  <2>5. k # n
        BY <2>3, <2>4
  <2>6. k \in 1..MaxDepth /\ k - 1 \in n..MaxDepth /\ k - 1 \notin Bad
        BY <1>2, <2>3, <2>5
  <2>7. path[k - 1] = None
        BY <2>6
  <2>8. path[k] = None
        BY <1>1, <2>6, <2>7, FilesAssumption
  <2>.  QED  BY <2>3, <2>8
<1>.  QED  BY <1>6, <1>8, <1>9

LEMMA RefusesOnlyBadChains ==
    ASSUME LoaderOK
    PROVE  RefusesJustBadChains
<1>1. CASE verdict = "used"
      BY <1>1 DEF RefusesJustBadChains
<1>2. CASE verdict # "used"
  <2>.  DEFINE n == Len(visited)
  <2>1. PICK path : path = Path(IF visited = <<>> THEN name ELSE visited[1])
        OBVIOUS
  <2>.  DEFINE names  == {k \in 0..MaxDepth : path[k] \in Names}
               cyclic == \E j, k \in names : j < k /\ path[j] = path[k]
               good   == /\ ~ cyclic /\ MaxDepth \notin names
                         /\ \A k \in names : /\ Places(path[k]) # {} /\ Read(path[k]) # Broken
                                             /\ Read(path[k]).extends # NotAString
  <2>0. visited \in Seq(Names) /\ Len(visited) <= MaxDepth /\ name \in Names
        BY <1>2 DEF LoaderOK, FilesOK, VisitedOK, VerdictOK
  <2>2. /\ visited \in Seq(Names) /\ n \in Nat /\ MaxDepth \in Nat /\ n <= MaxDepth
        /\ DOMAIN visited = 1..n
        BY <2>0, ProfilesAssumption
  <2>3. /\ \A i \in 1..n : path[i - 1] = visited[i]
        /\ verdict \notin {"resolved", "loaded", "invalid"} => path[n] = name
        /\ verdict \in {"resolved", "loaded"} => \A k \in n..MaxDepth : path[k] = None
        BY <1>2, <2>1, <2>2, VisitedIsPath
  <2>4. \A i, j \in 1..n : visited[i] = visited[j] => i = j
        BY <1>2, <2>2 DEF LoaderOK, FilesOK, VisitedOK, VerdictOK
  <2>5. \A i \in 1..n : Good(visited[i])
        BY <1>2, <2>2 DEF LoaderOK, FilesOK, VisitedOK, VerdictOK
  <2>6. verdict \notin {"resolved", "loaded", "invalid"} => n \in names
        BY <2>0, <2>2, <2>3
  <2>7. ASSUME verdict \in {"resolved", "loaded"}
        PROVE  good
    <3>1. \A k \in names : k + 1 \in 1..n /\ path[k] = visited[k + 1]
      <4>1. \A k \in names : ~ (k \in n..MaxDepth)
            BY <2>3, <2>7, FilesAssumption
      <4>2. \A k \in names : k + 1 \in 1..n /\ (k + 1) - 1 = k
            BY <2>2, <4>1
      <4>.  QED  BY <2>3, <4>2
    <3>2. ~ cyclic
      <4>.  SUFFICES ASSUME NEW j \in names, NEW k \in names, j < k, path[j] = path[k]
                     PROVE  FALSE
            OBVIOUS
      <4>1. j + 1 = k + 1
            BY <2>4, <3>1
      <4>.  QED  BY <2>2, <4>1
    <3>3. MaxDepth \notin names
          BY <2>2, <3>1
    <3>4. \A k \in names : Good(path[k])
          BY <2>5, <3>1
    <3>.  QED  BY <3>2, <3>3, <3>4 DEF Good
  <2>8. ASSUME verdict = "cycle"
        PROVE  cyclic
    <3>1. PICK i \in 1..n : visited[i] = name
          BY <1>2, <2>2, <2>8 DEF LoaderOK, FilesOK, VisitedOK, VerdictOK
    <3>2. i - 1 \in 0..MaxDepth /\ i - 1 < n /\ path[i - 1] = name /\ path[n] = name
          BY <2>2, <2>3, <2>8, <3>1
    <3>3. name \in Names
          BY <1>2 DEF LoaderOK, FilesOK, VisitedOK, VerdictOK
    <3>.  QED  BY <2>6, <2>8, <3>2, <3>3
  <2>9. ASSUME verdict \in {"too deep", "not found"}
        PROVE  ~ good
    <3>1. n \in names /\ path[n] = name
          BY <2>3, <2>6, <2>9
    <3>2. CASE verdict = "too deep"
          BY <1>2, <3>1, <3>2 DEF LoaderOK, FilesOK, VisitedOK, VerdictOK
    <3>3. CASE verdict = "not found"
          BY <1>2, <3>1, <3>3 DEF LoaderOK, FilesOK, VisitedOK, VerdictOK
    <3>.  QED  BY <2>9, <3>2, <3>3
  <2>10. /\ verdict \in {"resolved", "loaded"} => good
         /\ verdict \in {"cycle", "too deep", "not found"} => ~ good
         /\ verdict = "cycle" => cyclic
         BY <2>7, <2>8, <2>9
  <2>.  QED  BY <2>1, <2>10 DEF RefusesJustBadChains
<1>.  QED  BY <1>1, <1>2

\* _read finds a file there is.
LEMMA ReadIsThere ==
    ASSUME NEW n, Places(n) # {}
    PROVE  \E d \in 1..Directories : Read(n) = files[d][n]
<1>1. Places(n) \subseteq Nat
      BY DEF Places
<1>2. \E least \in Places(n) : \A k \in Places(n) : least <= k
      BY <1>1, LeastOfNat
<1>3. Min(Places(n)) \in Places(n)
      BY <1>2 DEF Min
<1>.  QED  BY <1>3 DEF Places, Read

\* What a name leads to is up to the files.
LEMMA ParentSame ==
    ASSUME files' = files
    PROVE  /\ \A n : /\ Good(n)' <=> Good(n)
                    /\ Parent(n)' = Parent(n) /\ Places(n)' = Places(n)
           /\ FilesOK' <=> FilesOK
           /\ visited' = visited => (VisitedOK' <=> VisitedOK)
BY DEF Good, Parent, Places, Read, FilesOK, VisitedOK

LEMMA LoaderSame ==
    ASSUME LoaderOK, UNCHANGED <<files, name, visited, verdict>>
    PROVE  LoaderOK'
<1>1. VerdictOK' <=> VerdictOK
      BY DEF VerdictOK, Parent, Places, Read
<1>.  QED  BY <1>1, ParentSame DEF LoaderOK

\* A step that only gives a verdict.
LEMMA LoaderVerdict ==
    ASSUME LoaderOK, verdict # "used", UNCHANGED <<files, name, visited>>,
           IF verdict' \in {"resolved", "loaded"} THEN verdict \in {"resolved", "loaded"}
           ELSE verdict' = "invalid" \/ verdict \notin {"resolved", "loaded", "invalid"},
           verdict' = "cycle" => \E i \in DOMAIN visited : visited[i] = name,
           verdict' = "too deep" => Len(visited) = MaxDepth,
           verdict' = "not found" => Places(name) = {}
    PROVE  LoaderOK'
<1>1. Parent(visited[Len(visited)])' = Parent(visited[Len(visited)])
      BY DEF Parent, Places, Read
<1>2. Places(name)' = Places(name)
      BY DEF Places
<1>3. VerdictOK
      BY DEF LoaderOK
<1>4. VerdictOK'
      BY <1>1, <1>2, <1>3 DEF VerdictOK
<1>.  QED  BY <1>4, ParentSame DEF LoaderOK

\* The loader reads a file of its path.
LEMMA LoaderReads ==
    ASSUME LoaderOK, ReadOne
    PROVE  LoaderOK'
<1>1. /\ verdict = "loading" /\ files' = files /\ Len(visited) < MaxDepth
      /\ \A i \in DOMAIN visited : visited[i] # name
      /\ Places(name) # {} /\ Read(name) # Broken /\ Read(name).extends # NotAString
      /\ visited' = Append(visited, name)
      /\ IF Read(name).extends = None
         THEN verdict' = "resolved" /\ name' = name
         ELSE name' = Read(name).extends /\ verdict' = verdict
      BY DEF ReadOne, Readable, Fresh
<1>2. /\ visited \in Seq(Names) /\ name \in Names
      /\ \A i, j \in DOMAIN visited : visited[i] = visited[j] => i = j
      /\ \A i \in DOMAIN visited :
            Good(visited[i]) /\ (i + 1 \in DOMAIN visited => Parent(visited[i]) = visited[i + 1])
      /\ visited # <<>> => Parent(visited[Len(visited)]) = name
      /\ \A d \in 1..Directories, n \in Names :
            files[d][n] \in {Absent, Broken} \/ files[d][n].extends \in Names \cup {None, NotAString}
      BY <1>1 DEF LoaderOK, FilesOK, VisitedOK, VerdictOK
<1>0. PICK n \in Nat : n = Len(visited)
      BY <1>2
<1>3. /\ n \in Nat /\ DOMAIN visited = 1..n
      /\ visited' \in Seq(Names) /\ Len(visited') = n + 1 /\ DOMAIN visited' = 1..(n + 1)
      /\ visited'[n + 1] = name /\ \A i \in 1..n : visited'[i] = visited[i]
      BY <1>0, <1>1, <1>2
<1>4. Len(visited') <= MaxDepth /\ visited' # <<>>
  <2>1. MaxDepth \in Nat
        BY ProfilesAssumption
  <2>2. Len(visited') <= MaxDepth
        BY <1>0, <1>1, <1>3, <2>1
  <2>.  QED  BY <1>3, <2>2, EmptySeq
<1>5. Good(name) /\ Parent(name) = Read(name).extends
      BY <1>1, <1>2 DEF Good, Parent
<1>6. Read(name).extends \in Names \cup {None}
  <2>1. PICK d \in 1..Directories : Read(name) = files[d][name]
        BY <1>1, ReadIsThere
  <2>2. Read(name) # Absent
    <3>1. \A e \in Places(name) : files[e][name] # Absent
          BY DEF Places
    <3>2. Min(Places(name)) \in Places(name)
      <4>1. Places(name) \subseteq Nat
            BY DEF Places
      <4>2. \E least \in Places(name) : \A k \in Places(name) : least <= k
            BY <1>1, <4>1, LeastOfNat
      <4>.  QED  BY <4>2 DEF Min
    <3>.  QED  BY <3>1, <3>2 DEF Read
  <2>.  QED  BY <1>1, <1>2, <2>1, <2>2
<1>7. \A m : (Good(m)' <=> Good(m)) /\ Parent(m)' = Parent(m)
      BY <1>1 DEF Good, Parent, Places, Read
<1>8. \A i, j \in DOMAIN visited' : visited'[i] = visited'[j] => i = j
      BY <1>1, <1>2, <1>3
<1>9. \A i \in DOMAIN visited' :
         /\ Good(visited'[i])
         /\ i + 1 \in DOMAIN visited' => Parent(visited'[i]) = visited'[i + 1]
  <2>.  SUFFICES ASSUME NEW i \in 1..(n + 1)
                 PROVE  /\ Good(visited'[i])
                        /\ i + 1 \in 1..(n + 1) => Parent(visited'[i]) = visited'[i + 1]
        BY <1>3
  <2>1. CASE i = n + 1
        BY <1>3, <1>5, <2>1
  <2>2. CASE i = n /\ i # n + 1
    <3>1. visited # <<>> /\ visited[Len(visited)] = visited[n]
      <4>1. Len(<<>>) = 0
            OBVIOUS
      <4>2. n # 0
            BY <2>2
      <4>.  QED  BY <1>0, <4>1, <4>2
    <3>2. visited'[i] = visited[n] /\ i \in DOMAIN visited /\ visited'[i + 1] = name
          BY <1>3, <2>2
    <3>.  QED  BY <1>2, <2>2, <3>1, <3>2
  <2>3. CASE i \in 1..(n - 1)
    <3>1. i \in DOMAIN visited /\ i + 1 \in DOMAIN visited
          BY <1>3, <2>3
    <3>2. visited'[i] = visited[i] /\ visited'[i + 1] = visited[i + 1]
          BY <1>3, <3>1
    <3>.  QED  BY <1>2, <3>1, <3>2
  <2>4. i = n + 1 \/ (i = n /\ i # n + 1) \/ i \in 1..(n - 1)
        BY <1>3
  <2>.  QED  BY <2>1, <2>2, <2>3, <2>4
<1>10. /\ name' \in Names
       /\ IF verdict' = "resolved" THEN Parent(visited'[Len(visited')]) = None
          ELSE Parent(visited'[Len(visited')]) = name'
       BY <1>1, <1>2, <1>3, <1>5, <1>6
<1>11. verdict' \in {"resolved", "loading"}
       BY <1>1
<1>12. \A i \in DOMAIN visited' :
          /\ Good(visited[i])'
          /\ i + 1 \in DOMAIN visited' => Parent(visited[i])' = visited'[i + 1]
       BY <1>7, <1>9
<1>13. IF verdict' = "resolved" THEN Parent(visited[Len(visited)])' = None
       ELSE Parent(visited[Len(visited)])' = name'
       BY <1>7, <1>10
<1>.  QED  BY <1>1, <1>2, <1>3, <1>4, <1>8, <1>10, <1>11, <1>12, <1>13 DEF LoaderOK, FilesOK, VisitedOK, VerdictOK

LEMMA LoaderStep ==
    ASSUME LoaderOK, [Next]_vars
    PROVE  LoaderOK'
<1>1. CASE UNCHANGED loaderVars
      BY <1>1, LoaderSame DEF loaderVars
<1>2. CASE Complete
      BY <1>2 DEF Complete, LoaderOK
<1>3. CASE ReadOne
      BY <1>3, LoaderReads
<1>4. CASE Cycle
      BY <1>4, LoaderVerdict DEF Cycle, Fresh, Refuse
<1>5. CASE TooDeep
  <2>1. verdict # "used" /\ Len(visited) >= MaxDepth /\ visited \in Seq(Names)
        /\ Len(visited) <= MaxDepth
        BY <1>5 DEF TooDeep, Fresh, LoaderOK, VisitedOK
  <2>2. Len(visited) = MaxDepth
        BY <2>1, ProfilesAssumption
  <2>.  QED  BY <1>5, <2>2, LoaderVerdict DEF TooDeep, Fresh, Refuse
<1>6. CASE NotFound
      BY <1>6, LoaderVerdict DEF NotFound, Fresh, Refuse
<1>7. CASE Unusable
      BY <1>7, LoaderVerdict DEF Unusable, Readable, Fresh, Refuse
<1>8. CASE Validate
      BY <1>8, LoaderVerdict DEF Validate
<1>.  QED  BY <1>1, <1>2, <1>3, <1>4, <1>5, <1>6, <1>7, <1>8
           DEF Next, Load, LoaderNext, loaderVars, vars

\* _resolve refuses a chain of `extends` just if it has a name twice, is longer than the
\* cap or misses a file, and as a cycle only if there is one: whatever files extend
\* whatever, in however many directories.
THEOREM ChainsJudged == Spec => []RefusesJustBadChains
<1>1. ASSUME Init
      PROVE  LoaderOK
  <2>1. /\ files \in FileSystems /\ name \in Names /\ visited = <<>> /\ verdict = "loading"
        BY <1>1 DEF Init, LoaderInit
  <2>2. <<>> \in Seq(Names) /\ Len(<<>>) = 0 /\ DOMAIN <<>> = {}
        OBVIOUS
  <2>.  QED  BY <2>1, <2>2, FilesAssumption, ProfilesAssumption DEF LoaderOK, FilesOK, VisitedOK, VerdictOK
<1>2. LoaderOK /\ [Next]_vars => LoaderOK'
      BY LoaderStep
<1>3. LoaderOK => RefusesJustBadChains
      BY RefusesOnlyBadChains
<1>.  QED  BY <1>1, <1>2, <1>3, PTL DEF Spec

-----------------------------------------------------------------------------
(* What is merged *)

LEMMA LeastIs ==
    ASSUME NEW S \in SUBSET Nat, S # {}
    PROVE  Min(S) \in S /\ \A k \in S : Min(S) <= k
<1>1. \E least \in S : \A k \in S : least <= k
      BY LeastOfNat
<1>.  QED  BY <1>1 DEF Min

\* Induction downwards.
LEMMA Down ==
    ASSUME NEW n \in Nat, NEW S, n \in S, n # 0, \A i \in 1..(n - 1) : i + 1 \in S => i \in S
    PROVE  1 \in S
<1>.  DEFINE Bad == {k \in 0..(n - 1) : n - k \notin S}
<1>1. SUFFICES ASSUME Bad # {} PROVE FALSE
  <2>1. n - 1 \in 0..(n - 1) /\ n - (n - 1) = 1
        OBVIOUS
  <2>2. n - 1 \notin Bad
        OBVIOUS
  <2>.  QED  BY <2>1, <2>2
<1>2. Bad \subseteq Nat
      OBVIOUS
<1>3. PICK k \in Bad : \A l \in Bad : k <= l
      BY <1>1, <1>2, LeastOfNat
<1>4. k # 0
      BY <1>3
<1>5. k - 1 \in 0..(n - 1) /\ k - 1 \notin Bad
      BY <1>3, <1>4
<1>6. n - (k - 1) \in S /\ n - k \in 1..(n - 1) /\ (n - k) + 1 = n - (k - 1)
      BY <1>3, <1>4, <1>5
<1>.  QED  BY <1>3, <1>6

\* m is the merges of a chain from its last file down to the one at i.
IsMerge(m, i) ==
    m = [j \in i..Len(chain) |->
            IF j = Len(chain) THEN chain[Len(chain)] ELSE DeepMerge(m[j + 1], chain[j])]

ChainOK ==
    /\ chain \in Seq({chain[i] : i \in DOMAIN chain})
    /\ verdict \in {"resolved", "loaded"} => chain # <<>>

\* The recursion that defines Merged has a solution.
LEMMA MergeExists ==
    ASSUME NEW n \in Nat, n = Len(chain), n # 0
    PROVE  \E m : IsMerge(m, 1)
<1>.  DEFINE S == {i \in 1..n : \E m : IsMerge(m, i)}
<1>1. n \in S
  <2>1. \A j \in n..n : j = n
        OBVIOUS
  <2>2. [j \in n..n |-> chain[n]] =
           [j \in n..n |-> IF j = n THEN chain[n]
                           ELSE DeepMerge([l \in n..n |-> chain[n]][j + 1], chain[j])]
        BY <2>1
  <2>3. IsMerge([j \in n..n |-> chain[n]], n)
        BY <2>2 DEF IsMerge
  <2>.  QED  BY <2>3
<1>2. SUFFICES ASSUME NEW i \in 1..(n - 1), i + 1 \in S
               PROVE  \E m : IsMerge(m, i)
  <2>1. \A i \in 1..(n - 1) : i \in 1..n
        OBVIOUS
  <2>2. \A i \in 1..(n - 1) : i + 1 \in S => i \in S
        BY <1>2, <2>1
  <2>.  HIDE DEF S
  <2>3. 1 \in S
        BY <1>1, <2>2, Down
  <2>.  QED  BY <2>3 DEF S
<1>5. i \in Nat /\ i \in 1..n /\ i # n
      OBVIOUS
<1>6. PICK m : IsMerge(m, i + 1)
      BY <1>2
<1>7. \A j \in (i + 1)..n : m[j] = IF j = n THEN chain[n] ELSE DeepMerge(m[j + 1], chain[j])
      BY <1>6 DEF IsMerge
<1>.  DEFINE longer == [j \in i..n |-> IF j = i THEN DeepMerge(m[i + 1], chain[i]) ELSE m[j]]
<1>8. \A j \in i..n : longer[j] = IF j = n THEN chain[n]
                                  ELSE DeepMerge(longer[j + 1], chain[j])
  <2>.  SUFFICES ASSUME NEW j \in i..n
                 PROVE  longer[j] = IF j = n THEN chain[n]
                                    ELSE DeepMerge(longer[j + 1], chain[j])
        OBVIOUS
  <2>1. j # n => j + 1 \in i..n /\ j + 1 # i
        BY <1>5
  <2>2. j # n => longer[j + 1] = m[j + 1]
        BY <2>1
  <2>3. CASE j = i
        BY <1>5, <2>2, <2>3
  <2>4. CASE j # i
    <3>1. j \in (i + 1)..n
          BY <1>5, <2>4
    <3>.  QED  BY <1>7, <2>2, <2>4, <3>1
  <2>.  QED  BY <2>3, <2>4
<1>9. longer = [j \in i..n |-> longer[j]]
      OBVIOUS
<1>.  HIDE DEF longer
<1>10. longer = [j \in i..n |-> IF j = n THEN chain[n]
                                ELSE DeepMerge(longer[j + 1], chain[j])]
       BY <1>8, <1>9
<1>11. IsMerge(longer, i)
       BY <1>10 DEF IsMerge
<1>.  QED  BY <1>11

LEMMA MergeShape ==
    ASSUME NEW n \in Nat, n = Len(chain), n # 0
    PROVE  \E m : /\ Merged = m[1] /\ m[n] = chain[n]
                  /\ \A i \in 1..(n - 1) : m[i] = DeepMerge(m[i + 1], chain[i])
<1>1. Merged = (CHOOSE m : IsMerge(m, 1))[1]
      BY DEF Merged, IsMerge
<1>2. PICK m : m = CHOOSE f : IsMerge(f, 1)
      OBVIOUS
<1>3. IsMerge(m, 1)
      BY <1>2, MergeExists, Zenon
<1>4. m = [j \in 1..n |-> IF j = n THEN chain[n] ELSE DeepMerge(m[j + 1], chain[j])]
      BY <1>3 DEF IsMerge
<1>5. \A j \in 1..n : m[j] = IF j = n THEN chain[n] ELSE DeepMerge(m[j + 1], chain[j])
      BY <1>4
<1>6. n \in 1..n /\ \A i \in 1..(n - 1) : i \in 1..n /\ i # n
      OBVIOUS
<1>.  QED  BY <1>1, <1>2, <1>5, <1>6

\* A mapping says something of a key of a section: it gives it a value, or empties the
\* section.
SaysOf(f, section, key) ==
    section \in DOMAIN f /\ (f[section].mapping => key \in DOMAIN f[section].of)

\* In a merge the child has its say, and where it has none the parent.
LEMMA MergeSays ==
    ASSUME NEW parent, NEW child, NEW section, NEW key
    PROVE  /\ DOMAIN DeepMerge(parent, child) = DOMAIN parent \cup DOMAIN child
           /\ SaysOf(child, section, key) =>
                 Setting(DeepMerge(parent, child), section, key, Absent) =
                    IF child[section].mapping THEN child[section].of[key] ELSE Absent
           /\ ~ SaysOf(child, section, key) =>
                 Setting(DeepMerge(parent, child), section, key, Absent) =
                    Setting(parent, section, key, Absent)
<1>.  DEFINE both   == {s \in DOMAIN child \cap DOMAIN parent :
                          child[s].mapping /\ parent[s].mapping}
             merged == DeepMerge(parent, child)
<1>1. DOMAIN merged = DOMAIN parent \cup DOMAIN child
      BY DEF DeepMerge, Over
<1>2. section \in both =>
         /\ section \in DOMAIN merged /\ merged[section].mapping
         /\ merged[section].of = Over(child[section].of, parent[section].of)
      BY DEF DeepMerge, Over, Mapping
<1>3. section \notin both /\ section \in DOMAIN child => merged[section] = child[section]
      BY DEF DeepMerge, Over
<1>4. section \notin DOMAIN child /\ section \in DOMAIN parent => merged[section] = parent[section]
      BY DEF DeepMerge, Over
<1>5. section \in both =>
         LET f == child[section].of
             g == parent[section].of
         IN  /\ DOMAIN merged[section].of = DOMAIN f \cup DOMAIN g
             /\ key \in DOMAIN f => merged[section].of[key] = f[key]
             /\ key \notin DOMAIN f /\ key \in DOMAIN g => merged[section].of[key] = g[key]
  <2>1. PICK f, g : f = child[section].of /\ g = parent[section].of
        OBVIOUS
  <2>2. /\ DOMAIN Over(f, g) = DOMAIN f \cup DOMAIN g
        /\ key \in DOMAIN f => Over(f, g)[key] = f[key]
        /\ key \notin DOMAIN f /\ key \in DOMAIN g => Over(f, g)[key] = g[key]
        BY DEF Over
  <2>.  HIDE DEF both, merged
  <2>.  QED  BY <1>2, <2>1, <2>2
<1>6. section \in both <=> /\ section \in DOMAIN child /\ section \in DOMAIN parent
                           /\ child[section].mapping /\ parent[section].mapping
      OBVIOUS
<1>.  HIDE DEF both, merged
<1>7. ASSUME SaysOf(child, section, key)
      PROVE  Setting(merged, section, key, Absent) =
                IF child[section].mapping THEN child[section].of[key] ELSE Absent
  <2>1. section \in DOMAIN child /\ (child[section].mapping => key \in DOMAIN child[section].of)
        BY <1>7 DEF SaysOf
  <2>2. CASE section \in both
    <3>1. child[section].mapping /\ key \in DOMAIN child[section].of
          BY <1>6, <2>1, <2>2
    <3>2. /\ section \in DOMAIN merged /\ merged[section].mapping
          /\ key \in DOMAIN merged[section].of
          /\ merged[section].of[key] = child[section].of[key]
          BY <1>2, <1>5, <2>2, <3>1
    <3>.  QED  BY <3>1, <3>2 DEF Setting
  <2>3. CASE section \notin both
    <3>1. section \in DOMAIN merged /\ merged[section] = child[section]
          BY <1>1, <1>3, <2>1, <2>3
    <3>.  QED  BY <2>1, <3>1 DEF Setting
  <2>.  QED  BY <2>2, <2>3
<1>8. ASSUME ~ SaysOf(child, section, key)
      PROVE  Setting(merged, section, key, Absent) = Setting(parent, section, key, Absent)
  <2>1. CASE section \notin DOMAIN child
    <3>1. CASE section \in DOMAIN parent
      <4>1. section \in DOMAIN merged /\ merged[section] = parent[section]
            BY <1>1, <1>4, <2>1, <3>1
      <4>.  QED  BY <3>1, <4>1 DEF Setting
    <3>2. CASE section \notin DOMAIN parent
      <4>1. section \notin DOMAIN merged
            BY <1>1, <2>1, <3>2
      <4>.  QED  BY <3>2, <4>1 DEF Setting
    <3>.  QED  BY <3>1, <3>2
  <2>2. CASE section \in DOMAIN child /\ section \in both
    <3>1. /\ section \in DOMAIN parent /\ parent[section].mapping
          /\ key \notin DOMAIN child[section].of
          BY <1>6, <1>8, <2>2 DEF SaysOf
    <3>2. /\ section \in DOMAIN merged /\ merged[section].mapping
          /\ DOMAIN merged[section].of = DOMAIN child[section].of \cup DOMAIN parent[section].of
          /\ key \in DOMAIN parent[section].of =>
                merged[section].of[key] = parent[section].of[key]
          BY <1>2, <1>5, <2>2, <3>1
    <3>3. key \in DOMAIN merged[section].of <=> key \in DOMAIN parent[section].of
          BY <3>1, <3>2
    <3>.  QED  BY <3>1, <3>2, <3>3 DEF Setting
  <2>3. CASE section \in DOMAIN child /\ section \notin both
    <3>1. child[section].mapping /\ key \notin DOMAIN child[section].of
          BY <1>8, <2>3 DEF SaysOf
    <3>2. section \in DOMAIN merged /\ merged[section] = child[section]
          BY <1>1, <1>3, <2>3
    <3>3. ~ (section \in DOMAIN parent /\ parent[section].mapping)
          BY <1>6, <2>3, <3>1
    <3>.  QED  BY <3>1, <3>2, <3>3 DEF Setting
  <2>.  QED  BY <2>1, <2>2, <2>3
<1>.  QED  BY <1>1, <1>7, <1>8 DEF merged

LEMMA NearestHasWon ==
    ASSUME ChainOK, verdict \in {"resolved", "loaded"}
    PROVE  NearestWins
<1>1. PICK n \in Nat : n = Len(chain) /\ n # 0 /\ DOMAIN chain = 1..n
  <2>1. chain \in Seq({chain[i] : i \in DOMAIN chain}) /\ chain # <<>>
        BY DEF ChainOK
  <2>2. Len(chain) \in Nat /\ DOMAIN chain = 1..Len(chain)
        BY <2>1
  <2>3. Len(chain) # 0
        BY <2>1, EmptySeq
  <2>.  QED  BY <2>2, <2>3
<1>2. PICK m : /\ Merged = m[1] /\ m[n] = chain[n]
               /\ \A i \in 1..(n - 1) : m[i] = DeepMerge(m[i + 1], chain[i])
      BY <1>1, MergeShape
<1>3. \A i \in 1..(n - 1) : \A section, key :
         /\ DOMAIN m[i] = DOMAIN m[i + 1] \cup DOMAIN chain[i]
         /\ SaysOf(chain[i], section, key) =>
               Setting(m[i], section, key, Absent) =
                  IF chain[i][section].mapping THEN chain[i][section].of[key] ELSE Absent
         /\ ~ SaysOf(chain[i], section, key) =>
               Setting(m[i], section, key, Absent) = Setting(m[i + 1], section, key, Absent)
  <2>.  SUFFICES ASSUME NEW i \in 1..(n - 1), NEW section, NEW key
                 PROVE  /\ DOMAIN m[i] = DOMAIN m[i + 1] \cup DOMAIN chain[i]
                        /\ SaysOf(chain[i], section, key) =>
                              Setting(m[i], section, key, Absent) =
                                 IF chain[i][section].mapping
                                 THEN chain[i][section].of[key] ELSE Absent
                        /\ ~ SaysOf(chain[i], section, key) =>
                              Setting(m[i], section, key, Absent) =
                                 Setting(m[i + 1], section, key, Absent)
        OBVIOUS
  <2>1. PICK parent, child : parent = m[i + 1] /\ child = chain[i] /\ m[i] = DeepMerge(parent, child)
        BY <1>2
  <2>2. /\ DOMAIN DeepMerge(parent, child) = DOMAIN parent \cup DOMAIN child
        /\ SaysOf(child, section, key) =>
              Setting(DeepMerge(parent, child), section, key, Absent) =
                 IF child[section].mapping THEN child[section].of[key] ELSE Absent
        /\ ~ SaysOf(child, section, key) =>
              Setting(DeepMerge(parent, child), section, key, Absent) =
                 Setting(parent, section, key, Absent)
        BY MergeSays, Zenon
  <2>.  QED  BY <2>1, <2>2
<1>4. ASSUME NEW j \in 1..n, NEW section \in DOMAIN chain[j]
      PROVE  section \in DOMAIN Merged
  <2>.  DEFINE S == {i \in 1..j : section \in DOMAIN m[i]}
  <2>1. j \in S
    <3>1. CASE j = n
          BY <1>2, <1>4, <3>1
    <3>2. CASE j # n
      <4>1. j \in 1..(n - 1)
            BY <3>2
      <4>.  QED  BY <1>4, <1>3, <4>1
    <3>.  QED  BY <3>1, <3>2
  <2>2. \A i \in 1..(j - 1) : i + 1 \in S => i \in S
    <3>.  SUFFICES ASSUME NEW i \in 1..(j - 1), i + 1 \in S
                   PROVE  i \in S
          OBVIOUS
    <3>1. i \in 1..(n - 1) /\ i \in 1..j
          OBVIOUS
    <3>2. section \in DOMAIN m[i]
          BY <1>3, <3>1
    <3>.  QED  BY <3>1, <3>2
  <2>.  HIDE DEF S
  <2>3. 1 \in S
        BY <2>1, <2>2, Down
  <2>.  QED  BY <1>2, <2>3 DEF S
<1>5. ASSUME NEW section, NEW key, NEW j \in 1..n, SaysOf(chain[j], section, key),
             \A i \in 1..(j - 1) : ~ SaysOf(chain[i], section, key)
      PROVE  Setting(Merged, section, key, Absent) =
                IF chain[j][section].mapping THEN chain[j][section].of[key] ELSE Absent
  <2>.  DEFINE Said == IF chain[j][section].mapping THEN chain[j][section].of[key] ELSE Absent
               S == {i \in 1..j : Setting(m[i], section, key, Absent) = Said}
  <2>1. j \in S
    <3>1. CASE j = n
      <4>1. m[j] = chain[j]
            BY <1>2, <3>1
      <4>2. Setting(chain[j], section, key, Absent) = Said
            BY <1>5 DEF Setting, SaysOf
      <4>.  QED  BY <4>1, <4>2
    <3>2. CASE j # n
      <4>1. j \in 1..(n - 1)
            BY <3>2
      <4>.  QED  BY <1>5, <1>3, <4>1
    <3>.  QED  BY <3>1, <3>2
  <2>2. \A i \in 1..(j - 1) : i + 1 \in S => i \in S
    <3>.  SUFFICES ASSUME NEW i \in 1..(j - 1), i + 1 \in S
                   PROVE  i \in S
          OBVIOUS
    <3>1. i \in 1..(n - 1) /\ i \in 1..j
          OBVIOUS
    <3>.  HIDE DEF Said
    <3>3. Setting(m[i + 1], section, key, Absent) = Said
          OBVIOUS
    <3>4. Setting(m[i], section, key, Absent) = Said
          BY <1>5, <1>3, <3>1, <3>3
    <3>.  QED  BY <3>1, <3>4
  <2>.  HIDE DEF S
  <2>3. 1 \in S
        BY <2>1, <2>2, Down
  <2>.  QED  BY <1>2, <2>3 DEF S
<1>6. ASSUME NEW section, NEW key, NEW i \in 1..n, SaysOf(chain[i], section, key)
      PROVE  LET said == chain[Min({l \in DOMAIN chain : SaysOf(chain[l], section, key)})][section]
             IN  Setting(Merged, section, key, Absent) =
                    IF said.mapping THEN said.of[key] ELSE Absent
  <2>.  DEFINE S == {l \in DOMAIN chain : SaysOf(chain[l], section, key)}
  <2>1. S \in SUBSET Nat /\ S # {}
        BY <1>1, <1>6
  <2>.  HIDE DEF S
  <2>2. PICK j : j = Min(S) /\ j \in S /\ \A k \in S : j <= k
        BY <2>1, LeastIs
  <2>3. j \in 1..n /\ SaysOf(chain[j], section, key)
        BY <1>1, <2>2 DEF S
  <2>4. \A l \in 1..(j - 1) : l \in DOMAIN chain /\ ~ (j <= l)
        BY <1>1, <2>3
  <2>5. \A l \in 1..(j - 1) : ~ SaysOf(chain[l], section, key)
        BY <2>2, <2>4 DEF S
  <2>.  QED  BY <1>5, <2>2, <2>3, <2>5 DEF S
<1>7. ASSUME NEW section \in UNION {DOMAIN chain[i] : i \in DOMAIN chain}
      PROVE  section \in DOMAIN Merged
      BY <1>1, <1>4
<1>8. ASSUME NEW section,
             NEW key \in UNION {DOMAIN chain[i][section].of :
                                  i \in {j \in DOMAIN chain : section \in DOMAIN chain[j]
                                                             /\ chain[j][section].mapping}}
      PROVE  LET said == chain[Min({l \in DOMAIN chain : SaysOf(chain[l], section, key)})][section]
             IN  Setting(Merged, section, key, Absent) =
                    IF said.mapping THEN said.of[key] ELSE Absent
  <2>1. PICK i \in 1..n : section \in DOMAIN chain[i] /\ key \in DOMAIN chain[i][section].of
        BY <1>1, <1>8
  <2>.  QED  BY <1>6, <2>1 DEF SaysOf
<1>.  QED  BY <1>7, <1>8, Zenon DEF NearestWins, SaysOf

LEMMA ChainStep ==
    ASSUME ChainOK, [Next]_vars
    PROVE  ChainOK'
<1>1. CASE UNCHANGED <<chain, verdict>>
      BY <1>1 DEF ChainOK
<1>2. CASE Complete
  <2>1. chain' = <<>> /\ verdict' = "used"
        BY <1>2 DEF Complete
  <2>2. <<>> \in Seq({chain'[i] : i \in DOMAIN chain'})
        OBVIOUS
  <2>.  QED  BY <2>1, <2>2 DEF ChainOK
<1>3. CASE ReadOne
  <2>1. PICK f : chain' = Append(chain, f)
        BY <1>3 DEF ReadOne
  <2>2. /\ chain' \in Seq({chain'[i] : i \in DOMAIN chain'})
        /\ Len(chain') = Len(chain) + 1 /\ Len(chain) \in Nat
        BY <2>1, OneMore DEF ChainOK
  <2>3. Len(<<>>) = 0
        OBVIOUS
  <2>.  QED  BY <2>2, <2>3 DEF ChainOK
<1>4. CASE chain' = chain /\ verdict' \notin {"resolved", "loaded"}
      BY <1>4 DEF ChainOK
<1>5. CASE Validate
      BY <1>5 DEF Validate, ChainOK
<1>.  QED  BY <1>1, <1>2, <1>3, <1>4, <1>5
           DEF Next, Load, LoaderNext, loaderVars, vars, Cycle, TooDeep, NotFound, Unusable, Refuse

\* Whatever the files of a chain set, a setting of the merged profile is what the nearest
\* file that says anything of it says.
THEOREM NearestFileWins == Spec => []NearestWins
<1>1. ASSUME Init
      PROVE  ChainOK
  <2>1. chain = <<>> /\ verdict = "loading"
        BY <1>1 DEF Init, LoaderInit
  <2>2. <<>> \in Seq({chain[i] : i \in DOMAIN chain})
        OBVIOUS
  <2>.  QED  BY <2>1, <2>2 DEF ChainOK
<1>2. ChainOK /\ [Next]_vars => ChainOK'
      BY ChainStep
<1>3. ChainOK => NearestWins
  <2>1. verdict \notin {"resolved", "loaded"} => NearestWins
        BY DEF NearestWins
  <2>.  QED  BY <2>1, NearestHasWon
<1>.  QED  BY <1>1, <1>2, <1>3, PTL DEF Spec

==============================================================================
