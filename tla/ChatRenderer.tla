------------------------------ MODULE ChatRenderer ------------------------------
(***************************************************************************)
(* renderOpenAIChatCompletionSSE (src/providers/openai-compatible/         *)
(* renderer.ts).  Chunks carry the index of their call; text and reasoning *)
(* have none, and are left out.  Indexes count from 1 here.                *)
(***************************************************************************)
EXTENDS PartStream

VARIABLES toolIndexes, toolCallsWithArgumentDeltas

rendererVars == <<toolIndexes, toolCallsWithArgumentDeltas>>

RendererInit == toolIndexes = [c \in Calls |-> 0] /\ toolCallsWithArgumentDeltas = {}

Init == StreamInit /\ RendererInit

Known == {c \in Calls : toolIndexes[c] # 0}

(* toolIndex                                                               *)
ToolIndex(c) == IF c \in Known THEN toolIndexes[c] ELSE Cardinality(Known) + 1

Emit(c, events) ==
  /\ out' = events
  /\ toolIndexes' = [toolIndexes EXCEPT ![c] = ToolIndex(c)]

ToolInputStart(c) ==
  /\ SendInputStart(c)
  /\ Emit(c, <<Chunk(ToolIndex(c), c)>>)
  /\ UNCHANGED toolCallsWithArgumentDeltas

ToolInputDelta(c) ==
  /\ SendInput(c)
  /\ Emit(c, <<Piece(ToolIndex(c), c)>>)
  /\ toolCallsWithArgumentDeltas' = toolCallsWithArgumentDeltas \cup {c}

(* The chunk names the call again, with the input if no piece of it came.  *)
ToolCall(c) ==
  /\ SendCall(c)
  /\ Emit(c, IF c \in toolCallsWithArgumentDeltas THEN <<Chunk(ToolIndex(c), c)>>
             ELSE <<WholeChunk(ToolIndex(c), c)>>)
  /\ UNCHANGED toolCallsWithArgumentDeltas

Unindexed ==
  /\ \/ SendText \/ SendReasoning                   \* chunks of their own
     \/ SendReasoningStart \/ SendReasoningEnd \/ SendOther \/ \E c \in Calls : SendResult(c)
  /\ out' = <<>> /\ UNCHANGED rendererVars

Finish == SendFinish /\ out' = <<Completed>> /\ UNCHANGED rendererVars

(* An error chunk and [DONE]; what the stream throws breaks the answer off.*)
Error == (SendError \/ Throw) /\ out' = <<Failed, Closed>> /\ UNCHANGED rendererVars

\* [DONE]
Return == EndOfStream /\ out' = <<Closed>> /\ UNCHANGED rendererVars

Step ==
  \/ \E c \in Calls : ToolInputStart(c) \/ ToolInputDelta(c) \/ ToolCall(c)
  \/ Unindexed \/ Finish \/ Error \/ Return

Next == Step \/ (Read /\ UNCHANGED rendererVars)

-----------------------------------------------------------------------------
(* Each call arrives once, under one index, with the pieces of its input   *)
(* that came or, when it is complete and none did, with the whole input,   *)
(* and in the order in which the calls began.                              *)
ContentArrives ==
  out = <<>> =>
    /\ \A c \in Calls :
         /\ call[c].at # "none" => CallArrived(c)
         /\ InputArrived(c)
    /\ InOrder
=============================================================================
