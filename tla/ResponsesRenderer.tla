---------------------------- MODULE ResponsesRenderer ----------------------------
(***************************************************************************)
(* renderOpenAIResponseSSE (src/providers/openai-responses/renderer.ts).   *)
(* Output indexes count from 1 here; 0 is one that is undefined.           *)
(***************************************************************************)
EXTENDS PartStream

VARIABLES
  responseStarted, nextOutputIndex, currentOutputIndex, textItemStarted, reasoningItemStarted,
  completedOutput,                \* by output index
  toolCallOutputIndices, toolCallsWithArgumentDeltas, toolCallStartEmitted, hostedToolCallIds,
  output                          \* of response.completed

itemVars == <<nextOutputIndex, currentOutputIndex, textItemStarted, reasoningItemStarted,
              completedOutput>>
callVars == <<toolCallOutputIndices, toolCallsWithArgumentDeltas, toolCallStartEmitted,
              hostedToolCallIds>>
rendererVars == <<responseStarted, itemVars, callVars, output>>

RendererInit ==
  /\ responseStarted = FALSE
  /\ nextOutputIndex = 1 /\ currentOutputIndex = 0
  /\ textItemStarted = FALSE /\ reasoningItemStarted = FALSE
  /\ completedOutput = [b \in 0..MaxBlocks |-> "none"]
  /\ toolCallOutputIndices = [c \in Calls |-> 0]
  /\ toolCallsWithArgumentDeltas = {} /\ toolCallStartEmitted = {} /\ hostedToolCallIds = {}
  /\ output = <<>>

Init == StreamInit /\ RendererInit

-----------------------------------------------------------------------------
(* The first part starts the response.                                     *)
Emit(events) ==
  /\ responseStarted' = TRUE
  /\ out' = IF responseStarted THEN events ELSE <<Created>> \o events

(* closeCurrentTextMessage, and what it leaves behind.                     *)
ClosedText == IF textItemStarted THEN <<Done(currentOutputIndex, "text")>> ELSE <<>>
WithoutText == IF textItemStarted THEN 0 ELSE currentOutputIndex
TextCompleted ==
  IF textItemStarted THEN [completedOutput EXCEPT ![currentOutputIndex] = "text"] ELSE completedOutput

CloseText ==
  /\ textItemStarted' = FALSE
  /\ currentOutputIndex' = WithoutText
  /\ completedOutput' = TextCompleted

TextDelta ==
  /\ SendText
  /\ IF textItemStarted THEN
       /\ Emit(<<Piece(currentOutputIndex, "text")>>)
       /\ UNCHANGED <<textItemStarted, currentOutputIndex, nextOutputIndex>>
     ELSE
       /\ Emit(<<Added(nextOutputIndex, "text"), Piece(nextOutputIndex, "text")>>)
       /\ textItemStarted' = TRUE
       /\ currentOutputIndex' = nextOutputIndex
       /\ nextOutputIndex' = nextOutputIndex + 1
  /\ UNCHANGED <<reasoningItemStarted, completedOutput, callVars, output>>

(* startReasoningItem                                                      *)
StartReasoning(events) ==
  IF reasoningItemStarted THEN
    /\ Emit([i \in 1..events |-> Piece(currentOutputIndex, "reasoning")])
    /\ UNCHANGED itemVars
  ELSE
    /\ Emit(ClosedText \o <<Added(nextOutputIndex, "reasoning")>>
              \o [i \in 1..events |-> Piece(nextOutputIndex, "reasoning")])
    /\ textItemStarted' = FALSE
    /\ completedOutput' = TextCompleted
    /\ reasoningItemStarted' = TRUE
    /\ currentOutputIndex' = nextOutputIndex
    /\ nextOutputIndex' = nextOutputIndex + 1

ReasoningStart == SendReasoningStart /\ StartReasoning(0) /\ UNCHANGED <<callVars, output>>

ReasoningDelta == SendReasoning /\ StartReasoning(1) /\ UNCHANGED <<callVars, output>>

(* finishReasoningItem                                                     *)
ClosedReasoning == IF reasoningItemStarted THEN <<Done(currentOutputIndex, "reasoning")>> ELSE <<>>

ReasoningCompleted ==
  IF reasoningItemStarted THEN [completedOutput EXCEPT ![currentOutputIndex] = "reasoning"]
  ELSE completedOutput

ReasoningEnd ==
  /\ SendReasoningEnd
  /\ Emit(ClosedReasoning)
  /\ reasoningItemStarted' = FALSE
  /\ completedOutput' = ReasoningCompleted
  /\ currentOutputIndex' = IF reasoningItemStarted THEN 0 ELSE currentOutputIndex
  /\ UNCHANGED <<nextOutputIndex, textItemStarted, callVars, output>>

-----------------------------------------------------------------------------
(* Tool calls.                                                             *)

ToolInputStart(c) ==
  /\ SendInputStart(c)
  /\ Emit(ClosedText \o <<Added(nextOutputIndex, c)>>)
  /\ CloseText
  /\ nextOutputIndex' = nextOutputIndex + 1
  /\ toolCallOutputIndices' = [toolCallOutputIndices EXCEPT ![c] = nextOutputIndex]
  /\ toolCallStartEmitted' = toolCallStartEmitted \cup {c}
  /\ hostedToolCallIds' = hostedToolCallIds \cup {d \in {c} : kind[d] = "hosted"}
  /\ UNCHANGED <<reasoningItemStarted, toolCallsWithArgumentDeltas, output>>

(* The input of shimmed tools is decoded when it is complete.              *)
Streamed(c) == c \notin hostedToolCallIds /\ kind[c] \notin {"shimmed", "search"}

ToolInputDelta(c) ==
  /\ SendInput(c)
  /\ IF Streamed(c) THEN
       /\ toolCallsWithArgumentDeltas' = toolCallsWithArgumentDeltas \cup {c}
       /\ Emit([i \in 1..(IF toolCallOutputIndices[c] = 0 THEN 0 ELSE 1) |->
                  Piece(toolCallOutputIndices[c], c)])
     ELSE Emit(<<>>) /\ UNCHANGED toolCallsWithArgumentDeltas
  /\ UNCHANGED <<itemVars, toolCallOutputIndices, toolCallStartEmitted, hostedToolCallIds, output>>

(* Faulty: the index that was reserved at the start is not looked up.      *)
Index_Faulty(c) == nextOutputIndex

(* The reserved index of a call, or the next one.                          *)
Index(c) == IF toolCallOutputIndices[c] = 0 THEN nextOutputIndex ELSE toolCallOutputIndices[c]

Missing(c) == IF c \in toolCallStartEmitted THEN <<>> ELSE <<Added(Index(c), c)>>

(* Faulty: what has started is taken for what has sent a piece.            *)
Rest_Faulty(c) ==
  IF c \in toolCallStartEmitted \/ kind[c] = "search" THEN <<>> ELSE <<Whole(Index(c), c)>>

(* The whole input, if none of it was sent.  A tool search has it in its   *)
(* item only.                                                              *)
Rest(c) ==
  IF c \in toolCallsWithArgumentDeltas \/ kind[c] = "search" THEN <<>> ELSE <<Whole(Index(c), c)>>

(* The item of a call is done, at its index, which is given up.            *)
CompleteCall(c, events) ==
  /\ Emit(ClosedText \o Missing(c) \o events \o <<Done(Index(c), c)>>)
  /\ textItemStarted' = FALSE
  /\ currentOutputIndex' = WithoutText
  /\ completedOutput' = [TextCompleted EXCEPT ![Index(c)] = c]
  /\ nextOutputIndex' = IF toolCallOutputIndices[c] = 0 THEN nextOutputIndex + 1 ELSE nextOutputIndex
  /\ toolCallOutputIndices' = [toolCallOutputIndices EXCEPT ![c] = 0]
  /\ UNCHANGED <<reasoningItemStarted, toolCallsWithArgumentDeltas, toolCallStartEmitted, output>>

(* A hosted call waits for its result.                                     *)
HostedCall(c) ==
  /\ SendCall(c) /\ kind[c] = "hosted"
  /\ Emit(<<>>)
  /\ hostedToolCallIds' = hostedToolCallIds \cup {c}
  /\ UNCHANGED <<itemVars, toolCallOutputIndices, toolCallsWithArgumentDeltas,
                 toolCallStartEmitted, output>>

ToolCall(c) ==
  /\ SendCall(c) /\ kind[c] # "hosted"
  /\ CompleteCall(c, Rest(c))
  /\ UNCHANGED hostedToolCallIds

ToolResult(c) ==
  /\ SendResult(c) /\ c \in hostedToolCallIds
  /\ CompleteCall(c, <<>>)
  /\ hostedToolCallIds' = hostedToolCallIds \ {c}

-----------------------------------------------------------------------------
(* The end.                                                                *)

(* The items of an output, in the order of their indexes.                  *)
Items(o) == SelectSeq([b \in 1..MaxBlocks |-> o[b]], LAMBDA x : x # "none")

(* finishReasoningItem, closeCurrentTextMessage, response.completed.       *)
Finish ==
  LET afterReasoning == IF reasoningItemStarted THEN 0 ELSE currentOutputIndex
      closedText == IF textItemStarted THEN <<Done(afterReasoning, "text")>> ELSE <<>>
      all == IF textItemStarted THEN [ReasoningCompleted EXCEPT ![afterReasoning] = "text"]
             ELSE ReasoningCompleted
  IN
  /\ SendFinish
  /\ Emit(ClosedReasoning \o closedText \o <<Completed>>)
  /\ output' = Items(all)
  /\ completedOutput' = all
  /\ reasoningItemStarted' = FALSE /\ textItemStarted' = FALSE /\ currentOutputIndex' = 0
  /\ UNCHANGED <<nextOutputIndex, callVars>>

Other == SendOther /\ Emit(<<>>) /\ UNCHANGED <<itemVars, callVars, output>>

Error == SendError /\ Emit(<<Failed, Closed>>) /\ UNCHANGED <<itemVars, callVars, output>>

Catch == Throw /\ out' = <<Failed, Closed>> /\ UNCHANGED rendererVars

Return == EndOfStream /\ out' = <<Closed>> /\ UNCHANGED rendererVars

Step ==
  \/ TextDelta \/ ReasoningStart \/ ReasoningDelta \/ ReasoningEnd
  \/ \E c \in Calls :
       \/ ToolInputStart(c) \/ ToolInputDelta(c)
       \/ HostedCall(c) \/ ToolCall(c) \/ ToolResult(c)
  \/ Finish \/ Other \/ Error \/ Catch \/ Return

Next == Step \/ (Read /\ UNCHANGED rendererVars)

-----------------------------------------------------------------------------
(* Everything that came arrives, once: text and reasoning piece by piece,  *)
(* the input of a finished call in the pieces that came, if any did, or as *)
(* a whole; and response.completed lists the finished items, each complete *)
(* call among them, in order.                                              *)
ContentArrives ==
  /\ out = <<>> => \A x \in {"text", "reasoning"} : PiecesSeen(x) = sent[x]
  /\ \A c \in Calls : ClosedBlocks(c) # {} /\ kind[c] \notin {"hosted", "search"} => InputArrived(c)
  /\ phase = "completed" =>
       /\ output = Items([b \in 1..MaxBlocks |->
                     IF blocks[b].status = "closed" THEN blocks[b].of ELSE "none"])
       /\ \A c \in Calls :
            call[c].at = (IF kind[c] = "hosted" THEN "answered" ELSE "called") =>
              CallArrived(c) /\ ClosedBlocks(c) # {}
=============================================================================
