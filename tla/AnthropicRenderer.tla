---------------------------- MODULE AnthropicRenderer ----------------------------
(***************************************************************************)
(* renderAnthropicMessageSSE (src/providers/anthropic/renderer.ts).  The   *)
(* blocks of a message do not overlap, although calls do: calls wait until *)
(* they are complete, each behind the ones that started before it.  Block  *)
(* indexes count from 1 here.                                              *)
(***************************************************************************)
EXTENDS PartStream, SequencesExt

VARIABLES
  messageStarted, currentBlockIndex,
  currentBlockType,               \* "text" or "none"
  pendingToolCalls                \* in the order they were queued

rendererVars == <<messageStarted, currentBlockIndex, currentBlockType, pendingToolCalls>>

RendererInit ==
  /\ messageStarted = FALSE
  /\ currentBlockIndex = 0
  /\ currentBlockType = "none"
  /\ pendingToolCalls = <<>>

Init == StreamInit /\ RendererInit

-----------------------------------------------------------------------------
(* emitMessageStart                                                        *)
Emit(events) ==
  /\ messageStarted' = TRUE
  /\ out' = IF messageStarted THEN events ELSE <<Created>> \o events

(* emitBlockStop                                                           *)
BlockStop == IF currentBlockType = "none" THEN <<>> ELSE <<Done(currentBlockIndex, "text")>>

TextDelta ==
  /\ SendText
  /\ IF currentBlockType = "text" THEN
       Emit(<<Piece(currentBlockIndex, "text")>>) /\ UNCHANGED <<currentBlockIndex, currentBlockType>>
     ELSE
       /\ currentBlockIndex' = currentBlockIndex + 1
       /\ currentBlockType' = "text"
       /\ Emit(<<Added(currentBlockIndex + 1, "text"), Piece(currentBlockIndex + 1, "text")>>)
  /\ UNCHANGED pendingToolCalls

(* queueToolCall                                                           *)
Queued(c) ==
  IF \E i \in DOMAIN pendingToolCalls : pendingToolCalls[i].id = c THEN pendingToolCalls
  ELSE Append(pendingToolCalls, [id |-> c, deltas |-> 0, whole |-> 0, complete |-> FALSE])

Updated(pending, c, Change(_)) ==
  [i \in DOMAIN pending |-> IF pending[i].id = c THEN Change(pending[i]) ELSE pending[i]]

ToolInputStart(c) ==
  /\ SendInputStart(c)
  /\ Emit(BlockStop)
  /\ currentBlockType' = "none"
  /\ pendingToolCalls' = Queued(c)
  /\ UNCHANGED currentBlockIndex

ToolInputDelta(c) ==
  /\ SendInput(c)
  /\ out' = <<>>
  /\ pendingToolCalls' = Updated(pendingToolCalls, c, LAMBDA p : [p EXCEPT !.deltas = @ + 1])
  /\ UNCHANGED <<messageStarted, currentBlockIndex, currentBlockType>>

(* The block of a call, at an index.                                       *)
CallBlock(pending, b) ==
  <<Added(b, pending.id)>>
    \o [i \in 1..pending.deltas |-> Piece(b, pending.id)]
    \o [i \in 1..pending.whole |-> Whole(b, pending.id)]
    \o <<Done(b, pending.id)>>

(* How many calls go: all of them, or those before the first that is not   *)
(* complete.                                                               *)
Ready(pending, force) ==
  IF force THEN Len(pending)
  ELSE CHOOSE n \in 0..Len(pending) :
         /\ \A i \in 1..n : pending[i].complete
         /\ n < Len(pending) => ~pending[n + 1].complete

(* emitPendingToolCalls                                                    *)
Blocks(pending, n) ==
  FlattenSeq([i \in 1..n |-> CallBlock(pending[i], currentBlockIndex + i)])

EmitPending(pending, n, rest) ==
  /\ Emit(BlockStop \o Blocks(pending, n) \o rest)
  /\ currentBlockIndex' = currentBlockIndex + n
  /\ currentBlockType' = "none"
  /\ pendingToolCalls' = SubSeq(pending, n + 1, Len(pending))

(* A call that got no pieces is given its whole input.                     *)
CompletedCall(p) == [p EXCEPT !.complete = TRUE, !.whole = IF p.deltas + p.whole = 0 THEN 1 ELSE @]

ToolCall(c) ==
  /\ SendCall(c)
  /\ LET pending == Updated(Queued(c), c, CompletedCall)
         n == Ready(pending, FALSE)
     IN  IF n > 0 THEN EmitPending(pending, n, <<>>)
         ELSE /\ Emit(<<>>)
              /\ pendingToolCalls' = pending
              /\ UNCHANGED <<currentBlockIndex, currentBlockType>>

EmitAll(rest) ==
  LET n == Ready(pendingToolCalls, TRUE) IN EmitPending(pendingToolCalls, n, rest)

(* message_delta and message_stop: the renderer returns, and with it       *)
(* releases the upstream.                                                  *)
Finish == SendFinish /\ EmitAll(<<Completed>>)

Skip == (\E c \in Calls : SendResult(c)) \/ SendReasoningStart \/ SendReasoning \/ SendReasoningEnd \/ SendOther

Ignored == Skip /\ out' = <<>> /\ UNCHANGED rendererVars

(* emitTerminalError: for an error part, the early end of the stream or    *)
(* what it throws, at last when it is released.                            *)
TerminalError ==
  /\ SendError \/ Throw \/ (EndOfStream /\ upstream = "streaming")
  /\ EmitAll(<<Failed, Closed>>)

Return == EndOfStream /\ upstream = "finished" /\ out' = <<Closed>> /\ UNCHANGED rendererVars

Step ==
  \/ TextDelta \/ Ignored
  \/ \E c \in Calls : ToolInputStart(c) \/ ToolInputDelta(c) \/ ToolCall(c)
  \/ Finish \/ TerminalError \/ Return

Next == Step \/ (Read /\ UNCHANGED rendererVars)

-----------------------------------------------------------------------------
(* The text arrives piece by piece, each call once, with the pieces of its *)
(* input that came or, when it is complete and none did, with the whole    *)
(* input, and in the order in which the calls started.                     *)
ContentArrives ==
  /\ out = <<>> => PiecesSeen("text") = sent.text
  /\ \A c \in Calls : ClosedBlocks(c) # {} => InputArrived(c)
  /\ phase = "completed" => \A c \in Calls : call[c].at # "none" => CallArrived(c)
  /\ InOrder
=============================================================================
