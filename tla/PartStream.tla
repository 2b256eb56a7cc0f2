------------------------------ MODULE PartStream ------------------------------
(***************************************************************************)
(* The two ends of a renderer of streamed answers: the parts that the      *)
(* provider's SDK brings (ProxyStreamPart, src/providers/shared/           *)
(* aisdk-types.ts) and the blocks that the client makes of the events it   *)
(* is sent.  A renderer is a generator: it takes the next part when the    *)
(* client has read every event of the last one (readableStreamFrom-        *)
(* AsyncIterable, src/server/stream-utils.ts).                             *)
(* The SDK ends a reasoning before it brings text, starts a call once,     *)
(* brings its input in pieces and then as a whole or only as a whole, and  *)
(* brings nothing after its finish; it may fail or end at any moment.      *)
(***************************************************************************)
EXTENDS Naturals, Sequences, FiniteSets, FiniteSetsExt

CONSTANTS
  Calls,              \* tool calls
  MaxParts,           \* parts of the stream,
  MaxPieces,          \* and pieces of its text, its reasoning and an input: the bounds
  Kinds               \* the kinds that the calls may have

VARIABLES
  format,             \* "responses", "anthropic" or "chat"
  kind,               \* of a call: "function", "custom", "shimmed", "search" or "hosted"
  parts,              \* how many parts came
  sent,               \* how many of them were text, and reasoning
  reasoning,          \* whether a reasoning has not ended
  call,               \* of a call: how far it came, the pieces of its input, its place
  called,             \* a history: the calls that are complete, in the order they became so
  upstream,           \* "streaming", "finished", "over"
  out,                \* events that the renderer has made, not yet read
  blocks,             \* what the client has made of the events it read
  phase               \* and how its answer stands

upstreamVars == <<format, kind, parts, sent, reasoning, call, called, upstream>>
clientVars == <<out, blocks, phase>>

MaxBlocks == MaxParts

Nothing == [status |-> "none", of |-> "-", pieces |-> 0, whole |-> 0]

StreamInit ==
  /\ format \in {"responses", "anthropic", "chat"}
  /\ kind \in Kinds
  /\ parts = 0 /\ sent = [text |-> 0, reasoning |-> 0]
  /\ reasoning = FALSE
  /\ call = [c \in Calls |-> [at |-> "none", pieces |-> 0, place |-> 0]]
  /\ called = <<>>
  /\ upstream = "streaming"
  /\ out = <<>>
  /\ blocks = [b \in 0..MaxBlocks |-> Nothing]
  /\ phase = IF format = "chat" THEN "open" ELSE "before"

-----------------------------------------------------------------------------
(* The parts.                                                              *)

Asked == out = <<>> /\ UNCHANGED <<format, kind, blocks, phase>>

Part ==
  /\ Asked /\ upstream = "streaming" /\ parts < MaxParts
  /\ parts' = parts + 1
  /\ UNCHANGED upstream

\* text-delta
SendText ==
  /\ Part /\ ~reasoning /\ sent.text < MaxPieces
  /\ sent' = [sent EXCEPT !.text = @ + 1]
  /\ UNCHANGED <<reasoning, call, called>>

\* reasoning-start
SendReasoningStart ==
  /\ Part /\ ~reasoning /\ reasoning' = TRUE
  /\ UNCHANGED <<sent, call, called>>

\* reasoning-delta, perhaps with no start before it
SendReasoning ==
  /\ Part /\ sent.reasoning < MaxPieces
  /\ reasoning' = TRUE
  /\ sent' = [sent EXCEPT !.reasoning = @ + 1]
  /\ UNCHANGED <<call, called>>

\* reasoning-end
SendReasoningEnd ==
  /\ Part /\ reasoning /\ reasoning' = FALSE
  /\ UNCHANGED <<sent, call, called>>

(* Its place is the one at which it is first heard of.                     *)
Comes(c, at) ==
  /\ call' = [call EXCEPT ![c].at = at,
                         ![c].place = IF @ = 0 THEN 1 + Cardinality({d \in Calls : call[d].place > 0})
                                      ELSE @]
  /\ UNCHANGED <<sent, reasoning>>

\* tool-input-start
SendInputStart(c) == Part /\ call[c].at = "none" /\ Comes(c, "started") /\ UNCHANGED called

\* tool-input-delta
SendInput(c) ==
  /\ Part /\ call[c].at = "started" /\ call[c].pieces < MaxPieces
  /\ call' = [call EXCEPT ![c].pieces = @ + 1]
  /\ UNCHANGED <<sent, reasoning, called>>

\* tool-call
SendCall(c) ==
  /\ Part /\ call[c].at \in {"none", "started"} /\ Comes(c, "called")
  /\ called' = Append(called, c)

\* tool-result, of a call that the provider has carried out itself
SendResult(c) ==
  Part /\ kind[c] = "hosted" /\ call[c].at = "called" /\ Comes(c, "answered") /\ UNCHANGED called

\* start, start-step, text-start, text-end, tool-input-end and so on: the first counts
SendOther == Part /\ parts = 0 /\ UNCHANGED <<sent, reasoning, call, called>>

Ends(from, to) ==
  /\ Asked /\ upstream \in from /\ upstream' = to
  /\ UNCHANGED <<parts, sent, reasoning, call, called>>

\* finish, which may leave calls unfinished
SendFinish == Ends({"streaming"}, "finished")

\* error, openai-error: the renderers read no further; so does what collects, of an abort
SendError == Ends({"streaming"}, "over")

\* the stream throws
Throw == Ends({"streaming", "finished"}, "over")

\* the stream is done
EndOfStream == Ends({"streaming", "finished"}, "over")

-----------------------------------------------------------------------------
(* The events, and the client that reads them.                             *)

Added(b, x) == [kind |-> "added", index |-> b, of |-> x]
Piece(b, x) == [kind |-> "piece", index |-> b, of |-> x]
Whole(b, x) == [kind |-> "whole", index |-> b, of |-> x]
Done(b, x)  == [kind |-> "done",  index |-> b, of |-> x]

\* the chunks of a chat answer, which have no events that open or close
Chunk(b, x) == [kind |-> "chunk", index |-> b, of |-> x]
WholeChunk(b, x) == [kind |-> "whole chunk", index |-> b, of |-> x]

Signal(k)   == [kind |-> k]
Created     == Signal("created")
Completed   == Signal("completed")
Failed      == Signal("failed")
Closed      == Signal("closed")

Fits(block, e, status) == IF block.status = "open" /\ block.of = e.of THEN status ELSE "wrong"

Opened(block, e) ==
  [Nothing EXCEPT !.of = e.of, !.status = IF block.status = "none" THEN "open" ELSE "wrong"]

Named(block, e) == IF block.status = "none" THEN Opened(block, e) ELSE block

SeenBlock(block, e) ==
  CASE e.kind = "added" -> Opened(block, e)
    [] e.kind = "piece" -> [block EXCEPT !.pieces = @ + 1, !.status = Fits(block, e, "open")]
    [] e.kind = "whole" -> [block EXCEPT !.whole = @ + 1, !.status = Fits(block, e, "open")]
    [] e.kind = "done"  -> [block EXCEPT !.status = Fits(block, e, "closed")]
    [] e.kind = "chunk" -> Named(block, e)
    [] e.kind = "whole chunk" -> [Named(block, e) EXCEPT !.whole = @ + 1]

SeenPhase(e) ==
  CASE e.kind = "created"   -> IF phase = "before" THEN "open" ELSE "wrong"
    [] e.kind = "completed" -> IF phase = "open" THEN "completed" ELSE "wrong"
    [] e.kind = "failed"    -> "failed"
    [] e.kind = "closed"    -> IF phase \in {"before", "open"} THEN "truncated" ELSE phase

(* pull: the client reads an event.                                        *)
Read ==
  /\ out # <<>>
  /\ out' = Tail(out)
  /\ LET e == Head(out) IN
       IF "index" \in DOMAIN e
       THEN blocks' = [blocks EXCEPT ![e.index] = SeenBlock(@, e)] /\ UNCHANGED phase
       ELSE phase' = SeenPhase(e) /\ UNCHANGED blocks
  /\ UNCHANGED upstreamVars

-----------------------------------------------------------------------------
Client == INSTANCE BlockStream

IsBlockStream == Client!Spec

BlocksOf(x) == {b \in 1..MaxBlocks : blocks[b].of = x /\ blocks[b].status # "none"}

ClosedBlocks(x) == {b \in BlocksOf(x) : blocks[b].status = "closed"}

PiecesSeen(x) == MapThenSumSet(LAMBDA b : blocks[b].pieces, BlocksOf(x))

Complete(c) == call[c].at \in {"called", "answered"}

(* The input of a complete call arrives once: in the pieces it came in, if *)
(* there were any, or as a whole.  Of one that is not, the pieces arrive.  *)
InputArrived(c) ==
  \A b \in BlocksOf(c) :
    LET block == blocks[b] IN
      \/ block.pieces = call[c].pieces /\ block.whole = 0 /\ (Complete(c) => call[c].pieces > 0)
      \/ block.pieces = 0 /\ block.whole = 1 /\ Complete(c)

(* The calls' blocks are in the order in which the calls began.            *)
InOrder ==
  \A c, d \in Calls : call[c].place < call[d].place =>
    \A b \in BlocksOf(c), e \in BlocksOf(d) : b < e

(* Each call that came is one block.                                       *)
CallArrived(c) == \E b \in 1..MaxBlocks : BlocksOf(c) = {b}

TypeOK ==
  /\ parts \in 0..MaxParts
  /\ sent \in [text : 0..MaxParts, reasoning : 0..MaxParts]
  /\ reasoning \in BOOLEAN
  /\ call \in [Calls -> [at : {"none", "started", "called", "answered"}, pieces : 0..MaxPieces,
                       place : 0..Cardinality(Calls)]]
  /\ called \in Seq(Calls)
  /\ upstream \in {"streaming", "finished", "over"}
  /\ \A b \in 0..MaxBlocks : blocks[b].status \in {"none", "open", "closed"}
  /\ phase \in {"before", "open", "completed", "failed", "truncated"}
=============================================================================
