----------------------------- MODULE MCRenderers -----------------------------
(***************************************************************************)
(* The renderers for TLC.  A stream of parts, with two tool calls of       *)
(* various kinds, goes to the renderer of its format, or is collected for  *)
(* a single answer; or the frames of a Responses upstream are passed on.   *)
(* An initial state picks one; the variables of the others stay as they    *)
(* are.                                                                    *)
(***************************************************************************)
EXTENDS PartStream, TLC

CONSTANTS c1, c2, MaxFrames, MaxSequence

ASSUME FramesAssumption == MaxSequence \in Nat

\* text and reasoning are no calls
ASSUME PartsAssumption == MaxParts \in Nat /\ Calls \cap {"text", "reasoning"} = {}

\* and there are only so many of them, with so many pieces
ASSUME BoundsAssumption == MaxPieces \in Nat /\ IsFiniteSet(Calls)

VARIABLES
  picked,
  responseStarted, nextOutputIndex, currentOutputIndex, textItemStarted, reasoningItemStarted,
  completedOutput, toolCallOutputIndices, toolCallsWithArgumentDeltas, toolCallStartEmitted,
  hostedToolCallIds, output,
  messageStarted, currentBlockIndex, currentBlockType, pendingToolCalls,
  toolIndexes,
  text, reasoningText, toolCalls, result, answer,
  frames, nextSequenceNumber, responseId, terminalSeen, at, seen

responsesVars ==
  <<responseStarted, nextOutputIndex, currentOutputIndex, textItemStarted, reasoningItemStarted,
    completedOutput, toolCallOutputIndices, toolCallStartEmitted, hostedToolCallIds, output>>
anthropicVars == <<messageStarted, currentBlockIndex, currentBlockType, pendingToolCalls>>
collectedVars == <<text, reasoningText, toolCalls, result, answer>>
rawVars == <<frames, nextSequenceNumber, responseId, terminalSeen, at, seen>>
partVars == <<upstreamVars, clientVars>>

Responses == INSTANCE ResponsesRenderer
Anthropic == INSTANCE AnthropicRenderer
Chat      == INSTANCE ChatRenderer
Collected == INSTANCE CollectedAnswer
RawFrames == INSTANCE RawResponses

vars == <<picked, partVars, responsesVars, toolCallsWithArgumentDeltas, anthropicVars, toolIndexes,
          collectedVars, rawVars>>

Pair(k1, k2) == c1 :> k1 @@ c2 :> k2

\* "custom" tools and "search" are a Responses client's
MCKinds ==
  {Pair("function", "function"), Pair("function", "hosted"), Pair("shimmed", "hosted"),
   Pair("search", "custom")}

MCInit ==
  /\ picked \in {"rendered", "collected", "raw"}
  /\ StreamInit
  /\ Responses!RendererInit /\ Anthropic!RendererInit /\ Chat!RendererInit /\ Collected!RendererInit
  /\ RawFrames!Init
  /\ picked = "raw" => format = "responses"
  /\ format # "responses" \/ picked # "rendered" => kind[c1] = "function"

RenderResponses ==
  /\ picked = "rendered" /\ format = "responses" /\ Responses!Next
  /\ UNCHANGED <<anthropicVars, toolIndexes, collectedVars, rawVars>>

RenderAnthropic ==
  /\ picked = "rendered" /\ format = "anthropic" /\ Anthropic!Next
  /\ UNCHANGED <<responsesVars, toolCallsWithArgumentDeltas, toolIndexes, collectedVars, rawVars>>

RenderChat ==
  /\ picked = "rendered" /\ format = "chat" /\ Chat!Next
  /\ UNCHANGED <<responsesVars, anthropicVars, collectedVars, rawVars>>

Collect ==
  /\ picked = "collected" /\ Collected!Next
  /\ UNCHANGED <<responsesVars, toolCallsWithArgumentDeltas, anthropicVars, toolIndexes, rawVars>>

PassOn ==
  /\ picked = "raw" /\ RawFrames!Next
  /\ UNCHANGED <<partVars, responsesVars, toolCallsWithArgumentDeltas, anthropicVars, toolIndexes,
                 collectedVars>>

MCNext ==
  /\ UNCHANGED picked
  /\ RenderResponses \/ RenderAnthropic \/ RenderChat \/ Collect \/ PassOn

MCSpec == MCInit /\ [][MCNext]_vars

-----------------------------------------------------------------------------
(* What the stream brought arrives at the client, whole, once and in       *)
(* order, in each format, streamed or collected.                           *)
ContentArrives ==
  /\ TypeOK
  /\ Collected!ContentArrives
  /\ picked = "rendered" =>
       CASE format = "responses" -> Responses!ContentArrives
         [] format = "anthropic" -> Anthropic!ContentArrives
         [] format = "chat"      -> Chat!ContentArrives

(* Whatever the upstream does, the client of passed-on frames gets one     *)
(* terminal frame and nothing after it.                                    *)
OneTerminal == RawFrames!OneTerminal
=============================================================================
