---------------------------- MODULE CollectedAnswer ----------------------------
(***************************************************************************)
(* A provider that only streams answers a request that does not:           *)
(* collectStreamResult (src/providers/shared/stream-collector.ts) reads    *)
(* all the parts, and the renderer of the format makes one answer of them  *)
(* (renderOpenAIResponse, renderAnthropicMessage, renderOpenAIChat-        *)
(* Completion).                                                            *)
(***************************************************************************)
EXTENDS PartStream

VARIABLES text, reasoningText, toolCalls, result, answer

rendererVars == <<text, reasoningText, toolCalls, result, answer>>

RendererInit ==
  /\ text = 0 /\ reasoningText = 0      \* pieces
  /\ toolCalls = <<>>
  /\ result = "collecting" /\ answer = <<>>

Init == StreamInit /\ RendererInit

Quietly == UNCHANGED <<out, result, answer>>

TextDelta == SendText /\ text' = text + 1 /\ Quietly /\ UNCHANGED <<reasoningText, toolCalls>>

ReasoningDelta ==
  SendReasoning /\ reasoningText' = reasoningText + 1 /\ Quietly /\ UNCHANGED <<text, toolCalls>>

ToolCall(c) ==
  SendCall(c) /\ toolCalls' = Append(toolCalls, c) /\ Quietly /\ UNCHANGED <<text, reasoningText>>

Ignored ==
  /\ \/ SendReasoningStart \/ SendReasoningEnd \/ SendOther
     \/ \E c \in Calls : SendInputStart(c) \/ SendInput(c) \/ SendResult(c)
  /\ Quietly /\ UNCHANGED <<text, reasoningText, toolCalls>>

If(b, item) == IF b THEN <<item>> ELSE <<>>

(* The items of an answer.  A Responses answer has a message even if it is *)
(* empty, a Messages answer has no reasoning.                              *)
ResponseItems == If(reasoningText > 0, "reasoning") \o <<"text">> \o toolCalls
MessageItems  == If(text > 0, "text") \o toolCalls
ChatItems     == <<"text">> \o If(reasoningText > 0, "reasoning") \o toolCalls

Rendered == [responses |-> ResponseItems, anthropic |-> MessageItems, chat |-> ChatItems][format]

(* The finish is enough: the rest of the stream is released, which may     *)
(* fail.                                                                   *)
Finish ==
  /\ SendFinish
  /\ answer' = Rendered /\ result' = "releasing"
  /\ UNCHANGED <<out, text, reasoningText, toolCalls>>

Release ==
  /\ EndOfStream /\ upstream = "finished"
  /\ result' = "answered"
  /\ UNCHANGED <<out, text, reasoningText, toolCalls, answer>>

(* An error or abort part, an exception or an early end fails the request. *)
Fails ==
  /\ SendError \/ Throw \/ (EndOfStream /\ upstream = "streaming")
  /\ result' = "failed" /\ answer' = <<>>
  /\ UNCHANGED <<out, text, reasoningText, toolCalls>>

Next ==
  \/ TextDelta \/ ReasoningDelta \/ Ignored \/ Finish \/ Release \/ Fails
  \/ \E c \in Calls : ToolCall(c)

-----------------------------------------------------------------------------
(* An answer has all that the stream brought: its text, its reasoning      *)
(* where the format has one, each complete call once, in the order they    *)
(* were completed; a stream without a finish is no answer.                 *)
ContentArrives ==
  result = "answered" =>
    /\ sent.text > 0 => \E i \in DOMAIN answer : answer[i] = "text"
    /\ sent.reasoning > 0 /\ format # "anthropic" => \E i \in DOMAIN answer : answer[i] = "reasoning"
    /\ \A c \in Calls :
         Cardinality({i \in DOMAIN answer : answer[i] = c}) = IF Complete(c) THEN 1 ELSE 0
    /\ \A i, j \in DOMAIN answer, m, n \in DOMAIN called :
         answer[i] = called[m] /\ answer[j] = called[n] /\ m < n => i < j
=============================================================================
