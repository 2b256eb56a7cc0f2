------------------------------ MODULE RawResponses ------------------------------
(***************************************************************************)
(* renderOpenAIResponsesRawSSE (src/providers/openai-responses/            *)
(* renderer.ts): the frames of an OpenAI upstream go to a Responses client *)
(* as they are, next to the parts that the SDK makes of them, up to the    *)
(* first terminal one.  Where none comes, the renderer adds one.           *)
(***************************************************************************)
EXTENDS Naturals, Sequences

CONSTANTS MaxFrames, MaxSequence

Terminals == {"response.completed", "response.incomplete", "response.failed"}
Types == Terminals \cup {"progress"}

VARIABLES
  frames,             \* how many parts came: the bound of the model
  nextSequenceNumber, responseId, terminalSeen,
  at,                 \* "reading", or "over"
  seen                \* the frames that the client was sent

vars == <<frames, nextSequenceNumber, responseId, terminalSeen, at, seen>>

Init ==
  /\ frames = 0 /\ nextSequenceNumber = 0 /\ responseId = "unknown" /\ terminalSeen = FALSE
  /\ at = "reading" /\ seen = <<>>

Larger(m, n) == IF m > n THEN m ELSE n

Part == at = "reading" /\ frames < MaxFrames /\ frames' = frames + 1 /\ UNCHANGED at

Advanced(n) == Larger(nextSequenceNumber, n + 1)

Sent(type, n, id) == seen' = Append(seen, [type |-> type, number |-> n, id |-> id])

(* A frame of the upstream: a progress one need not have the response's id.*)
Raw(type, n, id) ==
  /\ Part /\ ~terminalSeen
  /\ type \in Terminals => id = "upstream"
  /\ nextSequenceNumber' = Advanced(n)
  /\ responseId' = IF id = "upstream" THEN id ELSE responseId
  /\ terminalSeen' = (type \in Terminals)
  /\ Sent(type, n, id)

(* What comes after the terminal frame, and the SDK's own parts.           *)
Skipped == Part /\ UNCHANGED <<nextSequenceNumber, responseId, terminalSeen, seen>>

(* rawFailedFrame: the frame that the error carries, or one of its own.    *)
FailedFrame ==
  \/ Sent("response.failed", nextSequenceNumber, responseId)
  \/ \E n \in 0..MaxSequence : Sent("response.failed", n, "carried")

Over == at = "reading" /\ at' = "over" /\ UNCHANGED <<frames, nextSequenceNumber, responseId, terminalSeen>>

\* an error part ends the answer only before a terminal frame
Error == Over /\ ~terminalSeen /\ FailedFrame

(* Faulty: an exception always fails the answer.                           *)
Catch_Faulty == Over /\ FailedFrame

\* the stream throws
Catch == Over /\ IF terminalSeen THEN UNCHANGED seen ELSE FailedFrame

\* the stream ends
Return ==
  /\ Over
  /\ IF terminalSeen THEN UNCHANGED seen ELSE Sent("response.failed", nextSequenceNumber, responseId)

Next ==
  \/ \E type \in Types, n \in 0..MaxSequence, id \in {"unknown", "upstream"} : Raw(type, n, id)
  \/ Skipped \/ Error \/ Catch \/ Return

-----------------------------------------------------------------------------
IsTerminal(i) == seen[i].type \in Terminals

(* Whatever the upstream does, the client's stream has one terminal frame  *)
(* and it is the last; one that the renderer made has a larger number than *)
(* every frame before it and the id of their response, where it is known.  *)
OneTerminal ==
  /\ at = "over" => seen # <<>> /\ IsTerminal(Len(seen))
  /\ \A i \in DOMAIN seen :
       IsTerminal(i) =>
         /\ i = Len(seen)
         /\ seen[i].type = "response.failed" /\ ~terminalSeen /\ seen[i].id # "carried" =>
              \A j \in 1..(i - 1) :
                /\ seen[j].number < seen[i].number
                /\ seen[j].id = "upstream" => seen[i].id = "upstream"
=============================================================================
