------------------------------ MODULE KeyFailover ------------------------------
(***************************************************************************)
(* A provider with several API keys (selectApiKeys and                     *)
(* createFailoverLanguageModel in src/providers/registry.ts).  Requests    *)
(* start with the keys in turn; each call of a request's model uses one    *)
(* key, and a failed call makes the next one use the next key.  The AI SDK *)
(* repeats a call that failed retryably, within its budget.  A stream is   *)
(* buffered until its first part that commits it: a failure before that is *)
(* a failed call, and one after it is the consumer's.                      *)
(***************************************************************************)
EXTENDS Naturals, Sequences, FiniteSets

CONSTANTS
  Requests,
  KeyCount,
  MaxRetries,         \* the AI SDK's budget
  MaxParts            \* bound: parts of one upstream stream

ASSUME FailoverAssumption ==
  /\ KeyCount \in Nat /\ KeyCount > 1
  /\ MaxRetries \in Nat
  /\ MaxParts \in Nat

VARIABLES
  nextIndex,          \* apiKeyIndexes of the provider
  phase,              \* of a request, see Phases
  first,              \* the key it starts with
  current,            \* the delegate that its model uses
  calls,              \* the keys of its calls so far
  read,               \* parts read of the call's stream
  buffered,           \* parts read and not replayed yet
  delivered,          \* parts that the consumer has got
  open,               \* calls whose upstream stream is open
  retryable           \* whether the call's failure may be retried

vars == <<nextIndex, phase, first, current, calls, read, buffered, delivered, open, retryable>>

Phases == {"idle", "ready", "calling", "buffering", "cancelling", "failed",
           "replaying", "done", "broken"}

Keys == 0..(KeyCount - 1)

Init ==
  /\ nextIndex = 0
  /\ phase = [r \in Requests |-> "idle"]
  /\ first = [r \in Requests |-> 0]
  /\ current = [r \in Requests |-> 0]
  /\ calls = [r \in Requests |-> <<>>]
  /\ read = [r \in Requests |-> 0]
  /\ buffered = [r \in Requests |-> <<>>]
  /\ delivered = [r \in Requests |-> <<>>]
  /\ open = [r \in Requests |-> {}]
  /\ retryable = [r \in Requests |-> FALSE]

-----------------------------------------------------------------------------
(* selectApiKeys.                                                          *)

(* Faulty: the place of the key is kept instead of the next one.           *)
Advanced_Faulty(index) == index % KeyCount

Advanced(index) == index + 1

Resolve(r) ==
  /\ phase[r] = "idle"
  /\ first' = [first EXCEPT ![r] = nextIndex % KeyCount]
  /\ nextIndex' = Advanced(nextIndex)
  /\ phase' = [phase EXCEPT ![r] = "ready"]
  /\ UNCHANGED <<current, calls, read, buffered, delivered, open, retryable>>

-----------------------------------------------------------------------------
(* wrapGenerate, wrapStream.                                               *)

ThisCall(r) == Len(calls[r])

Select(r) == (first[r] + current[r]) % KeyCount

(* The AI SDK calls the model, for the first time or again.                *)
Call(r) ==
  /\ \/ phase[r] = "ready"
     \/ phase[r] = "failed" /\ retryable[r] /\ ThisCall(r) <= MaxRetries
  /\ calls' = [calls EXCEPT ![r] = Append(@, Select(r))]
  /\ phase' = [phase EXCEPT ![r] = "calling"]
  /\ read' = [read EXCEPT ![r] = 0]
  /\ buffered' = [buffered EXCEPT ![r] = <<>>]
  /\ retryable' = [retryable EXCEPT ![r] = FALSE]
  /\ UNCHANGED <<nextIndex, first, current, delivered, open>>

(* What is told of a failed call, an error part or a raw error: whether    *)
(* its status or its words make it one to be retried.                      *)
Retryability == BOOLEAN

(* advanceAfterFailure, and the error that the SDK gets.  The failure of   *)
(* an aborted call is not retryable.                                       *)
Fail(r, may) ==
  /\ current' = [current EXCEPT ![r] = (@ + 1) % KeyCount]
  /\ phase' = [phase EXCEPT ![r] = "failed"]
  /\ retryable' = [retryable EXCEPT ![r] = may]
  /\ UNCHANGED <<nextIndex, first, calls, read, buffered, delivered>>

CallFails(r, may) ==
  /\ phase[r] = "calling"
  /\ Fail(r, may)
  /\ UNCHANGED open

(* doGenerate has answered.  Which of the two a request uses shows here.   *)
Generated(r) ==
  /\ phase[r] = "calling"
  /\ phase' = [phase EXCEPT ![r] = "done"]
  /\ UNCHANGED <<nextIndex, first, current, calls, read, buffered, delivered, open, retryable>>

(* doStream has answered.                                                  *)
Opened(r) ==
  /\ phase[r] = "calling"
  /\ open' = [open EXCEPT ![r] = @ \cup {ThisCall(r)}]
  /\ phase' = [phase EXCEPT ![r] = "buffering"]
  /\ UNCHANGED <<nextIndex, first, current, calls, read, buffered, delivered, retryable>>

Closed(r) == open' = [open EXCEPT ![r] = @ \ {ThisCall(r)}]

Part(r) == <<ThisCall(r), read[r] + 1>>

(* Faulty: the part that commits the stream is not kept.                   *)
Keep_Faulty(r, commits) == IF commits THEN buffered[r] ELSE Append(buffered[r], Part(r))

Keep(r, commits) == Append(buffered[r], Part(r))

(* A part that commits the stream, or one that may still be taken back.    *)
Buffer(r, commits) ==
  /\ phase[r] = "buffering" /\ read[r] < MaxParts
  /\ buffered' = [buffered EXCEPT ![r] = Keep(r, commits)]
  /\ read' = [read EXCEPT ![r] = @ + 1]
  /\ phase' = [phase EXCEPT ![r] = IF commits THEN "replaying" ELSE @]
  /\ UNCHANGED <<nextIndex, first, current, calls, delivered, open, retryable>>

(* The stream ends without one.                                            *)
EndsUncommitted(r) ==
  /\ phase[r] = "buffering"
  /\ phase' = [phase EXCEPT ![r] = "replaying"]
  /\ Closed(r)
  /\ UNCHANGED <<nextIndex, first, current, calls, read, buffered, delivered, retryable>>

(* Faulty: the reader of a refused stream is left alone.                   *)
Refused_Faulty(r, may) == Fail(r, may) /\ UNCHANGED open

Refused(r, may) ==
  /\ phase' = [phase EXCEPT ![r] = "cancelling"]
  /\ retryable' = [retryable EXCEPT ![r] = may]
  /\ UNCHANGED <<nextIndex, first, current, calls, read, buffered, delivered, open>>

(* An error part, or a raw part that tells of a retryable error.           *)
ErrorPart(r, may) ==
  /\ phase[r] = "buffering"
  /\ Refused(r, may)

(* reader.cancel has settled; its failure is only logged.                  *)
CancelSettles(r) ==
  /\ phase[r] = "cancelling"
  /\ Closed(r)
  /\ Fail(r, retryable[r])

(* reader.read rejects.                                                    *)
ReadFails(r, may) ==
  /\ phase[r] = "buffering"
  /\ Closed(r)
  /\ Fail(r, may)

-----------------------------------------------------------------------------
(* replayProviderStream.                                                   *)

Replay(r) ==
  /\ phase[r] = "replaying" /\ buffered[r] # <<>>
  /\ delivered' = [delivered EXCEPT ![r] = Append(@, Head(buffered[r]))]
  /\ buffered' = [buffered EXCEPT ![r] = Tail(@)]
  /\ UNCHANGED <<nextIndex, phase, first, current, calls, read, open, retryable>>

(* The next part comes from upstream, an error part like any other.        *)
PassPart(r) ==
  /\ phase[r] = "replaying" /\ buffered[r] = <<>>
  /\ open[r] # {} /\ read[r] < MaxParts
  /\ delivered' = [delivered EXCEPT ![r] = Append(@, Part(r))]
  /\ read' = [read EXCEPT ![r] = @ + 1]
  /\ UNCHANGED <<nextIndex, phase, first, current, calls, buffered, open, retryable>>

(* Upstream is at its end, or breaks.                                      *)
PassEnd(r) ==
  /\ phase[r] = "replaying" /\ buffered[r] = <<>>
  /\ \/ phase' = [phase EXCEPT ![r] = "done"]
     \/ open[r] # {} /\ phase' = [phase EXCEPT ![r] = "broken"]
  /\ Closed(r)
  /\ UNCHANGED <<nextIndex, first, current, calls, read, buffered, delivered, retryable>>

(* The consumer cancels.                                                   *)
Cancel(r) ==
  /\ phase[r] = "replaying"
  /\ phase' = [phase EXCEPT ![r] = "broken"]
  /\ Closed(r)
  /\ UNCHANGED <<nextIndex, first, current, calls, read, buffered, delivered, retryable>>

-----------------------------------------------------------------------------
Step(r) ==
  \/ Resolve(r) \/ Call(r) \/ Generated(r) \/ Opened(r)
  \/ EndsUncommitted(r) \/ CancelSettles(r)
  \/ Replay(r) \/ PassPart(r) \/ PassEnd(r) \/ Cancel(r)
  \/ \E may \in Retryability : CallFails(r, may) \/ ErrorPart(r, may) \/ ReadFails(r, may)
  \/ \E commits \in BOOLEAN : Buffer(r, commits)

Next == \E r \in Requests : Step(r)

Spec == Init /\ [][Next]_vars

-----------------------------------------------------------------------------
(* Every variable keeps its type.                                          *)
TypeOK ==
  /\ nextIndex \in Nat
  /\ phase \in [Requests -> Phases]
  /\ first \in [Requests -> Keys]
  /\ current \in [Requests -> Keys]
  /\ calls \in [Requests -> Seq(Keys)]
  /\ read \in [Requests -> Nat]
  /\ buffered \in [Requests -> Seq(Nat \X Nat)]
  /\ delivered \in [Requests -> Seq(Nat \X Nat)]
  /\ open \in [Requests -> SUBSET Nat]
  /\ retryable \in [Requests -> BOOLEAN]

(* What a consumer gets is one call's stream from its first part on,       *)
(* whatever the calls before it had already produced: no part of a failed  *)
(* key's answer, none lost in the buffer and none twice.                   *)
OneCallHeard ==
  \A r \in Requests : \A n \in 1..Len(delivered[r]) : delivered[r][n] = <<ThisCall(r), n>>

(* A request holds one upstream stream at most, that of its last call, and *)
(* none once it is over or before it tries the next key.                   *)
OneStreamOpen ==
  \A r \in Requests :
    /\ open[r] \subseteq {ThisCall(r)}
    /\ phase[r] \in {"failed", "calling", "done", "broken"} => open[r] = {}

(* The calls of a request take the keys in turn: none is tried again       *)
(* before all the others were.                                             *)
CallsTakeTurns ==
  \A r \in Requests : \A i, j \in 1..Len(calls[r]) :
    (i < j /\ j - i < KeyCount) => calls[r][i] # calls[r][j]

Starting(k) == {r \in Requests : phase[r] # "idle" /\ first[r] = k}

(* The requests start with the keys in turn, however many calls each of    *)
(* them makes: no key starts two more than another.                        *)
StartsTakeTurns ==
  \A k, l \in Keys : Cardinality(Starting(k)) <= Cardinality(Starting(l)) + 1

KeysTakeTurns == CallsTakeTurns /\ StartsTakeTurns
=============================================================================
