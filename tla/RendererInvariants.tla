-------------------------- MODULE RendererInvariants --------------------------
(***************************************************************************)
(* The inductive invariants of the renderers (MCRenderers), and the words  *)
(* they are said in: the client's state and what the events that it has    *)
(* still to read make of it, what each renderer knows of the client's      *)
(* blocks, and where what the stream brought is to be found.               *)
(* RenderersProofs has the proofs.                                         *)
(***************************************************************************)
EXTENDS MCRenderers, DataProofs

-----------------------------------------------------------------------------
(* The frames that are passed on (RawResponses).                           *)

Frames ==
  [type : RawFrames!Types, number : Nat, id : {"unknown", "upstream", "carried"}]

(* While it reads, the renderer has passed on what came: its own number is *)
(* above all of theirs, the id is theirs if one of them had it, and the    *)
(* last one is terminal if it has seen a terminal one.                     *)
PassedOn ==
  /\ at = "reading" =>
       \A i \in DOMAIN seen :
         /\ seen[i].type \in RawFrames!Terminals <=> (terminalSeen /\ i = Len(seen))
         /\ seen[i].number < nextSequenceNumber
         /\ seen[i].id = "upstream" => responseId = "upstream"
  /\ terminalSeen => seen # <<>>

FramesInv ==
  /\ seen \in Seq(Frames) /\ nextSequenceNumber \in Nat /\ terminalSeen \in BOOLEAN
  /\ responseId \in {"unknown", "upstream"}
  /\ PassedOn
  /\ RawFrames!OneTerminal

-----------------------------------------------------------------------------
(* The events that the client is to read (BlockStream).                    *)

(* What the client has made of the events.                                 *)
Subjects == Calls \cup {"text", "reasoning"}

Statuses == {"none", "open", "closed", "wrong"}

Blocks == [status : Statuses, of : Subjects \cup {"-"}, pieces : Nat, whole : Nat]

Phases == {"before", "open", "completed", "failed", "truncated", "wrong"}

States == [blocks : [0..MaxBlocks -> Blocks], phase : Phases]

Now == [blocks |-> blocks, phase |-> phase]

Put(s, b, block) == [blocks |-> [s.blocks EXCEPT ![b] = block], phase |-> s.phase]

Phased(s, p) == [blocks |-> s.blocks, phase |-> p]

PhaseAfter(p, e) ==
  CASE e.kind = "created"   -> IF p = "before" THEN "open" ELSE "wrong"
    [] e.kind = "completed" -> IF p = "open" THEN "completed" ELSE "wrong"
    [] e.kind = "failed"    -> "failed"
    [] e.kind = "closed"    -> IF p \in {"before", "open"} THEN "truncated" ELSE p

After(s, e) ==
  IF "index" \in DOMAIN e THEN Put(s, e.index, SeenBlock(s.blocks[e.index], e))
  ELSE Phased(s, PhaseAfter(s.phase, e))

(* Which events the promise allows.                                        *)
AllClosed(s) == \A b \in 0..MaxBlocks : s.blocks[b].status # "open"

CallsOnly(s) == \A b \in 0..MaxBlocks : s.blocks[b].status = "open" => s.blocks[b].of \in Calls

CanOpen(f, s, b) ==
  /\ s.blocks[b].status = "none"
  /\ \A c \in 1..(b - 1) : s.blocks[c].status # "none"
  /\ f = "anthropic" => AllClosed(s)

IsOpen(s, b, x) == s.blocks[b].status = "open" /\ s.blocks[b].of = x

MayBlock(f, s, e, b, x) ==
  /\ s.phase = "open"
  /\ \/ e = Added(b, x) /\ CanOpen(f, s, b)
     \/ f = "chat" /\ e \in {Chunk(b, x), WholeChunk(b, x)} /\ CanOpen(f, s, b)
     \/ e \in {Piece(b, x), Whole(b, x), Done(b, x), Chunk(b, x), WholeChunk(b, x)} /\ IsOpen(s, b, x)

MayPhase(f, s, e) ==
  \/ e = Created /\ s.phase = "before"
  \/ e = Completed /\ s.phase = "open" /\ (IF f = "anthropic" THEN AllClosed(s) ELSE CallsOnly(s))
  \/ /\ e = Failed /\ s.phase \notin {"failed", "truncated"}
     /\ f = "anthropic" => s.phase # "before" /\ AllClosed(s)
  \/ e = Closed /\ (s.phase \in {"before", "open"} => f # "anthropic")

May(f, s, e) ==
  \/ MayPhase(f, s, e)
  \/ \E b \in 1..MaxBlocks, x \in Subjects : MayBlock(f, s, e, b, x)

MorePieces(block) == [block EXCEPT !.pieces = @ + 1]

MoreWhole(block) == [block EXCEPT !.whole = @ + 1]

Shut(block) == [block EXCEPT !.status = "closed"]

New(x, n) == [status |-> "open", of |-> x, pieces |-> 0, whole |-> n]

(* The events of a block are told apart by their kinds.                    *)
EventsOf(b, x) ==
  {Added(b, x), Piece(b, x), Whole(b, x), Done(b, x), Chunk(b, x), WholeChunk(b, x)}

KindsOf == {"added", "piece", "whole", "done", "chunk", "whole chunk"}

IsEventOf(e, b, x) ==
  /\ "index" \in DOMAIN e /\ e.index = b /\ e.of = x /\ e.kind \in KindsOf
  /\ e = Added(b, x) <=> e.kind = "added"
  /\ e = Piece(b, x) <=> e.kind = "piece"
  /\ e = Whole(b, x) <=> e.kind = "whole"
  /\ e = Done(b, x) <=> e.kind = "done"
  /\ e = Chunk(b, x) <=> e.kind = "chunk"
  /\ e = WholeChunk(b, x) <=> e.kind = "whole chunk"

Events ==
  {Created, Completed, Failed, Closed}
  \cup {e : e \in UNION {EventsOf(p[1], p[2]) : p \in (1..MaxBlocks) \X Subjects}}

(* The events q, each allowed when it is read, lead from s to u.           *)
IsRun(f, q, r) ==
  \A i \in 1..Len(q) : May(f, r[i - 1], q[i]) /\ r[i] = After(r[i - 1], q[i])

Plays(f, s, q, u) ==
  /\ q \in Seq(Events)
  /\ \E r \in [0..Len(q) -> States] : r[0] = s /\ r[Len(q)] = u /\ IsRun(f, q, r)

-----------------------------------------------------------------------------
(* The items of a response (ResponsesRenderer).  What the renderer knows   *)
(* of the client's blocks: the next index, the current block and whether   *)
(* it is text or reasoning, the blocks of calls, and the completed items.  *)

ItemsKnown(s, next, current, isText, isReasoning, indices, completed) ==
  /\ s \in States /\ next \in Nat \ {0}
  /\ indices \in [Calls -> Nat]
  /\ completed \in [0..MaxBlocks -> Subjects \cup {"none"}]
  /\ s.blocks[0].status = "none"
  /\ \A b \in 1..MaxBlocks :
       /\ s.blocks[b].status \in {"none", "open", "closed"}
       /\ s.blocks[b].status # "none" <=> b < next
       /\ completed[b] = IF s.blocks[b].status = "closed" THEN s.blocks[b].of ELSE "none"
       /\ s.blocks[b].status = "open" =>
            \/ s.blocks[b].of \in Calls /\ indices[s.blocks[b].of] = b
            \/ b = current /\ ((isText /\ s.blocks[b].of = "text") \/ (isReasoning /\ s.blocks[b].of = "reasoning"))
  /\ isText => current \in 1..MaxBlocks /\ IsOpen(s, current, "text")
  /\ isReasoning => current \in 1..MaxBlocks /\ IsOpen(s, current, "reasoning")
  /\ \A c \in Calls : indices[c] # 0 => indices[c] \in 1..MaxBlocks /\ IsOpen(s, indices[c], c)

IsPut(t, s, b, v) ==
  /\ t \in States /\ t.phase = s.phase /\ t.blocks[b] = v
  /\ \A d \in 0..MaxBlocks : d # b => t.blocks[d] = s.blocks[d]

IsBlock(v, status, x) == v \in Blocks /\ v.status = status /\ v.of = x

(* What is current.                                                        *)
IsCurrent(ti, ri, x) == ti = (x = "text") /\ ri = (x = "reasoning")

(* Text or reasoning that has started is ended.                            *)
AreFlags(ti, ri) == ti \in BOOLEAN /\ ri \in BOOLEAN /\ ~(ti /\ ri)

Ending(started, cur, x) == IF started THEN <<Done(cur, x)>> ELSE <<>>

CurrentLeft(started, cur) == IF started THEN 0 ELSE cur

CompletedThen(started, comp, cur, x) == IF started THEN Given(comp, cur, x) ELSE comp

(* The invariant of the Responses renderer.                                *)
ResponsesCount ==
  parts \in 0..MaxParts /\ nextOutputIndex \in Nat /\ nextOutputIndex <= parts + 1

ResponsesFlags ==
  /\ responseStarted \in BOOLEAN /\ textItemStarted \in BOOLEAN /\ reasoningItemStarted \in BOOLEAN
  /\ reasoning \in BOOLEAN
  /\ upstream = "streaming" =>
       reasoningItemStarted = reasoning /\ ~(textItemStarted /\ reasoningItemStarted)

ResponsesTypes == ResponsesCount /\ ResponsesFlags

CallIn(A) == [at : A, pieces : A, place : A]

IsCall(r) == \E A : r \in CallIn(A)

CallsTyped == call = [c \in Calls |-> call[c]] /\ \A c \in Calls : IsCall(call[c])

(* A call that has started has a block, and one that is done has none.     *)
CallKnown(status, hosted, started, index) ==
  /\ status = "none" => index = 0 /\ ~started
  /\ status = "started" => index # 0 /\ started
  /\ hosted /\ status = "called" => (index # 0 <=> started)

CallsKnown ==
  \A c \in Calls :
    CallKnown(call[c].at, kind[c] = "hosted", c \in toolCallStartEmitted, toolCallOutputIndices[c])

ResponseKnown(t) ==
  ItemsKnown(t, nextOutputIndex, currentOutputIndex, textItemStarted, reasoningItemStarted,
             toolCallOutputIndices, completedOutput)

ResponsePhase(t) ==
  /\ upstream = "streaming" => t.phase = IF responseStarted THEN "open" ELSE "before"
  /\ upstream = "finished" => t.phase = "completed"

ResponsesInv ==
  /\ ResponsesTypes /\ CallsTyped /\ CallsKnown
  /\ \E t : Plays("responses", Now, out, t) /\ ResponseKnown(t) /\ ResponsePhase(t)

(* The parts of the stream.                                                *)
PartOf ==
  /\ out = <<>> /\ upstream = "streaming" /\ upstream' = "streaming"
  /\ parts < MaxParts /\ parts' = parts + 1
  /\ UNCHANGED <<format, kind, blocks, phase>>

Pieces(k, b, x) == [i \in 1..k |-> Piece(b, x)]

-----------------------------------------------------------------------------
(* The calls.                                                              *)

CallIndex(idx, c, n) == IF idx[c] = 0 THEN n ELSE idx[c]

CallMissing(idx, c, n) == IF idx[c] = 0 THEN <<Added(n, c)>> ELSE <<>>

CallNext(idx, c, n) == IF idx[c] = 0 THEN n + 1 ELSE n

RestOf(b, c, whole) == IF whole THEN <<Whole(b, c)>> ELSE <<>>

IsIndexed(j, idx, c, n) ==
  j[c] = CallIndex(idx, c, n) /\ j[c] # 0 /\ Given(j, c, 0) = Given(idx, c, 0)

-----------------------------------------------------------------------------
(* The blocks of a message (AnthropicRenderer).  What the renderer knows   *)
(* of the client's blocks: how many there are, and whether the last one is *)
(* open.                                                                   *)

MessageBlocks(s, current) ==
  /\ s \in States /\ current \in 0..MaxBlocks
  /\ s.blocks[0].status = "none"
  /\ \A b \in 1..MaxBlocks : s.blocks[b].status # "none" <=> b <= current

MessageClosed(s, current) == MessageBlocks(s, current) /\ AllClosed(s)

MessageOpen(s, current, x) ==
  /\ MessageBlocks(s, current) /\ current # 0 /\ IsOpen(s, current, x)
  /\ \A b \in 0..MaxBlocks : s.blocks[b].status = "open" => b = current

(* The pieces of a call, and its whole input.                              *)
Wholes(k, b, x) == [i \in 1..k |-> Whole(b, x)]

(* A call that has waited: its block from first to last.                   *)
Pendings == [id : Calls, deltas : Nat, whole : Nat, complete : BOOLEAN]

-----------------------------------------------------------------------------
(* The invariant of the Anthropic renderer.  A block waits for each call   *)
(* that is queued.                                                         *)

MessageCount ==
  /\ parts \in 0..MaxParts /\ currentBlockIndex \in Nat
  /\ currentBlockIndex + Len(pendingToolCalls) <= parts

MessageTypes ==
  /\ MessageCount /\ pendingToolCalls \in Seq(Pendings)
  /\ messageStarted \in BOOLEAN /\ currentBlockType \in {"text", "none"}

MessageKnown(t, current, type) ==
  IF type = "text" THEN MessageOpen(t, current, "text") ELSE MessageClosed(t, current)

MessagePhase(t) ==
  /\ upstream = "streaming" => t.phase = IF messageStarted THEN "open" ELSE "before"
  /\ upstream = "finished" =>
       t.phase = "completed" /\ messageStarted /\ currentBlockType = "none" /\ pendingToolCalls = <<>>

MessageInv ==
  /\ MessageTypes
  /\ \E t : /\ Plays("anthropic", Now, out, t)
            /\ MessageKnown(t, currentBlockIndex, currentBlockType) /\ MessagePhase(t)

-----------------------------------------------------------------------------
(* The calls of a chat answer (ChatRenderer).  Each call that the renderer *)
(* knows has an open block at its index.                                   *)

ChatKnown(s, indexes, n) ==
  /\ s \in States /\ s.blocks[0].status = "none"
  /\ \A b \in 1..MaxBlocks :
       /\ s.blocks[b].status # "none" <=> b <= n
       /\ s.blocks[b].status # "none" => s.blocks[b].of \in Calls
  /\ \A c \in Calls : indexes[c] # 0 => indexes[c] \in 1..MaxBlocks /\ IsOpen(s, indexes[c], c)

Indexed(indexes) == {c \in Calls : indexes[c] # 0}

ChatTypes ==
  /\ parts \in 0..MaxParts /\ toolIndexes \in [Calls -> Nat]
  /\ IsFiniteSet(Indexed(toolIndexes)) /\ Cardinality(Indexed(toolIndexes)) <= parts

ChatPhase(t) ==
  /\ upstream = "streaming" => t.phase = "open"
  /\ upstream = "finished" => t.phase = "completed"

StartedKnown == \A c \in Calls : call[c].at = "started" => toolIndexes[c] # 0

ChatInv ==
  /\ ChatTypes /\ CallsTyped /\ StartedKnown
  /\ \E t : /\ Plays("chat", Now, out, t)
            /\ ChatKnown(t, toolIndexes, Cardinality(Indexed(toolIndexes))) /\ ChatPhase(t)

(* toolIndex: the call's index, or the next one.                           *)
ChatIndex(indexes, c, n) == IF indexes[c] # 0 THEN indexes[c] ELSE n + 1

ChatNext(indexes, c, n) == IF indexes[c] # 0 THEN n ELSE n + 1

(* A chunk of a call, with a piece of its input, all of it or none.        *)
ChatChunks(b, c, known) == {Chunk(b, c), WholeChunk(b, c)} \cup (IF known THEN {Piece(b, c)} ELSE {})

-----------------------------------------------------------------------------
(* The three renderers together.                                           *)

RenderInv ==
  picked = "rendered" =>
    /\ format = "responses" => ResponsesInv
    /\ format = "anthropic" => MessageInv
    /\ format = "chat" => ChatInv

-----------------------------------------------------------------------------
(* What has come (PartStream).                                             *)

PartSent ==
  \/ SendText \/ SendReasoningStart \/ SendReasoning \/ SendReasoningEnd
  \/ \E c \in Calls : SendInputStart(c) \/ SendInput(c) \/ SendCall(c) \/ SendResult(c)
  \/ SendOther \/ SendFinish \/ SendError \/ Throw \/ EndOfStream

PartStep == PartSent \/ Read \/ UNCHANGED upstreamVars

Placed(calls) == {c \in Calls : calls[c].place > 0}

CallOf == [at : {"none", "started", "called", "answered"}, pieces : 0..MaxPieces, place : 0..Cardinality(Calls)]

(* A call has its place from when it comes, after those that came before.  *)
PartInv ==
  /\ parts \in 0..MaxParts
  /\ sent \in [text : 0..parts, reasoning : 0..parts] /\ reasoning \in BOOLEAN
  /\ call \in [Calls -> CallOf]
  /\ upstream \in {"streaming", "finished", "over"}
  /\ \A c \in Calls :
       /\ call[c].place = 0 <=> call[c].at = "none"
       /\ call[c].place <= Cardinality(Placed(call))
       /\ call[c].at = "none" => call[c].pieces = 0
       /\ call[c].at = "answered" => kind[c] = "hosted"

(* A call moves on, and comes to its place if it is new.                   *)
Moved(r, status, n) == [r EXCEPT !.at = status, !.place = n]

(* The client, which is promised a stream of blocks, finds no fault.       *)
ClientInv ==
  /\ blocks \in [0..MaxBlocks -> [status : {"none", "open", "closed"}, of : Subjects \cup {"-"},
                                  pieces : Nat, whole : Nat]]
  /\ phase \in {"before", "open", "completed", "failed", "truncated"}

-----------------------------------------------------------------------------
(* The calls that are complete, each once.                                 *)
CalledOnce ==
  /\ called \in Seq(Calls)
  /\ \A i, j \in DOMAIN called : called[i] = called[j] => i = j
  /\ \A c \in Calls : Complete(c) <=> \E i \in DOMAIN called : called[i] = c

-----------------------------------------------------------------------------
(* The answer that is collected (CollectedAnswer).                         *)

CollectedSoFar ==
  /\ text = sent.text /\ reasoningText = sent.reasoning /\ toolCalls = called
  /\ result # "collecting" => upstream # "streaming"
  /\ upstream = "finished" => result = "releasing"
  /\ result \in {"releasing", "answered"} => answer = Collected!Rendered

CollectedInv ==
  /\ format \in {"responses", "anthropic", "chat"}
  /\ IF picked = "collected" THEN CollectedSoFar ELSE result = "collecting"

(* A few items, and after them the calls in the order of their completion. *)
IsAnswer(a, p) ==
  /\ \A x : (\E i \in DOMAIN p : p[i] = x) => \E i \in DOMAIN a : a[i] = x
  /\ \A c \in Calls : Cardinality({i \in DOMAIN a : a[i] = c}) = IF Complete(c) THEN 1 ELSE 0
  /\ \A i, j \in DOMAIN a, m, n \in DOMAIN called : a[i] = called[m] /\ a[j] = called[n] /\ m < n => i < j

-----------------------------------------------------------------------------
(* A text may be in several blocks, which are told apart by their indexes. *)

OfIn(s, x) == {b \in 1..MaxBlocks : s.blocks[b].of = x /\ s.blocks[b].status # "none"}

Weights(s) == [b \in 1..MaxBlocks |-> s.blocks[b].pieces]

PiecesIn(s, x) == Total(Weights(s), OfIn(s, x))

Same(s, u, x) == OfIn(u, x) = OfIn(s, x) /\ \A b \in OfIn(s, x) : u.blocks[b] = s.blocks[b]

(* x is one block.                                                         *)
Has(s, x, b, status, n, m) ==
  /\ OfIn(s, x) = {b}
  /\ s.blocks[b].status = status /\ s.blocks[b].pieces = n /\ s.blocks[b].whole = m

(* A block is put.                                                         *)
Puts(s, u, b, x, v) ==
  /\ b \in 1..MaxBlocks /\ u.phase = s.phase /\ u.blocks[b] = v /\ v.of = x /\ v.status # "none"
  /\ OfIn(u, x) = OfIn(s, x) \cup {b}
  /\ \A d \in OfIn(s, x) \ {b} : u.blocks[d] = s.blocks[d]
  /\ \A y : y # x => Same(s, u, y)
  /\ \A d \in 1..MaxBlocks : d # b => u.blocks[d] = s.blocks[d]

-----------------------------------------------------------------------------
(* What an event of a block makes.                                         *)

EventMakes(s, e, b, x, u) ==
  /\ e = Added(b, x) => s.blocks[b].status = "none" /\ Puts(s, u, b, x, New(x, 0))
  /\ e = Piece(b, x) => IsOpen(s, b, x) /\ Puts(s, u, b, x, MorePieces(s.blocks[b]))
  /\ e = Whole(b, x) => IsOpen(s, b, x) /\ Puts(s, u, b, x, MoreWhole(s.blocks[b]))
  /\ e = Done(b, x) => IsOpen(s, b, x) /\ Puts(s, u, b, x, Shut(s.blocks[b]))
  /\ e = Chunk(b, x) => IF IsOpen(s, b, x) THEN u = s
                        ELSE s.blocks[b].status = "none" /\ Puts(s, u, b, x, New(x, 0))
  /\ e = WholeChunk(b, x) =>
       IF IsOpen(s, b, x) THEN Puts(s, u, b, x, MoreWhole(s.blocks[b]))
       ELSE s.blocks[b].status = "none" /\ Puts(s, u, b, x, New(x, 1))

(* Only what the events are of changes.                                    *)
Others(s, u, x) == \A y : y # x => Same(s, u, y)

Counts(s, u, x, k) == PiecesIn(u, x) = PiecesIn(s, x) + k

-----------------------------------------------------------------------------
(* What a run of events leaves of the blocks that are there.               *)

Signals == {Created, Completed, Failed, Closed}

Grows(s, u) ==
  /\ \A b \in 1..MaxBlocks :
       /\ s.blocks[b].status # "none" => u.blocks[b].status # "none" /\ u.blocks[b].of = s.blocks[b].of
       /\ s.blocks[b].status = "closed" => u.blocks[b] = s.blocks[b]
  /\ s.phase \notin {"before", "open"} => u.phase \notin {"before", "open"} /\ u.blocks = s.blocks

-----------------------------------------------------------------------------
(* The content of a chat answer (ChatRenderer).  A call that came is one   *)
(* block, at its place, with the pieces that came or its whole input.      *)

CallChunked(t, c, r) ==
  IF r.at = "none" THEN OfIn(t, c) = {}
  ELSE Has(t, c, r.place, "open", r.pieces, IF r.at = "started" \/ r.pieces > 0 THEN 0 ELSE 1)

Chunked(t) == \A c \in Calls : CallChunked(t, c, call[c])

ChatKept ==
  \A c \in Calls :
    /\ toolIndexes[c] = call[c].place
    /\ c \in toolCallsWithArgumentDeltas <=> call[c].pieces > 0

ChatContents == ChatKept /\ \A t : Plays("chat", Now, out, t) => Chunked(t)

-----------------------------------------------------------------------------
(* The content of a response (ResponsesRenderer).  An item that is open    *)
(* has the pieces that are streamed; one that is done has them or the      *)
(* whole input.                                                            *)

Unstreamed == {"hosted", "shimmed", "search"}

OpenWith(c, r) == IF kind[c] \in Unstreamed THEN 0 ELSE r.pieces

ItemDone(t, c, r) ==
  \E b, n, m : /\ Has(t, c, b, "closed", n, m)
               /\ kind[c] \notin {"hosted", "search"} =>
                    (n = r.pieces /\ m = 0 /\ r.pieces > 0) \/ (n = 0 /\ m = 1)

ItemOf(t, c, r, index) ==
  /\ r.at = "none" => OfIn(t, c) = {}
  /\ r.at = "started" => Has(t, c, index, "open", OpenWith(c, r), 0)
  /\ r.at = "called" /\ kind[c] = "hosted" =>
       IF index = 0 THEN OfIn(t, c) = {} ELSE Has(t, c, index, "open", 0, 0)
  /\ (r.at = "called" /\ kind[c] # "hosted") \/ r.at = "answered" => ItemDone(t, c, r)

ResponseContent(t) ==
  /\ \A c \in Calls : ItemOf(t, c, call[c], toolCallOutputIndices[c])
  /\ \A x \in {"text", "reasoning"} : PiecesIn(t, x) = sent[x]

(* What the renderer remembers of the calls.                               *)
CallsKept ==
  \A c \in Calls :
    /\ c \in toolCallsWithArgumentDeltas <=> OpenWith(c, call[c]) > 0
    /\ c \in hostedToolCallIds <=> kind[c] = "hosted" /\ call[c].at \in {"started", "called"}

(* The output is that of the completed response, if it completes.          *)
NeverCompleted == phase # "completed" /\ \A i \in DOMAIN out : out[i].kind # "completed"

OutputKnown == upstream = "streaming" \/ output = Responses!Items(completedOutput) \/ NeverCompleted

ResponseContents ==
  /\ CallsKept /\ OutputKnown
  /\ \A t : Plays("responses", Now, out, t) => ResponseContent(t)

(* Pieces of a text or a reasoning, and nothing of a call.                 *)
Brings(s, u, x, k) ==
  /\ s \in States /\ u \in States /\ \A c \in Calls : Same(s, u, c)
  /\ \A y \in {"text", "reasoning"} : PiecesIn(u, y) = PiecesIn(s, y) + IF y = x THEN k ELSE 0

(* One call changes, and nothing else.                                     *)
Leaves(s, u, c) ==
  /\ s \in States /\ u \in States
  /\ \A d \in Calls \ {c} : Same(s, u, d)
  /\ \A y \in {"text", "reasoning"} : PiecesIn(u, y) = PiecesIn(s, y)

(* A call that completes is opened if it is not.                           *)
Added1(index, b, c) == IF index = 0 THEN <<Added(b, c)>> ELSE <<>>

-----------------------------------------------------------------------------
(* The content of a message (AnthropicRenderer).  The blocks of the calls  *)
(* that have waited.                                                       *)

Distinct(list) == \A i, j \in DOMAIN list : list[i].id = list[j].id => i = j

Emitted(s, u, list, k) ==
  /\ s \in States /\ u \in States
  /\ \A i \in 1..k : Has(u, list[i].id, currentBlockIndex + i, "closed", list[i].deltas, list[i].whole)
  /\ \A x : (\A i \in 1..k : x # list[i].id) => Same(s, u, x)

(* The calls that wait, in the order in which they began, as the renderer  *)
(* remembers them.                                                         *)
Waits(list, c) == \E i \in DOMAIN list : list[i].id = c

Remembered(p, r) ==
  /\ r.at # "none" /\ p.deltas = r.pieces
  /\ p.complete <=> r.at \in {"called", "answered"}
  /\ p.whole = IF p.complete /\ r.pieces = 0 THEN 1 ELSE 0

QueueKnown(list, calls) ==
  /\ list \in Seq(Pendings)
  /\ \A i \in DOMAIN list : Remembered(list[i], calls[list[i].id])
  /\ \A i, j \in DOMAIN list : i < j => calls[list[i].id].place < calls[list[j].id].place
  /\ \A c \in Calls : calls[c].at # "none" /\ ~Waits(list, c) =>
       \A i \in DOMAIN list : calls[c].place < calls[list[i].id].place

(* The whole input of a complete call, of which no piece came.             *)
WholeOf(r) == IF r.at \in {"called", "answered"} /\ r.pieces = 0 THEN 1 ELSE 0

(* A call that waits no more is one block, behind those of the calls that  *)
(* began before it, with the pieces that came or its whole input.          *)
CallPlaced(t, list, c, r) ==
  IF r.at = "none" \/ Waits(list, c) THEN OfIn(t, c) = {}
  ELSE \E b : Has(t, c, b, "closed", r.pieces, WholeOf(r))

CallsPlaced(t, list, calls) ==
  /\ \A c \in Calls : CallPlaced(t, list, c, calls[c])
  /\ \A c, d \in Calls : calls[c].place < calls[d].place =>
       \A b \in OfIn(t, c), e \in OfIn(t, d) : b < e

(* A call begins, or goes on.                                              *)
Continues(c) ==
  /\ call'[c].at # "none"
  /\ call[c].at # "none" =>
       \/ Waits(pendingToolCalls, c)
       \/ call'[c].pieces = call[c].pieces /\ WholeOf(call'[c]) = WholeOf(call[c])
  /\ call'[c].place = IF call[c].at = "none" THEN 1 + Cardinality(Placed(call)) ELSE call[c].place
  /\ \A d \in Calls \ {c} : call'[d] = call[d]

(* Its record is changed, or added at the end.                             *)
Requeued(list, c) ==
  /\ list \in Seq(Pendings)
  /\ Len(list) = Len(pendingToolCalls) + IF call[c].at = "none" THEN 1 ELSE 0
  /\ \A i \in DOMAIN pendingToolCalls :
       /\ list[i].id = pendingToolCalls[i].id
       /\ pendingToolCalls[i].id # c => list[i] = pendingToolCalls[i]
  /\ call[c].at = "none" => list[Len(pendingToolCalls) + 1].id = c
  /\ \A i \in DOMAIN list : list[i].id = c => Remembered(list[i], call'[c])

(* The first of those that wait are sent, and the others wait.             *)
IsRest(rest, list, n) ==
  /\ rest \in Seq(Pendings) /\ Len(rest) = Len(list) - n /\ DOMAIN rest = 1..(Len(list) - n)
  /\ \A i \in DOMAIN rest : i + n \in DOMAIN list /\ rest[i] = list[i + n]

Numbered(calls) == \A c \in Calls : calls[c].place \in Nat /\ calls[c].pieces \in Nat

(* What the client will have of a message.                                 *)
MessageContent(t) ==
  CallsPlaced(t, pendingToolCalls, call) /\ PiecesIn(t, "text") = sent.text

WaitingKnown ==
  IF upstream = "streaming" THEN \A c \in Calls : call[c].at = "started" => Waits(pendingToolCalls, c)
  ELSE pendingToolCalls = <<>>

MessageContents ==
  /\ QueueKnown(pendingToolCalls, call) /\ WaitingKnown
  /\ \A t : Plays("anthropic", Now, out, t) => MessageContent(t)

(* A call that is queued.                                                  *)
IsQueued(q, c) ==
  /\ q \in Seq(Pendings) /\ Len(q) = Len(pendingToolCalls) + IF call[c].at = "none" THEN 1 ELSE 0
  /\ \A i \in DOMAIN pendingToolCalls : i \in DOMAIN q /\ q[i] = pendingToolCalls[i]
  /\ call[c].at = "none" => q[Len(pendingToolCalls) + 1].id = c
  /\ \A i \in DOMAIN q : q[i].id = c => /\ q[i].deltas = call[c].pieces /\ q[i].whole = 0
                                        /\ q[i].complete = FALSE

Ends3 == {<<>>, <<Completed>>, <<Failed, Closed>>}

-----------------------------------------------------------------------------
(* The content of the answer that is rendered, and of all of them.         *)

RenderedContents ==
  picked = "rendered" =>
    /\ format = "responses" => ResponseContents
    /\ format = "anthropic" => MessageContents
    /\ format = "chat" => ChatContents

ContentInv == PartInv /\ CalledOnce /\ ClientInv /\ CollectedInv /\ RenderInv /\ RenderedContents
=============================================================================
