---------------------------- MODULE RenderersProofs ----------------------------
(***************************************************************************)
(* What TLAPS proves of MCRenderers.                                       *)
(* RawResponses, for any number of frames and any sequence numbers:        *)
(* whatever the upstream does, the client of passed-on frames gets one     *)
(* terminal frame and nothing after it.                                    *)
(* ResponsesRenderer, AnthropicRenderer and ChatRenderer, for any calls    *)
(* and any number of parts and pieces: each implements BlockStream, what   *)
(* the client of a streamed answer is promised.  The invariant says where  *)
(* the events that the client has still to read will take it, each of them *)
(* allowed when its turn comes, and what the renderer knows of the blocks  *)
(* that will then be there.                                                *)
(* The three and CollectedAnswer, for any finite set of calls: what the    *)
(* stream brought arrives.  The invariant says of every run of the events  *)
(* that are still to be read that each piece, each call and each input     *)
(* that came is then in the client's blocks, once, at its place, or is     *)
(* still kept by the renderer.                                             *)
(* RendererInvariants has the invariants and the words they are said in.   *)
(***************************************************************************)
EXTENDS RendererInvariants
-----------------------------------------------------------------------------
(* The frames that are passed on (RawResponses).                           *)

LEMMA FramesInitially == RawFrames!Init => FramesInv
<1> SUFFICES ASSUME RawFrames!Init PROVE FramesInv
  OBVIOUS
<1>1. /\ seen = <<>> /\ nextSequenceNumber = 0 /\ terminalSeen = FALSE
      /\ responseId = "unknown" /\ at = "reading"
  BY DEF RawFrames!Init
<1>2. seen \in Seq(Frames) /\ DOMAIN seen = {}
  BY <1>1
<1>3. PassedOn
  BY <1>1, <1>2 DEF PassedOn
<1>4. RawFrames!OneTerminal
  BY <1>1, <1>2 DEF RawFrames!OneTerminal
<1> QED  BY <1>1, <1>2, <1>3, <1>4 DEF FramesInv

(* A frame more.                                                           *)
LEMMA FrameSent ==
  ASSUME seen \in Seq(Frames), NEW e \in Frames, seen' = Append(seen, e)
  PROVE  /\ seen' \in Seq(Frames) /\ seen' # <<>>
         /\ Len(seen') = Len(seen) + 1 /\ Len(seen) \in Nat
         /\ DOMAIN seen = 1..Len(seen) /\ DOMAIN seen' = 1..(Len(seen) + 1)
         /\ \A i \in 1..Len(seen) : seen'[i] = seen[i] /\ i \in 1..(Len(seen) + 1)
         /\ seen'[Len(seen) + 1] = e
         /\ \A i \in 1..(Len(seen) + 1) : i \in 1..Len(seen) \/ i = Len(seen) + 1
  OBVIOUS

(* A frame of the upstream, while no terminal one has come.                *)
LEMMA RawStep ==
  ASSUME FramesInv, NEW type \in RawFrames!Types, NEW n \in 0..MaxSequence,
         NEW id \in {"unknown", "upstream"}, RawFrames!Raw(type, n, id)
  PROVE  FramesInv'
<1> DEFINE e == [type |-> type, number |-> n, id |-> id]
<1>1. /\ at = "reading" /\ at' = at /\ ~terminalSeen
      /\ nextSequenceNumber' = RawFrames!Advanced(n)
      /\ responseId' = (IF id = "upstream" THEN id ELSE responseId)
      /\ terminalSeen' = (type \in RawFrames!Terminals)
      /\ seen' = Append(seen, e)
  BY DEF RawFrames!Raw, RawFrames!Part, RawFrames!Sent
<1>2. n \in Nat /\ e \in Frames /\ e.type = type /\ e.number = n /\ e.id = id
  BY FramesAssumption DEF Frames
<1> HIDE DEF e
<1>3. /\ seen \in Seq(Frames) /\ nextSequenceNumber \in Nat
      /\ responseId \in {"unknown", "upstream"}
      /\ \A i \in DOMAIN seen :
           /\ seen[i].type \notin RawFrames!Terminals
           /\ seen[i].number < nextSequenceNumber
           /\ seen[i].id = "upstream" => responseId = "upstream"
  BY <1>1 DEF FramesInv, PassedOn
<1>4. /\ nextSequenceNumber' \in Nat /\ nextSequenceNumber <= nextSequenceNumber'
      /\ n < nextSequenceNumber'
  BY <1>1, <1>2, <1>3 DEF RawFrames!Advanced, RawFrames!Larger
<1>5. /\ seen' \in Seq(Frames) /\ seen' # <<>>
      /\ Len(seen') = Len(seen) + 1 /\ Len(seen) \in Nat
      /\ DOMAIN seen = 1..Len(seen) /\ DOMAIN seen' = 1..(Len(seen) + 1)
      /\ \A i \in 1..Len(seen) : seen'[i] = seen[i] /\ i \in 1..(Len(seen) + 1)
      /\ seen'[Len(seen) + 1] = e
      /\ \A i \in 1..(Len(seen) + 1) : i \in 1..Len(seen) \/ i = Len(seen) + 1
  BY <1>1, <1>2, <1>3, FrameSent
<1>6. ASSUME NEW i \in 1..(Len(seen) + 1)
      PROVE  /\ seen'[i].type \in RawFrames!Terminals <=> (terminalSeen' /\ i = Len(seen) + 1)
             /\ seen'[i].number < nextSequenceNumber'
             /\ seen'[i].id = "upstream" => responseId' = "upstream"
  <2>1. CASE i \in 1..Len(seen)
    <3>1. /\ seen'[i] = seen[i] /\ seen[i].type \notin RawFrames!Terminals
          /\ seen[i].number < nextSequenceNumber /\ i # Len(seen) + 1
          /\ seen[i].id = "upstream" => responseId = "upstream"
          /\ seen[i] \in Frames
      BY <1>3, <1>5, <2>1
    <3>2. seen[i].number \in Nat
      BY <3>1 DEF Frames
    <3> QED  BY <1>1, <1>3, <1>4, <3>1, <3>2
  <2>2. CASE i = Len(seen) + 1
    BY <1>1, <1>2, <1>4, <1>5, <2>2
  <2> QED  BY <1>5, <2>1, <2>2
<1>7. PassedOn'
  BY <1>1, <1>5, <1>6 DEF PassedOn
<1>8. RawFrames!OneTerminal'
  <2>1. at' # "over"
    BY <1>1
  <2>2. \A i \in DOMAIN seen' : seen'[i].type \in RawFrames!Terminals => i = Len(seen') /\ terminalSeen'
    BY <1>5, <1>6
  <2> QED  BY <2>1, <2>2 DEF RawFrames!OneTerminal, RawFrames!IsTerminal
<1> QED  BY <1>1, <1>3, <1>4, <1>5, <1>7, <1>8 DEF FramesInv

(* The frame that tells the failure.                                       *)
LEMMA FailureSent ==
  ASSUME FramesInv, RawFrames!Over, ~terminalSeen, RawFrames!FailedFrame
  PROVE  FramesInv'
<1>1. /\ at = "reading" /\ at' = "over"
      /\ UNCHANGED <<nextSequenceNumber, responseId, terminalSeen>>
  BY DEF RawFrames!Over
<1>2. PICK n \in Nat, id \in {"unknown", "upstream", "carried"} :
        /\ seen' = Append(seen, [type |-> "response.failed", number |-> n, id |-> id])
        /\ id # "carried" => n = nextSequenceNumber /\ id = responseId
  <2>1. nextSequenceNumber \in Nat /\ responseId \in {"unknown", "upstream"}
    BY DEF FramesInv
  <2>2. CASE RawFrames!Sent("response.failed", nextSequenceNumber, responseId)
    BY <2>1, <2>2 DEF RawFrames!Sent
  <2>3. CASE \E n \in 0..MaxSequence : RawFrames!Sent("response.failed", n, "carried")
    BY <2>3, FramesAssumption DEF RawFrames!Sent
  <2> QED  BY <2>2, <2>3 DEF RawFrames!FailedFrame
<1> DEFINE e == [type |-> "response.failed", number |-> n, id |-> id]
<1>3. e \in Frames /\ e.type \in RawFrames!Terminals /\ e.number = n /\ e.id = id
  BY DEF Frames, RawFrames!Types, RawFrames!Terminals
<1>4. seen' = Append(seen, e)
  BY <1>2
<1> HIDE DEF e
<1>5. /\ seen \in Seq(Frames) /\ nextSequenceNumber \in Nat
      /\ \A i \in DOMAIN seen :
           /\ seen[i].type \notin RawFrames!Terminals
           /\ seen[i].number < nextSequenceNumber
           /\ seen[i].id = "upstream" => responseId = "upstream"
  BY <1>1 DEF FramesInv, PassedOn
<1>6. /\ seen' \in Seq(Frames) /\ seen' # <<>>
      /\ Len(seen') = Len(seen) + 1 /\ Len(seen) \in Nat
      /\ DOMAIN seen = 1..Len(seen) /\ DOMAIN seen' = 1..(Len(seen) + 1)
      /\ \A i \in 1..Len(seen) : seen'[i] = seen[i] /\ i \in 1..(Len(seen) + 1)
      /\ seen'[Len(seen) + 1] = e
      /\ \A i \in 1..(Len(seen) + 1) : i \in 1..Len(seen) \/ i = Len(seen) + 1
  BY <1>3, <1>4, <1>5, FrameSent
<1>7. ASSUME NEW i \in DOMAIN seen', seen'[i].type \in RawFrames!Terminals
      PROVE  i = Len(seen')
  BY <1>5, <1>6, <1>7
<1>8. ASSUME id # "carried", NEW j \in 1..(Len(seen') - 1)
      PROVE  /\ seen'[j].number < seen'[Len(seen')].number
             /\ seen'[j].id = "upstream" => seen'[Len(seen')].id = "upstream"
  <2>1. j \in 1..Len(seen) /\ j \in DOMAIN seen /\ seen'[j] = seen[j]
    BY <1>6
  <2>2. seen'[Len(seen')] = e
    BY <1>6
  <2> QED  BY <1>2, <1>3, <1>5, <1>8, <2>1, <2>2
<1>9. RawFrames!OneTerminal'
  <2>1. seen'[Len(seen')] = e
    BY <1>6
  <2> QED  BY <1>1, <1>3, <1>6, <1>7, <1>8, <2>1 DEF RawFrames!OneTerminal, RawFrames!IsTerminal
<1> QED  BY <1>1, <1>6, <1>9 DEF FramesInv, PassedOn

LEMMA FramesSteps == FramesInv /\ [RawFrames!Next]_(RawFrames!vars) => FramesInv'
<1> SUFFICES ASSUME FramesInv, [RawFrames!Next]_(RawFrames!vars) PROVE FramesInv'
  OBVIOUS
<1>1. CASE \E type \in RawFrames!Types, n \in 0..MaxSequence, id \in {"unknown", "upstream"} :
             RawFrames!Raw(type, n, id)
  BY <1>1, RawStep
<1>2. CASE /\ at' = at
           /\ UNCHANGED <<nextSequenceNumber, responseId, terminalSeen, seen>>
  BY <1>2 DEF FramesInv, PassedOn, RawFrames!OneTerminal, RawFrames!IsTerminal
<1>3. CASE RawFrames!Skipped \/ UNCHANGED RawFrames!vars
  BY <1>2, <1>3 DEF RawFrames!Skipped, RawFrames!Part, RawFrames!vars
<1>4. CASE RawFrames!Over /\ ~terminalSeen /\ RawFrames!FailedFrame
  BY <1>4, FailureSent
<1>5. CASE RawFrames!Over /\ terminalSeen /\ UNCHANGED seen
  <2>1. /\ at = "reading" /\ at' = "over"
        /\ UNCHANGED <<nextSequenceNumber, responseId, terminalSeen, seen>>
    BY <1>5 DEF RawFrames!Over
  <2>2. seen # <<>> /\ seen \in Seq(Frames) /\ Len(seen) \in DOMAIN seen
    BY <1>5 DEF FramesInv, PassedOn
  <2>3. seen[Len(seen)].type \in RawFrames!Terminals
    BY <1>5, <2>1, <2>2 DEF FramesInv, PassedOn
  <2> QED
    BY <1>5, <2>1, <2>2, <2>3
       DEF FramesInv, PassedOn, RawFrames!OneTerminal, RawFrames!IsTerminal
<1>6. CASE RawFrames!Error \/ RawFrames!Catch \/ RawFrames!Return
  <2>1. RawFrames!Sent("response.failed", nextSequenceNumber, responseId) => RawFrames!FailedFrame
    BY DEF RawFrames!FailedFrame
  <2> QED  BY <1>4, <1>5, <1>6, <2>1 DEF RawFrames!Error, RawFrames!Catch, RawFrames!Return
<1> QED  BY <1>1, <1>3, <1>6 DEF RawFrames!Next

(* The renderer ends every stream of passed-on frames with one terminal    *)
(* frame, whatever the upstream does.                                      *)
THEOREM StreamEndsOnce == MCSpec => []OneTerminal
<1>1. MCInit => FramesInv
  BY FramesInitially DEF MCInit
<1>2. FramesInv /\ [MCNext]_vars => FramesInv'
  <2>1. [MCNext]_vars => [RawFrames!Next]_(RawFrames!vars)
    <3>1. ASSUME UNCHANGED rawVars PROVE UNCHANGED RawFrames!vars
      BY <3>1 DEF rawVars, RawFrames!vars
    <3>2. [MCNext]_vars => RawFrames!Next \/ UNCHANGED rawVars
      BY DEF MCNext, RenderResponses, RenderAnthropic, RenderChat, Collect, PassOn, vars
    <3> QED  BY <3>1, <3>2
  <2> QED  BY <2>1, FramesSteps
<1>3. FramesInv => OneTerminal
  BY DEF FramesInv, OneTerminal
<1> QED  BY <1>1, <1>2, <1>3, PTL DEF MCSpec

-----------------------------------------------------------------------------
(* The events that the client is to read (BlockStream).                    *)

LEMMA EventsOfBlocks == ASSUME NEW b, NEW x, NEW e \in EventsOf(b, x) PROVE IsEventOf(e, b, x)
<1>1. Added(b, x).kind = "added" /\ Added(b, x).index = b /\ Added(b, x).of = x /\ "index" \in DOMAIN Added(b, x)
  BY DEF Added
<1>2. Piece(b, x).kind = "piece" /\ Piece(b, x).index = b /\ Piece(b, x).of = x /\ "index" \in DOMAIN Piece(b, x)
  BY DEF Piece
<1>3. Whole(b, x).kind = "whole" /\ Whole(b, x).index = b /\ Whole(b, x).of = x /\ "index" \in DOMAIN Whole(b, x)
  BY DEF Whole
<1>4. Done(b, x).kind = "done" /\ Done(b, x).index = b /\ Done(b, x).of = x /\ "index" \in DOMAIN Done(b, x)
  BY DEF Done
<1>5. Chunk(b, x).kind = "chunk" /\ Chunk(b, x).index = b /\ Chunk(b, x).of = x /\ "index" \in DOMAIN Chunk(b, x)
  BY DEF Chunk
<1>6. /\ WholeChunk(b, x).kind = "whole chunk" /\ WholeChunk(b, x).index = b /\ WholeChunk(b, x).of = x
      /\ "index" \in DOMAIN WholeChunk(b, x)
  BY DEF WholeChunk
<1> QED  BY <1>1, <1>2, <1>3, <1>4, <1>5, <1>6 DEF KindsOf, EventsOf, IsEventOf

LEMMA SeenBlockIs ==
  ASSUME NEW block, NEW e
  PROVE  /\ e.kind = "added" => SeenBlock(block, e) = Opened(block, e)
         /\ e.kind = "piece" =>
              SeenBlock(block, e) = [block EXCEPT !.pieces = @ + 1, !.status = Fits(block, e, "open")]
         /\ e.kind = "whole" =>
              SeenBlock(block, e) = [block EXCEPT !.whole = @ + 1, !.status = Fits(block, e, "open")]
         /\ e.kind = "done" => SeenBlock(block, e) = [block EXCEPT !.status = Fits(block, e, "closed")]
         /\ e.kind = "chunk" => SeenBlock(block, e) = Named(block, e)
         /\ e.kind = "whole chunk" => SeenBlock(block, e) = MoreWhole(Named(block, e))
BY Zenon DEF SeenBlock, MoreWhole

(* What an event that is allowed makes of a state.                         *)
LEMMA PhaseEvents ==
  ASSUME NEW f, NEW s \in States, NEW e, MayPhase(f, s, e)
  PROVE  /\ After(s, e) \in States /\ "index" \notin DOMAIN e
         /\ e = Created => After(s, e) = Phased(s, "open")
         /\ e = Completed => After(s, e) = Phased(s, "completed")
         /\ e = Failed => After(s, e) = Phased(s, "failed")
         /\ e = Closed => After(s, e) = Phased(s, IF s.phase \in {"before", "open"} THEN "truncated" ELSE s.phase)
<1>1. /\ s.phase \in Phases /\ s.blocks \in [0..MaxBlocks -> Blocks]
      /\ \A p \in Phases : Phased(s, p) \in States
  BY DEF States, Phased
<1>2. e \in {Created, Completed, Failed, Closed} /\ "index" \notin DOMAIN e
  BY DEF MayPhase, Created, Completed, Failed, Closed, Signal
<1>3. After(s, e) = Phased(s, PhaseAfter(s.phase, e))
  BY <1>2 DEF After
<1>4. e = Created => PhaseAfter(s.phase, e) = "open"
  BY DEF MayPhase, Created, Completed, Failed, Closed, Signal, PhaseAfter
<1>5. e = Completed => PhaseAfter(s.phase, e) = "completed"
  BY DEF MayPhase, Created, Completed, Failed, Closed, Signal, PhaseAfter
<1>6. e = Failed => PhaseAfter(s.phase, e) = "failed"
  BY DEF Failed, Signal, PhaseAfter
<1>7. e = Closed => PhaseAfter(s.phase, e) = IF s.phase \in {"before", "open"} THEN "truncated" ELSE s.phase
  BY DEF Closed, Signal, PhaseAfter
<1>8. PhaseAfter(s.phase, e) \in Phases
  BY <1>1, <1>2, <1>4, <1>5, <1>6, <1>7 DEF Phases
<1> QED  BY <1>1, <1>2, <1>3, <1>4, <1>5, <1>6, <1>7, <1>8

LEMMA BlockEvents ==
  ASSUME NEW f, NEW s \in States, NEW e, NEW b \in 1..MaxBlocks, NEW x \in Subjects, MayBlock(f, s, e, b, x)
  PROVE  /\ After(s, e) \in States /\ "index" \in DOMAIN e /\ e.index = b
         /\ e = Added(b, x) => After(s, e) = Put(s, b, New(x, 0))
         /\ e = Piece(b, x) => After(s, e) = Put(s, b, MorePieces(s.blocks[b]))
         /\ e = Whole(b, x) => After(s, e) = Put(s, b, MoreWhole(s.blocks[b]))
         /\ e = Done(b, x) => After(s, e) = Put(s, b, Shut(s.blocks[b]))
         /\ e = Chunk(b, x) => After(s, e) = IF IsOpen(s, b, x) THEN s ELSE Put(s, b, New(x, 0))
         /\ e = WholeChunk(b, x) =>
              After(s, e) = Put(s, b, IF IsOpen(s, b, x) THEN MoreWhole(s.blocks[b])
                                      ELSE New(x, 1))
<1> DEFINE block == s.blocks[b]
<1>1. /\ s.blocks \in [0..MaxBlocks -> Blocks] /\ b \in 0..MaxBlocks /\ block \in Blocks
      /\ s = [blocks |-> s.blocks, phase |-> s.phase] /\ s.phase \in Phases
  BY PartsAssumption DEF States, MaxBlocks
<1>2. \A v \in Blocks : Put(s, b, v) \in States
  BY <1>1 DEF States, Put
<1>3. /\ block.pieces \in Nat /\ block.whole \in Nat /\ block.status \in Statuses
      /\ block.of \in Subjects \cup {"-"}
      /\ block = [status |-> block.status, of |-> block.of, pieces |-> block.pieces, whole |-> block.whole]
  BY <1>1 DEF Blocks
<1>4. New(x, 0) \in Blocks /\ New(x, 1) \in Blocks
  BY DEF New, Blocks, Statuses
<1>5. /\ MorePieces(block) \in Blocks
      /\ MoreWhole(block) \in Blocks
      /\ Shut(block) \in Blocks
  BY <1>1, <1>3 DEF Blocks, Statuses, MorePieces, MoreWhole, Shut
<1>6. Put(s, b, block) = s
  BY <1>1 DEF Put
<1> HIDE DEF block
<1>7. /\ "index" \in DOMAIN e /\ e.index = b /\ e.of = x
      /\ After(s, e) = Put(s, b, SeenBlock(block, e))
      /\ e \in EventsOf(b, x)
  <2>1. e \in EventsOf(b, x)
    BY DEF MayBlock, EventsOf
  <2>2. IsEventOf(e, b, x)
    BY <2>1, EventsOfBlocks
  <2> QED  BY <2>1, <2>2 DEF After, block, IsEventOf
<1>8. /\ e = Added(b, x) <=> e.kind = "added"
      /\ e = Piece(b, x) <=> e.kind = "piece"
      /\ e = Whole(b, x) <=> e.kind = "whole"
      /\ e = Done(b, x) <=> e.kind = "done"
      /\ e = Chunk(b, x) <=> e.kind = "chunk"
      /\ e = WholeChunk(b, x) <=> e.kind = "whole chunk"
      /\ e.kind \in KindsOf
  <2>1. IsEventOf(e, b, x)
    BY <1>7, EventsOfBlocks
  <2> QED  BY <2>1 DEF IsEventOf
<1>9. /\ e.kind = "added" => block.status = "none"
      /\ e.kind \in {"piece", "whole", "done"} => block.status = "open" /\ block.of = x
      /\ e.kind \in {"chunk", "whole chunk"} => (block.status = "open" /\ block.of = x) \/ block.status = "none"
      /\ IsOpen(s, b, x) <=> (block.status = "open" /\ block.of = x)
  BY <1>8 DEF MayBlock, CanOpen, IsOpen, block
<1> DEFINE seenBlock == SeenBlock(block, e)
<1>10. /\ e.kind = "added" => seenBlock = Opened(block, e)
       /\ e.kind = "piece" => seenBlock = [block EXCEPT !.pieces = @ + 1, !.status = Fits(block, e, "open")]
       /\ e.kind = "whole" => seenBlock = [block EXCEPT !.whole = @ + 1, !.status = Fits(block, e, "open")]
       /\ e.kind = "done" => seenBlock = [block EXCEPT !.status = Fits(block, e, "closed")]
       /\ e.kind = "chunk" => seenBlock = Named(block, e)
       /\ e.kind = "whole chunk" => seenBlock = MoreWhole(Named(block, e))
  BY Zenon, SeenBlockIs
<1>11. After(s, e) = Put(s, b, seenBlock)
  BY <1>7
<1> HIDE DEF seenBlock
<1>12. CASE e.kind = "added"
  <2>1. seenBlock = New(x, 0)
    BY <1>7, <1>10, <1>11, <1>12, <1>9 DEF Opened, New, Nothing
  <2> QED  BY <1>2, <1>4, <1>7, <1>10, <1>11, <1>12, <1>8, <2>1 DEF EventsOf
<1>13. CASE e.kind = "piece"
  <2>1. seenBlock = MorePieces(block)
    BY <1>3, <1>7, <1>10, <1>11, <1>13, <1>9 DEF Fits, MorePieces, MoreWhole, Shut
  <2> QED  BY <1>2, <1>5, <1>7, <1>10, <1>11, <1>13, <1>8, <2>1 DEF EventsOf, block
<1>14. CASE e.kind = "whole"
  <2>1. seenBlock = MoreWhole(block)
    BY <1>3, <1>7, <1>10, <1>11, <1>14, <1>9 DEF Fits, MorePieces, MoreWhole, Shut
  <2> QED  BY <1>2, <1>5, <1>7, <1>10, <1>11, <1>14, <1>8, <2>1 DEF EventsOf, block
<1>15. CASE e.kind = "done"
  <2>1. seenBlock = Shut(block)
    BY <1>3, <1>7, <1>10, <1>11, <1>15, <1>9 DEF Fits, MorePieces, MoreWhole, Shut
  <2> QED  BY <1>2, <1>5, <1>7, <1>10, <1>11, <1>15, <1>8, <2>1 DEF EventsOf, block
<1>16. CASE e.kind = "chunk"
  <2>1. seenBlock = IF IsOpen(s, b, x) THEN block ELSE New(x, 0)
    BY <1>7, <1>10, <1>11, <1>16, <1>9 DEF Named, Opened, New, Nothing, MoreWhole
  <2>2. After(s, e) = IF IsOpen(s, b, x) THEN s ELSE Put(s, b, New(x, 0))
    BY <1>6, <1>7, <1>11, <2>1
  <2> QED  BY <1>2, <1>4, <1>7, <1>10, <1>11, <1>16, <1>8, <2>2 DEF EventsOf
<1>17. CASE e.kind = "whole chunk"
  <2>1. seenBlock = IF IsOpen(s, b, x) THEN MoreWhole(block) ELSE New(x, 1)
    <3>1. CASE IsOpen(s, b, x)
      <4>1. Named(block, e) = block
        BY <1>9, <3>1 DEF Named
      <4> QED  BY <1>17, <1>10, <3>1, <4>1
    <3>2. CASE ~IsOpen(s, b, x)
      <4>1. Named(block, e) = New(x, 0)
        BY <1>7, <1>17, <1>9, <3>2 DEF Named, Opened, New, Nothing
      <4>2. MoreWhole(New(x, 0)) = New(x, 1)
        BY DEF MoreWhole, New
      <4> QED  BY <1>17, <1>10, <3>2, <4>1, <4>2
    <3> QED  BY <3>1, <3>2
  <2> QED  BY <1>2, <1>4, <1>5, <1>7, <1>10, <1>11, <1>17, <1>8, <2>1 DEF EventsOf, block
<1> QED  BY <1>7, <1>12, <1>13, <1>14, <1>15, <1>16, <1>17, <1>8 DEF EventsOf, KindsOf

(* Reading an event that is allowed is a step of the promise.              *)
LEMMA ReadSteps ==
  ASSUME Now \in States, Read, May(format, Now, Head(out))
  PROVE  Now' = After(Now, Head(out)) /\ (Client!Next \/ UNCHANGED Client!vars)
<1> DEFINE e == Head(out)
<1>1. /\ Now.blocks = blocks /\ Now.phase = phase
      /\ blocks \in [0..MaxBlocks -> Blocks] /\ phase \in Phases
  BY DEF Now, States
<1>2. /\ format' = format
      /\ IF "index" \in DOMAIN e
         THEN blocks' = [blocks EXCEPT ![e.index] = SeenBlock(@, e)] /\ phase' = phase
         ELSE phase' = SeenPhase(e) /\ blocks' = blocks
  BY DEF Read, upstreamVars
<1>3. SeenPhase(e) = PhaseAfter(phase, e)
  BY DEF SeenPhase, PhaseAfter
<1> HIDE DEF e
<1>4. Now' = After(Now, e)
  BY <1>1, <1>2, <1>3 DEF Now, After, Put, Phased
<1>5. MaxBlocks \in Nat
  BY PartsAssumption DEF MaxBlocks
<1>6. CASE MayPhase(format, Now, e)
  <2>1. /\ Now' = After(Now, e) /\ "index" \notin DOMAIN e
        /\ e = Created => After(Now, e) = Phased(Now, "open")
        /\ e = Completed => After(Now, e) = Phased(Now, "completed")
        /\ e = Failed => After(Now, e) = Phased(Now, "failed")
        /\ e = Closed => After(Now, e) = Phased(Now, IF Now.phase \in {"before", "open"} THEN "truncated"
                                                     ELSE Now.phase)
    BY <1>4, <1>6, PhaseEvents
  <2>2. Now' = [blocks |-> blocks', phase |-> phase']
    BY DEF Now
  <2>3. blocks' = blocks
    BY <1>2, <2>1
  <2>4. e = Created => Client!Start
    <3>1. e = Created => phase = "before"
      BY <1>1, <1>6 DEF MayPhase, Created, Completed, Failed, Closed, Signal
    <3> QED  BY <1>1, <1>2, <2>1, <2>2, <2>3, <3>1 DEF Client!Start, Phased
  <2>5. e = Completed => Client!Complete
    <3>1. e = Completed =>
            phase = "open" /\ (IF format = "anthropic" THEN AllClosed(Now) ELSE CallsOnly(Now))
      BY <1>1, <1>6 DEF MayPhase, Created, Completed, Failed, Closed, Signal
    <3> QED
      BY <1>1, <1>2, <2>1, <2>2, <2>3, <3>1
         DEF Client!Complete, Client!Strict, Client!NoneOpen, Client!OnlyCallsOpen, Client!Holds,
             AllClosed, CallsOnly, Phased
  <2>6. e = Failed => Client!Fail
    <3>1. e = Failed => /\ phase \notin {"failed", "truncated"}
                        /\ format = "anthropic" => phase # "before" /\ AllClosed(Now)
      BY <1>1, <1>6 DEF MayPhase, Created, Completed, Failed, Closed, Signal
    <3> QED
      BY <1>1, <1>2, <2>1, <2>2, <2>3, <3>1
         DEF Client!Fail, Client!Strict, Client!NoneOpen, Client!Holds, AllClosed, Phased
  <2>7. e = Closed => Client!Truncate \/ UNCHANGED Client!vars
    <3>1. e = Closed => (phase \in {"before", "open"} => format # "anthropic")
      BY <1>1, <1>6 DEF MayPhase, Created, Completed, Failed, Closed, Signal
    <3> QED
      BY <1>1, <1>2, <2>1, <2>2, <2>3, <3>1 DEF Client!Truncate, Client!Strict, Client!vars, Phased
  <2> QED  BY <1>4, <1>6, <2>4, <2>5, <2>6, <2>7 DEF MayPhase, Client!Next, e
<1>7. CASE \E b \in 1..MaxBlocks, x \in Subjects : MayBlock(format, Now, e, b, x)
  <2>1. PICK b \in 1..MaxBlocks, x \in Subjects : MayBlock(format, Now, e, b, x)
    BY <1>7
  <2>2. /\ "index" \in DOMAIN e /\ e.index = b
        /\ e = Added(b, x) => Now' = Put(Now, b, New(x, 0))
        /\ e = Piece(b, x) => Now' = Put(Now, b, MorePieces(Now.blocks[b]))
        /\ e = Whole(b, x) => Now' = Put(Now, b, MoreWhole(Now.blocks[b]))
        /\ e = Done(b, x) => Now' = Put(Now, b, Shut(Now.blocks[b]))
        /\ e = Chunk(b, x) => Now' = IF IsOpen(Now, b, x) THEN Now ELSE Put(Now, b, New(x, 0))
        /\ e = WholeChunk(b, x) =>
             Now' = Put(Now, b, IF IsOpen(Now, b, x) THEN MoreWhole(Now.blocks[b])
                                ELSE New(x, 1))
    BY <1>4, <2>1, BlockEvents
  <2>3. Now' = [blocks |-> blocks', phase |-> phase'] /\ Now = [blocks |-> blocks, phase |-> phase]
    BY DEF Now
  <2>4. /\ phase = "open" /\ phase' = phase /\ b \in 0..MaxBlocks /\ b > 0
    BY <1>1, <1>2, <1>5, <2>1, <2>2 DEF MayBlock
  <2>5. ASSUME CanOpen(format, Now, b), NEW n \in {0, 1}, format # "chat" => n = 0, Now' = Put(Now, b, New(x, n))
        PROVE  Client!Open(b, x)
    <3>1. blocks' = [blocks EXCEPT ![b] = New(x, n)]
      BY <1>1, <2>3, <2>5 DEF Put
    <3>2. /\ Client!Holds(b, "none") /\ \A c \in 1..(b - 1) : ~Client!Holds(c, "none")
          /\ Client!Strict => Client!NoneOpen
      BY <1>1, <2>5 DEF CanOpen, Client!Holds, Client!Strict, Client!NoneOpen, AllClosed
    <3>3. \E whole \in IF format = "chat" THEN {0, 1} ELSE {0} :
            blocks' = [blocks EXCEPT ![b] = [status |-> "open", of |-> x, pieces |-> 0, whole |-> whole]]
      BY <2>5, <3>1 DEF New
    <3> QED  BY <1>2, <2>4, <3>2, <3>3 DEF Client!Open
  <2>6. Client!Open(b, x) => Client!Next
    BY <2>4 DEF Client!Next, Subjects
  <2>7. Client!Piece(b) \/ Client!Close(b) => Client!Next
    BY <2>4 DEF Client!Next
  <2>8. CASE e = Added(b, x) /\ CanOpen(format, Now, b)
    BY <1>4, <2>2, <2>5, <2>6, <2>8 DEF e
  <2>9. CASE format = "chat" /\ e \in {Chunk(b, x), WholeChunk(b, x)} /\ CanOpen(format, Now, b)
    <3>1. ~IsOpen(Now, b, x)
      BY <2>9 DEF CanOpen, IsOpen
    <3> QED  BY <1>4, <2>2, <2>5, <2>6, <2>9, <3>1 DEF e
  <2>10. CASE /\ e \in {Piece(b, x), Whole(b, x), Done(b, x), Chunk(b, x), WholeChunk(b, x)}
              /\ IsOpen(Now, b, x)
    <3>1. Client!Holds(b, "open")
      BY <1>1, <2>10 DEF IsOpen, Client!Holds
    <3>2. e = Piece(b, x) => blocks' = [blocks EXCEPT ![b].pieces = @ + 1]
      BY <1>1, <2>2, <2>3, <2>4 DEF Put, MorePieces
    <3>3. e \in {Whole(b, x), WholeChunk(b, x)} => blocks' = [blocks EXCEPT ![b].whole = @ + 1]
      BY <1>1, <2>2, <2>3, <2>4, <2>10 DEF Put, MoreWhole
    <3>4. e = Done(b, x) => blocks' = [blocks EXCEPT ![b].status = "closed"]
      BY <1>1, <2>2, <2>3, <2>4 DEF Put, Shut
    <3>5. e = Chunk(b, x) => blocks' = blocks
      BY <2>2, <2>3, <2>10
    <3>6. e \in {Piece(b, x), Whole(b, x), WholeChunk(b, x)} => Client!Piece(b)
      BY <1>2, <2>4, <3>1, <3>2, <3>3 DEF Client!Piece
    <3>7. e = Done(b, x) => Client!Close(b)
      BY <1>2, <2>4, <3>1, <3>4 DEF Client!Close
    <3>8. e = Chunk(b, x) => UNCHANGED Client!vars
      BY <1>2, <2>4, <3>5 DEF Client!vars
    <3> QED  BY <1>4, <2>7, <2>10, <3>6, <3>7, <3>8 DEF e
  <2> QED  BY <2>1, <2>8, <2>9, <2>10 DEF MayBlock
<1> QED  BY <1>6, <1>7 DEF May, e

LEMMA AllowedEvents ==
  ASSUME NEW f, NEW s \in States, NEW e, May(f, s, e)
  PROVE  e \in Events /\ After(s, e) \in States
<1>1. CASE MayPhase(f, s, e)
  BY <1>1, PhaseEvents DEF MayPhase, Events
<1>2. CASE \E b \in 1..MaxBlocks, x \in Subjects : MayBlock(f, s, e, b, x)
  <2>1. PICK b \in 1..MaxBlocks, x \in Subjects : MayBlock(f, s, e, b, x)
    BY <1>2
  <2>2. e \in EventsOf(b, x)
    BY <2>1 DEF MayBlock, EventsOf
  <2>3. <<b, x>> \in (1..MaxBlocks) \X Subjects /\ <<b, x>>[1] = b /\ <<b, x>>[2] = x
    OBVIOUS
  <2>4. \E p \in (1..MaxBlocks) \X Subjects : e \in EventsOf(p[1], p[2])
    BY <2>2, <2>3
  <2> QED  BY <2>1, <2>4, BlockEvents DEF Events
<1> QED  BY <1>1, <1>2 DEF May

LEMMA PlaysNone ==
  ASSUME NEW f, NEW s \in States
  PROVE  Plays(f, s, <<>>, s)
<1>1. <<>> \in Seq(Events) /\ Len(<<>>) = 0
  OBVIOUS
<1> DEFINE r == [i \in 0..0 |-> s]
<1>2. r \in [0..0 -> States] /\ r[0] = s /\ IsRun(f, <<>>, r)
  BY DEF IsRun
<1> HIDE DEF r
<1> QED  BY <1>1, <1>2 DEF Plays

LEMMA PlaysNothing ==
  ASSUME NEW f, NEW s, NEW u, Plays(f, s, <<>>, u)
  PROVE  u = s /\ s \in States
<1>1. Len(<<>>) = 0
  OBVIOUS
<1>2. PICK r \in [0..0 -> States] : r[0] = s /\ r[0] = u
  BY <1>1 DEF Plays
<1> QED  BY <1>2

LEMMA PlaysOne ==
  ASSUME NEW f, NEW s \in States, NEW e, May(f, s, e)
  PROVE  Plays(f, s, <<e>>, After(s, e))
<1> DEFINE q == <<e>>
           u == After(s, e)
           r == [i \in 0..1 |-> IF i = 0 THEN s ELSE u]
<1>1. e \in Events /\ u \in States
  BY AllowedEvents
<1>2. q \in Seq(Events) /\ Len(q) = 1 /\ q[1] = e
  BY <1>1
<1>3. r \in [0..1 -> States] /\ r[0] = s /\ r[1] = u
  BY <1>1
<1> HIDE DEF q, r
<1>4. IsRun(f, q, r)
  BY <1>2, <1>3 DEF IsRun
<1>5. Plays(f, s, q, u)
  BY <1>2, <1>3, <1>4 DEF Plays
<1> QED  BY <1>5 DEF q

LEMMA PlaysMore ==
  ASSUME NEW f, NEW s, NEW q, NEW u, NEW p, NEW v, Plays(f, s, q, u), Plays(f, u, p, v)
  PROVE  Plays(f, s, q \o p, v)
<1>1. PICK r \in [0..Len(q) -> States] : r[0] = s /\ r[Len(q)] = u /\ IsRun(f, q, r)
  BY DEF Plays
<1>2. PICK t \in [0..Len(p) -> States] : t[0] = u /\ t[Len(p)] = v /\ IsRun(f, p, t)
  BY DEF Plays
<1> DEFINE m == Len(q)
           k == Len(p)
           all == q \o p
           both == [i \in 0..(m + k) |-> IF i <= m THEN r[i] ELSE t[i - m]]
<1>3. /\ q \in Seq(Events) /\ p \in Seq(Events) /\ m \in Nat /\ k \in Nat
      /\ all \in Seq(Events) /\ Len(all) = m + k
      /\ \A i \in 1..(m + k) : all[i] = IF i <= m THEN q[i] ELSE p[i - m]
  BY DEF Plays
<1>4. \A i \in 0..(m + k) : i > m => i - m \in 0..k /\ i - m \in 1..k
  BY <1>3
<1>5. \A i \in 0..(m + k) : i <= m => i \in 0..m
  BY <1>3
<1> HIDE DEF m, k
<1>6. both \in [0..(m + k) -> States]
  BY <1>1, <1>2, <1>4, <1>5 DEF m, k
<1>7. both[0] = s
  BY <1>1, <1>3
<1>8. both[m + k] = v
  <2>1. CASE k = 0
    BY <1>1, <1>2, <1>3, <2>1 DEF m, k
  <2>2. CASE k > 0
    <3>1. m + k \in 0..(m + k) /\ ~(m + k <= m) /\ (m + k) - m = k
      BY <1>3, <2>2
    <3> QED  BY <1>2, <3>1 DEF k
  <2> QED  BY <1>3, <2>1, <2>2
<1>9. ASSUME NEW i \in 1..(m + k)
      PROVE  May(f, both[i - 1], all[i]) /\ both[i] = After(both[i - 1], all[i])
  <2>1. i \in 0..(m + k) /\ i - 1 \in 0..(m + k)
    BY <1>3
  <2>2. CASE i <= m
    <3>1. i \in 1..m /\ i - 1 <= m
      BY <1>3, <2>2
    <3>2. both[i - 1] = r[i - 1] /\ both[i] = r[i] /\ all[i] = q[i]
      BY <1>3, <2>1, <2>2, <3>1
    <3> QED  BY <1>1, <3>1, <3>2 DEF IsRun, m
  <2>3. CASE i > m
    <3>1. i - m \in 1..k /\ ~(i <= m)
      BY <1>3, <2>3
    <3>2. both[i] = t[i - m] /\ all[i] = p[i - m]
      BY <1>3, <2>1, <3>1
    <3>3. both[i - 1] = t[(i - m) - 1]
      <4>1. CASE i - 1 = m
        <5>1. i - 1 <= m /\ (i - m) - 1 = 0
          BY <1>3, <4>1
        <5> QED  BY <1>1, <1>2, <2>1, <4>1, <5>1 DEF m
      <4>2. CASE i - 1 # m
        <5>1. ~(i - 1 <= m) /\ (i - 1) - m = (i - m) - 1
          BY <1>3, <2>3, <4>2
        <5> QED  BY <2>1, <5>1
      <4> QED  BY <4>1, <4>2
    <3> QED  BY <1>2, <3>1, <3>2, <3>3 DEF IsRun, k
  <2> QED  BY <1>3, <2>2, <2>3
<1> HIDE DEF both, all
<1> QED
  <2>1. IsRun(f, all, both)
    BY <1>3, <1>9 DEF IsRun
  <2>2. Plays(f, s, all, v)
    BY <1>3, <1>6, <1>7, <1>8, <2>1 DEF Plays
  <2> QED  BY <2>2 DEF all

LEMMA PlaysHead ==
  ASSUME NEW f, NEW s, NEW q, NEW u, Plays(f, s, q, u), q # <<>>
  PROVE  s \in States /\ May(f, s, Head(q)) /\ Plays(f, After(s, Head(q)), Tail(q), u)
<1>1. PICK r \in [0..Len(q) -> States] : r[0] = s /\ r[Len(q)] = u /\ IsRun(f, q, r)
  BY DEF Plays
<1> DEFINE m == Len(q) - 1
           p == Tail(q)
           t == [i \in 0..m |-> r[i + 1]]
<1>2. /\ q \in Seq(Events) /\ Len(q) \in Nat /\ m \in Nat /\ Len(q) = m + 1
      /\ p \in Seq(Events) /\ Len(p) = m /\ \A i \in 1..m : p[i] = q[i + 1]
      /\ Head(q) = q[1]
  BY DEF Plays
<1>3. \A i \in 0..m : i + 1 \in 1..Len(q) /\ i + 1 \in 0..Len(q)
  BY <1>2
<1> HIDE DEF m
<1>4. t \in [0..m -> States] /\ \A i \in 0..m : t[i] = r[i + 1]
  BY <1>1, <1>3
<1>5. 1 \in 1..Len(q) /\ 1 - 1 = 0 /\ 0 \in 0..Len(q) /\ 0 \in 0..m /\ 0 + 1 = 1 /\ m \in 0..m
  BY <1>2
<1>6. May(f, r[0], q[1]) /\ r[1] = After(r[0], q[1]) /\ r[0] \in States
  BY <1>1, <1>5 DEF IsRun
<1>7. t[0] = After(s, Head(q)) /\ t[m] = u
  BY <1>1, <1>2, <1>4, <1>5, <1>6
<1>8. ASSUME NEW i \in 1..m PROVE May(f, t[i - 1], p[i]) /\ t[i] = After(t[i - 1], p[i])
  <2>1. i + 1 \in 1..Len(q) /\ (i + 1) - 1 = i /\ i - 1 \in 0..m /\ i \in 0..m /\ (i - 1) + 1 = i
    BY <1>2
  <2>2. t[i - 1] = r[i] /\ t[i] = r[i + 1] /\ p[i] = q[i + 1]
    BY <1>2, <1>4, <2>1
  <2>3. May(f, r[(i + 1) - 1], q[i + 1]) /\ r[i + 1] = After(r[(i + 1) - 1], q[i + 1])
    BY <1>1, <2>1 DEF IsRun
  <2> QED  BY <2>1, <2>2, <2>3
<1> HIDE DEF t, p
<1>9. IsRun(f, p, t)
  BY <1>2, <1>8 DEF IsRun
<1>10. Plays(f, After(s, Head(q)), p, u)
  BY <1>2, <1>4, <1>7, <1>9 DEF Plays
<1> QED  BY <1>1, <1>2, <1>6, <1>10 DEF p

(* The client reads on.                                                    *)
LEMMA ReadsOn ==
  ASSUME NEW u, Plays(format, Now, out, u), Read
  PROVE  /\ Plays(format, Now', out', u)
         /\ Client!Next \/ UNCHANGED Client!vars
<1>1. out # <<>> /\ out' = Tail(out)
  BY DEF Read
<1>2. Now \in States /\ May(format, Now, Head(out)) /\ Plays(format, After(Now, Head(out)), Tail(out), u)
  BY <1>1, PlaysHead
<1>3. Now' = After(Now, Head(out)) /\ (Client!Next \/ UNCHANGED Client!vars)
  BY <1>2, ReadSteps
<1> QED  BY <1>1, <1>2, <1>3

-----------------------------------------------------------------------------
(* One event, or two.                                                      *)

LEMMA PlaysAdded ==
  ASSUME NEW f, NEW s \in States, NEW b \in 1..MaxBlocks, NEW x \in Subjects,
         s.phase = "open", CanOpen(f, s, b)
  PROVE  Plays(f, s, <<Added(b, x)>>, Put(s, b, New(x, 0)))
<1>1. MayBlock(f, s, Added(b, x), b, x)
  BY DEF MayBlock
<1>2. May(f, s, Added(b, x))
  BY <1>1 DEF May
<1>3. After(s, Added(b, x)) = Put(s, b, New(x, 0))
  BY <1>1, BlockEvents
<1> QED  BY <1>2, <1>3, PlaysOne

LEMMA PlaysPiece ==
  ASSUME NEW f, NEW s \in States, NEW b \in 1..MaxBlocks, NEW x \in Subjects,
         s.phase = "open", IsOpen(s, b, x)
  PROVE  Plays(f, s, <<Piece(b, x)>>, Put(s, b, MorePieces(s.blocks[b])))
<1>1. MayBlock(f, s, Piece(b, x), b, x)
  BY DEF MayBlock
<1>2. May(f, s, Piece(b, x))
  BY <1>1 DEF May
<1>3. After(s, Piece(b, x)) = Put(s, b, MorePieces(s.blocks[b]))
  BY <1>1, BlockEvents
<1> QED  BY <1>2, <1>3, PlaysOne

LEMMA PlaysWhole ==
  ASSUME NEW f, NEW s \in States, NEW b \in 1..MaxBlocks, NEW x \in Subjects,
         s.phase = "open", IsOpen(s, b, x)
  PROVE  Plays(f, s, <<Whole(b, x)>>, Put(s, b, MoreWhole(s.blocks[b])))
<1>1. MayBlock(f, s, Whole(b, x), b, x)
  BY DEF MayBlock
<1>2. May(f, s, Whole(b, x))
  BY <1>1 DEF May
<1>3. After(s, Whole(b, x)) = Put(s, b, MoreWhole(s.blocks[b]))
  BY <1>1, BlockEvents
<1> QED  BY <1>2, <1>3, PlaysOne

LEMMA PlaysDone ==
  ASSUME NEW f, NEW s \in States, NEW b \in 1..MaxBlocks, NEW x \in Subjects,
         s.phase = "open", IsOpen(s, b, x)
  PROVE  Plays(f, s, <<Done(b, x)>>, Put(s, b, Shut(s.blocks[b])))
<1>1. MayBlock(f, s, Done(b, x), b, x)
  BY DEF MayBlock
<1>2. May(f, s, Done(b, x))
  BY <1>1 DEF May
<1>3. After(s, Done(b, x)) = Put(s, b, Shut(s.blocks[b]))
  BY <1>1, BlockEvents
<1> QED  BY <1>2, <1>3, PlaysOne

LEMMA PlaysCreated ==
  ASSUME NEW f, NEW s \in States, s.phase = "before"
  PROVE  Plays(f, s, <<Created>>, Phased(s, "open"))
<1>1. MayPhase(f, s, Created)
  BY DEF MayPhase
<1>2. May(f, s, Created)
  BY <1>1 DEF May
<1>3. After(s, Created) = Phased(s, "open")
  BY <1>1, PhaseEvents
<1> QED  BY <1>2, <1>3, PlaysOne

LEMMA PlaysCompleted ==
  ASSUME NEW f, NEW s \in States, s.phase = "open",
         IF f = "anthropic" THEN AllClosed(s) ELSE CallsOnly(s)
  PROVE  Plays(f, s, <<Completed>>, Phased(s, "completed"))
<1>1. MayPhase(f, s, Completed)
  BY DEF MayPhase
<1>2. May(f, s, Completed)
  BY <1>1 DEF May
<1>3. After(s, Completed) = Phased(s, "completed")
  BY <1>1, PhaseEvents
<1> QED  BY <1>2, <1>3, PlaysOne

LEMMA PlaysClosed ==
  ASSUME NEW f, NEW s \in States, s.phase \in {"before", "open"} => f # "anthropic"
  PROVE  Plays(f, s, <<Closed>>, Phased(s, IF s.phase \in {"before", "open"} THEN "truncated" ELSE s.phase))
<1>1. MayPhase(f, s, Closed)
  BY DEF MayPhase
<1>2. May(f, s, Closed)
  BY <1>1 DEF May
<1>3. After(s, Closed) = Phased(s, IF s.phase \in {"before", "open"} THEN "truncated" ELSE s.phase)
  BY <1>1, PhaseEvents
<1> QED  BY <1>2, <1>3, PlaysOne

LEMMA PlaysFailed ==
  ASSUME NEW f, NEW s \in States, s.phase \notin {"failed", "truncated"},
         f = "anthropic" => s.phase # "before" /\ AllClosed(s)
  PROVE  Plays(f, s, <<Failed, Closed>>, Phased(s, "failed"))
<1> DEFINE u == Phased(s, "failed")
<1>1. MayPhase(f, s, Failed)
  BY DEF MayPhase
<1>2. May(f, s, Failed)
  BY <1>1 DEF May
<1>3. After(s, Failed) = u /\ u \in States
  BY <1>1, PhaseEvents
<1>4. u.phase = "failed" /\ Phased(u, u.phase) = u
  BY DEF Phased
<1> HIDE DEF u
<1>5. Plays(f, s, <<Failed>>, u)
  BY <1>2, <1>3, PlaysOne
<1>6. Plays(f, u, <<Closed>>, u)
  <2>1. ~(u.phase \in {"before", "open"})
    BY <1>4
  <2>2. Plays(f, u, <<Closed>>, Phased(u, IF u.phase \in {"before", "open"} THEN "truncated" ELSE u.phase))
    BY <1>3, <2>1, PlaysClosed
  <2> QED  BY <1>4, <2>1, <2>2
<1>7. Plays(f, s, <<Failed>> \o <<Closed>>, u)
  BY <1>5, <1>6, PlaysMore
<1>8. <<Failed>> \o <<Closed>> = <<Failed, Closed>>
  BY Joined
<1> QED  BY <1>7, <1>8 DEF u

-----------------------------------------------------------------------------
(* The items of a response (ResponsesRenderer).  What the renderer knows   *)
(* of the client's blocks: the next index, the current block and whether   *)
(* it is text or reasoning, the blocks of calls, and the completed items.  *)

LEMMA PutIs ==
  ASSUME NEW s \in States, NEW b \in 1..MaxBlocks, NEW v \in Blocks
  PROVE  IsPut(Put(s, b, v), s, b, v)
<1>1. b \in 0..MaxBlocks
  BY PartsAssumption DEF MaxBlocks
<1> QED  BY <1>1 DEF IsPut, Put, States

LEMMA BlocksAre ==
  ASSUME NEW s \in States, NEW b \in 1..MaxBlocks, NEW x \in Subjects, NEW status \in Statuses
  PROVE  /\ IsBlock(New(x, 0), "open", x) /\ IsBlock(New(x, 1), "open", x)
         /\ s.blocks[b] \in Blocks
         /\ IsBlock(s.blocks[b], status, x) =>
              /\ IsBlock(MorePieces(s.blocks[b]), status, x)
              /\ IsBlock(MoreWhole(s.blocks[b]), status, x)
              /\ IsBlock(Shut(s.blocks[b]), "closed", x)
<1>1. b \in 0..MaxBlocks
  BY PartsAssumption DEF MaxBlocks
<1>2. s.blocks[b] \in Blocks
  BY <1>1 DEF States
<1> QED  BY <1>2 DEF IsBlock, Blocks, New, MorePieces, MoreWhole, Shut, Statuses

LEMMA SubjectsAre ==
  /\ Calls \subseteq Subjects /\ "text" \in Subjects /\ "reasoning" \in Subjects
  /\ "text" \notin Calls /\ "reasoning" \notin Calls
BY PartsAssumption DEF Subjects

(* A call, a text or a reasoning is added.                                 *)
LEMMA CallAdded ==
  ASSUME NEW s, NEW n, NEW cur, NEW ti, NEW ri, NEW idx, NEW comp,
         ItemsKnown(s, n, cur, ti, ri, idx, comp), s.phase = "open", n <= MaxBlocks, NEW c \in Calls, idx[c] = 0
  PROVE  \E u : /\ Plays("responses", s, <<Added(n, c)>>, u)
                /\ ItemsKnown(u, n + 1, cur, ti, ri, Given(idx, c, n), comp) /\ u.phase = "open"
<1> DEFINE t == Put(s, n, New(c, 0))
           i2 == Given(idx, c, n)
<1>1. /\ s \in States /\ n \in 1..MaxBlocks /\ n \in Nat /\ c \in Subjects
      /\ idx \in [Calls -> Nat]
  BY SubjectsAre, PartsAssumption DEF ItemsKnown, MaxBlocks
<1>2. s.blocks[n].status = "none" /\ \A b \in 1..(n - 1) : s.blocks[b].status # "none"
  <2>1. \A b \in 1..(n - 1) : b \in 1..MaxBlocks /\ b < n
    BY <1>1, PartsAssumption DEF MaxBlocks
  <2> QED  BY <1>1, <2>1 DEF ItemsKnown
<1>3. CanOpen("responses", s, n)
  BY <1>2 DEF CanOpen
<1>4. Plays("responses", s, <<Added(n, c)>>, t)
  BY <1>1, <1>3, PlaysAdded
<1>5. /\ t \in States /\ t.phase = "open" /\ t.blocks[n] = New(c, 0)
      /\ \A d \in 0..MaxBlocks : d # n => t.blocks[d] = s.blocks[d]
      /\ New(c, 0).status = "open" /\ New(c, 0).of = c
  <2>1. IsBlock(New(c, 0), "open", c)
    BY <1>1, BlocksAre DEF Statuses
  <2>2. IsPut(t, s, n, New(c, 0))
    BY <1>1, <2>1, PutIs DEF IsBlock
  <2> QED  BY <2>1, <2>2 DEF IsBlock, IsPut
<1>6. i2 \in [Calls -> Nat] /\ \A d \in Calls : i2[d] = IF d = c THEN n ELSE idx[d]
  <2>1. IsGiven(i2, idx, c, n, Calls, Nat)
    BY <1>1, GivenIs
  <2> QED  BY <2>1 DEF IsGiven
<1> HIDE DEF t, i2
<1>7. \A b \in 1..MaxBlocks : b \in 0..MaxBlocks /\ b \in Nat
  BY PartsAssumption DEF MaxBlocks
<1>8. ASSUME NEW b \in 1..MaxBlocks
      PROVE  /\ t.blocks[b].status \in {"none", "open", "closed"}
             /\ t.blocks[b].status # "none" <=> b < n + 1
             /\ comp[b] = IF t.blocks[b].status = "closed" THEN t.blocks[b].of ELSE "none"
             /\ t.blocks[b].status = "open" =>
                  \/ t.blocks[b].of \in Calls /\ i2[t.blocks[b].of] = b
                  \/ b = cur /\ ((ti /\ t.blocks[b].of = "text") \/ (ri /\ t.blocks[b].of = "reasoning"))
  <2>1. CASE b = n
    BY <1>1, <1>2, <1>5, <1>6, <2>1 DEF ItemsKnown
  <2>2. CASE b # n
    <3>1. t.blocks[b] = s.blocks[b] /\ (b < n + 1 <=> b < n)
      BY <1>1, <1>5, <1>7, <2>2
    <3>2. s.blocks[b].status = "open" /\ s.blocks[b].of \in Calls /\ idx[s.blocks[b].of] = b => s.blocks[b].of # c
      BY <1>7
    <3> QED  BY <1>6, <3>1, <3>2 DEF ItemsKnown
  <2> QED  BY <2>1, <2>2
<1>9. ASSUME NEW b \in 1..MaxBlocks, NEW x, IsOpen(s, b, x) PROVE IsOpen(t, b, x)
  BY <1>2, <1>5, <1>7, <1>9 DEF IsOpen
<1>10. ASSUME NEW d \in Calls, i2[d] # 0 PROVE i2[d] \in 1..MaxBlocks /\ IsOpen(t, i2[d], d)
  <2>1. CASE d = c
    BY <1>1, <1>5, <1>6, <2>1 DEF IsOpen
  <2>2. CASE d # c
    BY <1>6, <1>9, <1>10, <2>2 DEF ItemsKnown
  <2> QED  BY <2>1, <2>2
<1>11. t.blocks[0].status = "none"
  BY <1>1, <1>5, PartsAssumption DEF ItemsKnown, MaxBlocks
<1>12. ItemsKnown(t, n + 1, cur, ti, ri, i2, comp)
  BY <1>1, <1>5, <1>6, <1>8, <1>9, <1>10, <1>11 DEF ItemsKnown
<1> QED  BY <1>4, <1>5, <1>12 DEF i2

LEMMA CurrentAdded ==
  ASSUME NEW s, NEW n, NEW cur, NEW idx, NEW comp,
         ItemsKnown(s, n, cur, FALSE, FALSE, idx, comp), s.phase = "open", n <= MaxBlocks,
         NEW x \in {"text", "reasoning"}
  PROVE  /\ Plays("responses", s, <<Added(n, x)>>, Put(s, n, New(x, 0)))
         /\ ItemsKnown(Put(s, n, New(x, 0)), n + 1, n, x = "text", x = "reasoning", idx, comp)
         /\ Put(s, n, New(x, 0)).phase = "open"
<1> DEFINE t == Put(s, n, New(x, 0))
<1>1. /\ s \in States /\ n \in 1..MaxBlocks /\ n \in Nat /\ x \in Subjects
      /\ idx \in [Calls -> Nat]
  BY SubjectsAre, PartsAssumption DEF ItemsKnown, MaxBlocks
<1>2. s.blocks[n].status = "none" /\ \A b \in 1..(n - 1) : s.blocks[b].status # "none"
  <2>1. \A b \in 1..(n - 1) : b \in 1..MaxBlocks /\ b < n
    BY <1>1, PartsAssumption DEF MaxBlocks
  <2> QED  BY <1>1, <2>1 DEF ItemsKnown
<1>3. CanOpen("responses", s, n)
  BY <1>2 DEF CanOpen
<1>4. Plays("responses", s, <<Added(n, x)>>, t)
  BY <1>1, <1>3, PlaysAdded
<1>5. /\ t \in States /\ t.phase = "open" /\ t.blocks[n] = New(x, 0)
      /\ \A d \in 0..MaxBlocks : d # n => t.blocks[d] = s.blocks[d]
      /\ New(x, 0).status = "open" /\ New(x, 0).of = x
  <2>1. IsBlock(New(x, 0), "open", x)
    BY <1>1, BlocksAre DEF Statuses
  <2>2. IsPut(t, s, n, New(x, 0))
    BY <1>1, <2>1, PutIs DEF IsBlock
  <2> QED  BY <2>1, <2>2 DEF IsBlock, IsPut
<1> HIDE DEF t
<1>6. \A b \in 1..MaxBlocks : b \in 0..MaxBlocks /\ b \in Nat
  BY PartsAssumption DEF MaxBlocks
<1>7. ASSUME NEW b \in 1..MaxBlocks
      PROVE  /\ t.blocks[b].status \in {"none", "open", "closed"}
             /\ t.blocks[b].status # "none" <=> b < n + 1
             /\ comp[b] = IF t.blocks[b].status = "closed" THEN t.blocks[b].of ELSE "none"
             /\ t.blocks[b].status = "open" =>
                  \/ t.blocks[b].of \in Calls /\ idx[t.blocks[b].of] = b
                  \/ b = n /\ ((x = "text" /\ t.blocks[b].of = "text") \/ (x = "reasoning" /\ t.blocks[b].of = "reasoning"))
  <2>1. CASE b = n
    BY <1>1, <1>2, <1>5, <2>1 DEF ItemsKnown
  <2>2. CASE b # n
    <3>1. t.blocks[b] = s.blocks[b] /\ (b < n + 1 <=> b < n)
      BY <1>1, <1>5, <1>6, <2>2
    <3> QED  BY <3>1 DEF ItemsKnown
  <2> QED  BY <2>1, <2>2
<1>8. ASSUME NEW b \in 1..MaxBlocks, NEW y, IsOpen(s, b, y) PROVE IsOpen(t, b, y)
  BY <1>2, <1>5, <1>6, <1>8 DEF IsOpen
<1>9. IsOpen(t, n, x) /\ \A d \in Calls : idx[d] # 0 => idx[d] \in 1..MaxBlocks /\ IsOpen(t, idx[d], d)
  BY <1>5, <1>8 DEF ItemsKnown, IsOpen
<1>10. t.blocks[0].status = "none"
  BY <1>1, <1>5, PartsAssumption DEF ItemsKnown, MaxBlocks
<1>11. ItemsKnown(t, n + 1, n, x = "text", x = "reasoning", idx, comp)
  BY <1>1, <1>5, <1>7, <1>9, <1>10 DEF ItemsKnown
<1> QED  BY <1>4, <1>5, <1>11 DEF t

(* A block that stays as it is but for what it holds.                      *)
LEMMA SameItems ==
  ASSUME NEW s, NEW n, NEW cur, NEW ti, NEW ri, NEW idx, NEW comp,
         ItemsKnown(s, n, cur, ti, ri, idx, comp), NEW b \in 1..MaxBlocks,
         NEW v \in Blocks, v.status = s.blocks[b].status, v.of = s.blocks[b].of
  PROVE  ItemsKnown(Put(s, b, v), n, cur, ti, ri, idx, comp)
<1> DEFINE t == Put(s, b, v)
<1>1. s \in States
  BY DEF ItemsKnown
<1>2. t \in States /\ t.blocks[b] = v /\ \A d \in 0..MaxBlocks : d # b => t.blocks[d] = s.blocks[d]
  <2>1. IsPut(t, s, b, v)
    BY <1>1, PutIs
  <2> QED  BY <2>1 DEF IsPut
<1>3. \A d \in 1..MaxBlocks : d \in 0..MaxBlocks
  BY PartsAssumption DEF MaxBlocks
<1> HIDE DEF t
<1>4. \A d \in 1..MaxBlocks : t.blocks[d].status = s.blocks[d].status /\ t.blocks[d].of = s.blocks[d].of
  BY <1>2, <1>3
<1>5. t.blocks[0] = s.blocks[0]
  BY <1>2, PartsAssumption DEF MaxBlocks
<1>6. ItemsKnown(t, n, cur, ti, ri, idx, comp)
  BY <1>2, <1>4, <1>5 DEF ItemsKnown, IsOpen
<1> QED  BY <1>6 DEF t

LEMMA SamePhased ==
  ASSUME NEW s, NEW n, NEW cur, NEW ti, NEW ri, NEW idx, NEW comp,
         ItemsKnown(s, n, cur, ti, ri, idx, comp), NEW p \in Phases
  PROVE  ItemsKnown(Phased(s, p), n, cur, ti, ri, idx, comp) /\ Phased(s, p).phase = p
<1>1. Phased(s, p).phase = p /\ Phased(s, p).blocks = s.blocks /\ Phased(s, p) \in States
  BY DEF Phased, States, ItemsKnown
<1> QED  BY <1>1 DEF ItemsKnown, IsOpen

(* The current text or reasoning is done.                                  *)
LEMMA CurrentDone ==
  ASSUME NEW s, NEW n, NEW cur, NEW ti, NEW ri, NEW idx, NEW comp, NEW x \in {"text", "reasoning"},
         ItemsKnown(s, n, cur, ti, ri, idx, comp), s.phase = "open",
         IsCurrent(ti, ri, x), NEW other
  PROVE  /\ Plays("responses", s, <<Done(cur, x)>>, Put(s, cur, Shut(s.blocks[cur])))
         /\ ItemsKnown(Put(s, cur, Shut(s.blocks[cur])), n, other, FALSE, FALSE, idx, Given(comp, cur, x))
         /\ Put(s, cur, Shut(s.blocks[cur])).phase = "open"
<1> DEFINE t == Put(s, cur, Shut(s.blocks[cur]))
           done == Given(comp, cur, x)
<1>1. /\ s \in States /\ cur \in 1..MaxBlocks /\ IsOpen(s, cur, x) /\ x \in Subjects /\ x \notin Calls
      /\ comp \in [0..MaxBlocks -> Subjects \cup {"none"}]
  BY SubjectsAre DEF ItemsKnown, IsCurrent
<1>2. Plays("responses", s, <<Done(cur, x)>>, t)
  BY <1>1, PlaysDone
<1>3. /\ t \in States /\ t.phase = "open" /\ t.blocks[cur] = Shut(s.blocks[cur])
      /\ \A d \in 0..MaxBlocks : d # cur => t.blocks[d] = s.blocks[d]
      /\ Shut(s.blocks[cur]).status = "closed" /\ Shut(s.blocks[cur]).of = x
  <2>1. IsBlock(s.blocks[cur], "open", x)
    BY <1>1, BlocksAre DEF IsBlock, IsOpen, Statuses
  <2>2. IsBlock(Shut(s.blocks[cur]), "closed", x)
    BY <1>1, <2>1, BlocksAre DEF Statuses
  <2>3. IsPut(t, s, cur, Shut(s.blocks[cur]))
    BY <1>1, <2>2, PutIs DEF IsBlock
  <2> QED  BY <1>1, <2>2, <2>3 DEF IsBlock, IsPut
<1>4. \A b \in 1..MaxBlocks : b \in 0..MaxBlocks
  BY PartsAssumption DEF MaxBlocks
<1>5. /\ done \in [0..MaxBlocks -> Subjects \cup {"none"}]
      /\ \A b \in 0..MaxBlocks : done[b] = IF b = cur THEN x ELSE comp[b]
  <2>1. cur \in 0..MaxBlocks /\ x \in Subjects \cup {"none"}
    BY <1>1, <1>4
  <2>2. IsGiven(done, comp, cur, x, 0..MaxBlocks, Subjects \cup {"none"})
    <3> DEFINE S == 0..MaxBlocks
               T == Subjects \cup {"none"}
    <3>1. cur \in S /\ x \in T /\ comp \in [S -> T]
      BY <1>1, <2>1
    <3> HIDE DEF S, T
    <3>2. IsGiven(done, comp, cur, x, S, T)
      BY <3>1, GivenIs
    <3> QED  BY <3>2 DEF S, T
  <2> QED  BY <2>2 DEF IsGiven
<1> HIDE DEF t, done
<1>6. ASSUME NEW b \in 1..MaxBlocks
      PROVE  /\ t.blocks[b].status \in {"none", "open", "closed"}
             /\ t.blocks[b].status # "none" <=> b < n
             /\ done[b] = IF t.blocks[b].status = "closed" THEN t.blocks[b].of ELSE "none"
             /\ t.blocks[b].status = "open" => t.blocks[b].of \in Calls /\ idx[t.blocks[b].of] = b
  <2>1. CASE b = cur
    <3>1. s.blocks[b].status = "open" /\ s.blocks[b].status # "none"
      BY <1>1, <2>1 DEF IsOpen
    <3>2. b < n
      BY <3>1 DEF ItemsKnown
    <3> QED  BY <1>3, <1>4, <1>5, <2>1, <3>2
  <2>2. CASE b # cur
    BY <1>3, <1>4, <1>5, <2>2 DEF ItemsKnown, IsCurrent
  <2> QED  BY <2>1, <2>2
<1>7. ASSUME NEW d \in Calls, idx[d] # 0 PROVE idx[d] \in 1..MaxBlocks /\ IsOpen(t, idx[d], d)
  <2>1. idx[d] \in 1..MaxBlocks /\ IsOpen(s, idx[d], d)
    BY <1>7 DEF ItemsKnown
  <2>2. idx[d] # cur
    BY <1>1, <2>1 DEF IsOpen
  <2> QED  BY <1>3, <1>4, <2>1, <2>2 DEF IsOpen
<1>8. t.blocks[0].status = "none"
  BY <1>1, <1>3, PartsAssumption DEF ItemsKnown, MaxBlocks
<1>9. ItemsKnown(t, n, other, FALSE, FALSE, idx, done)
  BY <1>3, <1>5, <1>6, <1>7, <1>8 DEF ItemsKnown
<1> QED  BY <1>2, <1>3, <1>9 DEF t, done

(* A call is done.                                                         *)
LEMMA CallDone ==
  ASSUME NEW s, NEW n, NEW cur, NEW ti, NEW ri, NEW idx, NEW comp, NEW c \in Calls, NEW b,
         ItemsKnown(s, n, cur, ti, ri, idx, comp), s.phase = "open", b = idx[c], b # 0
  PROVE  \E u : /\ Plays("responses", s, <<Done(b, c)>>, u) /\ u.phase = "open"
                /\ ItemsKnown(u, n, cur, ti, ri, Given(idx, c, 0), Given(comp, b, c))
<1> DEFINE t == Put(s, b, Shut(s.blocks[b]))
           done == Given(comp, b, c)
           i2 == Given(idx, c, 0)
<1>1. /\ s \in States /\ b \in 1..MaxBlocks /\ IsOpen(s, b, c) /\ c \in Subjects
      /\ c # "text" /\ c # "reasoning"
      /\ comp \in [0..MaxBlocks -> Subjects \cup {"none"}] /\ idx \in [Calls -> Nat]
  BY SubjectsAre DEF ItemsKnown
<1>2. Plays("responses", s, <<Done(b, c)>>, t)
  BY <1>1, PlaysDone
<1>3. /\ t \in States /\ t.phase = "open" /\ t.blocks[b] = Shut(s.blocks[b])
      /\ \A d \in 0..MaxBlocks : d # b => t.blocks[d] = s.blocks[d]
      /\ Shut(s.blocks[b]).status = "closed" /\ Shut(s.blocks[b]).of = c
  <2>1. IsBlock(s.blocks[b], "open", c)
    BY <1>1, BlocksAre DEF IsBlock, IsOpen, Statuses
  <2>2. IsBlock(Shut(s.blocks[b]), "closed", c)
    BY <1>1, <2>1, BlocksAre DEF Statuses
  <2>3. IsPut(t, s, b, Shut(s.blocks[b]))
    BY <1>1, <2>2, PutIs DEF IsBlock
  <2> QED  BY <1>1, <2>2, <2>3 DEF IsBlock, IsPut
<1>4. \A d \in 1..MaxBlocks : d \in 0..MaxBlocks
  BY PartsAssumption DEF MaxBlocks
<1>5. /\ done \in [0..MaxBlocks -> Subjects \cup {"none"}]
      /\ \A d \in 0..MaxBlocks : done[d] = IF d = b THEN c ELSE comp[d]
  <2>1. b \in 0..MaxBlocks /\ c \in Subjects \cup {"none"}
    BY <1>1, <1>4
  <2>2. IsGiven(done, comp, b, c, 0..MaxBlocks, Subjects \cup {"none"})
    <3> DEFINE S == 0..MaxBlocks
               T == Subjects \cup {"none"}
    <3>1. b \in S /\ c \in T /\ comp \in [S -> T]
      BY <1>1, <2>1
    <3> HIDE DEF S, T
    <3>2. IsGiven(done, comp, b, c, S, T)
      BY <3>1, GivenIs
    <3> QED  BY <3>2 DEF S, T
  <2> QED  BY <2>2 DEF IsGiven
<1>6. i2 \in [Calls -> Nat] /\ \A d \in Calls : i2[d] = IF d = c THEN 0 ELSE idx[d]
  <2>1. IsGiven(i2, idx, c, 0, Calls, Nat)
    BY <1>1, GivenIs
  <2> QED  BY <2>1 DEF IsGiven
<1> HIDE DEF t, done, i2
<1>7. ASSUME NEW d \in 1..MaxBlocks
      PROVE  /\ t.blocks[d].status \in {"none", "open", "closed"}
             /\ t.blocks[d].status # "none" <=> d < n
             /\ done[d] = IF t.blocks[d].status = "closed" THEN t.blocks[d].of ELSE "none"
             /\ t.blocks[d].status = "open" =>
                  \/ t.blocks[d].of \in Calls /\ i2[t.blocks[d].of] = d
                  \/ d = cur /\ ((ti /\ t.blocks[d].of = "text") \/ (ri /\ t.blocks[d].of = "reasoning"))
  <2>1. CASE d = b
    <3>1. s.blocks[d].status = "open" /\ s.blocks[d].status # "none"
      BY <1>1, <2>1 DEF IsOpen
    <3>2. d < n
      BY <3>1 DEF ItemsKnown
    <3> QED  BY <1>3, <1>4, <1>5, <2>1, <3>2
  <2>2. CASE d # b
    <3>1. t.blocks[d] = s.blocks[d] /\ done[d] = comp[d]
      BY <1>3, <1>4, <1>5, <2>2
    <3>2. s.blocks[d].of \in Calls /\ idx[s.blocks[d].of] = d => i2[s.blocks[d].of] = d
      BY <1>6, <2>2
    <3> QED  BY <3>1, <3>2 DEF ItemsKnown
  <2> QED  BY <2>1, <2>2
<1>8. ASSUME NEW d \in 1..MaxBlocks, NEW y, y # c, IsOpen(s, d, y) PROVE IsOpen(t, d, y)
  BY <1>1, <1>3, <1>4, <1>8 DEF IsOpen
<1>9. ASSUME NEW d \in Calls, i2[d] # 0 PROVE i2[d] \in 1..MaxBlocks /\ IsOpen(t, i2[d], d)
  BY <1>6, <1>8, <1>9 DEF ItemsKnown
<1>10. t.blocks[0].status = "none"
  BY <1>1, <1>3, PartsAssumption DEF ItemsKnown, MaxBlocks
<1>11. /\ ti => cur \in 1..MaxBlocks /\ IsOpen(t, cur, "text")
       /\ ri => cur \in 1..MaxBlocks /\ IsOpen(t, cur, "reasoning")
  BY <1>1, <1>8 DEF ItemsKnown
<1>12. ItemsKnown(t, n, cur, ti, ri, i2, done)
  BY <1>3, <1>5, <1>6, <1>7, <1>9, <1>10, <1>11 DEF ItemsKnown
<1> QED  BY <1>2, <1>3, <1>12 DEF done, i2

(* The first event starts the response.                                    *)
LEMMA EmitPlays ==
  ASSUME NEW t, NEW events, NEW u,
         Plays("responses", Now, out, t), out = <<>>, UNCHANGED <<blocks, phase>>,
         t.phase = IF responseStarted THEN "open" ELSE "before", responseStarted \in BOOLEAN,
         Responses!Emit(events), Plays("responses", Phased(t, "open"), events, u)
  PROVE  Plays("responses", Now', out', u) /\ responseStarted'
<1>1. t = Now /\ t \in States
  BY PlaysNothing
<1>2. Now' = t
  BY <1>1 DEF Now
<1>3. responseStarted' /\ out' = IF responseStarted THEN events ELSE <<Created>> \o events
  BY DEF Responses!Emit, Responses!Created, Responses!Signal, Created, Signal
<1>4. CASE responseStarted
  <2>1. Phased(t, "open") = t
    BY <1>1, <1>4 DEF Phased, Now
  <2> QED  BY <1>2, <1>3, <1>4, <2>1
<1>5. CASE ~responseStarted
  <2>1. Plays("responses", t, <<Created>>, Phased(t, "open"))
    BY <1>1, <1>5, PlaysCreated
  <2>2. Plays("responses", t, <<Created>> \o events, u)
    BY <2>1, PlaysMore
  <2> QED  BY <1>2, <1>3, <1>5, <2>2
<1> QED  BY <1>4, <1>5

(* closeCurrentTextMessage and finishReasoningItem.                        *)
LEMMA TextClosed ==
  ASSUME NEW s, NEW n, NEW cur, NEW ti, NEW ri, NEW idx, NEW comp,
         ItemsKnown(s, n, cur, ti, ri, idx, comp), s.phase = "open", AreFlags(ti, ri)
  PROVE  \E u : /\ Plays("responses", s, Ending(ti, cur, "text"), u)
                /\ ItemsKnown(u, n, CurrentLeft(ti, cur), FALSE, ri, idx,
                              CompletedThen(ti, comp, cur, "text"))
                /\ u.phase = "open"
<1>1. CASE ti
  <2> DEFINE u == Put(s, cur, Shut(s.blocks[cur]))
  <2>1. IsCurrent(ti, ri, "text")
    BY <1>1 DEF AreFlags, IsCurrent
  <2>2. /\ Plays("responses", s, <<Done(cur, "text")>>, u)
        /\ ItemsKnown(u, n, 0, FALSE, FALSE, idx, Given(comp, cur, "text"))
        /\ u.phase = "open"
    BY <2>1, CurrentDone
  <2> HIDE DEF u
  <2>3. ri = FALSE
    BY <1>1 DEF AreFlags
  <2> QED  BY <1>1, <2>2, <2>3 DEF Ending, CurrentLeft, CompletedThen
<1>2. CASE ~ti
  <2>1. Plays("responses", s, <<>>, s)
    BY PlaysNone DEF ItemsKnown
  <2>2. ti = FALSE
    BY <1>2 DEF AreFlags
  <2> QED  BY <1>2, <2>1, <2>2 DEF Ending, CurrentLeft, CompletedThen
<1> QED  BY <1>1, <1>2

LEMMA ReasoningClosed ==
  ASSUME NEW s, NEW n, NEW cur, NEW ti, NEW ri, NEW idx, NEW comp,
         ItemsKnown(s, n, cur, ti, ri, idx, comp), s.phase = "open", AreFlags(ti, ri)
  PROVE  \E u : /\ Plays("responses", s, Ending(ri, cur, "reasoning"), u)
                /\ ItemsKnown(u, n, CurrentLeft(ri, cur), ti, FALSE, idx,
                              CompletedThen(ri, comp, cur, "reasoning"))
                /\ u.phase = "open"
<1>1. CASE ri
  <2> DEFINE u == Put(s, cur, Shut(s.blocks[cur]))
  <2>1. IsCurrent(ti, ri, "reasoning")
    BY <1>1 DEF AreFlags, IsCurrent
  <2>2. /\ Plays("responses", s, <<Done(cur, "reasoning")>>, u)
        /\ ItemsKnown(u, n, 0, FALSE, FALSE, idx, Given(comp, cur, "reasoning"))
        /\ u.phase = "open"
    BY <2>1, CurrentDone
  <2> HIDE DEF u
  <2>3. ti = FALSE
    BY <1>1 DEF AreFlags
  <2> QED  BY <1>1, <2>2, <2>3 DEF Ending, CurrentLeft, CompletedThen
<1>2. CASE ~ri
  <2>1. Plays("responses", s, <<>>, s)
    BY PlaysNone DEF ItemsKnown
  <2>2. ri = FALSE
    BY <1>2 DEF AreFlags
  <2> QED  BY <1>2, <2>1, <2>2 DEF Ending, CurrentLeft, CompletedThen
<1> QED  BY <1>1, <1>2

(* A piece, or all, of an open block's content.                            *)
LEMMA PieceKeeps ==
  ASSUME NEW s, NEW n, NEW cur, NEW ti, NEW ri, NEW idx, NEW comp,
         ItemsKnown(s, n, cur, ti, ri, idx, comp), s.phase = "open",
         NEW b \in 1..MaxBlocks, NEW x \in Subjects, IsOpen(s, b, x)
  PROVE  \E u : /\ Plays("responses", s, <<Piece(b, x)>>, u)
                /\ ItemsKnown(u, n, cur, ti, ri, idx, comp) /\ u.phase = "open"
<1> DEFINE v == MorePieces(s.blocks[b])
<1>1. s \in States
  BY DEF ItemsKnown
<1>2. IsBlock(s.blocks[b], "open", x)
  BY <1>1, BlocksAre DEF IsBlock, IsOpen, Statuses
<1>3. IsBlock(v, "open", x)
  BY <1>1, <1>2, BlocksAre DEF Statuses
<1>4. Plays("responses", s, <<Piece(b, x)>>, Put(s, b, v))
  BY <1>1, PlaysPiece
<1> HIDE DEF v
<1>5. ItemsKnown(Put(s, b, v), n, cur, ti, ri, idx, comp)
  BY <1>2, <1>3, SameItems DEF IsBlock
<1>6. IsPut(Put(s, b, v), s, b, v)
  BY <1>1, <1>3, PutIs DEF IsBlock
<1> QED  BY <1>4, <1>5, <1>6 DEF IsPut

LEMMA WholeKeeps ==
  ASSUME NEW s, NEW n, NEW cur, NEW ti, NEW ri, NEW idx, NEW comp,
         ItemsKnown(s, n, cur, ti, ri, idx, comp), s.phase = "open",
         NEW b \in 1..MaxBlocks, NEW x \in Subjects, IsOpen(s, b, x)
  PROVE  \E u : /\ Plays("responses", s, <<Whole(b, x)>>, u)
                /\ ItemsKnown(u, n, cur, ti, ri, idx, comp) /\ u.phase = "open"
<1> DEFINE v == MoreWhole(s.blocks[b])
<1>1. s \in States
  BY DEF ItemsKnown
<1>2. IsBlock(s.blocks[b], "open", x)
  BY <1>1, BlocksAre DEF IsBlock, IsOpen, Statuses
<1>3. IsBlock(v, "open", x)
  BY <1>1, <1>2, BlocksAre DEF Statuses
<1>4. Plays("responses", s, <<Whole(b, x)>>, Put(s, b, v))
  BY <1>1, PlaysWhole
<1> HIDE DEF v
<1>5. ItemsKnown(Put(s, b, v), n, cur, ti, ri, idx, comp)
  BY <1>2, <1>3, SameItems DEF IsBlock
<1>6. IsPut(Put(s, b, v), s, b, v)
  BY <1>1, <1>3, PutIs DEF IsBlock
<1> QED  BY <1>4, <1>5, <1>6 DEF IsPut

LEMMA CallMoved ==
  ASSUME NEW r, NEW status, NEW n, IsCall(r)
  PROVE  /\ IsCall([r EXCEPT !.at = status, !.place = n])
         /\ [r EXCEPT !.at = status, !.place = n].at = status
<1>1. PICK B : r \in CallIn(B)
  BY DEF IsCall
<1> DEFINE A == B \cup {status, n}
<1>2. r.at \in A /\ r.pieces \in A /\ r.place \in A /\ status \in A /\ n \in A
      /\ r = [at |-> r.at, pieces |-> r.pieces, place |-> r.place]
  BY <1>1 DEF CallIn
<1> HIDE DEF A
<1>3. r \in [at : A, pieces : A, place : A]
  BY <1>2
<1>4. [r EXCEPT !.at = status, !.place = n] \in [at : A, pieces : A, place : A]
  BY <1>2, <1>3
<1>5. [r EXCEPT !.at = status, !.place = n].at = status
  BY <1>2, <1>3
<1> QED  BY <1>4, <1>5 DEF IsCall, CallIn

LEMMA CallFilled ==
  ASSUME NEW r, NEW n, IsCall(r)
  PROVE  IsCall([r EXCEPT !.pieces = n]) /\ [r EXCEPT !.pieces = n].at = r.at
<1>1. PICK B : r \in CallIn(B)
  BY DEF IsCall
<1> DEFINE A == B \cup {n}
<1>2. r.at \in A /\ r.pieces \in A /\ r.place \in A /\ n \in A
      /\ r = [at |-> r.at, pieces |-> r.pieces, place |-> r.place]
  BY <1>1 DEF CallIn
<1> HIDE DEF A
<1>3. r \in [at : A, pieces : A, place : A]
  BY <1>2
<1>4. [r EXCEPT !.pieces = n] \in [at : A, pieces : A, place : A]
  BY <1>2, <1>3
<1>5. [r EXCEPT !.pieces = n].at = r.at
  BY <1>2, <1>3
<1> QED  BY <1>4, <1>5 DEF IsCall, CallIn

LEMMA ComesKnown ==
  ASSUME CallsTyped, NEW c \in Calls, NEW status, Responses!Comes(c, status)
  PROVE  CallsTyped' /\ call'[c].at = status /\ \A d \in Calls \ {c} : call'[d] = call[d]
<1> DEFINE place == IF call[c].place = 0
                    THEN 1 + Responses!Cardinality({d \in Calls : call[d].place > 0}) ELSE call[c].place
           new == [call[c] EXCEPT !.at = status, !.place = place]
<1>1. call' = [call EXCEPT ![c] = new]
  BY DEF Responses!Comes, CallsTyped
<1>2. IsCall(call[c])
  BY DEF CallsTyped
<1> HIDE DEF place
<1>3. IsCall(new) /\ new.at = status
  BY <1>2, CallMoved
<1> HIDE DEF new
<1>4. call' = [d \in Calls |-> IF d = c THEN new ELSE call[d]]
  BY <1>1 DEF CallsTyped
<1> QED  BY <1>3, <1>4 DEF CallsTyped

LEMMA InputKnown ==
  ASSUME CallsTyped, NEW c \in Calls, call' = [call EXCEPT ![c].pieces = @ + 1]
  PROVE  CallsTyped' /\ \A d \in Calls : call'[d].at = call[d].at
<1> DEFINE n == call[c].pieces + 1
           new == [call[c] EXCEPT !.pieces = n]
<1>1. call' = [call EXCEPT ![c] = new]
  BY DEF CallsTyped
<1>2. IsCall(call[c])
  BY DEF CallsTyped
<1> HIDE DEF n
<1>3. IsCall(new) /\ new.at = call[c].at
  BY <1>2, CallFilled
<1> HIDE DEF new
<1>4. call' = [d \in Calls |-> IF d = c THEN new ELSE call[d]]
  BY <1>1 DEF CallsTyped
<1> QED  BY <1>3, <1>4 DEF CallsTyped

(* What a part leaves: the events lead to a state that the renderer knows. *)
LEMMA PartKeeps ==
  ASSUME ResponsesInv, PartOf, NEW events, Responses!Emit(events),
         ResponsesTypes', CallsTyped', CallsKnown',
         \A s \in States : s.phase = "open" /\ ResponseKnown(s) =>
           \E u : Plays("responses", s, events, u) /\ u.phase = "open" /\ ResponseKnown(u)'
  PROVE  ResponsesInv'
<1>1. PICK t : Plays("responses", Now, out, t) /\ ResponseKnown(t) /\ ResponsePhase(t)
  BY DEF ResponsesInv
<1> DEFINE s == Phased(t, "open")
<1>2. t.phase = IF responseStarted THEN "open" ELSE "before"
  BY <1>1 DEF ResponsePhase, PartOf
<1>3. ResponseKnown(s) /\ s.phase = "open" /\ s \in States
  <2>1. "open" \in Phases
    BY DEF Phases
  <2>2. ResponseKnown(s) /\ s.phase = "open"
    BY <1>1, <2>1, SamePhased DEF ResponseKnown
  <2> HIDE DEF s
  <2> QED  BY <2>2 DEF ResponseKnown, ItemsKnown
<1> HIDE DEF s
<1>4. PICK u : Plays("responses", s, events, u) /\ u.phase = "open" /\ ResponseKnown(u)'
  BY <1>3
<1>5. Plays("responses", Now', out', u) /\ responseStarted'
  BY <1>1, <1>2, <1>4, EmitPlays DEF PartOf, ResponsesInv, ResponsesTypes, ResponsesFlags, s
<1>6. ResponsePhase(u)'
  BY <1>4, <1>5 DEF ResponsePhase, PartOf
<1> QED  BY <1>4, <1>5, <1>6 DEF ResponsesInv

LEMMA ItemsOpen ==
  ASSUME NEW s, NEW n, NEW cur, NEW ti, NEW ri, NEW idx, NEW comp,
         ItemsKnown(s, n, cur, ti, ri, idx, comp)
  PROVE  /\ s \in States
         /\ ti => cur \in 1..MaxBlocks /\ IsOpen(s, cur, "text")
         /\ ri => cur \in 1..MaxBlocks /\ IsOpen(s, cur, "reasoning")
         /\ \A c \in Calls : idx[c] # 0 => idx[c] \in 1..MaxBlocks /\ IsOpen(s, idx[c], c)
BY DEF ItemsKnown

LEMMA TextAdded ==
  ASSUME NEW s, NEW n, NEW cur, NEW idx, NEW comp,
         ItemsKnown(s, n, cur, FALSE, FALSE, idx, comp), s.phase = "open", n <= MaxBlocks
  PROVE  \E u : /\ Plays("responses", s, <<Added(n, "text")>>, u)
                /\ ItemsKnown(u, n + 1, n, TRUE, FALSE, idx, comp) /\ u.phase = "open"
<1> DEFINE u == Put(s, n, New("text", 0))
<1>1. "text" \in {"text", "reasoning"}
  OBVIOUS
<1>2. /\ Plays("responses", s, <<Added(n, "text")>>, u)
      /\ ItemsKnown(u, n + 1, n, "text" = "text", "text" = "reasoning", idx, comp)
      /\ u.phase = "open"
  BY <1>1, CurrentAdded
<1>3. ("text" = "text") = TRUE /\ ("text" = "reasoning") = FALSE
  OBVIOUS
<1> HIDE DEF u
<1>4. ItemsKnown(u, n + 1, n, TRUE, FALSE, idx, comp)
  BY <1>2, <1>3
<1> QED  BY <1>2, <1>4

LEMMA ReasoningAdded ==
  ASSUME NEW s, NEW n, NEW cur, NEW idx, NEW comp,
         ItemsKnown(s, n, cur, FALSE, FALSE, idx, comp), s.phase = "open", n <= MaxBlocks
  PROVE  \E u : /\ Plays("responses", s, <<Added(n, "reasoning")>>, u)
                /\ ItemsKnown(u, n + 1, n, FALSE, TRUE, idx, comp) /\ u.phase = "open"
<1> DEFINE u == Put(s, n, New("reasoning", 0))
<1>1. "reasoning" \in {"text", "reasoning"}
  OBVIOUS
<1>2. /\ Plays("responses", s, <<Added(n, "reasoning")>>, u)
      /\ ItemsKnown(u, n + 1, n, "reasoning" = "text", "reasoning" = "reasoning", idx, comp)
      /\ u.phase = "open"
  BY <1>1, CurrentAdded
<1>3. ("reasoning" = "text") = FALSE /\ ("reasoning" = "reasoning") = TRUE
  OBVIOUS
<1> HIDE DEF u
<1>4. ItemsKnown(u, n + 1, n, FALSE, TRUE, idx, comp)
  BY <1>2, <1>3
<1> QED  BY <1>2, <1>4

LEMMA NextFits == ASSUME ResponsesInv, PartOf PROVE nextOutputIndex <= MaxBlocks
BY PartsAssumption DEF ResponsesInv, ResponsesTypes, ResponsesCount, PartOf, MaxBlocks

LEMMA TextDeltaKeeps == ASSUME ResponsesInv, Responses!TextDelta PROVE ResponsesInv'
<1>1. PartOf /\ ~reasoning /\ UNCHANGED <<reasoning, call>>
  BY DEF Responses!TextDelta, Responses!SendText, Responses!Part, Responses!Asked, PartOf
<1>2. UNCHANGED <<reasoningItemStarted, completedOutput, toolCallOutputIndices, toolCallStartEmitted>>
  BY DEF Responses!TextDelta, Responses!callVars
<1>3. CallsTyped' /\ CallsKnown'
  BY <1>1, <1>2 DEF ResponsesInv, CallsTyped, CallsKnown, PartOf
<1>4. ResponsesTypes /\ nextOutputIndex <= MaxBlocks
  BY <1>1, NextFits DEF ResponsesInv
<1>5. CASE textItemStarted
  <2> DEFINE events == <<Piece(currentOutputIndex, "text")>>
  <2>1. Responses!Emit(events) /\ UNCHANGED <<textItemStarted, currentOutputIndex, nextOutputIndex>>
    BY <1>5 DEF Responses!TextDelta, Responses!Piece, Piece
  <2>2. ResponsesTypes'
    <3>1. ResponsesCount'
      BY <1>1, <1>4, <2>1, PartsAssumption DEF ResponsesTypes, ResponsesCount, PartOf
    <3>2. ResponsesFlags'
      BY Zenon, <1>1, <1>2, <1>4, <2>1 DEF ResponsesTypes, ResponsesFlags, PartOf, Responses!Emit
    <3> QED  BY <3>1, <3>2 DEF ResponsesTypes
  <2>3. ASSUME NEW s \in States, s.phase = "open" /\ ResponseKnown(s)
        PROVE  \E u : Plays("responses", s, events, u) /\ u.phase = "open" /\ ResponseKnown(u)'
    <3>1. currentOutputIndex \in 1..MaxBlocks /\ IsOpen(s, currentOutputIndex, "text")
      BY <1>5, <2>3, ItemsOpen DEF ResponseKnown
    <3>2. PICK u : Plays("responses", s, events, u) /\ ResponseKnown(u) /\ u.phase = "open"
      BY <2>3, <3>1, PieceKeeps, SubjectsAre DEF ResponseKnown
    <3> QED  BY <1>2, <2>1, <3>2 DEF ResponseKnown
  <2> HIDE DEF events
  <2> QED  BY <1>1, <1>3, <2>1, <2>2, <2>3, PartKeeps
<1>6. CASE ~textItemStarted
  <2> DEFINE n == nextOutputIndex
             events == <<Added(n, "text"), Piece(n, "text")>>
  <2>1. /\ Responses!Emit(events) /\ textItemStarted' = TRUE /\ currentOutputIndex' = n
        /\ nextOutputIndex' = n + 1
    BY <1>6 DEF Responses!TextDelta, Responses!Piece, Piece, Responses!Added, Added
  <2>2. ResponsesTypes' /\ textItemStarted = FALSE /\ reasoningItemStarted = FALSE
    <3>1. ResponsesCount'
      BY <1>1, <1>4, <2>1, PartsAssumption DEF ResponsesTypes, ResponsesCount, PartOf
    <3>2. textItemStarted = FALSE /\ reasoningItemStarted = FALSE
      BY <1>1, <1>4, <1>6 DEF ResponsesTypes, ResponsesFlags, PartOf
    <3>3. ResponsesFlags'
      BY Zenon, <1>1, <1>2, <1>4, <2>1, <3>2 DEF ResponsesTypes, ResponsesFlags, PartOf, Responses!Emit
    <3> QED  BY <3>1, <3>2, <3>3 DEF ResponsesTypes
  <2>3. ASSUME NEW s \in States, s.phase = "open" /\ ResponseKnown(s)
        PROVE  \E u : Plays("responses", s, events, u) /\ u.phase = "open" /\ ResponseKnown(u)'
    <3>1. ItemsKnown(s, n, currentOutputIndex, FALSE, FALSE, toolCallOutputIndices, completedOutput)
      BY <2>2, <2>3 DEF ResponseKnown
    <3>2. PICK t : /\ Plays("responses", s, <<Added(n, "text")>>, t) /\ t.phase = "open"
                   /\ ItemsKnown(t, n + 1, n, TRUE, FALSE, toolCallOutputIndices, completedOutput)
      BY <1>4, <2>3, <3>1, TextAdded
    <3>3. t \in States /\ n \in 1..MaxBlocks /\ IsOpen(t, n, "text") /\ "text" \in Subjects
      BY <3>2, ItemsOpen, SubjectsAre
    <3>4. PICK u : /\ Plays("responses", t, <<Piece(n, "text")>>, u) /\ u.phase = "open"
                   /\ ItemsKnown(u, n + 1, n, TRUE, FALSE, toolCallOutputIndices, completedOutput)
      BY <3>2, <3>3, PieceKeeps
    <3>5. Plays("responses", s, <<Added(n, "text")>> \o <<Piece(n, "text")>>, u)
      BY <3>2, <3>4, PlaysMore
    <3>6. <<Added(n, "text")>> \o <<Piece(n, "text")>> = events
      BY Joined
    <3>7. ResponseKnown(u)'
      BY <1>2, <2>1, <2>2, <3>4 DEF ResponseKnown
    <3> QED  BY <3>4, <3>5, <3>6, <3>7
  <2> HIDE DEF events, n
  <2> QED  BY <1>1, <1>3, <2>1, <2>2, <2>3, PartKeeps
<1> QED  BY <1>5, <1>6

LEMMA FlagsBoolean ==
  ASSUME ResponsesInv, PartOf
  PROVE  /\ textItemStarted \in BOOLEAN /\ reasoningItemStarted \in BOOLEAN
         /\ ~(textItemStarted /\ reasoningItemStarted) /\ nextOutputIndex <= MaxBlocks
BY NextFits DEF ResponsesInv, ResponsesTypes, ResponsesFlags, PartOf

LEMMA ClosedTextPlays ==
  ASSUME AreFlags(textItemStarted, reasoningItemStarted),
         NEW s \in States, s.phase = "open", ResponseKnown(s)
  PROVE  \E u : /\ Plays("responses", s, Responses!ClosedText, u) /\ u.phase = "open"
                /\ ItemsKnown(u, nextOutputIndex, Responses!WithoutText, FALSE, reasoningItemStarted,
                              toolCallOutputIndices, Responses!TextCompleted)
<1>1. ItemsKnown(s, nextOutputIndex, currentOutputIndex, textItemStarted, reasoningItemStarted,
                 toolCallOutputIndices, completedOutput)
  BY DEF ResponseKnown
<1>2. PICK u :
        /\ Plays("responses", s, Ending(textItemStarted, currentOutputIndex, "text"), u)
        /\ ItemsKnown(u, nextOutputIndex, CurrentLeft(textItemStarted, currentOutputIndex), FALSE,
                      reasoningItemStarted, toolCallOutputIndices,
                      CompletedThen(textItemStarted, completedOutput, currentOutputIndex, "text"))
        /\ u.phase = "open"
  BY <1>1, TextClosed
<1>3. /\ Responses!ClosedText = Ending(textItemStarted, currentOutputIndex, "text")
      /\ Responses!WithoutText = CurrentLeft(textItemStarted, currentOutputIndex)
      /\ Responses!TextCompleted = CompletedThen(textItemStarted, completedOutput, currentOutputIndex, "text")
  BY DEF Responses!ClosedText, Responses!Done, Done, Responses!WithoutText, Responses!TextCompleted, Given,
         Ending, CurrentLeft, CompletedThen
<1> QED  BY <1>2, <1>3

LEMMA ClosedReasoningPlays ==
  ASSUME AreFlags(textItemStarted, reasoningItemStarted),
         NEW s \in States, s.phase = "open", ResponseKnown(s)
  PROVE  \E u : /\ Plays("responses", s, Responses!ClosedReasoning, u) /\ u.phase = "open"
                /\ ItemsKnown(u, nextOutputIndex, CurrentLeft(reasoningItemStarted, currentOutputIndex),
                              textItemStarted, FALSE, toolCallOutputIndices, Responses!ReasoningCompleted)
<1>1. ItemsKnown(s, nextOutputIndex, currentOutputIndex, textItemStarted, reasoningItemStarted,
                 toolCallOutputIndices, completedOutput)
  BY DEF ResponseKnown
<1>2. PICK u :
        /\ Plays("responses", s, Ending(reasoningItemStarted, currentOutputIndex, "reasoning"), u)
        /\ ItemsKnown(u, nextOutputIndex, CurrentLeft(reasoningItemStarted, currentOutputIndex),
                      textItemStarted, FALSE, toolCallOutputIndices,
                      CompletedThen(reasoningItemStarted, completedOutput, currentOutputIndex, "reasoning"))
        /\ u.phase = "open"
  BY <1>1, ReasoningClosed
<1>3. /\ Responses!ClosedReasoning = Ending(reasoningItemStarted, currentOutputIndex, "reasoning")
      /\ Responses!ReasoningCompleted =
            CompletedThen(reasoningItemStarted, completedOutput, currentOutputIndex, "reasoning")
  BY DEF Responses!ClosedReasoning, Responses!Done, Done, Responses!ReasoningCompleted, Given, Ending, CompletedThen
<1> QED  BY <1>2, <1>3

LEMMA PiecesPlay ==
  ASSUME NEW s, NEW n, NEW cur, NEW ti, NEW ri, NEW idx, NEW comp,
         ItemsKnown(s, n, cur, ti, ri, idx, comp), s.phase = "open",
         NEW b \in 1..MaxBlocks, NEW x \in Subjects, IsOpen(s, b, x), NEW k \in {0, 1}
  PROVE  \E u : /\ Plays("responses", s, Pieces(k, b, x), u)
                /\ ItemsKnown(u, n, cur, ti, ri, idx, comp) /\ u.phase = "open"
<1>1. CASE k = 0
  <2>1. Pieces(k, b, x) = <<>>
    BY <1>1, Repeated DEF Pieces
  <2>2. Plays("responses", s, <<>>, s)
    BY PlaysNone DEF ItemsKnown
  <2> QED  BY <2>1, <2>2
<1>2. CASE k = 1
  <2>1. Pieces(k, b, x) = <<Piece(b, x)>>
    BY <1>2, Repeated DEF Pieces
  <2>2. PICK u : /\ Plays("responses", s, <<Piece(b, x)>>, u)
                 /\ ItemsKnown(u, n, cur, ti, ri, idx, comp) /\ u.phase = "open"
    BY PieceKeeps
  <2> QED  BY <2>1, <2>2
<1> QED  BY <1>1, <1>2

LEMMA StartReasoningKeeps ==
  ASSUME ResponsesInv, PartOf, NEW k \in {0, 1}, Responses!StartReasoning(k), reasoning' = TRUE,
         UNCHANGED <<call, toolCallOutputIndices, toolCallStartEmitted>>
  PROVE  ResponsesInv'
<1>1. CallsTyped' /\ CallsKnown'
  BY DEF ResponsesInv, CallsTyped, CallsKnown, PartOf
<1>2. /\ ResponsesTypes /\ nextOutputIndex <= MaxBlocks
      /\ textItemStarted \in BOOLEAN /\ reasoningItemStarted \in BOOLEAN
      /\ AreFlags(textItemStarted, reasoningItemStarted)
  BY FlagsBoolean DEF ResponsesInv, AreFlags
<1>3. CASE reasoningItemStarted
  <2> DEFINE events == Pieces(k, currentOutputIndex, "reasoning")
  <2>1. /\ Responses!Emit(events)
        /\ UNCHANGED <<textItemStarted, reasoningItemStarted, currentOutputIndex, nextOutputIndex, completedOutput>>
    BY <1>3 DEF Responses!StartReasoning, Pieces, Responses!Piece, Piece, Responses!itemVars
  <2>2. ResponsesTypes'
    <3>1. ResponsesCount'
      BY <1>2, <2>1, PartsAssumption DEF ResponsesTypes, ResponsesCount, PartOf
    <3>2. ResponsesFlags'
      BY Zenon, <1>2, <1>3, <2>1 DEF ResponsesTypes, ResponsesFlags, PartOf, Responses!Emit
    <3> QED  BY <3>1, <3>2 DEF ResponsesTypes
  <2>3. ASSUME NEW s \in States, s.phase = "open" /\ ResponseKnown(s)
        PROVE  \E u : Plays("responses", s, events, u) /\ u.phase = "open" /\ ResponseKnown(u)'
    <3>1. currentOutputIndex \in 1..MaxBlocks /\ IsOpen(s, currentOutputIndex, "reasoning") /\ "reasoning" \in Subjects
      BY <1>3, <2>3, ItemsOpen, SubjectsAre DEF ResponseKnown
    <3>2. PICK u : Plays("responses", s, events, u) /\ ResponseKnown(u) /\ u.phase = "open"
      BY <2>3, <3>1, PiecesPlay DEF ResponseKnown
    <3> QED  BY <2>1, <3>2 DEF ResponseKnown
  <2> HIDE DEF events
  <2> QED  BY <1>1, <2>1, <2>2, <2>3, PartKeeps
<1>4. CASE ~reasoningItemStarted
  <2> DEFINE n == nextOutputIndex
             rest == Pieces(k, n, "reasoning")
             events == Responses!ClosedText \o <<Added(n, "reasoning")>> \o rest
  <2>1. /\ Responses!Emit(events) /\ textItemStarted' = FALSE /\ reasoningItemStarted' = TRUE
        /\ currentOutputIndex' = n /\ nextOutputIndex' = n + 1
        /\ completedOutput' = Responses!TextCompleted
    BY <1>4 DEF Responses!StartReasoning, Pieces, Responses!Piece, Piece, Responses!Added, Added
  <2>2. ResponsesTypes'
    <3>1. ResponsesCount'
      BY <1>2, <2>1, PartsAssumption DEF ResponsesTypes, ResponsesCount, PartOf
    <3>2. ResponsesFlags'
      BY Zenon, <1>2, <2>1 DEF ResponsesTypes, ResponsesFlags, PartOf, Responses!Emit
    <3> QED  BY <3>1, <3>2 DEF ResponsesTypes
  <2>3. ASSUME NEW s \in States, s.phase = "open" /\ ResponseKnown(s)
        PROVE  \E u : Plays("responses", s, events, u) /\ u.phase = "open" /\ ResponseKnown(u)'
    <3>1. PICK r : /\ Plays("responses", s, Responses!ClosedText, r) /\ r.phase = "open"
                   /\ ItemsKnown(r, n, Responses!WithoutText, FALSE, reasoningItemStarted,
                                 toolCallOutputIndices, Responses!TextCompleted)
      BY <1>2, <2>3, ClosedTextPlays
    <3>2. reasoningItemStarted = FALSE
      BY <1>2, <1>4
    <3>3. ItemsKnown(r, n, Responses!WithoutText, FALSE, FALSE, toolCallOutputIndices, Responses!TextCompleted)
      BY <3>1, <3>2
    <3>4. PICK t : /\ Plays("responses", r, <<Added(n, "reasoning")>>, t) /\ t.phase = "open"
                   /\ ItemsKnown(t, n + 1, n, FALSE, TRUE, toolCallOutputIndices, Responses!TextCompleted)
      BY <1>2, <3>1, <3>3, ReasoningAdded
    <3>5. n \in 1..MaxBlocks /\ IsOpen(t, n, "reasoning") /\ "reasoning" \in Subjects
      BY <3>4, ItemsOpen, SubjectsAre
    <3>6. PICK u : /\ Plays("responses", t, rest, u) /\ u.phase = "open"
                   /\ ItemsKnown(u, n + 1, n, FALSE, TRUE, toolCallOutputIndices, Responses!TextCompleted)
      BY <3>4, <3>5, PiecesPlay
    <3>7. Plays("responses", s, events, u)
      BY <3>1, <3>4, <3>6, PlaysMore
    <3>8. ResponseKnown(u)'
      BY <2>1, <3>6 DEF ResponseKnown
    <3> QED  BY <3>6, <3>7, <3>8
  <2> HIDE DEF events, n, rest
  <2> QED  BY <1>1, <2>1, <2>2, <2>3, PartKeeps
<1> QED  BY <1>3, <1>4

LEMMA ReasoningStartKeeps == ASSUME ResponsesInv, Responses!ReasoningStart PROVE ResponsesInv'
<1>1. PartOf /\ reasoning' = TRUE /\ UNCHANGED call
  BY DEF Responses!ReasoningStart, Responses!SendReasoningStart, Responses!Part, Responses!Asked, PartOf
<1>2. Responses!StartReasoning(0) /\ UNCHANGED <<toolCallOutputIndices, toolCallStartEmitted>>
  BY DEF Responses!ReasoningStart, Responses!callVars
<1>3. 0 \in {0, 1}
  OBVIOUS
<1> QED  BY <1>1, <1>2, <1>3, StartReasoningKeeps

LEMMA ReasoningDeltaKeeps == ASSUME ResponsesInv, Responses!ReasoningDelta PROVE ResponsesInv'
<1>1. PartOf /\ reasoning' = TRUE /\ UNCHANGED call
  BY DEF Responses!ReasoningDelta, Responses!SendReasoning, Responses!Part, Responses!Asked, PartOf
<1>2. Responses!StartReasoning(1) /\ UNCHANGED <<toolCallOutputIndices, toolCallStartEmitted>>
  BY DEF Responses!ReasoningDelta, Responses!callVars
<1>3. 1 \in {0, 1}
  OBVIOUS
<1> QED  BY <1>1, <1>2, <1>3, StartReasoningKeeps

LEMMA ReasoningEndKeeps == ASSUME ResponsesInv, Responses!ReasoningEnd PROVE ResponsesInv'
<1>1. PartOf /\ reasoning' = FALSE /\ UNCHANGED call
  BY DEF Responses!ReasoningEnd, Responses!SendReasoningEnd, Responses!Part, Responses!Asked, PartOf
<1>2. /\ Responses!Emit(Responses!ClosedReasoning)
      /\ reasoningItemStarted' = FALSE /\ completedOutput' = Responses!ReasoningCompleted
      /\ currentOutputIndex' = IF reasoningItemStarted THEN 0 ELSE currentOutputIndex
      /\ UNCHANGED <<nextOutputIndex, textItemStarted, toolCallOutputIndices, toolCallStartEmitted>>
  BY DEF Responses!ReasoningEnd, Responses!callVars
<1>3. CallsTyped' /\ CallsKnown'
  BY <1>1, <1>2 DEF ResponsesInv, CallsTyped, CallsKnown, PartOf
<1>4. ResponsesTypes'
  <2>1. ResponsesCount'
    BY <1>1, <1>2, PartsAssumption DEF ResponsesInv, ResponsesTypes, ResponsesCount, PartOf
  <2>2. ResponsesFlags'
    BY Zenon, <1>1, <1>2 DEF ResponsesInv, ResponsesTypes, ResponsesFlags, PartOf, Responses!Emit
  <2> QED  BY <2>1, <2>2 DEF ResponsesTypes
<1>5. ASSUME NEW s \in States, s.phase = "open" /\ ResponseKnown(s)
      PROVE  \E u : Plays("responses", s, Responses!ClosedReasoning, u) /\ u.phase = "open" /\ ResponseKnown(u)'
  <2>1. PICK u : /\ Plays("responses", s, Responses!ClosedReasoning, u) /\ u.phase = "open"
                 /\ ItemsKnown(u, nextOutputIndex, CurrentLeft(reasoningItemStarted, currentOutputIndex),
                               textItemStarted, FALSE, toolCallOutputIndices, Responses!ReasoningCompleted)
    BY <1>1, <1>5, FlagsBoolean, ClosedReasoningPlays DEF AreFlags
  <2>2. ResponseKnown(u)'
    BY <1>2, <2>1 DEF ResponseKnown, CurrentLeft
  <2> QED  BY <2>1, <2>2
<1> QED  BY <1>1, <1>2, <1>3, <1>4, <1>5, PartKeeps

-----------------------------------------------------------------------------
(* The calls.                                                              *)

LEMMA CallThere ==
  ASSUME NEW s, NEW n, NEW cur, NEW ti, NEW ri, NEW idx, NEW comp,
         ItemsKnown(s, n, cur, ti, ri, idx, comp), s.phase = "open", n <= MaxBlocks, NEW c \in Calls
  PROVE  \E u, j : /\ Plays("responses", s, CallMissing(idx, c, n), u) /\ u.phase = "open"
                   /\ ItemsKnown(u, CallNext(idx, c, n), cur, ti, ri, j, comp)
                   /\ IsIndexed(j, idx, c, n)
<1>1. idx \in [Calls -> Nat] /\ n \in Nat \ {0}
  BY DEF ItemsKnown
<1>2. CASE idx[c] = 0
  <2> DEFINE j == Given(idx, c, n)
  <2>1. PICK u : /\ Plays("responses", s, <<Added(n, c)>>, u)
                 /\ ItemsKnown(u, n + 1, cur, ti, ri, j, comp) /\ u.phase = "open"
    BY <1>2, CallAdded
  <2>2. j[c] = n /\ Given(j, c, 0) = Given(idx, c, 0)
    BY <1>1 DEF Given
  <2> HIDE DEF j
  <2> QED  BY <1>1, <1>2, <2>1, <2>2 DEF CallMissing, CallNext, CallIndex, IsIndexed
<1>3. CASE idx[c] # 0
  <2>1. Plays("responses", s, <<>>, s)
    BY PlaysNone DEF ItemsKnown
  <2>2. CallMissing(idx, c, n) = <<>> /\ CallNext(idx, c, n) = n /\ CallIndex(idx, c, n) = idx[c]
    BY <1>3 DEF CallMissing, CallNext, CallIndex
  <2> QED  BY <1>3, <2>1, <2>2 DEF IsIndexed
<1> QED  BY <1>2, <1>3

LEMMA RestPlays ==
  ASSUME NEW s, NEW n, NEW cur, NEW ti, NEW ri, NEW idx, NEW comp,
         ItemsKnown(s, n, cur, ti, ri, idx, comp), s.phase = "open",
         NEW c \in Calls, idx[c] # 0, NEW whole
  PROVE  \E u : /\ Plays("responses", s, RestOf(idx[c], c, whole), u)
                /\ ItemsKnown(u, n, cur, ti, ri, idx, comp) /\ u.phase = "open"
<1>1. CASE whole
  <2>1. idx[c] \in 1..MaxBlocks /\ IsOpen(s, idx[c], c) /\ c \in Subjects
    BY ItemsOpen, SubjectsAre
  <2>2. \E u : /\ Plays("responses", s, <<Whole(idx[c], c)>>, u)
               /\ ItemsKnown(u, n, cur, ti, ri, idx, comp) /\ u.phase = "open"
    BY <2>1, WholeKeeps
  <2> QED  BY <1>1, <2>2 DEF RestOf
<1>2. CASE ~whole
  <2>1. Plays("responses", s, <<>>, s)
    BY PlaysNone DEF ItemsKnown
  <2> QED  BY <1>2, <2>1 DEF RestOf
<1> QED  BY <1>1, <1>2

(* A call is known and done.                                               *)
LEMMA CompleteCallKeeps ==
  ASSUME ResponsesInv, PartOf, NEW c \in Calls, NEW whole,
         Responses!CompleteCall(c, RestOf(Responses!Index(c), c, whole)),
         toolCallOutputIndices[c] # 0 <=> c \in toolCallStartEmitted,
         UNCHANGED reasoning, CallsTyped', CallsKnown'
  PROVE  ResponsesInv'
<1> DEFINE n == nextOutputIndex
           b == Responses!Index(c)
           rest == RestOf(b, c, whole)
           events == Responses!ClosedText \o Responses!Missing(c) \o rest \o <<Done(b, c)>>
<1>1. /\ Responses!Emit(events) /\ textItemStarted' = FALSE
      /\ currentOutputIndex' = Responses!WithoutText
      /\ completedOutput' = Given(Responses!TextCompleted, b, c)
      /\ nextOutputIndex' = CallNext(toolCallOutputIndices, c, n)
      /\ toolCallOutputIndices' = Given(toolCallOutputIndices, c, 0)
      /\ UNCHANGED <<reasoningItemStarted, toolCallStartEmitted>>
  BY DEF Responses!CompleteCall, Responses!Done, Done, Given, CallNext
<1>2. /\ b = CallIndex(toolCallOutputIndices, c, n)
      /\ Responses!Missing(c) = CallMissing(toolCallOutputIndices, c, n)
  BY DEF Responses!Index, CallIndex, Responses!Missing, CallMissing, Responses!Added, Added
<1>3. ResponsesTypes'
  <2>1. ResponsesCount'
    BY <1>1, PartsAssumption DEF ResponsesInv, ResponsesTypes, ResponsesCount, PartOf, CallNext
  <2>2. ResponsesFlags'
    BY Zenon, <1>1 DEF ResponsesInv, ResponsesTypes, ResponsesFlags, PartOf, Responses!Emit
  <2> QED  BY <2>1, <2>2 DEF ResponsesTypes
<1>4. ASSUME NEW s \in States, s.phase = "open" /\ ResponseKnown(s)
      PROVE  \E u : Plays("responses", s, events, u) /\ u.phase = "open" /\ ResponseKnown(u)'
  <2>1. PICK r : /\ Plays("responses", s, Responses!ClosedText, r) /\ r.phase = "open"
                 /\ ItemsKnown(r, n, Responses!WithoutText, FALSE, reasoningItemStarted,
                               toolCallOutputIndices, Responses!TextCompleted)
    BY <1>4, FlagsBoolean, ClosedTextPlays DEF AreFlags
  <2>2. n <= MaxBlocks
    BY NextFits
  <2> HIDE DEF n
  <2>3. PICK t, j :
          /\ Plays("responses", r, CallMissing(toolCallOutputIndices, c, n), t) /\ t.phase = "open"
          /\ ItemsKnown(t, CallNext(toolCallOutputIndices, c, n), Responses!WithoutText, FALSE,
                        reasoningItemStarted, j, Responses!TextCompleted)
          /\ IsIndexed(j, toolCallOutputIndices, c, n)
    BY <2>1, <2>2, CallThere
  <2>4. j[c] = b /\ j[c] # 0 /\ Given(j, c, 0) = Given(toolCallOutputIndices, c, 0)
    BY <1>2, <2>3 DEF IsIndexed
  <2> HIDE DEF b
  <2>5. PICK v : /\ Plays("responses", t, RestOf(j[c], c, whole), v) /\ v.phase = "open"
                 /\ ItemsKnown(v, CallNext(toolCallOutputIndices, c, n), Responses!WithoutText, FALSE,
                               reasoningItemStarted, j, Responses!TextCompleted)
    BY <2>3, <2>4, RestPlays
  <2>6. PICK u : /\ Plays("responses", v, <<Done(b, c)>>, u) /\ u.phase = "open"
                 /\ ItemsKnown(u, CallNext(toolCallOutputIndices, c, n), Responses!WithoutText, FALSE,
                               reasoningItemStarted, Given(j, c, 0), Given(Responses!TextCompleted, b, c))
    BY <2>3, <2>4, <2>5, CallDone
  <2>7. Plays("responses", s, events, u)
    <3>1. Plays("responses", s, Responses!ClosedText \o Responses!Missing(c), t)
      BY <1>2, <2>1, <2>3, PlaysMore
    <3>2. Plays("responses", s, Responses!ClosedText \o Responses!Missing(c) \o rest, v)
      BY <2>4, <2>5, <3>1, PlaysMore
    <3> QED  BY <2>6, <3>2, PlaysMore
  <2>8. ResponseKnown(u)'
    BY <1>1, <2>4, <2>6 DEF ResponseKnown
  <2> QED  BY <2>6, <2>7, <2>8
<1> HIDE DEF events
<1> QED  BY <1>1, <1>3, <1>4, PartKeeps

LEMMA OthersKnown ==
  ASSUME CallsKnown, NEW c \in Calls,
         \A d \in Calls \ {c} :
           /\ call'[d].at = call[d].at /\ kind'[d] = kind[d]
           /\ toolCallOutputIndices'[d] = toolCallOutputIndices[d]
           /\ d \in toolCallStartEmitted' <=> d \in toolCallStartEmitted,
         CallKnown(call'[c].at, kind'[c] = "hosted", c \in toolCallStartEmitted', toolCallOutputIndices'[c])
  PROVE  CallsKnown'
<1>1. ASSUME NEW d \in Calls \ {c}
      PROVE  CallKnown(call'[d].at, kind'[d] = "hosted", d \in toolCallStartEmitted', toolCallOutputIndices'[d])
  BY DEF CallsKnown, CallKnown
<1> QED  BY <1>1 DEF CallsKnown

LEMMA IndicesTyped == ASSUME ResponsesInv PROVE toolCallOutputIndices \in [Calls -> Nat]
BY DEF ResponsesInv, ResponseKnown, ItemsKnown

LEMMA ToolInputStartKeeps ==
  ASSUME ResponsesInv, NEW c \in Calls, Responses!ToolInputStart(c) PROVE ResponsesInv'
<1> DEFINE n == nextOutputIndex
           events == Responses!ClosedText \o <<Added(n, c)>>
<1>1. PartOf /\ UNCHANGED reasoning /\ call[c].at = "none" /\ Responses!Comes(c, "started")
  BY DEF Responses!ToolInputStart, Responses!SendInputStart, Responses!Part, Responses!Asked, Responses!Comes, PartOf
<1>2. /\ Responses!Emit(events) /\ textItemStarted' = FALSE
      /\ currentOutputIndex' = Responses!WithoutText
      /\ completedOutput' = Responses!TextCompleted
      /\ nextOutputIndex' = n + 1
      /\ toolCallOutputIndices' = Given(toolCallOutputIndices, c, n)
      /\ toolCallStartEmitted' = toolCallStartEmitted \cup {c}
      /\ UNCHANGED reasoningItemStarted
  BY DEF Responses!ToolInputStart, Responses!CloseText, Responses!Added, Added, Given
<1>3. CallsTyped' /\ call'[c].at = "started" /\ \A d \in Calls \ {c} : call'[d] = call[d]
  BY <1>1, ComesKnown DEF ResponsesInv
<1>4. n \in Nat /\ n # 0
  BY DEF ResponsesInv, ResponseKnown, ItemsKnown
<1>5. CallsKnown'
  <2>1. \A d \in Calls : toolCallOutputIndices'[d] = IF d = c THEN n ELSE toolCallOutputIndices[d]
    BY <1>2, IndicesTyped DEF Given
  <2>2. CallKnown(call'[c].at, kind'[c] = "hosted", c \in toolCallStartEmitted', toolCallOutputIndices'[c])
    BY <1>2, <1>3, <1>4, <2>1 DEF CallKnown
  <2> QED  BY <1>1, <1>2, <1>3, <2>1, <2>2, OthersKnown DEF PartOf, ResponsesInv
<1>6. ResponsesTypes'
  <2>1. ResponsesCount'
    BY <1>1, <1>2, PartsAssumption DEF ResponsesInv, ResponsesTypes, ResponsesCount, PartOf
  <2>2. ResponsesFlags'
    BY Zenon, <1>1, <1>2 DEF ResponsesInv, ResponsesTypes, ResponsesFlags, PartOf, Responses!Emit
  <2> QED  BY <2>1, <2>2 DEF ResponsesTypes
<1>7. ASSUME NEW s \in States, s.phase = "open" /\ ResponseKnown(s)
      PROVE  \E u : Plays("responses", s, events, u) /\ u.phase = "open" /\ ResponseKnown(u)'
  <2>1. PICK r : /\ Plays("responses", s, Responses!ClosedText, r) /\ r.phase = "open"
                 /\ ItemsKnown(r, n, Responses!WithoutText, FALSE, reasoningItemStarted,
                               toolCallOutputIndices, Responses!TextCompleted)
    BY <1>1, <1>7, FlagsBoolean, ClosedTextPlays DEF AreFlags
  <2>2. n <= MaxBlocks /\ toolCallOutputIndices[c] = 0
    BY <1>1, NextFits DEF ResponsesInv, CallsKnown, CallKnown
  <2> HIDE DEF n
  <2>3. PICK u : /\ Plays("responses", r, <<Added(n, c)>>, u) /\ u.phase = "open"
                 /\ ItemsKnown(u, n + 1, Responses!WithoutText, FALSE, reasoningItemStarted,
                               Given(toolCallOutputIndices, c, n), Responses!TextCompleted)
    BY <2>1, <2>2, CallAdded
  <2>4. Plays("responses", s, events, u)
    BY <2>1, <2>3, PlaysMore
  <2>5. ResponseKnown(u)'
    BY <1>2, <2>3 DEF ResponseKnown
  <2> QED  BY <2>3, <2>4, <2>5
<1> HIDE DEF events
<1> QED  BY <1>1, <1>2, <1>3, <1>5, <1>6, <1>7, PartKeeps

(* A part of which the client gets nothing, or one more piece.             *)
LEMMA SameItemsKeep ==
  ASSUME ResponsesInv, PartOf, UNCHANGED <<reasoning, Responses!itemVars, toolCallOutputIndices>>,
         NEW events, Responses!Emit(events), CallsTyped', CallsKnown',
         \A s \in States : s.phase = "open" /\ ResponseKnown(s) =>
           \E u : Plays("responses", s, events, u) /\ u.phase = "open" /\ ResponseKnown(u)
  PROVE  ResponsesInv'
<1>1. UNCHANGED <<nextOutputIndex, currentOutputIndex, textItemStarted, reasoningItemStarted, completedOutput>>
  BY DEF Responses!itemVars
<1>2. ResponsesTypes'
  <2>1. ResponsesCount'
    BY <1>1, PartsAssumption DEF ResponsesInv, ResponsesTypes, ResponsesCount, PartOf
  <2>2. ResponsesFlags'
    BY Zenon, <1>1 DEF ResponsesInv, ResponsesTypes, ResponsesFlags, PartOf, Responses!Emit
  <2> QED  BY <2>1, <2>2 DEF ResponsesTypes
<1>3. \A u : ResponseKnown(u)' <=> ResponseKnown(u)
  BY <1>1 DEF ResponseKnown
<1> QED  BY <1>2, <1>3, PartKeeps

LEMMA NothingPlays ==
  \A s \in States : s.phase = "open" /\ ResponseKnown(s) =>
    \E u : Plays("responses", s, <<>>, u) /\ u.phase = "open" /\ ResponseKnown(u)
BY PlaysNone

LEMMA ToolInputDeltaKeeps ==
  ASSUME ResponsesInv, NEW c \in Calls, Responses!ToolInputDelta(c) PROVE ResponsesInv'
<1>1. /\ PartOf /\ UNCHANGED reasoning /\ call[c].at = "started"
      /\ call' = [call EXCEPT ![c].pieces = @ + 1]
      /\ UNCHANGED <<reasoning, Responses!itemVars, toolCallOutputIndices, toolCallStartEmitted>>
  BY DEF Responses!ToolInputDelta, Responses!SendInput, Responses!Part, Responses!Asked, PartOf
<1>2. CallsTyped' /\ \A d \in Calls : call'[d].at = call[d].at
  BY <1>1, InputKnown DEF ResponsesInv
<1>3. CallsKnown'
  BY <1>1, <1>2 DEF ResponsesInv, CallsKnown, PartOf
<1>4. toolCallOutputIndices[c] # 0
  BY <1>1 DEF ResponsesInv, CallsKnown, CallKnown
<1>5. CASE Responses!Streamed(c)
  <2> DEFINE events == <<Piece(toolCallOutputIndices[c], c)>>
  <2>1. Responses!Emit(events)
    <3>1. Responses!Emit([i \in 1..1 |-> Piece(toolCallOutputIndices[c], c)])
      BY <1>4, <1>5 DEF Responses!ToolInputDelta, Responses!Piece, Piece
    <3>2. [i \in 1..1 |-> Piece(toolCallOutputIndices[c], c)] = events
      BY Repeated
    <3> QED  BY <3>1, <3>2
  <2>2. ASSUME NEW s \in States, s.phase = "open" /\ ResponseKnown(s)
        PROVE  \E u : Plays("responses", s, events, u) /\ u.phase = "open" /\ ResponseKnown(u)
    <3>1. toolCallOutputIndices[c] \in 1..MaxBlocks /\ IsOpen(s, toolCallOutputIndices[c], c) /\ c \in Subjects
      BY <1>4, <2>2, ItemsOpen, SubjectsAre DEF ResponseKnown
    <3> QED  BY <2>2, <3>1, PieceKeeps DEF ResponseKnown
  <2> HIDE DEF events
  <2> QED  BY <1>1, <1>2, <1>3, <2>1, <2>2, SameItemsKeep
<1>6. CASE ~Responses!Streamed(c)
  <2>1. Responses!Emit(<<>>)
    BY <1>6 DEF Responses!ToolInputDelta
  <2> QED  BY <1>1, <1>2, <1>3, <2>1, NothingPlays, SameItemsKeep
<1> QED  BY <1>5, <1>6

LEMMA HostedCallKeeps ==
  ASSUME ResponsesInv, NEW c \in Calls, Responses!HostedCall(c) PROVE ResponsesInv'
<1>1. /\ PartOf /\ UNCHANGED reasoning /\ call[c].at \in {"none", "started"} /\ Responses!Comes(c, "called")
      /\ Responses!Emit(<<>>)
      /\ UNCHANGED <<reasoning, Responses!itemVars, toolCallOutputIndices, toolCallStartEmitted>>
  BY DEF Responses!HostedCall, Responses!SendCall, Responses!Part, Responses!Asked, Responses!Comes, PartOf
<1>2. CallsTyped' /\ call'[c].at = "called" /\ \A d \in Calls \ {c} : call'[d] = call[d]
  BY <1>1, ComesKnown DEF ResponsesInv
<1>3. CallKnown(call'[c].at, kind'[c] = "hosted", c \in toolCallStartEmitted', toolCallOutputIndices'[c])
  BY <1>1, <1>2 DEF ResponsesInv, CallsKnown, CallKnown
<1>4. CallsKnown'
  BY <1>1, <1>2, <1>3, OthersKnown DEF ResponsesInv, PartOf
<1> QED  BY <1>1, <1>2, <1>4, NothingPlays, SameItemsKeep

LEMMA ToolCallKeeps ==
  ASSUME ResponsesInv, NEW c \in Calls, Responses!ToolCall(c) PROVE ResponsesInv'
<1> DEFINE whole == ~(c \in toolCallsWithArgumentDeltas \/ kind[c] = "search")
<1>1. /\ PartOf /\ UNCHANGED reasoning /\ call[c].at \in {"none", "started"} /\ Responses!Comes(c, "called")
      /\ kind[c] # "hosted"
  BY DEF Responses!ToolCall, Responses!SendCall, Responses!Part, Responses!Asked, Responses!Comes, PartOf
<1>2. Responses!CompleteCall(c, Responses!Rest(c))
  BY DEF Responses!ToolCall
<1>3. Responses!Rest(c) = RestOf(Responses!Index(c), c, whole)
  BY DEF Responses!Rest, RestOf, Responses!Whole, Whole
<1> HIDE DEF whole
<1>4. toolCallOutputIndices[c] # 0 <=> c \in toolCallStartEmitted
  BY <1>1 DEF ResponsesInv, CallsKnown, CallKnown
<1>5. CallsTyped' /\ call'[c].at = "called" /\ \A d \in Calls \ {c} : call'[d] = call[d]
  BY <1>1, ComesKnown DEF ResponsesInv
<1>6. toolCallOutputIndices' = Given(toolCallOutputIndices, c, 0) /\ UNCHANGED toolCallStartEmitted
  BY <1>2 DEF Responses!CompleteCall, Given
<1>7. \A d \in Calls \ {c} : toolCallOutputIndices'[d] = toolCallOutputIndices[d]
  BY <1>6, IndicesTyped DEF Given
<1>8. CallKnown(call'[c].at, kind'[c] = "hosted", c \in toolCallStartEmitted', toolCallOutputIndices'[c])
  BY <1>1, <1>5 DEF CallKnown, PartOf
<1>9. CallsKnown'
  BY <1>1, <1>5, <1>6, <1>7, <1>8, OthersKnown DEF ResponsesInv, PartOf
<1> QED  BY <1>1, <1>2, <1>3, <1>4, <1>5, <1>9, CompleteCallKeeps

LEMMA ToolResultKeeps ==
  ASSUME ResponsesInv, NEW c \in Calls, Responses!ToolResult(c) PROVE ResponsesInv'
<1>1. /\ PartOf /\ UNCHANGED reasoning /\ call[c].at = "called" /\ Responses!Comes(c, "answered")
      /\ kind[c] = "hosted"
  BY DEF Responses!ToolResult, Responses!SendResult, Responses!Part, Responses!Asked, Responses!Comes, PartOf
<1>2. Responses!CompleteCall(c, <<>>)
  BY DEF Responses!ToolResult
<1>3. <<>> = RestOf(Responses!Index(c), c, FALSE)
  BY DEF RestOf
<1>4. toolCallOutputIndices[c] # 0 <=> c \in toolCallStartEmitted
  BY <1>1 DEF ResponsesInv, CallsKnown, CallKnown
<1>5. CallsTyped' /\ call'[c].at = "answered" /\ \A d \in Calls \ {c} : call'[d] = call[d]
  BY <1>1, ComesKnown DEF ResponsesInv
<1>6. toolCallOutputIndices' = Given(toolCallOutputIndices, c, 0) /\ UNCHANGED toolCallStartEmitted
  BY <1>2 DEF Responses!CompleteCall, Given
<1>7. \A d \in Calls \ {c} : toolCallOutputIndices'[d] = toolCallOutputIndices[d]
  BY <1>6, IndicesTyped DEF Given
<1>8. CallKnown(call'[c].at, kind'[c] = "hosted", c \in toolCallStartEmitted', toolCallOutputIndices'[c])
  BY <1>5 DEF CallKnown
<1>9. CallsKnown'
  BY <1>1, <1>5, <1>6, <1>7, <1>8, OthersKnown DEF ResponsesInv, PartOf
<1> QED  BY <1>1, <1>2, <1>3, <1>4, <1>5, <1>9, CompleteCallKeeps

-----------------------------------------------------------------------------
(* The end of a response.                                                  *)

LEMMA CurrentIsNothing ==
  ASSUME NEW s, NEW n, NEW cur, NEW idx, NEW comp, ItemsKnown(s, n, cur, FALSE, FALSE, idx, comp), NEW other
  PROVE  ItemsKnown(s, n, other, FALSE, FALSE, idx, comp) /\ CallsOnly(s)
<1>1. ItemsKnown(s, n, other, FALSE, FALSE, idx, comp)
  BY DEF ItemsKnown
<1>2. \A b \in 0..MaxBlocks : b \in 1..MaxBlocks \/ b = 0
  BY PartsAssumption DEF MaxBlocks
<1>3. CallsOnly(s)
  BY <1>2 DEF ItemsKnown, CallsOnly
<1> QED  BY <1>1, <1>3

LEMMA EmitEnds ==
  ASSUME ResponsesInv, out = <<>>, upstream = "streaming", UNCHANGED <<blocks, phase>>,
         NEW events, Responses!Emit(events)
  PROVE  \E s : /\ s \in States /\ ResponseKnown(s) /\ s.phase = "open"
                /\ \A u : Plays("responses", s, events, u) => Plays("responses", Now', out', u)
<1>1. PICK t : Plays("responses", Now, out, t) /\ ResponseKnown(t) /\ ResponsePhase(t)
  BY DEF ResponsesInv
<1> DEFINE s == Phased(t, "open")
<1>2. t.phase = (IF responseStarted THEN "open" ELSE "before") /\ responseStarted \in BOOLEAN
  BY <1>1 DEF ResponsePhase, ResponsesInv, ResponsesTypes, ResponsesFlags
<1>3. ResponseKnown(s) /\ s.phase = "open" /\ s \in States
  <2>1. "open" \in Phases
    BY DEF Phases
  <2>2. ResponseKnown(s) /\ s.phase = "open"
    BY <1>1, <2>1, SamePhased DEF ResponseKnown
  <2> HIDE DEF s
  <2> QED  BY <2>2 DEF ResponseKnown, ItemsKnown
<1>4. ASSUME NEW u, Plays("responses", s, events, u) PROVE Plays("responses", Now', out', u)
  BY <1>1, <1>2, <1>4, EmitPlays
<1> HIDE DEF s
<1> QED  BY <1>3, <1>4

LEMMA FinishKeeps == ASSUME ResponsesInv, Responses!Finish PROVE ResponsesInv'
<1> DEFINE n == nextOutputIndex
           rest == CurrentLeft(reasoningItemStarted, currentOutputIndex)
           closedText == Ending(textItemStarted, rest, "text")
           all == CompletedThen(textItemStarted, Responses!ReasoningCompleted, rest, "text")
           events == Responses!ClosedReasoning \o closedText \o <<Completed>>
<1>1. /\ out = <<>> /\ upstream = "streaming" /\ upstream' = "finished"
      /\ UNCHANGED <<format, kind, blocks, phase, parts, reasoning, call>>
  BY DEF Responses!Finish, Responses!SendFinish, Responses!Ends, Responses!Asked
<1>2. /\ Responses!Emit(events) /\ completedOutput' = all
      /\ reasoningItemStarted' = FALSE /\ textItemStarted' = FALSE /\ currentOutputIndex' = 0
      /\ UNCHANGED <<nextOutputIndex, toolCallOutputIndices, toolCallStartEmitted>>
  BY DEF Responses!Finish, Responses!callVars, Responses!Completed, Completed, Responses!Signal, Signal,
         CurrentLeft, Ending, CompletedThen, Given, Responses!Done, Done
<1>3. /\ AreFlags(textItemStarted, reasoningItemStarted)
      /\ reasoningItemStarted \in BOOLEAN /\ textItemStarted \in BOOLEAN
  BY <1>1 DEF ResponsesInv, ResponsesTypes, ResponsesFlags, AreFlags
<1>4. PICK s \in States :
        /\ ResponseKnown(s) /\ s.phase = "open"
        /\ \A u : Plays("responses", s, events, u) => Plays("responses", Now', out', u)
  BY <1>1, <1>2, EmitEnds
<1>5. PICK r : /\ Plays("responses", s, Responses!ClosedReasoning, r) /\ r.phase = "open"
               /\ ItemsKnown(r, n, rest, textItemStarted, FALSE, toolCallOutputIndices,
                             Responses!ReasoningCompleted)
  BY <1>3, <1>4, ClosedReasoningPlays
<1>6. AreFlags(textItemStarted, FALSE)
  BY <1>3 DEF AreFlags
<1>7. PICK q : /\ Plays("responses", r, closedText, q) /\ q.phase = "open"
               /\ ItemsKnown(q, n, CurrentLeft(textItemStarted, rest), FALSE, FALSE,
                             toolCallOutputIndices, all)
  <2> HIDE DEF n, rest
  <2> QED  BY <1>5, <1>6, TextClosed
<1>8. ItemsKnown(q, n, 0, FALSE, FALSE, toolCallOutputIndices, all) /\ CallsOnly(q) /\ q \in States
  <2> HIDE DEF n, rest, all
  <2>1. ItemsKnown(q, n, 0, FALSE, FALSE, toolCallOutputIndices, all) /\ CallsOnly(q)
    BY <1>7, CurrentIsNothing
  <2> QED  BY <2>1 DEF ItemsKnown
<1> DEFINE u == Phased(q, "completed")
<1>9. Plays("responses", q, <<Completed>>, u)
  BY <1>7, <1>8, PlaysCompleted
<1>10. ItemsKnown(u, n, 0, FALSE, FALSE, toolCallOutputIndices, all) /\ u.phase = "completed"
  <2> HIDE DEF n, rest, all
  <2>1. "completed" \in Phases
    BY DEF Phases
  <2> QED  BY <1>8, <2>1, SamePhased
<1> HIDE DEF u
<1>11. Plays("responses", s, events, u)
  <2> HIDE DEF closedText
  <2>1. Plays("responses", s, Responses!ClosedReasoning \o closedText, q)
    BY <1>5, <1>7, PlaysMore
  <2> QED  BY <1>9, <2>1, PlaysMore
<1>12. Plays("responses", Now', out', u)
  BY <1>4, <1>11
<1> HIDE DEF events, closedText, all, rest
<1>13. ResponseKnown(u)' /\ ResponsePhase(u)'
  BY <1>1, <1>2, <1>10 DEF ResponseKnown, ResponsePhase
<1>14. ResponsesTypes'
  <2>1. ResponsesCount'
    BY <1>1, <1>2 DEF ResponsesInv, ResponsesTypes, ResponsesCount
  <2>2. ResponsesFlags'
    BY Zenon, <1>1, <1>2 DEF ResponsesInv, ResponsesTypes, ResponsesFlags, Responses!Emit
  <2> QED  BY <2>1, <2>2 DEF ResponsesTypes
<1>15. CallsTyped' /\ CallsKnown'
  BY <1>1, <1>2 DEF ResponsesInv, CallsTyped, CallsKnown
<1> QED  BY <1>12, <1>13, <1>14, <1>15 DEF ResponsesInv

LEMMA OtherKeeps == ASSUME ResponsesInv, Responses!Other PROVE ResponsesInv'
<1>1. /\ PartOf /\ Responses!Emit(<<>>)
      /\ UNCHANGED <<reasoning, call, Responses!itemVars, toolCallOutputIndices, toolCallStartEmitted>>
  BY DEF Responses!Other, Responses!SendOther, Responses!Part, Responses!Asked, Responses!callVars, PartOf
<1>2. CallsTyped' /\ CallsKnown'
  BY <1>1 DEF ResponsesInv, CallsTyped, CallsKnown, PartOf
<1> QED  BY <1>1, <1>2, NothingPlays, SameItemsKeep

(* The upstream is over: nothing but the phase is left to change.          *)
LEMMA EndKeeps ==
  ASSUME ResponsesInv, upstream' = "over", responseStarted' \in BOOLEAN,
         UNCHANGED <<format, kind, blocks, phase, parts, reasoning, call, Responses!itemVars,
                     toolCallOutputIndices, toolCallStartEmitted>>,
         NEW s, NEW p \in Phases, ResponseKnown(s), Plays("responses", Now', out', Phased(s, p))
  PROVE  ResponsesInv'
<1>1. UNCHANGED <<nextOutputIndex, currentOutputIndex, textItemStarted, reasoningItemStarted, completedOutput>>
  BY DEF Responses!itemVars
<1>2. ResponsesTypes'
  <2>1. ResponsesCount'
    BY <1>1 DEF ResponsesInv, ResponsesTypes, ResponsesCount
  <2>2. ResponsesFlags'
    BY Zenon, <1>1 DEF ResponsesInv, ResponsesTypes, ResponsesFlags
  <2> QED  BY <2>1, <2>2 DEF ResponsesTypes
<1>3. CallsTyped' /\ CallsKnown'
  BY DEF ResponsesInv, CallsTyped, CallsKnown
<1>4. ResponseKnown(Phased(s, p))
  BY SamePhased DEF ResponseKnown
<1>5. ResponseKnown(Phased(s, p))' /\ ResponsePhase(Phased(s, p))'
  BY <1>1, <1>4 DEF ResponseKnown, ResponsePhase
<1> QED  BY <1>2, <1>3, <1>5 DEF ResponsesInv

LEMMA ErrorKeeps == ASSUME ResponsesInv, Responses!Error PROVE ResponsesInv'
<1>1. /\ out = <<>> /\ upstream = "streaming" /\ upstream' = "over"
      /\ Responses!Emit(<<Failed, Closed>>)
      /\ UNCHANGED <<format, kind, blocks, phase, parts, reasoning, call, Responses!itemVars,
                     toolCallOutputIndices, toolCallStartEmitted>>
  BY DEF Responses!Error, Responses!SendError, Responses!Ends, Responses!Asked, Responses!callVars,
         Responses!Failed, Failed, Responses!Closed, Closed, Responses!Signal, Signal
<1>2. PICK s \in States :
        /\ ResponseKnown(s) /\ s.phase = "open"
        /\ \A u : Plays("responses", s, <<Failed, Closed>>, u) => Plays("responses", Now', out', u)
  BY <1>1, EmitEnds
<1>3. Plays("responses", s, <<Failed, Closed>>, Phased(s, "failed")) /\ "failed" \in Phases
  BY <1>2, PlaysFailed DEF Phases
<1>4. responseStarted' \in BOOLEAN
  BY <1>1 DEF Responses!Emit
<1> QED  BY <1>1, <1>2, <1>3, <1>4, EndKeeps

LEMMA EndsAt ==
  ASSUME ResponsesInv, out = <<>>, UNCHANGED <<blocks, phase>>, upstream \in {"streaming", "finished"}
  PROVE  \E s : /\ s \in States /\ Now' = s /\ ResponseKnown(s)
                /\ s.phase \in {"before", "open", "completed"}
<1>1. PICK s : Plays("responses", Now, out, s) /\ ResponseKnown(s) /\ ResponsePhase(s)
  BY DEF ResponsesInv
<1>2. s = Now /\ s \in States
  BY <1>1, PlaysNothing
<1>3. Now' = s
  BY <1>2 DEF Now
<1> QED  BY <1>1, <1>2, <1>3 DEF ResponsePhase

LEMMA CatchKeeps == ASSUME ResponsesInv, Responses!Catch PROVE ResponsesInv'
<1>1. /\ out = <<>> /\ upstream \in {"streaming", "finished"} /\ upstream' = "over"
      /\ out' = <<Failed, Closed>>
      /\ UNCHANGED <<format, kind, blocks, phase, parts, reasoning, call, Responses!itemVars,
                     toolCallOutputIndices, toolCallStartEmitted, responseStarted>>
  BY DEF Responses!Catch, Responses!Throw, Responses!Ends, Responses!Asked, Responses!callVars,
         Responses!rendererVars,
         Responses!Failed, Failed, Responses!Closed, Closed, Responses!Signal, Signal
<1>2. PICK s \in States : Now' = s /\ ResponseKnown(s) /\ s.phase \in {"before", "open", "completed"}
  BY <1>1, EndsAt
<1>3. Plays("responses", s, <<Failed, Closed>>, Phased(s, "failed")) /\ "failed" \in Phases
  BY <1>2, PlaysFailed DEF Phases
<1>4. responseStarted' \in BOOLEAN
  BY <1>1 DEF ResponsesInv, ResponsesTypes, ResponsesFlags
<1> QED  BY <1>1, <1>2, <1>3, <1>4, EndKeeps

LEMMA ReturnKeeps == ASSUME ResponsesInv, Responses!Return PROVE ResponsesInv'
<1>1. /\ out = <<>> /\ upstream \in {"streaming", "finished"} /\ upstream' = "over"
      /\ out' = <<Closed>>
      /\ UNCHANGED <<format, kind, blocks, phase, parts, reasoning, call, Responses!itemVars,
                     toolCallOutputIndices, toolCallStartEmitted, responseStarted>>
  BY DEF Responses!Return, Responses!EndOfStream, Responses!Ends, Responses!Asked, Responses!callVars,
         Responses!rendererVars, Responses!Closed, Closed, Responses!Signal, Signal
<1>2. PICK s \in States : Now' = s /\ ResponseKnown(s) /\ s.phase \in {"before", "open", "completed"}
  BY <1>1, EndsAt
<1> DEFINE p == IF s.phase \in {"before", "open"} THEN "truncated" ELSE s.phase
<1>3. Plays("responses", s, <<Closed>>, Phased(s, p))
  BY <1>2, PlaysClosed
<1>4. responseStarted' \in BOOLEAN /\ p \in Phases
  BY <1>1, <1>2 DEF ResponsesInv, ResponsesTypes, ResponsesFlags, Phases
<1> HIDE DEF p
<1> QED  BY <1>1, <1>2, <1>3, <1>4, EndKeeps

-----------------------------------------------------------------------------
(* The parts are the same whatever the renderer, and the client reads the  *)
(* same.                                                                   *)

LEMMA ResponsesParts ==
  /\ Responses!SendText <=> SendText
  /\ Responses!SendReasoningStart <=> SendReasoningStart
  /\ Responses!SendReasoning <=> SendReasoning
  /\ Responses!SendReasoningEnd <=> SendReasoningEnd
  /\ Responses!SendOther <=> SendOther
  /\ Responses!SendFinish <=> SendFinish
  /\ Responses!SendError <=> SendError
  /\ Responses!Throw <=> Throw
  /\ Responses!EndOfStream <=> EndOfStream
  /\ \A c : Responses!SendInput(c) <=> SendInput(c)
  /\ \A c : Responses!SendInputStart(c) <=> SendInputStart(c)
  /\ \A c : Responses!SendCall(c) <=> SendCall(c)
  /\ \A c : Responses!SendResult(c) <=> SendResult(c)
<1>1. (Responses!Asked <=> Asked) /\ (Responses!Part <=> Part)
  BY DEF Responses!Asked, Asked, Responses!Part, Part
<1>2. \A S : Responses!Cardinality(S) = Cardinality(S)
  BY DEF Responses!Cardinality, Cardinality
<1>3. \A c, status : Responses!Comes(c, status) <=> Comes(c, status)
  BY <1>2 DEF Responses!Comes, Comes
<1>4. \A from, to : Responses!Ends(from, to) <=> Ends(from, to)
  BY <1>1 DEF Responses!Ends, Ends
<1>5. /\ Responses!SendText <=> SendText
      /\ Responses!SendReasoning <=> SendReasoning
  BY <1>1 DEF Responses!SendText, SendText, Responses!SendReasoning, SendReasoning
<1>6. /\ Responses!SendReasoningStart <=> SendReasoningStart
      /\ Responses!SendReasoningEnd <=> SendReasoningEnd
      /\ Responses!SendOther <=> SendOther
  BY <1>1 DEF Responses!SendReasoningStart, SendReasoningStart, Responses!SendReasoningEnd, SendReasoningEnd,
              Responses!SendOther, SendOther
<1>7. /\ Responses!SendFinish <=> SendFinish
      /\ Responses!SendError <=> SendError
      /\ Responses!Throw <=> Throw
      /\ Responses!EndOfStream <=> EndOfStream
  BY <1>4 DEF Responses!SendFinish, SendFinish, Responses!SendError, SendError, Responses!Throw, Throw, Responses!EndOfStream, EndOfStream
<1>8. /\ \A c : Responses!SendInputStart(c) <=> SendInputStart(c)
      /\ \A c : Responses!SendCall(c) <=> SendCall(c)
      /\ \A c : Responses!SendResult(c) <=> SendResult(c)
  BY Zenon, <1>1, <1>3 DEF Responses!SendInputStart, SendInputStart, Responses!SendCall, SendCall, Responses!SendResult, SendResult
<1>9. \A c : Responses!SendInput(c) <=> SendInput(c)
  BY Zenon, <1>1 DEF Responses!SendInput, SendInput
<1> QED  BY <1>5, <1>6, <1>7, <1>8, <1>9

LEMMA AnthropicParts ==
  /\ Anthropic!SendText <=> SendText
  /\ Anthropic!SendReasoningStart <=> SendReasoningStart
  /\ Anthropic!SendReasoning <=> SendReasoning
  /\ Anthropic!SendReasoningEnd <=> SendReasoningEnd
  /\ Anthropic!SendOther <=> SendOther
  /\ Anthropic!SendFinish <=> SendFinish
  /\ Anthropic!SendError <=> SendError
  /\ Anthropic!Throw <=> Throw
  /\ Anthropic!EndOfStream <=> EndOfStream
  /\ \A c : Anthropic!SendInput(c) <=> SendInput(c)
  /\ \A c : Anthropic!SendInputStart(c) <=> SendInputStart(c)
  /\ \A c : Anthropic!SendCall(c) <=> SendCall(c)
  /\ \A c : Anthropic!SendResult(c) <=> SendResult(c)
<1>1. (Anthropic!Asked <=> Asked) /\ (Anthropic!Part <=> Part)
  BY DEF Anthropic!Asked, Asked, Anthropic!Part, Part
<1>2. \A S : Anthropic!Cardinality(S) = Cardinality(S)
  BY DEF Anthropic!Cardinality, Cardinality
<1>3. \A c, status : Anthropic!Comes(c, status) <=> Comes(c, status)
  BY <1>2 DEF Anthropic!Comes, Comes
<1>4. \A from, to : Anthropic!Ends(from, to) <=> Ends(from, to)
  BY <1>1 DEF Anthropic!Ends, Ends
<1>5. /\ Anthropic!SendText <=> SendText
      /\ Anthropic!SendReasoning <=> SendReasoning
  BY <1>1 DEF Anthropic!SendText, SendText, Anthropic!SendReasoning, SendReasoning
<1>6. /\ Anthropic!SendReasoningStart <=> SendReasoningStart
      /\ Anthropic!SendReasoningEnd <=> SendReasoningEnd
      /\ Anthropic!SendOther <=> SendOther
  BY <1>1 DEF Anthropic!SendReasoningStart, SendReasoningStart, Anthropic!SendReasoningEnd, SendReasoningEnd,
              Anthropic!SendOther, SendOther
<1>7. /\ Anthropic!SendFinish <=> SendFinish
      /\ Anthropic!SendError <=> SendError
      /\ Anthropic!Throw <=> Throw
      /\ Anthropic!EndOfStream <=> EndOfStream
  BY <1>4 DEF Anthropic!SendFinish, SendFinish, Anthropic!SendError, SendError, Anthropic!Throw, Throw, Anthropic!EndOfStream, EndOfStream
<1>8. /\ \A c : Anthropic!SendInputStart(c) <=> SendInputStart(c)
      /\ \A c : Anthropic!SendCall(c) <=> SendCall(c)
      /\ \A c : Anthropic!SendResult(c) <=> SendResult(c)
  BY Zenon, <1>1, <1>3 DEF Anthropic!SendInputStart, SendInputStart, Anthropic!SendCall, SendCall, Anthropic!SendResult, SendResult
<1>9. \A c : Anthropic!SendInput(c) <=> SendInput(c)
  BY Zenon, <1>1 DEF Anthropic!SendInput, SendInput
<1> QED  BY <1>5, <1>6, <1>7, <1>8, <1>9

LEMMA ChatParts ==
  /\ Chat!SendText <=> SendText
  /\ Chat!SendReasoningStart <=> SendReasoningStart
  /\ Chat!SendReasoning <=> SendReasoning
  /\ Chat!SendReasoningEnd <=> SendReasoningEnd
  /\ Chat!SendOther <=> SendOther
  /\ Chat!SendFinish <=> SendFinish
  /\ Chat!SendError <=> SendError
  /\ Chat!Throw <=> Throw
  /\ Chat!EndOfStream <=> EndOfStream
  /\ \A c : Chat!SendInput(c) <=> SendInput(c)
  /\ \A c : Chat!SendInputStart(c) <=> SendInputStart(c)
  /\ \A c : Chat!SendCall(c) <=> SendCall(c)
  /\ \A c : Chat!SendResult(c) <=> SendResult(c)
<1>1. (Chat!Asked <=> Asked) /\ (Chat!Part <=> Part)
  BY DEF Chat!Asked, Asked, Chat!Part, Part
<1>2. \A S : Chat!Cardinality(S) = Cardinality(S)
  BY DEF Chat!Cardinality, Cardinality
<1>3. \A c, status : Chat!Comes(c, status) <=> Comes(c, status)
  BY <1>2 DEF Chat!Comes, Comes
<1>4. \A from, to : Chat!Ends(from, to) <=> Ends(from, to)
  BY <1>1 DEF Chat!Ends, Ends
<1>5. /\ Chat!SendText <=> SendText
      /\ Chat!SendReasoning <=> SendReasoning
  BY <1>1 DEF Chat!SendText, SendText, Chat!SendReasoning, SendReasoning
<1>6. /\ Chat!SendReasoningStart <=> SendReasoningStart
      /\ Chat!SendReasoningEnd <=> SendReasoningEnd
      /\ Chat!SendOther <=> SendOther
  BY <1>1 DEF Chat!SendReasoningStart, SendReasoningStart, Chat!SendReasoningEnd, SendReasoningEnd,
              Chat!SendOther, SendOther
<1>7. /\ Chat!SendFinish <=> SendFinish
      /\ Chat!SendError <=> SendError
      /\ Chat!Throw <=> Throw
      /\ Chat!EndOfStream <=> EndOfStream
  BY <1>4 DEF Chat!SendFinish, SendFinish, Chat!SendError, SendError, Chat!Throw, Throw, Chat!EndOfStream, EndOfStream
<1>8. /\ \A c : Chat!SendInputStart(c) <=> SendInputStart(c)
      /\ \A c : Chat!SendCall(c) <=> SendCall(c)
      /\ \A c : Chat!SendResult(c) <=> SendResult(c)
  BY Zenon, <1>1, <1>3 DEF Chat!SendInputStart, SendInputStart, Chat!SendCall, SendCall, Chat!SendResult, SendResult
<1>9. \A c : Chat!SendInput(c) <=> SendInput(c)
  BY Zenon, <1>1 DEF Chat!SendInput, SendInput
<1> QED  BY <1>5, <1>6, <1>7, <1>8, <1>9

LEMMA CollectedParts ==
  /\ Collected!SendText <=> SendText
  /\ Collected!SendReasoningStart <=> SendReasoningStart
  /\ Collected!SendReasoning <=> SendReasoning
  /\ Collected!SendReasoningEnd <=> SendReasoningEnd
  /\ Collected!SendOther <=> SendOther
  /\ Collected!SendFinish <=> SendFinish
  /\ Collected!SendError <=> SendError
  /\ Collected!Throw <=> Throw
  /\ Collected!EndOfStream <=> EndOfStream
  /\ \A c : Collected!SendInput(c) <=> SendInput(c)
  /\ \A c : Collected!SendInputStart(c) <=> SendInputStart(c)
  /\ \A c : Collected!SendCall(c) <=> SendCall(c)
  /\ \A c : Collected!SendResult(c) <=> SendResult(c)
<1>1. (Collected!Asked <=> Asked) /\ (Collected!Part <=> Part)
  BY DEF Collected!Asked, Asked, Collected!Part, Part
<1>2. \A S : Collected!Cardinality(S) = Cardinality(S)
  BY DEF Collected!Cardinality, Cardinality
<1>3. \A c, status : Collected!Comes(c, status) <=> Comes(c, status)
  BY <1>2 DEF Collected!Comes, Comes
<1>4. \A from, to : Collected!Ends(from, to) <=> Ends(from, to)
  BY <1>1 DEF Collected!Ends, Ends
<1>5. /\ Collected!SendText <=> SendText
      /\ Collected!SendReasoning <=> SendReasoning
  BY <1>1 DEF Collected!SendText, SendText, Collected!SendReasoning, SendReasoning
<1>6. /\ Collected!SendReasoningStart <=> SendReasoningStart
      /\ Collected!SendReasoningEnd <=> SendReasoningEnd
      /\ Collected!SendOther <=> SendOther
  BY <1>1 DEF Collected!SendReasoningStart, SendReasoningStart, Collected!SendReasoningEnd, SendReasoningEnd,
              Collected!SendOther, SendOther
<1>7. /\ Collected!SendFinish <=> SendFinish
      /\ Collected!SendError <=> SendError
      /\ Collected!Throw <=> Throw
      /\ Collected!EndOfStream <=> EndOfStream
  BY <1>4 DEF Collected!SendFinish, SendFinish, Collected!SendError, SendError, Collected!Throw, Throw, Collected!EndOfStream, EndOfStream
<1>8. /\ \A c : Collected!SendInputStart(c) <=> SendInputStart(c)
      /\ \A c : Collected!SendCall(c) <=> SendCall(c)
      /\ \A c : Collected!SendResult(c) <=> SendResult(c)
  BY Zenon, <1>1, <1>3 DEF Collected!SendInputStart, SendInputStart, Collected!SendCall, SendCall, Collected!SendResult, SendResult
<1>9. \A c : Collected!SendInput(c) <=> SendInput(c)
  BY Zenon, <1>1 DEF Collected!SendInput, SendInput
<1> QED  BY <1>5, <1>6, <1>7, <1>8, <1>9

LEMMA StepsAreParts ==
  /\ Responses!Step => PartSent
  /\ Anthropic!Step => PartSent
  /\ Chat!Step => PartSent
  /\ Collected!Next => PartSent
<1>1. Responses!Step => PartSent
  <2>1. Responses!TextDelta => SendText
    BY ResponsesParts DEF Responses!TextDelta
  <2>2. Responses!ReasoningStart \/ Responses!ReasoningDelta \/ Responses!ReasoningEnd =>
          SendReasoningStart \/ SendReasoning \/ SendReasoningEnd
    BY ResponsesParts DEF Responses!ReasoningStart, Responses!ReasoningDelta, Responses!ReasoningEnd
  <2>3. \A c : Responses!ToolInputStart(c) \/ Responses!ToolInputDelta(c) => SendInputStart(c) \/ SendInput(c)
    BY ResponsesParts DEF Responses!ToolInputStart, Responses!ToolInputDelta
  <2>4. \A c : Responses!HostedCall(c) \/ Responses!ToolCall(c) \/ Responses!ToolResult(c) =>
          SendCall(c) \/ SendResult(c)
    BY ResponsesParts DEF Responses!HostedCall, Responses!ToolCall, Responses!ToolResult
  <2>5. Responses!Finish => SendFinish
    BY ResponsesParts DEF Responses!Finish
  <2>6. Responses!Other => SendOther
    BY ResponsesParts DEF Responses!Other
  <2>7. Responses!Error => SendError
    BY ResponsesParts DEF Responses!Error
  <2>8. Responses!Catch => Throw
    BY ResponsesParts DEF Responses!Catch
  <2>9. Responses!Return => EndOfStream
    BY ResponsesParts DEF Responses!Return
  <2> QED  BY <2>1, <2>2, <2>3, <2>4, <2>5, <2>6, <2>7, <2>8, <2>9 DEF Responses!Step, PartSent
<1>2. Anthropic!Step => PartSent
  <2>1. Anthropic!TextDelta => SendText
    BY AnthropicParts DEF Anthropic!TextDelta
  <2>2. Anthropic!Ignored =>
          \/ SendReasoningStart \/ SendReasoning \/ SendReasoningEnd \/ SendOther
          \/ \E c \in Calls : SendResult(c)
    BY AnthropicParts DEF Anthropic!Ignored, Anthropic!Skip
  <2>3. \A c : Anthropic!ToolInputStart(c) \/ Anthropic!ToolInputDelta(c) => SendInputStart(c) \/ SendInput(c)
    BY AnthropicParts DEF Anthropic!ToolInputStart, Anthropic!ToolInputDelta
  <2>4. \A c : Anthropic!ToolCall(c) => SendCall(c)
    BY AnthropicParts DEF Anthropic!ToolCall
  <2>5. Anthropic!Finish => SendFinish
    BY AnthropicParts DEF Anthropic!Finish
  <2>6. Anthropic!TerminalError => SendError \/ Throw \/ EndOfStream
    BY AnthropicParts DEF Anthropic!TerminalError
  <2>7. Anthropic!Return => EndOfStream
    BY AnthropicParts DEF Anthropic!Return
  <2> QED  BY <2>1, <2>2, <2>3, <2>4, <2>5, <2>6, <2>7 DEF Anthropic!Step, PartSent
<1>3. Chat!Step => PartSent
  <2>1. \A c : Chat!ToolInputStart(c) \/ Chat!ToolInputDelta(c) => SendInputStart(c) \/ SendInput(c)
    BY ChatParts DEF Chat!ToolInputStart, Chat!ToolInputDelta
  <2>2. \A c : Chat!ToolCall(c) => SendCall(c)
    BY ChatParts DEF Chat!ToolCall
  <2>3. Chat!Unindexed =>
          \/ SendText \/ SendReasoning \/ SendReasoningStart \/ SendReasoningEnd \/ SendOther
          \/ \E c \in Calls : SendResult(c)
    BY ChatParts DEF Chat!Unindexed
  <2>4. Chat!Finish \/ Chat!Error \/ Chat!Return => SendFinish \/ SendError \/ Throw \/ EndOfStream
    BY ChatParts DEF Chat!Finish, Chat!Error, Chat!Return
  <2> QED  BY <2>1, <2>2, <2>3, <2>4 DEF Chat!Step, PartSent
<1>4. Collected!Next => PartSent
  <2>1. Collected!TextDelta \/ Collected!ReasoningDelta => SendText \/ SendReasoning
    BY CollectedParts DEF Collected!TextDelta, Collected!ReasoningDelta
  <2>2. \A c : Collected!ToolCall(c) => SendCall(c)
    BY CollectedParts DEF Collected!ToolCall
  <2>3. Collected!Ignored =>
          \/ SendReasoningStart \/ SendReasoningEnd \/ SendOther
          \/ \E c \in Calls : SendInputStart(c) \/ SendInput(c) \/ SendResult(c)
    BY CollectedParts DEF Collected!Ignored
  <2>4. Collected!Finish \/ Collected!Release \/ Collected!Fails =>
          SendFinish \/ SendError \/ Throw \/ EndOfStream
    BY CollectedParts DEF Collected!Finish, Collected!Release, Collected!Fails
  <2> QED  BY <2>1, <2>2, <2>3, <2>4 DEF Collected!Next, PartSent
<1> QED  BY <1>1, <1>2, <1>3, <1>4

LEMMA PartsAreSilent == PartSent => UNCHANGED <<format, kind, blocks, phase>>
BY DEF PartSent, SendText, SendReasoningStart, SendReasoning, SendReasoningEnd, SendInputStart, SendInput, SendCall,
   SendResult, SendOther, SendFinish, SendError, Throw, EndOfStream, Part, Ends, Asked

LEMMA ReadsTheSame ==
  /\ Responses!Read => Read
  /\ Anthropic!Read => Read
  /\ Chat!Read => Read
<1>1. \A b, e, status : /\ Responses!Fits(b, e, status) = Fits(b, e, status)
                         /\ Anthropic!Fits(b, e, status) = Fits(b, e, status)
                         /\ Chat!Fits(b, e, status) = Fits(b, e, status)
  BY Zenon DEF Responses!Fits, Anthropic!Fits, Chat!Fits, Fits
<1>2. \A b, e : /\ Responses!Opened(b, e) = Opened(b, e)
                /\ Anthropic!Opened(b, e) = Opened(b, e)
                /\ Chat!Opened(b, e) = Opened(b, e)
  BY Zenon DEF Responses!Opened, Anthropic!Opened, Chat!Opened, Opened,
         Responses!Nothing, Anthropic!Nothing, Chat!Nothing, Nothing
<1>3. \A b, e : /\ Responses!Named(b, e) = Named(b, e)
                /\ Anthropic!Named(b, e) = Named(b, e)
                /\ Chat!Named(b, e) = Named(b, e)
  BY Zenon, <1>2 DEF Responses!Named, Anthropic!Named, Chat!Named, Named
<1>4. \A b, e : Responses!SeenBlock(b, e) = SeenBlock(b, e)
  BY Zenon, <1>1, <1>2, <1>3 DEF Responses!SeenBlock, SeenBlock
<1>5. \A b, e : Anthropic!SeenBlock(b, e) = SeenBlock(b, e)
  BY Zenon, <1>1, <1>2, <1>3 DEF Anthropic!SeenBlock, SeenBlock
<1>6. \A b, e : Chat!SeenBlock(b, e) = SeenBlock(b, e)
  BY Zenon, <1>1, <1>2, <1>3 DEF Chat!SeenBlock, SeenBlock
<1>7. \A e : /\ Responses!SeenPhase(e) = SeenPhase(e)
             /\ Anthropic!SeenPhase(e) = SeenPhase(e)
             /\ Chat!SeenPhase(e) = SeenPhase(e)
  BY Zenon DEF Responses!SeenPhase, Anthropic!SeenPhase, Chat!SeenPhase, SeenPhase
<1>8. /\ Responses!upstreamVars = upstreamVars
      /\ Anthropic!upstreamVars = upstreamVars
      /\ Chat!upstreamVars = upstreamVars
  BY DEF Responses!upstreamVars, Anthropic!upstreamVars, Chat!upstreamVars, upstreamVars
<1> QED
  BY <1>7, <1>8, <1>4, <1>5, <1>6 DEF Responses!Read, Anthropic!Read, Chat!Read, Read, Responses!upstreamVars,
     Anthropic!upstreamVars, Chat!upstreamVars, upstreamVars

LEMMA ResponsesReadKeeps ==
  ASSUME ResponsesInv, format = "responses", Read,
         UNCHANGED <<Responses!itemVars, toolCallOutputIndices, toolCallStartEmitted, responseStarted>>
  PROVE  ResponsesInv' /\ (Client!Next \/ UNCHANGED Client!vars)
<1>1. PICK u : Plays("responses", Now, out, u) /\ ResponseKnown(u) /\ ResponsePhase(u)
  BY DEF ResponsesInv
<1>2. Plays("responses", Now', out', u) /\ (Client!Next \/ UNCHANGED Client!vars)
  BY <1>1, ReadsOn
<1>3. /\ UNCHANGED <<format, kind, parts, reasoning, call, upstream>>
      /\ UNCHANGED <<nextOutputIndex, currentOutputIndex, textItemStarted, reasoningItemStarted,
                     completedOutput, toolCallOutputIndices, toolCallStartEmitted, responseStarted>>
  BY DEF Read, upstreamVars, Responses!itemVars
<1>4. ResponseKnown(u)' /\ ResponsePhase(u)'
  BY <1>1, <1>3 DEF ResponseKnown, ResponsePhase
<1>5. ResponsesTypes'
  <2>1. ResponsesCount'
    BY <1>3 DEF ResponsesInv, ResponsesTypes, ResponsesCount
  <2>2. ResponsesFlags'
    BY Zenon, <1>3 DEF ResponsesInv, ResponsesTypes, ResponsesFlags
  <2> QED  BY <2>1, <2>2 DEF ResponsesTypes
<1>6. CallsTyped' /\ CallsKnown'
  BY <1>3 DEF ResponsesInv, CallsTyped, CallsKnown
<1> QED  BY <1>2, <1>4, <1>5, <1>6 DEF ResponsesInv

LEMMA ResponsesSteps ==
  ASSUME ResponsesInv, format = "responses", Responses!Next
  PROVE  ResponsesInv' /\ (Client!Next \/ UNCHANGED Client!vars) /\ format' = format
<1>1. CASE Responses!Read /\ UNCHANGED Responses!rendererVars
  <2>1. /\ Read /\ UNCHANGED <<Responses!itemVars, toolCallOutputIndices, toolCallStartEmitted, responseStarted>>
        /\ UNCHANGED format
    BY <1>1, ReadsTheSame DEF Responses!rendererVars, Responses!callVars, Read, upstreamVars
  <2> QED  BY <2>1, ResponsesReadKeeps
<1>2. CASE Responses!Step
  <2>1. ResponsesInv'
    BY <1>2, TextDeltaKeeps, ReasoningStartKeeps, ReasoningDeltaKeeps, ReasoningEndKeeps,
       ToolInputStartKeeps, ToolInputDeltaKeeps, HostedCallKeeps, ToolCallKeeps, ToolResultKeeps,
       FinishKeeps, OtherKeeps, ErrorKeeps, CatchKeeps, ReturnKeeps
       DEF Responses!Step
  <2>2. UNCHANGED <<format, blocks, phase>>
    BY <1>2, StepsAreParts, PartsAreSilent
  <2> QED  BY <2>1, <2>2 DEF Client!vars
<1> QED  BY <1>1, <1>2 DEF Responses!Next

LEMMA ResponsesInitially ==
  ASSUME StreamInit, Responses!RendererInit, format = "responses"
  PROVE  ResponsesInv
<1>1. /\ parts = 0 /\ reasoning = FALSE /\ upstream = "streaming" /\ out = <<>>
      /\ call = [c \in Calls |-> [at |-> "none", pieces |-> 0, place |-> 0]]
      /\ blocks = [b \in 0..MaxBlocks |-> Nothing] /\ phase = "before"
  BY DEF StreamInit
<1>2. /\ responseStarted = FALSE /\ nextOutputIndex = 1 /\ currentOutputIndex = 0
      /\ textItemStarted = FALSE /\ reasoningItemStarted = FALSE
      /\ completedOutput = [b \in 0..MaxBlocks |-> "none"]
      /\ toolCallOutputIndices = [c \in Calls |-> 0] /\ toolCallStartEmitted = {}
  BY DEF Responses!RendererInit, Responses!MaxBlocks, MaxBlocks
<1>3. ResponsesTypes
  <2>1. ResponsesCount
    BY <1>1, <1>2, PartsAssumption DEF ResponsesCount
  <2>2. ResponsesFlags
    BY Zenon, <1>1, <1>2 DEF ResponsesFlags
  <2> QED  BY <2>1, <2>2 DEF ResponsesTypes
<1>4. CallsTyped
  <2> DEFINE r == [at |-> "none", pieces |-> 0, place |-> 0]
  <2>1. r \in CallIn({"none", 0})
    BY DEF CallIn
  <2>2. IsCall(r)
    BY <2>1 DEF IsCall
  <2>3. call = [c \in Calls |-> r]
    BY <1>1
  <2> HIDE DEF r
  <2> QED  BY <2>2, <2>3 DEF CallsTyped
<1>5. CallsKnown
  BY <1>1, <1>2 DEF CallsKnown, CallKnown
<1>6. Nothing \in Blocks /\ Nothing.status = "none"
  BY DEF Nothing, Blocks, Statuses
<1>7. Now \in States /\ Now.phase = "before" /\ \A b \in 0..MaxBlocks : Now.blocks[b].status = "none"
  BY <1>1, <1>6 DEF Now, States, Phases
<1>8. /\ \A b \in 1..MaxBlocks : b \in 0..MaxBlocks /\ ~(b < 1)
      /\ 0 \in 0..MaxBlocks
  BY PartsAssumption DEF MaxBlocks
<1>9. ResponseKnown(Now)
  <2> DEFINE s == Now
  <2>1. s \in States /\ s.phase = "before" /\ \A b \in 0..MaxBlocks : s.blocks[b].status = "none"
    BY <1>7
  <2> HIDE DEF s
  <2>2. ResponseKnown(s)
    BY <1>2, <1>8, <2>1 DEF ResponseKnown, ItemsKnown
  <2> QED  BY <2>2 DEF s
<1>10. Plays("responses", Now, out, Now)
  BY <1>1, <1>7, PlaysNone
<1>11. ResponsePhase(Now)
  BY <1>1, <1>2, <1>7 DEF ResponsePhase
<1> QED  BY <1>3, <1>4, <1>5, <1>9, <1>10, <1>11 DEF ResponsesInv

-----------------------------------------------------------------------------
(* The blocks of a message (AnthropicRenderer).  What the renderer knows   *)
(* of the client's blocks: how many there are, and whether the last one is *)
(* open.                                                                   *)

LEMMA MessagePut ==
  ASSUME NEW s, NEW current, NEW b \in 1..MaxBlocks, MessageBlocks(s, current),
         \A d \in 0..MaxBlocks : s.blocks[d].status = "open" => d = b,
         b = current \/ b = current + 1,
         NEW v, NEW status, NEW x, IsBlock(v, status, x), status \in {"open", "closed"}
  PROVE  /\ MessageBlocks(Put(s, b, v), b) /\ Put(s, b, v).phase = s.phase
         /\ status = "open" => MessageOpen(Put(s, b, v), b, x)
         /\ status = "closed" => MessageClosed(Put(s, b, v), b)
<1> DEFINE t == Put(s, b, v)
<1>1. /\ t \in States /\ t.phase = s.phase /\ t.blocks[b] = v
      /\ \A d \in 0..MaxBlocks : d # b => t.blocks[d] = s.blocks[d]
  <2>1. IsPut(t, s, b, v)
    BY PutIs DEF IsBlock, MessageBlocks
  <2> QED  BY <2>1 DEF IsPut
<1> HIDE DEF t
<1>2. /\ b \in 0..MaxBlocks /\ b # 0 /\ b \in Nat /\ current \in Nat /\ 0 \in 0..MaxBlocks
      /\ \A d \in 1..MaxBlocks : d \in 0..MaxBlocks /\ d \in Nat
  BY PartsAssumption DEF MaxBlocks, MessageBlocks
<1>3. ASSUME NEW d \in 1..MaxBlocks PROVE t.blocks[d].status # "none" <=> d <= b
  <2>1. CASE d = b
    BY <1>1, <1>2, <2>1 DEF IsBlock
  <2>2. CASE d # b
    <3>1. d <= b <=> d <= current
      BY <1>2, <2>2
    <3> QED  BY <1>1, <1>2, <2>2, <3>1 DEF MessageBlocks
  <2> QED  BY <2>1, <2>2
<1>4. MessageBlocks(t, b)
  BY <1>1, <1>2, <1>3 DEF MessageBlocks
<1>5. \A d \in 0..MaxBlocks : t.blocks[d].status = "open" => d = b
  BY <1>1
<1>6. status = "open" => MessageOpen(t, b, x)
  BY <1>1, <1>2, <1>4, <1>5 DEF MessageOpen, IsOpen, IsBlock
<1>7. status = "closed" => MessageClosed(t, b)
  BY <1>1, <1>4, <1>5 DEF MessageClosed, AllClosed, IsBlock
<1> QED  BY <1>1, <1>4, <1>6, <1>7 DEF t

LEMMA BlockAdded ==
  ASSUME NEW s, NEW b \in 1..MaxBlocks, MessageClosed(s, b - 1), s.phase = "open", NEW x \in Subjects
  PROVE  \E u : Plays("anthropic", s, <<Added(b, x)>>, u) /\ MessageOpen(u, b, x) /\ u.phase = "open"
<1>1. /\ s \in States /\ b = (b - 1) + 1 /\ b \in 0..MaxBlocks /\ b - 1 \in Nat
      /\ \A d \in 1..(b - 1) : d \in 1..MaxBlocks /\ d <= b - 1
      /\ ~(b <= b - 1)
  BY PartsAssumption DEF MessageClosed, MessageBlocks, MaxBlocks
<1>2. CanOpen("anthropic", s, b)
  BY <1>1 DEF CanOpen, MessageClosed, MessageBlocks
<1>3. Plays("anthropic", s, <<Added(b, x)>>, Put(s, b, New(x, 0)))
  BY <1>1, <1>2, PlaysAdded
<1>4. IsBlock(New(x, 0), "open", x)
  BY <1>1, BlocksAre DEF Statuses
<1>5. \A d \in 0..MaxBlocks : s.blocks[d].status = "open" => d = b
  BY DEF MessageClosed, AllClosed
<1>6. MessageOpen(Put(s, b, New(x, 0)), b, x) /\ Put(s, b, New(x, 0)).phase = s.phase
  BY <1>1, <1>4, <1>5, MessagePut DEF MessageClosed
<1> QED  BY <1>3, <1>6

LEMMA MessageCurrent ==
  ASSUME NEW s, NEW b \in 1..MaxBlocks, NEW x \in Subjects, MessageOpen(s, b, x)
  PROVE  /\ s \in States /\ IsOpen(s, b, x) /\ MessageBlocks(s, b)
         /\ \A d \in 0..MaxBlocks : s.blocks[d].status = "open" => d = b
         /\ IsBlock(MorePieces(s.blocks[b]), "open", x)
         /\ IsBlock(MoreWhole(s.blocks[b]), "open", x)
         /\ IsBlock(Shut(s.blocks[b]), "closed", x)
<1>1. s \in States /\ IsOpen(s, b, x)
  BY DEF MessageOpen, MessageBlocks
<1>2. IsBlock(s.blocks[b], "open", x)
  BY <1>1, BlocksAre DEF IsBlock, IsOpen, Statuses
<1> QED  BY <1>1, <1>2, BlocksAre DEF MessageOpen, Statuses

LEMMA BlockFilled ==
  ASSUME NEW s, NEW b \in 1..MaxBlocks, NEW x \in Subjects, MessageOpen(s, b, x), s.phase = "open"
  PROVE  /\ \E u : Plays("anthropic", s, <<Piece(b, x)>>, u) /\ MessageOpen(u, b, x) /\ u.phase = "open"
         /\ \E u : Plays("anthropic", s, <<Whole(b, x)>>, u) /\ MessageOpen(u, b, x) /\ u.phase = "open"
<1>1. /\ Plays("anthropic", s, <<Piece(b, x)>>, Put(s, b, MorePieces(s.blocks[b])))
      /\ Plays("anthropic", s, <<Whole(b, x)>>, Put(s, b, MoreWhole(s.blocks[b])))
  BY MessageCurrent, PlaysPiece, PlaysWhole
<1>2. /\ MessageOpen(Put(s, b, MorePieces(s.blocks[b])), b, x)
      /\ Put(s, b, MorePieces(s.blocks[b])).phase = s.phase
  BY MessageCurrent, MessagePut
<1>3. /\ MessageOpen(Put(s, b, MoreWhole(s.blocks[b])), b, x)
      /\ Put(s, b, MoreWhole(s.blocks[b])).phase = s.phase
  BY MessageCurrent, MessagePut
<1> QED  BY <1>1, <1>2, <1>3

LEMMA BlockShut ==
  ASSUME NEW s, NEW b \in 1..MaxBlocks, NEW x \in Subjects, MessageOpen(s, b, x), s.phase = "open"
  PROVE  \E u : Plays("anthropic", s, <<Done(b, x)>>, u) /\ MessageClosed(u, b) /\ u.phase = "open"
<1>1. Plays("anthropic", s, <<Done(b, x)>>, Put(s, b, Shut(s.blocks[b])))
  BY MessageCurrent, PlaysDone
<1>2. /\ MessageClosed(Put(s, b, Shut(s.blocks[b])), b)
      /\ Put(s, b, Shut(s.blocks[b])).phase = s.phase
  BY MessageCurrent, MessagePut
<1> QED  BY <1>1, <1>2

LEMMA CallPieces ==
  ASSUME NEW s, NEW b \in 1..MaxBlocks, NEW x \in Subjects, MessageOpen(s, b, x), s.phase = "open",
         NEW k \in Nat
  PROVE  \E u : Plays("anthropic", s, Pieces(k, b, x), u) /\ MessageOpen(u, b, x) /\ u.phase = "open"
<1> DEFINE S == {i \in Nat : \E u : /\ Plays("anthropic", s, Pieces(i, b, x), u)
                                    /\ MessageOpen(u, b, x) /\ u.phase = "open"}
<1>1. 0 \in S
  <2>1. Pieces(0, b, x) = <<>>
    BY Repeated DEF Pieces
  <2>2. Plays("anthropic", s, <<>>, s)
    BY PlaysNone, MessageCurrent
  <2> QED  BY <2>1, <2>2
<1>2. ASSUME NEW i \in Nat, i \in S PROVE i + 1 \in S
  <2>1. PICK t : Plays("anthropic", s, Pieces(i, b, x), t) /\ MessageOpen(t, b, x) /\ t.phase = "open"
    BY <1>2
  <2>2. PICK u : Plays("anthropic", t, <<Piece(b, x)>>, u) /\ MessageOpen(u, b, x) /\ u.phase = "open"
    BY <2>1, BlockFilled
  <2>3. Pieces(i + 1, b, x) = Pieces(i, b, x) \o <<Piece(b, x)>>
    BY LastRepeated DEF Pieces
  <2>4. Plays("anthropic", s, Pieces(i + 1, b, x), u)
    BY <2>1, <2>2, <2>3, PlaysMore
  <2> QED  BY <2>2, <2>4
<1>3. Nat \subseteq S
  <2> HIDE DEF S
  <2> QED  BY <1>1, <1>2, Induction
<1> QED  BY <1>3

LEMMA CallWholes ==
  ASSUME NEW s, NEW b \in 1..MaxBlocks, NEW x \in Subjects, MessageOpen(s, b, x), s.phase = "open",
         NEW k \in Nat
  PROVE  \E u : Plays("anthropic", s, Wholes(k, b, x), u) /\ MessageOpen(u, b, x) /\ u.phase = "open"
<1> DEFINE S == {i \in Nat : \E u : /\ Plays("anthropic", s, Wholes(i, b, x), u)
                                    /\ MessageOpen(u, b, x) /\ u.phase = "open"}
<1>1. 0 \in S
  <2>1. Wholes(0, b, x) = <<>>
    BY Repeated DEF Wholes
  <2>2. Plays("anthropic", s, <<>>, s)
    BY PlaysNone, MessageCurrent
  <2> QED  BY <2>1, <2>2
<1>2. ASSUME NEW i \in Nat, i \in S PROVE i + 1 \in S
  <2>1. PICK t : Plays("anthropic", s, Wholes(i, b, x), t) /\ MessageOpen(t, b, x) /\ t.phase = "open"
    BY <1>2
  <2>2. PICK u : Plays("anthropic", t, <<Whole(b, x)>>, u) /\ MessageOpen(u, b, x) /\ u.phase = "open"
    BY <2>1, BlockFilled
  <2>3. Wholes(i + 1, b, x) = Wholes(i, b, x) \o <<Whole(b, x)>>
    BY LastRepeated DEF Wholes
  <2>4. Plays("anthropic", s, Wholes(i + 1, b, x), u)
    BY <2>1, <2>2, <2>3, PlaysMore
  <2> QED  BY <2>2, <2>4
<1>3. Nat \subseteq S
  <2> HIDE DEF S
  <2> QED  BY <1>1, <1>2, Induction
<1> QED  BY <1>3

LEMMA CallBlockPlays ==
  ASSUME NEW s, NEW b \in 1..MaxBlocks, MessageClosed(s, b - 1), s.phase = "open", NEW p \in Pendings
  PROVE  \E u : /\ Plays("anthropic", s, Anthropic!CallBlock(p, b), u)
                /\ MessageClosed(u, b) /\ u.phase = "open"
<1> DEFINE x == p.id
           k == p.deltas
           m == p.whole
<1>1. x \in Subjects /\ k \in Nat /\ m \in Nat
  BY SubjectsAre DEF Pendings
<1>2. Anthropic!CallBlock(p, b) = <<Added(b, x)>> \o Pieces(k, b, x) \o Wholes(m, b, x) \o <<Done(b, x)>>
  BY DEF Anthropic!CallBlock, Anthropic!Added, Anthropic!Piece, Anthropic!Whole, Anthropic!Done,
         Added, Piece, Whole, Done, Pieces, Wholes
<1> HIDE DEF x, k, m
<1>3. PICK t : Plays("anthropic", s, <<Added(b, x)>>, t) /\ MessageOpen(t, b, x) /\ t.phase = "open"
  BY <1>1, BlockAdded
<1>4. PICK r : Plays("anthropic", t, Pieces(k, b, x), r) /\ MessageOpen(r, b, x) /\ r.phase = "open"
  BY <1>1, <1>3, CallPieces
<1>5. PICK v : Plays("anthropic", r, Wholes(m, b, x), v) /\ MessageOpen(v, b, x) /\ v.phase = "open"
  BY <1>1, <1>4, CallWholes
<1>6. PICK u : Plays("anthropic", v, <<Done(b, x)>>, u) /\ MessageClosed(u, b) /\ u.phase = "open"
  BY <1>1, <1>5, BlockShut
<1>7. Plays("anthropic", s, <<Added(b, x)>> \o Pieces(k, b, x), r)
  BY <1>3, <1>4, PlaysMore
<1>8. Plays("anthropic", s, <<Added(b, x)>> \o Pieces(k, b, x) \o Wholes(m, b, x), v)
  BY <1>5, <1>7, PlaysMore
<1>9. Plays("anthropic", s, <<Added(b, x)>> \o Pieces(k, b, x) \o Wholes(m, b, x) \o <<Done(b, x)>>, u)
  BY <1>6, <1>8, PlaysMore
<1> QED  BY <1>2, <1>6, <1>9

(* emitPendingToolCalls: the blocks of the first n calls that wait.        *)
LEMMA BlocksAreConcatenated ==
  ASSUME NEW k \in Nat, NEW V, NEW p \in [1..k -> Seq(V)], NEW c, Concatenates(c, p, k, V)
  PROVE  Anthropic!FlattenSeq(p) = c[k]
<1>1. Len(p) = k
  OBVIOUS
<1>2. CASE k = 0
  <2>1. Anthropic!FlattenSeq(p) = p
    BY <1>1, <1>2 DEF Anthropic!FlattenSeq
  <2>2. p = <<>>
    BY <1>2
  <2> QED  BY <1>2, <2>1, <2>2 DEF Concatenates
<1>3. CASE k # 0
  <2>1. Anthropic!FlattenSeq(p) = Flattened(p, k)
    BY <1>1, <1>3 DEF Anthropic!FlattenSeq, Flattened
  <2>2. Flattened(p, k) = c[k]
    BY <1>3, FlattenedIs
  <2> QED  BY <2>1, <2>2
<1> QED  BY <1>2, <1>3

LEMMA BlockEventsAre ==
  ASSUME NEW b \in 1..MaxBlocks, NEW x \in Subjects
  PROVE  EventsOf(b, x) \subseteq Events
<1>1. <<b, x>> \in (1..MaxBlocks) \X Subjects /\ <<b, x>>[1] = b /\ <<b, x>>[2] = x
  OBVIOUS
<1>2. \A e \in EventsOf(b, x) : \E p \in (1..MaxBlocks) \X Subjects : e \in EventsOf(p[1], p[2])
  BY <1>1
<1> QED  BY <1>2 DEF Events

LEMMA CallBlockEvents ==
  ASSUME NEW b \in 1..MaxBlocks, NEW p \in Pendings
  PROVE  Anthropic!CallBlock(p, b) \in Seq(Events)
<1> DEFINE x == p.id
           k == p.deltas
           m == p.whole
<1>1. x \in Subjects /\ k \in Nat /\ m \in Nat
  BY SubjectsAre DEF Pendings
<1>2. Anthropic!CallBlock(p, b) = <<Added(b, x)>> \o Pieces(k, b, x) \o Wholes(m, b, x) \o <<Done(b, x)>>
  BY DEF Anthropic!CallBlock, Anthropic!Added, Anthropic!Piece, Anthropic!Whole, Anthropic!Done,
         Added, Piece, Whole, Done, Pieces, Wholes
<1> HIDE DEF x, k, m
<1>3. Added(b, x) \in Events /\ Piece(b, x) \in Events /\ Whole(b, x) \in Events /\ Done(b, x) \in Events
  BY <1>1, BlockEventsAre DEF EventsOf
<1>4. Pieces(k, b, x) \in Seq(Events) /\ Wholes(m, b, x) \in Seq(Events)
  BY <1>1, <1>3 DEF Pieces, Wholes
<1>5. <<Added(b, x)>> \in Seq(Events) /\ <<Done(b, x)>> \in Seq(Events)
  BY <1>3
<1> QED  BY <1>2, <1>4, <1>5

LEMMA BlocksPlay ==
  ASSUME NEW s, currentBlockIndex \in Nat, MessageClosed(s, currentBlockIndex), s.phase = "open",
         NEW pending \in Seq(Pendings), NEW n \in 0..Len(pending), currentBlockIndex + n <= MaxBlocks
  PROVE  \E u : /\ Plays("anthropic", s, Anthropic!Blocks(pending, n), u)
                /\ MessageClosed(u, currentBlockIndex + n) /\ u.phase = "open"
<1> DEFINE cur == currentBlockIndex
           p == [i \in 1..n |-> Anthropic!CallBlock(pending[i], cur + i)]
<1>1. n \in Nat /\ cur \in Nat /\ MaxBlocks \in Nat
  BY PartsAssumption DEF MaxBlocks
<1>2. \A i \in 1..n : pending[i] \in Pendings /\ cur + i \in 1..MaxBlocks
  BY <1>1
<1>3. p \in [1..n -> Seq(Events)]
  BY <1>2, CallBlockEvents
<1>4. Anthropic!Blocks(pending, n) = Anthropic!FlattenSeq(p)
  BY DEF Anthropic!Blocks
<1>5. \A i \in 1..n : p[i] = Anthropic!CallBlock(pending[i], cur + i)
  OBVIOUS
<1> HIDE DEF p, cur
<1>6. PICK c : Concatenates(c, p, n, Events)
  BY <1>1, <1>3, Concatenation
<1> DEFINE S == {i \in 0..n : \E u : /\ Plays("anthropic", s, c[i], u)
                                     /\ MessageClosed(u, cur + i) /\ u.phase = "open"}
<1>7. 0 \in S
  <2>1. c[0] = <<>> /\ cur + 0 = cur /\ 0 \in 0..n
    BY <1>1, <1>6 DEF Concatenates
  <2>2. Plays("anthropic", s, <<>>, s)
    BY PlaysNone DEF MessageClosed, MessageBlocks
  <2>3. MessageClosed(s, cur) /\ s.phase = "open"
    BY DEF cur
  <2> QED  BY <2>1, <2>2, <2>3
<1>8. ASSUME NEW i \in 0..n, i \in S, i < n PROVE i + 1 \in S
  <2>1. PICK t : Plays("anthropic", s, c[i], t) /\ MessageClosed(t, cur + i) /\ t.phase = "open"
    BY <1>8
  <2> DEFINE j == i + 1
             b == cur + j
  <2>2. j \in 1..n /\ j - 1 = i /\ b - 1 = cur + i /\ j \in 0..n
    BY <1>1, <1>8
  <2>3. c[j] = c[i] \o p[j] /\ p[j] = Anthropic!CallBlock(pending[j], b)
    BY <1>5, <1>6, <2>2 DEF Concatenates
  <2>4. pending[j] \in Pendings /\ b \in 1..MaxBlocks
    BY <1>2, <2>2
  <2>5. MessageClosed(t, b - 1)
    BY <2>1, <2>2
  <2> HIDE DEF b
  <2>6. PICK u : /\ Plays("anthropic", t, Anthropic!CallBlock(pending[j], b), u)
                 /\ MessageClosed(u, b) /\ u.phase = "open"
    BY <2>1, <2>4, <2>5, CallBlockPlays
  <2>7. Plays("anthropic", s, c[j], u)
    BY <2>1, <2>3, <2>6, PlaysMore
  <2> QED  BY <2>2, <2>6, <2>7 DEF b
<1>9. 0..n \subseteq S
  <2> HIDE DEF S
  <2> QED  BY <1>1, <1>7, <1>8, BoundedInduction
<1>10. n \in S
  BY <1>1, <1>9
<1>11. Anthropic!FlattenSeq(p) = c[n]
  BY <1>1, <1>3, <1>6, BlocksAreConcatenated
<1> QED  BY <1>4, <1>10, <1>11 DEF cur

-----------------------------------------------------------------------------
(* The invariant of the Anthropic renderer.  A block waits for each call   *)
(* that is queued.                                                         *)

LEMMA MessagePhased ==
  ASSUME NEW s, NEW current, NEW type, MessageKnown(s, current, type), NEW p \in Phases
  PROVE  MessageKnown(Phased(s, p), current, type) /\ Phased(s, p) \in States /\ Phased(s, p).phase = p
<1> DEFINE t == Phased(s, p)
<1>1. s \in States
  BY DEF MessageKnown, MessageOpen, MessageClosed, MessageBlocks
<1>2. t \in States /\ t.blocks = s.blocks /\ t.phase = p
  BY <1>1 DEF Phased, States
<1> HIDE DEF t
<1>3. MessageKnown(t, current, type)
  BY <1>2 DEF MessageKnown, MessageOpen, MessageClosed, MessageBlocks, AllClosed, IsOpen
<1> QED  BY <1>2, <1>3 DEF t

LEMMA MessageEmits ==
  ASSUME NEW t, NEW events, NEW u,
         Plays("anthropic", Now, out, t), out = <<>>, UNCHANGED <<blocks, phase>>,
         t.phase = IF messageStarted THEN "open" ELSE "before", messageStarted \in BOOLEAN,
         Anthropic!Emit(events), Plays("anthropic", Phased(t, "open"), events, u)
  PROVE  Plays("anthropic", Now', out', u) /\ messageStarted' = TRUE
<1>1. t = Now /\ t \in States
  BY PlaysNothing
<1>2. Now' = t
  BY <1>1 DEF Now
<1>3. messageStarted' = TRUE /\ out' = IF messageStarted THEN events ELSE <<Created>> \o events
  BY DEF Anthropic!Emit, Anthropic!Created, Anthropic!Signal, Created, Signal
<1>4. CASE messageStarted
  <2>1. Phased(t, "open") = t
    BY <1>1, <1>4 DEF Phased, Now
  <2> QED  BY <1>2, <1>3, <1>4, <2>1
<1>5. CASE ~messageStarted
  <2>1. Plays("anthropic", t, <<Created>>, Phased(t, "open"))
    BY <1>1, <1>5, PlaysCreated
  <2>2. Plays("anthropic", t, <<Created>> \o events, u)
    BY <2>1, PlaysMore
  <2> QED  BY <1>2, <1>3, <1>5, <2>2
<1> QED  BY <1>4, <1>5

(* emitBlockStop.                                                          *)
LEMMA BlockStopPlays ==
  ASSUME NEW s, MessageKnown(s, currentBlockIndex, currentBlockType), s.phase = "open",
         currentBlockType \in {"text", "none"}
  PROVE  \E u : /\ Plays("anthropic", s, Anthropic!BlockStop, u)
                /\ MessageClosed(u, currentBlockIndex) /\ u.phase = "open"
<1>1. CASE currentBlockType = "text"
  <2>1. MessageOpen(s, currentBlockIndex, "text") /\ currentBlockIndex \in 1..MaxBlocks
    BY <1>1, PartsAssumption DEF MessageKnown, MessageOpen, MessageBlocks, MaxBlocks
  <2>2. Anthropic!BlockStop = <<Done(currentBlockIndex, "text")>>
    BY <1>1 DEF Anthropic!BlockStop, Anthropic!Done, Done
  <2> QED  BY <2>1, <2>2, BlockShut, SubjectsAre
<1>2. CASE currentBlockType = "none"
  <2>1. MessageClosed(s, currentBlockIndex) /\ s \in States
    BY <1>2 DEF MessageKnown, MessageClosed, MessageBlocks
  <2>2. Anthropic!BlockStop = <<>>
    BY <1>2 DEF Anthropic!BlockStop
  <2> QED  BY <2>1, <2>2, PlaysNone
<1> QED  BY <1>1, <1>2

(* What a part leaves: the events lead to a state that the renderer knows. *)
LEMMA MessagePartKeeps ==
  ASSUME MessageInv, PartOf, NEW events, Anthropic!Emit(events), MessageTypes',
         \A s \in States : s.phase = "open" /\ MessageKnown(s, currentBlockIndex, currentBlockType) =>
           \E u : /\ Plays("anthropic", s, events, u) /\ u.phase = "open"
                  /\ MessageKnown(u, currentBlockIndex, currentBlockType)'
  PROVE  MessageInv'
<1>1. PICK t : /\ Plays("anthropic", Now, out, t)
               /\ MessageKnown(t, currentBlockIndex, currentBlockType) /\ MessagePhase(t)
  BY DEF MessageInv
<1> DEFINE s == Phased(t, "open")
<1>2. t.phase = IF messageStarted THEN "open" ELSE "before"
  BY <1>1 DEF MessagePhase, PartOf
<1>3. MessageKnown(s, currentBlockIndex, currentBlockType) /\ s.phase = "open" /\ s \in States
  BY <1>1, MessagePhased DEF Phases
<1> HIDE DEF s
<1>4. PICK u : /\ Plays("anthropic", s, events, u) /\ u.phase = "open"
               /\ MessageKnown(u, currentBlockIndex, currentBlockType)'
  BY <1>3
<1>5. Plays("anthropic", Now', out', u) /\ messageStarted' = TRUE
  BY <1>1, <1>2, <1>4, MessageEmits DEF PartOf, MessageInv, MessageTypes, s
<1>6. MessagePhase(u)'
  BY <1>4, <1>5 DEF MessagePhase, PartOf
<1> QED  BY <1>4, <1>5, <1>6 DEF MessageInv

(* A part that brings no event.                                            *)
LEMMA MessageSilentKeeps ==
  ASSUME MessageInv, PartOf, out' = <<>>, MessageTypes',
         UNCHANGED <<messageStarted, currentBlockIndex, currentBlockType>>
  PROVE  MessageInv'
<1>1. PICK t : /\ Plays("anthropic", Now, out, t)
               /\ MessageKnown(t, currentBlockIndex, currentBlockType) /\ MessagePhase(t)
  BY DEF MessageInv
<1>2. Now' = Now /\ out' = out
  BY DEF Now, PartOf
<1>3. Plays("anthropic", Now', out', t)
  BY <1>1, <1>2
<1>4. MessageKnown(t, currentBlockIndex, currentBlockType)'
  BY <1>1
<1>5. MessagePhase(t)'
  BY <1>1 DEF MessagePhase, PartOf
<1> QED  BY <1>3, <1>4, <1>5 DEF MessageInv

LEMMA MessageTextDeltaKeeps ==
  ASSUME MessageInv, Anthropic!TextDelta
  PROVE  MessageInv'
<1>1. PartOf
  BY DEF Anthropic!TextDelta, Anthropic!SendText, Anthropic!Part, Anthropic!Asked, PartOf
<1>2. /\ pendingToolCalls' = pendingToolCalls /\ parts' = parts + 1 /\ parts < MaxParts
      /\ MessageTypes /\ pendingToolCalls \in Seq(Pendings) /\ Len(pendingToolCalls) \in Nat
      /\ parts \in 0..MaxParts /\ currentBlockIndex \in Nat
      /\ currentBlockIndex + Len(pendingToolCalls) <= parts
  BY <1>1 DEF Anthropic!TextDelta, MessageInv, MessageTypes, MessageCount, PartOf
<1>3. CASE currentBlockType = "text"
  <2> DEFINE b == currentBlockIndex
             events == <<Piece(b, "text")>>
  <2>1. /\ Anthropic!Emit(events) /\ UNCHANGED <<currentBlockIndex, currentBlockType>>
        /\ messageStarted' = TRUE
    BY <1>3 DEF Anthropic!TextDelta, Anthropic!Piece, Piece, Anthropic!Emit
  <2>2. MessageTypes'
    BY <1>2, <1>3, <2>1, PartsAssumption DEF MessageTypes, MessageCount
  <2>3. ASSUME NEW s \in States, s.phase = "open" /\ MessageKnown(s, b, currentBlockType)
        PROVE  \E u : /\ Plays("anthropic", s, events, u) /\ u.phase = "open"
                      /\ MessageKnown(u, currentBlockIndex, currentBlockType)'
    <3>1. MessageOpen(s, b, "text") /\ b \in 1..MaxBlocks
      BY <1>2, <1>3, <2>3, PartsAssumption DEF MessageKnown, MessageOpen, MessageBlocks, MaxBlocks
    <3>2. PICK u : Plays("anthropic", s, events, u) /\ MessageOpen(u, b, "text") /\ u.phase = "open"
      BY <2>3, <3>1, BlockFilled, SubjectsAre
    <3> QED  BY <1>3, <2>1, <3>2 DEF MessageKnown
  <2> HIDE DEF events
  <2> QED  BY <1>1, <2>1, <2>2, <2>3, MessagePartKeeps
<1>4. CASE currentBlockType # "text"
  <2> DEFINE b == currentBlockIndex + 1
             events == <<Added(b, "text"), Piece(b, "text")>>
  <2>1. /\ Anthropic!Emit(events) /\ currentBlockIndex' = b /\ currentBlockType' = "text"
        /\ messageStarted' = TRUE
    BY <1>4 DEF Anthropic!TextDelta, Anthropic!Piece, Piece, Anthropic!Added, Added, Anthropic!Emit
  <2>2. MessageTypes'
    <3>1. MessageCount'
      BY <1>2, <2>1, PartsAssumption DEF MessageCount
    <3> QED  BY <1>2, <2>1, <3>1 DEF MessageTypes
  <2>3. b \in 1..MaxBlocks /\ currentBlockIndex = b - 1
    BY <1>2, PartsAssumption DEF MaxBlocks
  <2> HIDE DEF b
  <2>4. ASSUME NEW s \in States,
               s.phase = "open" /\ MessageKnown(s, currentBlockIndex, currentBlockType)
        PROVE  \E u : /\ Plays("anthropic", s, events, u) /\ u.phase = "open"
                      /\ MessageKnown(u, currentBlockIndex, currentBlockType)'
    <3>1. MessageClosed(s, b - 1)
      BY <1>4, <2>3, <2>4 DEF MessageKnown
    <3>2. PICK t : Plays("anthropic", s, <<Added(b, "text")>>, t) /\ MessageOpen(t, b, "text") /\ t.phase = "open"
      BY <2>3, <2>4, <3>1, BlockAdded, SubjectsAre
    <3>3. PICK u : Plays("anthropic", t, <<Piece(b, "text")>>, u) /\ MessageOpen(u, b, "text") /\ u.phase = "open"
      BY <2>3, <3>2, BlockFilled, SubjectsAre
    <3>4. <<Added(b, "text")>> \o <<Piece(b, "text")>> = events
      BY Joined
    <3>5. Plays("anthropic", s, <<Added(b, "text")>> \o <<Piece(b, "text")>>, u)
      BY <3>2, <3>3, PlaysMore
    <3> QED  BY <2>1, <3>3, <3>4, <3>5 DEF MessageKnown
  <2> HIDE DEF events
  <2> QED  BY <1>1, <2>1, <2>2, <2>4, MessagePartKeeps
<1> QED  BY <1>3, <1>4

(* queueToolCall.                                                          *)
LEMMA QueuedIs ==
  ASSUME pendingToolCalls \in Seq(Pendings), NEW c \in Calls
  PROVE  /\ Anthropic!Queued(c) \in Seq(Pendings) /\ Len(Anthropic!Queued(c)) \in Nat
         /\ Len(Anthropic!Queued(c)) <= Len(pendingToolCalls) + 1
         /\ Len(pendingToolCalls) \in Nat
<1> DEFINE p == [id |-> c, deltas |-> 0, whole |-> 0, complete |-> FALSE]
<1>1. p \in Pendings
  BY DEF Pendings
<1>2. \/ Anthropic!Queued(c) = pendingToolCalls
      \/ Anthropic!Queued(c) = Append(pendingToolCalls, p)
  BY DEF Anthropic!Queued
<1> HIDE DEF p
<1> QED  BY <1>1, <1>2

LEMMA UpdatedIs ==
  ASSUME NEW pending \in Seq(Pendings), NEW q,
         q = [i \in DOMAIN pending |-> q[i]], \A i \in DOMAIN pending : q[i] \in Pendings
  PROVE  q \in Seq(Pendings) /\ Len(q) = Len(pending) /\ Len(pending) \in Nat
<1>1. DOMAIN pending = 1..Len(pending) /\ Len(pending) \in Nat
  OBVIOUS
<1> QED  BY <1>1

LEMMA MessageInputStartKeeps ==
  ASSUME MessageInv, NEW c \in Calls, Anthropic!ToolInputStart(c)
  PROVE  MessageInv'
<1>1. PartOf
  BY DEF Anthropic!ToolInputStart, Anthropic!SendInputStart, Anthropic!Part, Anthropic!Asked, PartOf
<1>2. /\ Anthropic!Emit(Anthropic!BlockStop) /\ currentBlockType' = "none" /\ messageStarted' = TRUE
      /\ pendingToolCalls' = Anthropic!Queued(c) /\ currentBlockIndex' = currentBlockIndex
      /\ parts' = parts + 1 /\ parts < MaxParts
  BY <1>1 DEF Anthropic!ToolInputStart, Anthropic!Emit, PartOf
<1>3. MessageTypes /\ MessageCount /\ currentBlockType \in {"text", "none"} /\ pendingToolCalls \in Seq(Pendings)
  BY DEF MessageInv, MessageTypes
<1>4. MessageTypes'
  <2>1. MessageCount'
    BY <1>2, <1>3, QueuedIs, PartsAssumption DEF MessageCount
  <2> QED  BY <1>2, <1>3, <2>1, QueuedIs DEF MessageTypes
<1>5. ASSUME NEW s \in States,
             s.phase = "open" /\ MessageKnown(s, currentBlockIndex, currentBlockType)
      PROVE  \E u : /\ Plays("anthropic", s, Anthropic!BlockStop, u) /\ u.phase = "open"
                    /\ MessageKnown(u, currentBlockIndex, currentBlockType)'
  <2>1. PICK u : /\ Plays("anthropic", s, Anthropic!BlockStop, u)
                 /\ MessageClosed(u, currentBlockIndex) /\ u.phase = "open"
    BY <1>3, <1>5, BlockStopPlays
  <2> QED  BY <1>2, <2>1 DEF MessageKnown
<1> QED  BY <1>1, <1>2, <1>4, <1>5, MessagePartKeeps

LEMMA MessageInputDeltaKeeps ==
  ASSUME MessageInv, NEW c \in Calls, Anthropic!ToolInputDelta(c)
  PROVE  MessageInv'
<1>1. PartOf
  BY DEF Anthropic!ToolInputDelta, Anthropic!SendInput, Anthropic!Part, Anthropic!Asked, PartOf
<1>2. /\ out' = <<>> /\ UNCHANGED <<messageStarted, currentBlockIndex, currentBlockType>>
      /\ parts' = parts + 1 /\ parts < MaxParts
  BY <1>1 DEF Anthropic!ToolInputDelta, PartOf
<1>3. MessageTypes /\ MessageCount /\ pendingToolCalls \in Seq(Pendings)
  BY DEF MessageInv, MessageTypes
<1>4. /\ pendingToolCalls' = [i \in DOMAIN pendingToolCalls |-> pendingToolCalls'[i]]
      /\ \A i \in DOMAIN pendingToolCalls :
           \/ pendingToolCalls'[i] = pendingToolCalls[i]
           \/ pendingToolCalls'[i] = [pendingToolCalls[i] EXCEPT !.deltas = @ + 1]
  BY DEF Anthropic!ToolInputDelta, Anthropic!Updated
<1>5. ASSUME NEW i \in DOMAIN pendingToolCalls PROVE pendingToolCalls'[i] \in Pendings
  <2>1. pendingToolCalls[i] \in Pendings
    BY <1>3
  <2> QED  BY <1>4, <2>1 DEF Pendings
<1>6. /\ pendingToolCalls' \in Seq(Pendings) /\ Len(pendingToolCalls') = Len(pendingToolCalls)
      /\ Len(pendingToolCalls) \in Nat
  BY <1>3, <1>4, <1>5, UpdatedIs
<1>7. MessageTypes'
  <2>1. MessageCount'
    BY <1>2, <1>3, <1>6, PartsAssumption DEF MessageCount
  <2> QED  BY <1>2, <1>3, <1>6, <2>1 DEF MessageTypes
<1> QED  BY <1>1, <1>2, <1>7, MessageSilentKeeps

LEMMA MessageIgnoredKeeps ==
  ASSUME MessageInv, Anthropic!Ignored
  PROVE  MessageInv'
<1>1. PartOf
  BY DEF Anthropic!Ignored, Anthropic!Skip, Anthropic!SendResult, Anthropic!SendReasoningStart,
         Anthropic!SendReasoning, Anthropic!SendReasoningEnd, Anthropic!SendOther,
         Anthropic!Part, Anthropic!Asked, PartOf
<1>2. /\ out' = <<>> /\ parts' = parts + 1 /\ parts < MaxParts
      /\ UNCHANGED <<messageStarted, currentBlockIndex, currentBlockType, pendingToolCalls>>
  BY <1>1 DEF Anthropic!Ignored, Anthropic!rendererVars, PartOf
<1>3. MessageTypes'
  <2>1. MessageTypes /\ MessageCount /\ Len(pendingToolCalls) \in Nat
    BY DEF MessageInv, MessageTypes
  <2>2. MessageCount'
    BY <1>2, <2>1, PartsAssumption DEF MessageCount
  <2> QED  BY <1>2, <2>1, <2>2 DEF MessageTypes
<1> QED  BY <1>1, <1>2, <1>3, MessageSilentKeeps

(* emitPendingToolCalls.                                                   *)
LEMMA PendingPlay ==
  ASSUME MessageTypes, NEW s, MessageKnown(s, currentBlockIndex, currentBlockType), s.phase = "open",
         NEW pending \in Seq(Pendings), NEW n \in 0..Len(pending), currentBlockIndex + n <= MaxBlocks
  PROVE  \E u : /\ Plays("anthropic", s, Anthropic!BlockStop \o Anthropic!Blocks(pending, n), u)
                /\ MessageClosed(u, currentBlockIndex + n) /\ u.phase = "open"
<1>1. currentBlockIndex \in Nat /\ currentBlockType \in {"text", "none"}
  BY DEF MessageTypes, MessageCount
<1>2. PICK t : /\ Plays("anthropic", s, Anthropic!BlockStop, t)
               /\ MessageClosed(t, currentBlockIndex) /\ t.phase = "open"
  BY <1>1, BlockStopPlays
<1>3. PICK u : /\ Plays("anthropic", t, Anthropic!Blocks(pending, n), u)
               /\ MessageClosed(u, currentBlockIndex + n) /\ u.phase = "open"
  BY <1>1, <1>2, BlocksPlay
<1> QED  BY <1>2, <1>3, PlaysMore

LEMMA ReadyIs ==
  ASSUME NEW pending \in Seq(Pendings)
  PROVE  /\ Anthropic!Ready(pending, TRUE) = Len(pending)
         /\ Anthropic!Ready(pending, FALSE) \in 0..Len(pending)
         /\ \A i \in 1..Anthropic!Ready(pending, FALSE) : pending[i].complete
<1> DEFINE IsReady(n) == /\ \A i \in 1..n : pending[i].complete
                         /\ n < Len(pending) => ~pending[n + 1].complete
           S == {n \in 0..Len(pending) : n < Len(pending) => ~pending[n + 1].complete}
<1>1. Len(pending) \in Nat /\ Len(pending) \in S
  OBVIOUS
<1>2. PICK n \in S : \A m \in S : n <= m
  <2> HIDE DEF S
  <2>1. S \in SUBSET Nat
    BY DEF S
  <2> QED  BY <1>1, <2>1, SmallestNat
<1>3. \A i \in 1..n : pending[i].complete
  <2> SUFFICES ASSUME NEW i \in 1..n, ~pending[i].complete PROVE FALSE
    OBVIOUS
  <2>1. i - 1 \in 0..Len(pending) /\ (i - 1) + 1 = i
    BY <1>1
  <2>2. i - 1 \in S
    BY <2>1
  <2>3. n \in 0..Len(pending) /\ n <= i - 1
    BY <1>2, <2>2
  <2> QED  BY <2>3
<1>4. \E m \in 0..Len(pending) : IsReady(m)
  BY <1>2, <1>3
<1> DEFINE r == CHOOSE m \in 0..Len(pending) : IsReady(m)
<1>5. r \in 0..Len(pending) /\ IsReady(r)
  <2> HIDE DEF IsReady
  <2> QED  BY <1>4
<1>6. Anthropic!Ready(pending, FALSE) = r
  BY DEF Anthropic!Ready
<1> HIDE DEF r
<1> QED  BY <1>5, <1>6 DEF Anthropic!Ready

LEMMA CompletedIs ==
  ASSUME NEW p \in Pendings
  PROVE  Anthropic!CompletedCall(p) \in Pendings
<1> DEFINE m == IF p.deltas + p.whole = 0 THEN 1 ELSE p.whole
<1>1. m \in Nat /\ TRUE \in BOOLEAN
  BY DEF Pendings
<1>2. Anthropic!CompletedCall(p) = [p EXCEPT !.complete = TRUE, !.whole = m]
  BY DEF Anthropic!CompletedCall, Pendings
<1> HIDE DEF m
<1> QED  BY <1>1, <1>2 DEF Pendings

LEMMA MessageToolCallKeeps ==
  ASSUME MessageInv, NEW c \in Calls, Anthropic!ToolCall(c)
  PROVE  MessageInv'
<1> DEFINE queued == Anthropic!Queued(c)
           pending == Anthropic!Updated(queued, c, Anthropic!CompletedCall)
           n == Anthropic!Ready(pending, FALSE)
<1>1. PartOf
  BY DEF Anthropic!ToolCall, Anthropic!SendCall, Anthropic!Part, Anthropic!Asked, PartOf
<1>2. MessageTypes /\ MessageCount /\ pendingToolCalls \in Seq(Pendings)
  BY DEF MessageInv, MessageTypes
<1>3. /\ queued \in Seq(Pendings) /\ Len(queued) \in Nat
      /\ Len(queued) <= Len(pendingToolCalls) + 1 /\ Len(pendingToolCalls) \in Nat
  BY <1>2, QueuedIs
<1>4. IF n > 0 THEN Anthropic!EmitPending(pending, n, <<>>)
      ELSE /\ Anthropic!Emit(<<>>) /\ pendingToolCalls' = pending
           /\ UNCHANGED <<currentBlockIndex, currentBlockType>>
  BY DEF Anthropic!ToolCall
<1>5. /\ pending = [i \in DOMAIN queued |-> pending[i]]
      /\ \A i \in DOMAIN queued :
           pending[i] = queued[i] \/ pending[i] = Anthropic!CompletedCall(queued[i])
  BY DEF Anthropic!Updated
<1> HIDE DEF queued, pending
<1>6. ASSUME NEW i \in DOMAIN queued PROVE pending[i] \in Pendings
  <2>1. queued[i] \in Pendings
    BY <1>3
  <2>2. Anthropic!CompletedCall(queued[i]) \in Pendings
    BY <2>1, CompletedIs
  <2> QED  BY <1>5, <2>1, <2>2
<1>7. pending \in Seq(Pendings) /\ Len(pending) = Len(queued)
  BY <1>3, <1>5, <1>6, UpdatedIs
<1>8. n \in 0..Len(pending)
  BY <1>7, ReadyIs
<1> HIDE DEF n
<1>9. /\ currentBlockIndex \in Nat /\ parts \in Nat /\ parts' = parts + 1 /\ parts' <= MaxParts
      /\ currentBlockIndex + Len(pending) <= parts' /\ n \in Nat
      /\ currentBlockIndex + n <= MaxBlocks
  BY <1>1, <1>2, <1>3, <1>7, <1>8, PartsAssumption DEF MessageCount, PartOf, MaxBlocks
<1>10. CASE n > 0
  <2> DEFINE events == Anthropic!BlockStop \o Anthropic!Blocks(pending, n)
  <2>1. /\ Anthropic!Emit(events \o <<>>) /\ currentBlockIndex' = currentBlockIndex + n
        /\ currentBlockType' = "none" /\ pendingToolCalls' = SubSeq(pending, n + 1, Len(pending))
        /\ messageStarted' = TRUE
    BY <1>4, <1>10 DEF Anthropic!EmitPending, Anthropic!Emit
  <2>2. /\ SubSeq(pending, n + 1, Len(pending)) \in Seq(Pendings)
        /\ Len(SubSeq(pending, n + 1, Len(pending))) = Len(pending) - n
    BY <1>7, <1>8
  <2>3. MessageTypes'
    <3> DEFINE rest == SubSeq(pending, n + 1, Len(pending))
    <3>1. Len(rest) = Len(pending) - n /\ Len(pending) \in Nat
      BY <1>7, <2>2
    <3>2. pendingToolCalls' = rest
      BY <2>1
    <3> HIDE DEF rest
    <3>3. (currentBlockIndex + n) + Len(rest) <= parts' /\ currentBlockIndex + n \in Nat
      BY <1>8, <1>9, <3>1
    <3>4. parts' \in 0..MaxParts
      BY <1>9, PartsAssumption
    <3>5. MessageCount'
      BY <2>1, <3>2, <3>3, <3>4 DEF MessageCount
    <3> QED  BY <2>1, <2>2, <3>5 DEF MessageTypes
  <2>4. ASSUME NEW s \in States,
               s.phase = "open" /\ MessageKnown(s, currentBlockIndex, currentBlockType)
        PROVE  \E u : /\ Plays("anthropic", s, events \o <<>>, u) /\ u.phase = "open"
                      /\ MessageKnown(u, currentBlockIndex, currentBlockType)'
    <3>1. PICK u : /\ Plays("anthropic", s, events, u)
                   /\ MessageClosed(u, currentBlockIndex + n) /\ u.phase = "open"
      BY <1>2, <1>7, <1>8, <1>9, <2>4, PendingPlay
    <3>2. Plays("anthropic", u, <<>>, u)
      BY <3>1, PlaysNone DEF MessageClosed, MessageBlocks
    <3>3. Plays("anthropic", s, events \o <<>>, u)
      BY <3>1, <3>2, PlaysMore
    <3> QED  BY <2>1, <3>1, <3>3 DEF MessageKnown
  <2> HIDE DEF events
  <2> QED  BY <1>1, <2>1, <2>3, <2>4, MessagePartKeeps
<1>11. CASE ~(n > 0)
  <2>1. /\ Anthropic!Emit(<<>>) /\ pendingToolCalls' = pending
        /\ UNCHANGED <<currentBlockIndex, currentBlockType>> /\ messageStarted' = TRUE
    BY <1>4, <1>11 DEF Anthropic!Emit
  <2>2. MessageTypes'
    <3>1. MessageCount'
      BY <1>7, <1>9, <2>1, PartsAssumption DEF MessageCount
    <3> QED  BY <1>2, <1>7, <2>1, <3>1 DEF MessageTypes
  <2>3. ASSUME NEW s \in States,
               s.phase = "open" /\ MessageKnown(s, currentBlockIndex, currentBlockType)
        PROVE  \E u : /\ Plays("anthropic", s, <<>>, u) /\ u.phase = "open"
                      /\ MessageKnown(u, currentBlockIndex, currentBlockType)'
    BY <2>1, <2>3, PlaysNone
  <2> QED  BY <1>1, <2>1, <2>2, <2>3, MessagePartKeeps
<1> QED  BY <1>10, <1>11

(* The end of a message.                                                   *)
LEMMA AllReady ==
  ASSUME MessageTypes, NEW rest, Anthropic!EmitAll(rest)
  PROVE  /\ Len(pendingToolCalls) \in Nat
         /\ Anthropic!Emit(Anthropic!BlockStop \o Anthropic!Blocks(pendingToolCalls, Len(pendingToolCalls)) \o rest)
         /\ currentBlockIndex' = currentBlockIndex + Len(pendingToolCalls)
         /\ currentBlockType' = "none" /\ pendingToolCalls' = <<>> /\ messageStarted' = TRUE
<1> DEFINE p == pendingToolCalls
<1>1. p \in Seq(Pendings) /\ Len(p) \in Nat
  BY DEF MessageTypes
<1>2. Anthropic!Ready(p, TRUE) = Len(p)
  BY <1>1, ReadyIs
<1>3. Anthropic!EmitPending(p, Len(p), rest)
  BY <1>2 DEF Anthropic!EmitAll
<1>4. SubSeq(p, Len(p) + 1, Len(p)) = <<>>
  BY <1>1
<1> QED  BY <1>1, <1>3, <1>4 DEF Anthropic!EmitPending, Anthropic!Emit

LEMMA MessageEnds ==
  ASSUME MessageInv, out = <<>>, UNCHANGED <<blocks, phase, parts>>, upstream = "streaming",
         NEW rest, Anthropic!EmitAll(rest),
         \A s : MessageClosed(s, currentBlockIndex + Len(pendingToolCalls)) /\ s.phase = "open" =>
           \E u : /\ Plays("anthropic", s, rest, u) /\ MessagePhase(u)'
                  /\ MessageClosed(u, currentBlockIndex + Len(pendingToolCalls))
  PROVE  MessageInv'
<1> DEFINE p == pendingToolCalls
           n == Len(p)
           events == Anthropic!BlockStop \o Anthropic!Blocks(p, n)
<1>1. MessageTypes /\ MessageCount /\ p \in Seq(Pendings) /\ n \in Nat /\ messageStarted \in BOOLEAN
  BY DEF MessageInv, MessageTypes
<1>2. /\ Anthropic!Emit(events \o rest) /\ currentBlockIndex' = currentBlockIndex + n
      /\ currentBlockType' = "none" /\ pendingToolCalls' = <<>> /\ messageStarted' = TRUE
  BY <1>1, AllReady
<1>3. n \in 0..Len(p) /\ currentBlockIndex + n <= MaxBlocks
  BY <1>1, PartsAssumption DEF MessageCount, MaxBlocks
<1>4. PICK t : /\ Plays("anthropic", Now, out, t)
               /\ MessageKnown(t, currentBlockIndex, currentBlockType) /\ MessagePhase(t)
  BY DEF MessageInv
<1> DEFINE s == Phased(t, "open")
<1>5. MessageKnown(s, currentBlockIndex, currentBlockType) /\ s.phase = "open"
  BY <1>4, MessagePhased DEF Phases
<1> HIDE DEF s
<1>6. PICK v : /\ Plays("anthropic", s, events, v)
               /\ MessageClosed(v, currentBlockIndex + n) /\ v.phase = "open"
  BY <1>1, <1>3, <1>5, PendingPlay
<1>7. PICK u : /\ Plays("anthropic", v, rest, u) /\ MessagePhase(u)'
               /\ MessageClosed(u, currentBlockIndex + n)
  BY <1>6
<1>8. Plays("anthropic", s, events \o rest, u)
  BY <1>6, <1>7, PlaysMore
<1>9. t.phase = IF messageStarted THEN "open" ELSE "before"
  BY <1>4 DEF MessagePhase
<1> HIDE DEF events
<1>10. Plays("anthropic", Now', out', u)
  BY <1>1, <1>2, <1>4, <1>8, <1>9, MessageEmits DEF s
<1>11. MessageKnown(u, currentBlockIndex, currentBlockType)'
  BY <1>2, <1>7 DEF MessageKnown
<1>12. MessageTypes'
  <2>1. Len(<<>>) = 0 /\ <<>> \in Seq(Pendings)
    OBVIOUS
  <2>2. currentBlockIndex + n \in Nat /\ currentBlockIndex + n + 0 <= parts /\ parts \in 0..MaxParts
    BY <1>1 DEF MessageCount
  <2>3. MessageCount'
    BY <1>2, <2>1, <2>2 DEF MessageCount
  <2> QED  BY <1>2, <2>1, <2>3 DEF MessageTypes
<1> QED  BY <1>7, <1>10, <1>11, <1>12 DEF MessageInv

LEMMA MessagePhasedClosed ==
  ASSUME NEW s, NEW current, MessageClosed(s, current), NEW p \in Phases
  PROVE  MessageClosed(Phased(s, p), current) /\ Phased(s, p).phase = p /\ s \in States /\ AllClosed(s)
<1>1. MessageKnown(s, current, "none")
  BY DEF MessageKnown
<1>2. MessageKnown(Phased(s, p), current, "none") /\ Phased(s, p).phase = p
  BY <1>1, MessagePhased
<1> QED  BY <1>2 DEF MessageKnown, MessageClosed, MessageBlocks

LEMMA MessageFinishKeeps ==
  ASSUME MessageInv, Anthropic!Finish
  PROVE  MessageInv'
<1>1. /\ out = <<>> /\ UNCHANGED <<blocks, phase, parts>> /\ upstream = "streaming"
      /\ upstream' = "finished" /\ Anthropic!EmitAll(<<Completed>>)
  BY DEF Anthropic!Finish, Anthropic!SendFinish, Anthropic!Ends, Anthropic!Asked,
         Anthropic!Completed, Anthropic!Signal, Completed, Signal
<1>2. messageStarted' = TRUE /\ currentBlockType' = "none" /\ pendingToolCalls' = <<>>
  BY <1>1, AllReady DEF MessageInv
<1>3. ASSUME NEW s, MessageClosed(s, currentBlockIndex + Len(pendingToolCalls)), s.phase = "open"
      PROVE  \E u : /\ Plays("anthropic", s, <<Completed>>, u) /\ MessagePhase(u)'
                    /\ MessageClosed(u, currentBlockIndex + Len(pendingToolCalls))
  <2> DEFINE u == Phased(s, "completed")
  <2>1. /\ MessageClosed(u, currentBlockIndex + Len(pendingToolCalls)) /\ u.phase = "completed"
        /\ s \in States /\ AllClosed(s)
    BY <1>3, MessagePhasedClosed DEF Phases
  <2>2. Plays("anthropic", s, <<Completed>>, u)
    BY <1>3, <2>1, PlaysCompleted
  <2> HIDE DEF u
  <2>3. MessagePhase(u)'
    BY <1>1, <1>2, <2>1 DEF MessagePhase
  <2> QED  BY <2>1, <2>2, <2>3
<1> QED  BY <1>1, <1>3, MessageEnds

(* emitTerminalError, before the message is complete and after.            *)
LEMMA TerminalErrorKeeps ==
  ASSUME MessageInv, Anthropic!TerminalError
  PROVE  MessageInv'
<1>1. /\ out = <<>> /\ UNCHANGED <<blocks, phase, parts>> /\ upstream \in {"streaming", "finished"}
      /\ upstream' = "over" /\ Anthropic!EmitAll(<<Failed, Closed>>)
  BY DEF Anthropic!TerminalError, Anthropic!SendError, Anthropic!Throw, Anthropic!EndOfStream,
         Anthropic!Ends, Anthropic!Asked, Anthropic!Failed, Anthropic!Closed, Anthropic!Signal,
         Failed, Closed, Signal
<1>2. \A u : MessagePhase(u)'
  BY <1>1 DEF MessagePhase
<1>3. ASSUME NEW s, NEW current, MessageClosed(s, current),
             s.phase \notin {"failed", "truncated", "before"}
      PROVE  \E u : Plays("anthropic", s, <<Failed, Closed>>, u) /\ MessageClosed(u, current)
  <2>1. MessageClosed(Phased(s, "failed"), current) /\ s \in States /\ AllClosed(s)
    BY <1>3, MessagePhasedClosed DEF Phases
  <2>2. Plays("anthropic", s, <<Failed, Closed>>, Phased(s, "failed"))
    BY <1>3, <2>1, PlaysFailed
  <2> QED  BY <2>1, <2>2
<1>4. CASE upstream = "streaming"
  <2>1. ASSUME NEW s, MessageClosed(s, currentBlockIndex + Len(pendingToolCalls)), s.phase = "open"
        PROVE  \E u : /\ Plays("anthropic", s, <<Failed, Closed>>, u) /\ MessagePhase(u)'
                      /\ MessageClosed(u, currentBlockIndex + Len(pendingToolCalls))
    <3>1. PICK u : /\ Plays("anthropic", s, <<Failed, Closed>>, u)
                   /\ MessageClosed(u, currentBlockIndex + Len(pendingToolCalls))
      BY <1>3, <2>1
    <3> QED  BY <1>2, <3>1
  <2> QED  BY <1>1, <1>4, <2>1, MessageEnds
<1>5. CASE upstream = "finished"
  <2>1. PICK t : /\ Plays("anthropic", Now, out, t)
                 /\ MessageKnown(t, currentBlockIndex, currentBlockType) /\ MessagePhase(t)
    BY DEF MessageInv
  <2>2. t = Now /\ Now' = Now /\ t \in States
    BY <1>1, <2>1, PlaysNothing DEF Now
  <2>3. /\ t.phase = "completed" /\ messageStarted /\ currentBlockType = "none"
        /\ pendingToolCalls = <<>> /\ MessageClosed(t, currentBlockIndex)
    BY <1>5, <2>1 DEF MessagePhase, MessageKnown
  <2>4. MessageTypes /\ MessageCount /\ currentBlockIndex \in Nat
    BY DEF MessageInv, MessageTypes, MessageCount
  <2>5. /\ Anthropic!Emit(Anthropic!BlockStop \o Anthropic!Blocks(<<>>, 0) \o <<Failed, Closed>>)
        /\ currentBlockIndex' = currentBlockIndex
        /\ currentBlockType' = "none" /\ pendingToolCalls' = <<>> /\ messageStarted' = TRUE
    <3>1. Len(pendingToolCalls) = 0 /\ currentBlockIndex + 0 = currentBlockIndex
      BY <2>3, <2>4
    <3>2. /\ Anthropic!Emit(Anthropic!BlockStop
                            \o Anthropic!Blocks(pendingToolCalls, Len(pendingToolCalls)) \o <<Failed, Closed>>)
          /\ currentBlockIndex' = currentBlockIndex + Len(pendingToolCalls)
          /\ currentBlockType' = "none" /\ pendingToolCalls' = <<>> /\ messageStarted' = TRUE
      BY <1>1, <2>4, AllReady
    <3> QED  BY <2>3, <3>1, <3>2, Zenon
  <2>6. out' = <<Failed, Closed>>
    <3>1. Anthropic!BlockStop = <<>>
      BY <2>3 DEF Anthropic!BlockStop
    <3>2. Anthropic!Blocks(<<>>, 0) = <<>>
      <4> DEFINE p == [i \in 1..0 |-> Anthropic!CallBlock(<<>>[i], currentBlockIndex + i)]
      <4>1. p = <<>>
        OBVIOUS
      <4>2. Anthropic!FlattenSeq(<<>>) = <<>>
        <5>1. Len(<<>>) = 0
          OBVIOUS
        <5> QED  BY <5>1 DEF Anthropic!FlattenSeq
      <4> QED  BY <4>1, <4>2 DEF Anthropic!Blocks
    <3>3. <<>> \o <<>> \o <<Failed, Closed>> = <<Failed, Closed>>
      OBVIOUS
    <3> QED  BY <2>3, <2>5, <3>1, <3>2, <3>3 DEF Anthropic!Emit
  <2>7. PICK u : Plays("anthropic", t, <<Failed, Closed>>, u) /\ MessageClosed(u, currentBlockIndex)
    BY <1>3, <2>3
  <2>8. Plays("anthropic", Now', out', u)
    BY <2>2, <2>6, <2>7
  <2>9. MessageKnown(u, currentBlockIndex, currentBlockType)'
    BY <2>5, <2>7 DEF MessageKnown
  <2>10. MessageTypes'
    <3>1. Len(<<>>) = 0 /\ <<>> \in Seq(Pendings) /\ Len(pendingToolCalls) = 0
      BY <2>3
    <3>2. MessageCount'
      BY <1>1, <2>3, <2>4, <2>5, <3>1 DEF MessageCount
    <3> QED  BY <2>5, <3>1, <3>2 DEF MessageTypes
  <2> QED  BY <1>2, <2>8, <2>9, <2>10 DEF MessageInv
<1> QED  BY <1>1, <1>4, <1>5

LEMMA MessageReturnKeeps ==
  ASSUME MessageInv, Anthropic!Return
  PROVE  MessageInv'
<1>1. /\ out = <<>> /\ UNCHANGED <<blocks, phase, parts>> /\ upstream = "finished" /\ upstream' = "over"
      /\ UNCHANGED <<messageStarted, currentBlockIndex, currentBlockType, pendingToolCalls>>
      /\ out' = <<Closed>>
  BY DEF Anthropic!Return, Anthropic!EndOfStream, Anthropic!Ends, Anthropic!Asked, Anthropic!rendererVars,
         Anthropic!Closed, Anthropic!Signal, Closed, Signal
<1>2. PICK t : /\ Plays("anthropic", Now, out, t)
               /\ MessageKnown(t, currentBlockIndex, currentBlockType) /\ MessagePhase(t)
  BY DEF MessageInv
<1>3. t = Now /\ Now' = Now /\ t \in States /\ t.phase = "completed"
  BY <1>1, <1>2, PlaysNothing DEF Now, MessagePhase
<1> DEFINE u == Phased(t, "completed")
<1>4. Plays("anthropic", t, <<Closed>>, u)
  <2>1. Plays("anthropic", t, <<Closed>>,
              Phased(t, IF t.phase \in {"before", "open"} THEN "truncated" ELSE t.phase))
    BY <1>3, PlaysClosed
  <2>2. (IF t.phase \in {"before", "open"} THEN "truncated" ELSE t.phase) = "completed"
    BY <1>3
  <2> QED  BY <2>1, <2>2
<1>5. MessageKnown(u, currentBlockIndex, currentBlockType)
  BY <1>2, MessagePhased DEF Phases
<1> HIDE DEF u
<1>6. Plays("anthropic", Now', out', u)
  BY <1>1, <1>3, <1>4
<1>7. MessageTypes' /\ MessageKnown(u, currentBlockIndex, currentBlockType)' /\ MessagePhase(u)'
  BY <1>1, <1>5 DEF MessageInv, MessageTypes, MessageCount, MessagePhase
<1> QED  BY <1>6, <1>7 DEF MessageInv

LEMMA MessageReadKeeps ==
  ASSUME MessageInv, format = "anthropic", Read,
         UNCHANGED <<messageStarted, currentBlockIndex, currentBlockType, pendingToolCalls>>
  PROVE  MessageInv' /\ (Client!Next \/ UNCHANGED Client!vars)
<1>1. PICK u : /\ Plays("anthropic", Now, out, u)
               /\ MessageKnown(u, currentBlockIndex, currentBlockType) /\ MessagePhase(u)
  BY DEF MessageInv
<1>2. Plays("anthropic", Now', out', u) /\ (Client!Next \/ UNCHANGED Client!vars)
  BY <1>1, ReadsOn
<1>3. parts' = parts /\ upstream' = upstream
  BY DEF Read, upstreamVars
<1>4. MessageTypes' /\ MessageKnown(u, currentBlockIndex, currentBlockType)' /\ MessagePhase(u)'
  BY <1>1, <1>3 DEF MessageInv, MessageTypes, MessageCount, MessagePhase
<1> QED  BY <1>2, <1>4 DEF MessageInv

LEMMA MessageSteps ==
  ASSUME MessageInv, format = "anthropic", Anthropic!Next
  PROVE  MessageInv' /\ (Client!Next \/ UNCHANGED Client!vars) /\ format' = format
<1>1. CASE Anthropic!Read /\ UNCHANGED Anthropic!rendererVars
  <2>1. /\ Read /\ UNCHANGED <<messageStarted, currentBlockIndex, currentBlockType, pendingToolCalls>>
        /\ UNCHANGED format
    BY <1>1, ReadsTheSame DEF Anthropic!rendererVars, Read, upstreamVars
  <2> QED  BY <2>1, MessageReadKeeps
<1>2. CASE Anthropic!Step
  <2>1. MessageInv'
    BY <1>2, MessageTextDeltaKeeps, MessageIgnoredKeeps, MessageInputStartKeeps, MessageInputDeltaKeeps,
       MessageToolCallKeeps, MessageFinishKeeps, TerminalErrorKeeps, MessageReturnKeeps
       DEF Anthropic!Step
  <2>2. UNCHANGED <<format, blocks, phase>>
    BY <1>2, StepsAreParts, PartsAreSilent
  <2> QED  BY <2>1, <2>2 DEF Client!vars
<1> QED  BY <1>1, <1>2 DEF Anthropic!Next

LEMMA NothingYet ==
  ASSUME StreamInit
  PROVE  Now \in States /\ \A b \in 0..MaxBlocks : Now.blocks[b].status = "none"
<1>1. blocks = [b \in 0..MaxBlocks |-> Nothing] /\ phase \in Phases
  BY DEF StreamInit, Phases
<1>2. Nothing \in Blocks /\ Nothing.status = "none"
  BY DEF Nothing, Blocks, Statuses
<1> QED  BY <1>1, <1>2 DEF Now, States

LEMMA MessageInitially ==
  ASSUME StreamInit, Anthropic!RendererInit, format = "anthropic"
  PROVE  MessageInv
<1>1. parts = 0 /\ upstream = "streaming" /\ out = <<>> /\ phase = "before"
  BY DEF StreamInit
<1>2. /\ messageStarted = FALSE /\ currentBlockIndex = 0 /\ currentBlockType = "none"
      /\ pendingToolCalls = <<>>
  BY DEF Anthropic!RendererInit
<1>3. MessageTypes
  <2>1. Len(<<>>) = 0 /\ <<>> \in Seq(Pendings)
    OBVIOUS
  <2>2. MessageCount
    BY <1>1, <1>2, <2>1, PartsAssumption DEF MessageCount
  <2> QED  BY <1>2, <2>1, <2>2 DEF MessageTypes
<1>4. Plays("anthropic", Now, out, Now) /\ Now.phase = "before"
  BY <1>1, NothingYet, PlaysNone DEF Now
<1>5. MessageClosed(Now, 0)
  <2>1. /\ 0 \in 0..MaxBlocks
        /\ \A b \in 1..MaxBlocks : b \in 0..MaxBlocks /\ ~(b <= 0)
    BY PartsAssumption DEF MaxBlocks
  <2> QED  BY <2>1, NothingYet DEF MessageClosed, MessageBlocks, AllClosed
<1>6. MessageKnown(Now, currentBlockIndex, currentBlockType) /\ MessagePhase(Now)
  BY <1>1, <1>2, <1>4, <1>5 DEF MessageKnown, MessagePhase
<1> QED  BY <1>3, <1>4, <1>6 DEF MessageInv

-----------------------------------------------------------------------------
(* The calls of a chat answer (ChatRenderer).  Each call that the renderer *)
(* knows has an open block at its index.                                   *)

LEMMA ChatCardinality == \A S : Chat!Cardinality(S) = Cardinality(S)
BY DEF Chat!Cardinality, Cardinality

LEMMA ChatPut ==
  ASSUME NEW s, NEW indexes \in [Calls -> Nat], NEW n \in Nat, ChatKnown(s, indexes, n),
         NEW c \in Calls, NEW b \in 1..MaxBlocks, NEW m \in Nat,
         NEW v, IsBlock(v, "open", c),
         (b <= n /\ m = n /\ IsOpen(s, b, c)) \/ (b = n + 1 /\ m = b),
         NEW js, IsGiven(js, indexes, c, b, Calls, Nat)
  PROVE  ChatKnown(Put(s, b, v), js, m) /\ Put(s, b, v).phase = s.phase
<1> DEFINE t == Put(s, b, v)
<1>1. /\ t \in States /\ t.phase = s.phase /\ t.blocks[b] = v
      /\ \A d \in 0..MaxBlocks : d # b => t.blocks[d] = s.blocks[d]
  <2>1. IsPut(t, s, b, v)
    BY PutIs DEF IsBlock, ChatKnown
  <2> QED  BY <2>1 DEF IsPut
<1> HIDE DEF t
<1>2. /\ b \in 0..MaxBlocks /\ b # 0 /\ b \in Nat /\ 0 \in 0..MaxBlocks
      /\ \A d \in 1..MaxBlocks : d \in 0..MaxBlocks /\ d \in Nat
  BY PartsAssumption DEF MaxBlocks
<1>3. ASSUME NEW d \in 1..MaxBlocks
      PROVE  /\ t.blocks[d].status # "none" <=> d <= m
             /\ t.blocks[d].status # "none" => t.blocks[d].of \in Calls
  <2>1. CASE d = b
    BY <1>1, <1>2, <2>1 DEF IsBlock
  <2>2. CASE d # b
    <3>1. d <= n <=> d <= m
      BY <1>2, <2>2
    <3> QED  BY <1>1, <1>2, <2>2, <3>1 DEF ChatKnown
  <2> QED  BY <2>1, <2>2
<1>4. ASSUME NEW d \in Calls, js[d] # 0 PROVE js[d] \in 1..MaxBlocks /\ IsOpen(t, js[d], d)
  <2>1. CASE d = c
    <3>1. js[d] = b
      BY <2>1 DEF IsGiven
    <3> QED  BY <1>1, <2>1, <3>1 DEF IsOpen, IsBlock
  <2>2. CASE d # c
    <3>1. js[d] = indexes[d]
      BY <2>2 DEF IsGiven
    <3>2. indexes[d] \in 1..MaxBlocks /\ IsOpen(s, indexes[d], d)
      BY <1>4, <3>1 DEF ChatKnown
    <3>3. indexes[d] # b
      <4>1. CASE IsOpen(s, b, c)
        BY <2>2, <3>2, <4>1 DEF IsOpen
      <4>2. CASE b = n + 1
        BY <1>2, <3>2, <4>2 DEF IsOpen, ChatKnown
      <4> QED  BY <4>1, <4>2
    <3> QED  BY <1>1, <1>2, <3>1, <3>2, <3>3 DEF IsOpen
  <2> QED  BY <2>1, <2>2
<1>5. t.blocks[0].status = "none"
  BY <1>1, <1>2 DEF ChatKnown
<1> QED  BY <1>1, <1>3, <1>4, <1>5 DEF ChatKnown, t

LEMMA ChatBlock ==
  ASSUME NEW s, NEW indexes \in [Calls -> Nat], NEW n \in Nat, n < MaxBlocks, ChatKnown(s, indexes, n),
         NEW c \in Calls, NEW b, b = ChatIndex(indexes, c, n)
  PROVE  /\ b \in 1..MaxBlocks /\ ChatNext(indexes, c, n) \in Nat
         /\ indexes[c] # 0 => IsOpen(s, b, c) /\ b <= n /\ ChatNext(indexes, c, n) = n
         /\ indexes[c] = 0 => CanOpen("chat", s, b) /\ b = n + 1 /\ ChatNext(indexes, c, n) = b
<1>1. MaxBlocks \in Nat /\ \A d \in 1..MaxBlocks : d \in Nat
  BY PartsAssumption DEF MaxBlocks
<1>2. CASE indexes[c] # 0
  <2>1. b \in 1..MaxBlocks /\ IsOpen(s, b, c)
    BY <1>2 DEF ChatKnown, ChatIndex
  <2>2. b <= n
    BY <2>1 DEF ChatKnown, IsOpen
  <2> QED  BY <1>2, <2>1, <2>2 DEF ChatNext
<1>3. CASE indexes[c] = 0
  <2>1. b = n + 1 /\ b \in 1..MaxBlocks /\ ChatNext(indexes, c, n) = n + 1
    BY <1>1, <1>3 DEF ChatIndex, ChatNext
  <2>2. \A d \in 1..(b - 1) : d \in 1..MaxBlocks /\ d <= n
    BY <1>1, <2>1
  <2>3. ~(b <= n)
    BY <2>1
  <2>4. CanOpen("chat", s, b)
    BY <2>1, <2>2, <2>3 DEF CanOpen, ChatKnown
  <2> QED  BY <1>3, <2>1, <2>4
<1> QED  BY <1>2, <1>3

LEMMA ChunkPlays ==
  ASSUME NEW s, NEW indexes \in [Calls -> Nat], NEW n \in Nat, n < MaxBlocks, ChatKnown(s, indexes, n),
         s.phase = "open", NEW c \in Calls, NEW b, b = ChatIndex(indexes, c, n),
         NEW e, e \in ChatChunks(b, c, indexes[c] # 0),
         NEW js, IsGiven(js, indexes, c, b, Calls, Nat)
  PROVE  \E u : /\ Plays("chat", s, <<e>>, u) /\ u.phase = "open"
                /\ ChatKnown(u, js, ChatNext(indexes, c, n))
<1>1. /\ b \in 1..MaxBlocks /\ ChatNext(indexes, c, n) \in Nat
      /\ indexes[c] # 0 => IsOpen(s, b, c) /\ b <= n /\ ChatNext(indexes, c, n) = n
      /\ indexes[c] = 0 => CanOpen("chat", s, b) /\ b = n + 1 /\ ChatNext(indexes, c, n) = b
  BY ChatBlock
<1>2. s \in States /\ c \in Subjects
  BY SubjectsAre DEF ChatKnown
<1>3. MayBlock("chat", s, e, b, c)
  BY <1>1 DEF MayBlock, ChatChunks
<1>4. May("chat", s, e)
  BY <1>1, <1>2, <1>3 DEF May
<1>5. Plays("chat", s, <<e>>, After(s, e))
  BY <1>2, <1>4, PlaysOne
<1>6. IsBlock(New(c, 0), "open", c) /\ IsBlock(New(c, 1), "open", c)
  BY <1>1, <1>2, BlocksAre DEF Statuses
<1>7. ASSUME NEW v, IsBlock(v, "open", c)
      PROVE  /\ ChatKnown(Put(s, b, v), js, ChatNext(indexes, c, n))
             /\ Put(s, b, v).phase = s.phase
  <2> DEFINE m == ChatNext(indexes, c, n)
  <2>1. m \in Nat /\ ((b <= n /\ m = n /\ IsOpen(s, b, c)) \/ (b = n + 1 /\ m = b))
    BY <1>1
  <2> HIDE DEF m
  <2>2. ChatKnown(Put(s, b, v), js, m) /\ Put(s, b, v).phase = s.phase
    BY <1>1, <1>7, <2>1, ChatPut
  <2> QED  BY <2>2 DEF m
<1>8. CASE indexes[c] # 0
  <2>1. IsOpen(s, b, c)
    BY <1>1, <1>8
  <2>2. IsBlock(s.blocks[b], "open", c)
    BY <1>1, <1>2, <2>1, BlocksAre DEF IsBlock, IsOpen, Statuses
  <2>3. /\ IsBlock(MorePieces(s.blocks[b]), "open", c)
        /\ IsBlock(MoreWhole(s.blocks[b]), "open", c)
    BY <1>1, <1>2, <2>2, BlocksAre DEF Statuses
  <2>4. CASE e = Chunk(b, c)
    <3>1. After(s, e) = s
      BY <1>1, <1>2, <1>3, <2>1, <2>4, BlockEvents
    <3>2. js = indexes
      <4>1. \A d \in Calls : js[d] = indexes[d]
        BY <1>8 DEF IsGiven, ChatIndex
      <4>2. js \in [Calls -> Nat]
        BY DEF IsGiven
      <4> QED  BY <4>1, <4>2
    <3> QED  BY <1>1, <1>5, <1>8, <3>1, <3>2
  <2>5. CASE e = WholeChunk(b, c)
    <3>1. After(s, e) = Put(s, b, MoreWhole(s.blocks[b]))
      BY <1>1, <1>2, <1>3, <2>1, <2>5, BlockEvents
    <3> QED  BY <1>5, <1>7, <2>3, <3>1
  <2>6. CASE e = Piece(b, c)
    <3>1. After(s, e) = Put(s, b, MorePieces(s.blocks[b]))
      BY <1>1, <1>2, <1>3, <2>6, BlockEvents
    <3> QED  BY <1>5, <1>7, <2>3, <3>1
  <2> QED  BY <2>4, <2>5, <2>6 DEF ChatChunks
<1>9. CASE indexes[c] = 0
  <2>1. ~IsOpen(s, b, c)
    BY <1>1, <1>9 DEF CanOpen, IsOpen
  <2>2. CASE e = Chunk(b, c)
    <3>1. After(s, e) = Put(s, b, New(c, 0))
      BY <1>1, <1>2, <1>3, <2>1, <2>2, BlockEvents
    <3> QED  BY <1>5, <1>6, <1>7, <3>1
  <2>3. CASE e = WholeChunk(b, c)
    <3>1. After(s, e) = Put(s, b, New(c, 1))
      BY <1>1, <1>2, <1>3, <2>1, <2>3, BlockEvents
    <3> QED  BY <1>5, <1>6, <1>7, <3>1
  <2> QED  BY <1>9, <2>2, <2>3 DEF ChatChunks
<1> QED  BY <1>8, <1>9

LEMMA IndexedMore ==
  ASSUME NEW indexes \in [Calls -> Nat], IsFiniteSet(Indexed(indexes)), NEW c \in Calls,
         NEW b \in Nat \ {0}, NEW js, IsGiven(js, indexes, c, b, Calls, Nat)
  PROVE  /\ Indexed(js) = Indexed(indexes) \cup {c} /\ IsFiniteSet(Indexed(js))
         /\ Cardinality(Indexed(js)) = ChatNext(indexes, c, Cardinality(Indexed(indexes)))
         /\ Cardinality(Indexed(indexes)) \in Nat
<1>1. Indexed(js) = Indexed(indexes) \cup {c}
  BY DEF Indexed, IsGiven
<1>2. c \in Indexed(indexes) <=> indexes[c] # 0
  BY DEF Indexed
<1> QED  BY <1>1, <1>2, FS_AddElement, FS_CardinalityType DEF ChatNext

(* What a part of a call leaves.                                           *)
LEMMA ChatCallKeeps ==
  ASSUME ChatInv, PartOf, NEW c \in Calls, NEW e, Chat!Emit(c, <<e>>),
         e \in ChatChunks(Chat!ToolIndex(c), c, toolIndexes[c] # 0),
         CallsTyped', \A d \in Calls \ {c} : call'[d].at = call[d].at
  PROVE  ChatInv'
<1> DEFINE n == Cardinality(Indexed(toolIndexes))
           b == Chat!ToolIndex(c)
<1>1. /\ toolIndexes \in [Calls -> Nat] /\ IsFiniteSet(Indexed(toolIndexes)) /\ n <= parts
      /\ parts < MaxParts /\ parts \in Nat /\ n \in Nat /\ parts' = parts + 1
      /\ upstream = "streaming" /\ upstream' = "streaming" /\ out = <<>> /\ UNCHANGED <<blocks, phase>>
  BY FS_CardinalityType, PartsAssumption DEF ChatInv, ChatTypes, PartOf
<1>2. b = ChatIndex(toolIndexes, c, n)
  <2>1. Chat!Known = Indexed(toolIndexes)
    BY DEF Chat!Known, Indexed
  <2>2. Chat!Cardinality(Chat!Known) = n
    BY <2>1, ChatCardinality
  <2>3. c \in Chat!Known <=> toolIndexes[c] # 0
    BY DEF Chat!Known
  <2> QED  BY <2>2, <2>3 DEF Chat!ToolIndex, ChatIndex
<1>3. out' = <<e>> /\ toolIndexes' = Given(toolIndexes, c, b)
  BY DEF Chat!Emit, Given
<1> HIDE DEF b
<1>4. b \in Nat \ {0}
  BY <1>1, <1>2 DEF ChatIndex
<1>5. IsGiven(toolIndexes', toolIndexes, c, b, Calls, Nat)
  BY <1>1, <1>3, <1>4, GivenIs
<1>6. /\ IsFiniteSet(Indexed(toolIndexes')) /\ toolIndexes' \in [Calls -> Nat]
      /\ Cardinality(Indexed(toolIndexes')) = ChatNext(toolIndexes, c, n)
  BY <1>1, <1>4, <1>5, IndexedMore DEF IsGiven
<1>7. ChatTypes'
  <2>1. ChatNext(toolIndexes, c, n) <= parts + 1
    BY <1>1 DEF ChatNext
  <2> QED  BY <1>1, <1>6, <2>1, PartsAssumption DEF ChatTypes
<1>8. PICK t : Plays("chat", Now, out, t) /\ ChatKnown(t, toolIndexes, n) /\ ChatPhase(t)
  BY DEF ChatInv
<1>9. t = Now /\ Now' = Now /\ t.phase = "open"
  BY <1>1, <1>8, PlaysNothing DEF Now, ChatPhase
<1>10. n < MaxBlocks
  BY <1>1, PartsAssumption DEF MaxBlocks
<1>11. e \in ChatChunks(b, c, toolIndexes[c] # 0)
  BY DEF b
<1> HIDE DEF n
<1>12. PICK u : /\ Plays("chat", t, <<e>>, u) /\ u.phase = "open"
                /\ ChatKnown(u, toolIndexes', ChatNext(toolIndexes, c, n))
  BY <1>1, <1>2, <1>5, <1>8, <1>9, <1>10, <1>11, ChunkPlays
<1>13. Plays("chat", Now', out', u)
  BY <1>3, <1>9, <1>12
<1>14. ChatKnown(u, toolIndexes, Cardinality(Indexed(toolIndexes)))'
  BY <1>6, <1>12
<1>15. ChatPhase(u)'
  BY <1>1, <1>12 DEF ChatPhase
<1>16. StartedKnown'
  <2>1. ASSUME NEW d \in Calls, call'[d].at = "started" PROVE toolIndexes'[d] # 0
    BY <1>4, <1>5, <2>1 DEF IsGiven, ChatInv, StartedKnown
  <2> QED  BY <2>1 DEF StartedKnown
<1> QED  BY <1>7, <1>13, <1>14, <1>15, <1>16 DEF ChatInv

LEMMA ChatComes ==
  ASSUME CallsTyped, NEW c \in Calls, NEW status, Chat!Comes(c, status)
  PROVE  CallsTyped' /\ call'[c].at = status /\ \A d \in Calls \ {c} : call'[d] = call[d]
<1> DEFINE place == IF call[c].place = 0
                    THEN 1 + Chat!Cardinality({d \in Calls : call[d].place > 0}) ELSE call[c].place
           new == [call[c] EXCEPT !.at = status, !.place = place]
<1>1. call' = [call EXCEPT ![c] = new]
  BY DEF Chat!Comes, CallsTyped
<1>2. IsCall(call[c])
  BY DEF CallsTyped
<1> HIDE DEF place
<1>3. IsCall(new) /\ new.at = status
  BY <1>2, CallMoved
<1> HIDE DEF new
<1>4. call' = [d \in Calls |-> IF d = c THEN new ELSE call[d]]
  BY <1>1 DEF CallsTyped
<1> QED  BY <1>3, <1>4 DEF CallsTyped

LEMMA ChatInputStartKeeps ==
  ASSUME ChatInv, NEW c \in Calls, Chat!ToolInputStart(c)
  PROVE  ChatInv'
<1>1. PartOf /\ Chat!Comes(c, "started")
  BY DEF Chat!ToolInputStart, Chat!SendInputStart, Chat!Part, Chat!Asked, PartOf
<1>2. Chat!Emit(c, <<Chunk(Chat!ToolIndex(c), c)>>)
  BY DEF Chat!ToolInputStart, Chat!Chunk, Chunk
<1>3. CallsTyped' /\ \A d \in Calls \ {c} : call'[d].at = call[d].at
  BY <1>1, ChatComes DEF ChatInv
<1>4. Chunk(Chat!ToolIndex(c), c) \in ChatChunks(Chat!ToolIndex(c), c, toolIndexes[c] # 0)
  BY DEF ChatChunks
<1> QED  BY <1>1, <1>2, <1>3, <1>4, ChatCallKeeps

LEMMA ChatInputDeltaKeeps ==
  ASSUME ChatInv, NEW c \in Calls, Chat!ToolInputDelta(c)
  PROVE  ChatInv'
<1>1. PartOf /\ call[c].at = "started" /\ call' = [call EXCEPT ![c].pieces = @ + 1]
  BY DEF Chat!ToolInputDelta, Chat!SendInput, Chat!Part, Chat!Asked, PartOf
<1>2. Chat!Emit(c, <<Piece(Chat!ToolIndex(c), c)>>)
  BY DEF Chat!ToolInputDelta, Chat!Piece, Piece
<1>3. CallsTyped' /\ \A d \in Calls \ {c} : call'[d].at = call[d].at
  BY <1>1, InputKnown DEF ChatInv
<1>4. toolIndexes[c] # 0
  BY <1>1 DEF ChatInv, StartedKnown
<1>5. Piece(Chat!ToolIndex(c), c) \in ChatChunks(Chat!ToolIndex(c), c, toolIndexes[c] # 0)
  BY <1>4 DEF ChatChunks
<1> QED  BY <1>1, <1>2, <1>3, <1>5, ChatCallKeeps

LEMMA ChatToolCallKeeps ==
  ASSUME ChatInv, NEW c \in Calls, Chat!ToolCall(c)
  PROVE  ChatInv'
<1>1. PartOf /\ Chat!Comes(c, "called")
  BY DEF Chat!ToolCall, Chat!SendCall, Chat!Part, Chat!Asked, PartOf
<1>2. PICK e \in {Chunk(Chat!ToolIndex(c), c), WholeChunk(Chat!ToolIndex(c), c)} : Chat!Emit(c, <<e>>)
  <2>1. \/ Chat!Emit(c, <<Chunk(Chat!ToolIndex(c), c)>>)
        \/ Chat!Emit(c, <<WholeChunk(Chat!ToolIndex(c), c)>>)
    BY DEF Chat!ToolCall, Chat!Chunk, Chunk, Chat!WholeChunk, WholeChunk
  <2> QED  BY <2>1
<1>3. CallsTyped' /\ \A d \in Calls \ {c} : call'[d].at = call[d].at
  BY <1>1, ChatComes DEF ChatInv
<1>4. e \in ChatChunks(Chat!ToolIndex(c), c, toolIndexes[c] # 0)
  BY <1>2 DEF ChatChunks
<1> QED  BY <1>1, <1>2, <1>3, <1>4, ChatCallKeeps

LEMMA ChatUnindexedKeeps ==
  ASSUME ChatInv, Chat!Unindexed
  PROVE  ChatInv'
<1>1. /\ PartOf /\ out' = <<>> /\ toolIndexes' = toolIndexes
      /\ parts' = parts + 1 /\ parts < MaxParts
  BY DEF Chat!Unindexed, Chat!SendText, Chat!SendReasoning, Chat!SendReasoningStart, Chat!SendReasoningEnd,
         Chat!SendOther, Chat!SendResult, Chat!Part, Chat!Asked, Chat!rendererVars, PartOf
<1>2. call' = call \/ \E c \in Calls : Chat!Comes(c, "answered")
  BY DEF Chat!Unindexed, Chat!SendText, Chat!SendReasoning, Chat!SendReasoningStart, Chat!SendReasoningEnd,
         Chat!SendOther, Chat!SendResult
<1>3. CallsTyped' /\ StartedKnown'
  <2>1. CASE call' = call
    BY <1>1, <2>1 DEF ChatInv, CallsTyped, StartedKnown
  <2>2. ASSUME NEW c \in Calls, Chat!Comes(c, "answered") PROVE CallsTyped' /\ StartedKnown'
    <3>1. CallsTyped' /\ call'[c].at = "answered" /\ \A d \in Calls \ {c} : call'[d] = call[d]
      BY <2>2, ChatComes DEF ChatInv
    <3> QED  BY <1>1, <3>1 DEF ChatInv, StartedKnown
  <2> QED  BY <1>2, <2>1, <2>2
<1>4. ChatTypes'
  <2>1. Cardinality(Indexed(toolIndexes)) \in Nat
    BY FS_CardinalityType DEF ChatInv, ChatTypes
  <2> QED  BY <1>1, <2>1, PartsAssumption DEF ChatInv, ChatTypes
<1>5. PICK t : /\ Plays("chat", Now, out, t) /\ ChatPhase(t)
               /\ ChatKnown(t, toolIndexes, Cardinality(Indexed(toolIndexes)))
  BY DEF ChatInv
<1>6. Plays("chat", Now', out', t)
  BY <1>1, <1>5 DEF Now, PartOf
<1>7. ChatPhase(t)' /\ ChatKnown(t, toolIndexes, Cardinality(Indexed(toolIndexes)))'
  BY <1>1, <1>5 DEF ChatPhase, PartOf
<1> QED  BY <1>3, <1>4, <1>6, <1>7 DEF ChatInv

LEMMA ChatPhased ==
  ASSUME NEW s, NEW indexes, NEW n, ChatKnown(s, indexes, n), NEW p \in Phases
  PROVE  /\ ChatKnown(Phased(s, p), indexes, n) /\ Phased(s, p).phase = p /\ s \in States /\ CallsOnly(s)
<1> DEFINE t == Phased(s, p)
<1>1. s \in States /\ CallsOnly(s)
  <2>1. \A b \in 0..MaxBlocks : b = 0 \/ b \in 1..MaxBlocks
    BY PartsAssumption DEF MaxBlocks
  <2> QED  BY <2>1 DEF ChatKnown, CallsOnly
<1>2. t \in States /\ t.blocks = s.blocks /\ t.phase = p
  BY <1>1 DEF Phased, States
<1> HIDE DEF t
<1>3. ChatKnown(t, indexes, n)
  BY <1>2 DEF ChatKnown, IsOpen
<1> QED  BY <1>1, <1>2, <1>3 DEF t

(* What the end of the stream leaves.                                      *)
LEMMA ChatEnds ==
  ASSUME ChatInv, out = <<>>, UNCHANGED <<blocks, phase, parts, call, toolIndexes>>,
         upstream' = "over" \/ (upstream = "streaming" /\ upstream' = "finished"),
         NEW u, NEW p \in Phases, u = Phased(Now, p), Plays("chat", Now, out', u),
         upstream' = "finished" => p = "completed"
  PROVE  ChatInv'
<1>1. PICK t : /\ Plays("chat", Now, out, t) /\ ChatPhase(t)
               /\ ChatKnown(t, toolIndexes, Cardinality(Indexed(toolIndexes)))
  BY DEF ChatInv
<1>2. t = Now /\ Now' = Now
  BY <1>1, PlaysNothing DEF Now
<1>3. ChatKnown(u, toolIndexes, Cardinality(Indexed(toolIndexes))) /\ u.phase = p
  BY <1>1, <1>2, ChatPhased
<1>4. /\ ChatPhase(u)' /\ ChatKnown(u, toolIndexes, Cardinality(Indexed(toolIndexes)))'
      /\ Plays("chat", Now', out', u)
  BY <1>2, <1>3 DEF ChatPhase
<1>5. ChatTypes' /\ CallsTyped' /\ StartedKnown'
  BY DEF ChatInv, ChatTypes, CallsTyped, StartedKnown
<1> QED  BY <1>4, <1>5 DEF ChatInv

LEMMA ChatNow ==
  ASSUME ChatInv, out = <<>>, upstream \in {"streaming", "finished"}
  PROVE  /\ Now \in States /\ CallsOnly(Now)
         /\ Now.phase = IF upstream = "streaming" THEN "open" ELSE "completed"
<1>1. PICK t : /\ Plays("chat", Now, out, t) /\ ChatPhase(t)
               /\ ChatKnown(t, toolIndexes, Cardinality(Indexed(toolIndexes)))
  BY DEF ChatInv
<1>2. t = Now
  BY <1>1, PlaysNothing
<1>3. Now \in States /\ CallsOnly(Now)
  BY <1>1, <1>2, ChatPhased DEF Phases
<1> QED  BY <1>1, <1>2, <1>3 DEF ChatPhase

LEMMA ChatEndKeeps ==
  ASSUME ChatInv, Chat!Finish \/ Chat!Error \/ Chat!Return
  PROVE  ChatInv'
<1>1. /\ out = <<>> /\ UNCHANGED <<blocks, phase, parts, call, toolIndexes>>
      /\ upstream \in {"streaming", "finished"}
      /\ upstream' = "over" \/ (upstream = "streaming" /\ upstream' = "finished" /\ Chat!Finish)
  BY DEF Chat!Finish, Chat!Error, Chat!Return, Chat!SendFinish, Chat!SendError, Chat!Throw, Chat!EndOfStream,
         Chat!Ends, Chat!Asked, Chat!rendererVars
<1>2. /\ Now \in States /\ CallsOnly(Now)
      /\ Now.phase = IF upstream = "streaming" THEN "open" ELSE "completed"
  BY <1>1, ChatNow
<1>3. CASE Chat!Finish
  <2>1. out' = <<Completed>> /\ upstream = "streaming"
    BY <1>3 DEF Chat!Finish, Chat!SendFinish, Chat!Ends, Chat!Completed, Chat!Signal, Completed, Signal
  <2>2. Plays("chat", Now, <<Completed>>, Phased(Now, "completed"))
    BY <1>2, <2>1, PlaysCompleted
  <2> QED  BY <1>1, <2>1, <2>2, ChatEnds DEF Phases
<1>4. CASE Chat!Error
  <2>1. out' = <<Failed, Closed>> /\ upstream' = "over"
    BY <1>4 DEF Chat!Error, Chat!SendError, Chat!Throw, Chat!Ends, Chat!Failed, Chat!Closed, Chat!Signal,
       Failed, Closed, Signal
  <2>2. Plays("chat", Now, <<Failed, Closed>>, Phased(Now, "failed"))
    BY <1>2, PlaysFailed
  <2> QED  BY <1>1, <2>1, <2>2, ChatEnds DEF Phases
<1>5. CASE Chat!Return
  <2> DEFINE p == IF Now.phase \in {"before", "open"} THEN "truncated" ELSE Now.phase
  <2>1. out' = <<Closed>> /\ upstream' = "over"
    BY <1>5 DEF Chat!Return, Chat!EndOfStream, Chat!Ends, Chat!Closed, Chat!Signal, Closed, Signal
  <2>2. Plays("chat", Now, <<Closed>>, Phased(Now, p))
    BY <1>2, PlaysClosed
  <2>3. p \in Phases
    BY <1>2 DEF Phases
  <2> HIDE DEF p
  <2> QED  BY <1>1, <2>1, <2>2, <2>3, ChatEnds
<1> QED  BY <1>3, <1>4, <1>5

LEMMA ChatReadKeeps ==
  ASSUME ChatInv, format = "chat", Read, UNCHANGED toolIndexes
  PROVE  ChatInv' /\ (Client!Next \/ UNCHANGED Client!vars)
<1>1. PICK u : /\ Plays("chat", Now, out, u) /\ ChatPhase(u)
               /\ ChatKnown(u, toolIndexes, Cardinality(Indexed(toolIndexes)))
  BY DEF ChatInv
<1>2. Plays("chat", Now', out', u) /\ (Client!Next \/ UNCHANGED Client!vars)
  BY <1>1, ReadsOn
<1>3. parts' = parts /\ upstream' = upstream /\ call' = call
  BY DEF Read, upstreamVars
<1>4. ChatPhase(u)' /\ ChatKnown(u, toolIndexes, Cardinality(Indexed(toolIndexes)))'
  BY <1>1, <1>3 DEF ChatPhase
<1>5. ChatTypes' /\ CallsTyped' /\ StartedKnown'
  BY <1>3 DEF ChatInv, ChatTypes, CallsTyped, StartedKnown
<1> QED  BY <1>2, <1>4, <1>5 DEF ChatInv

LEMMA ChatSteps ==
  ASSUME ChatInv, format = "chat", Chat!Next
  PROVE  ChatInv' /\ (Client!Next \/ UNCHANGED Client!vars) /\ format' = format
<1>1. CASE Chat!Read /\ UNCHANGED Chat!rendererVars
  <2>1. Read /\ UNCHANGED toolIndexes /\ UNCHANGED format
    BY <1>1, ReadsTheSame DEF Chat!rendererVars, Read, upstreamVars
  <2> QED  BY <2>1, ChatReadKeeps
<1>2. CASE Chat!Step
  <2>1. ChatInv'
    BY <1>2, ChatInputStartKeeps, ChatInputDeltaKeeps, ChatToolCallKeeps, ChatUnindexedKeeps, ChatEndKeeps
       DEF Chat!Step
  <2>2. UNCHANGED <<format, blocks, phase>>
    BY <1>2, StepsAreParts, PartsAreSilent
  <2> QED  BY <2>1, <2>2 DEF Client!vars
<1> QED  BY <1>1, <1>2 DEF Chat!Next

LEMMA CallsInitially ==
  ASSUME StreamInit
  PROVE  CallsTyped /\ \A c \in Calls : call[c].at = "none"
<1> DEFINE r == [at |-> "none", pieces |-> 0, place |-> 0]
<1>1. r \in CallIn({"none", 0}) /\ r.at = "none"
  BY DEF CallIn
<1>2. IsCall(r)
  BY <1>1 DEF IsCall
<1>3. call = [c \in Calls |-> r]
  BY DEF StreamInit
<1> HIDE DEF r
<1> QED  BY <1>1, <1>2, <1>3 DEF CallsTyped

LEMMA ChatInitially ==
  ASSUME StreamInit, Chat!RendererInit, format = "chat"
  PROVE  ChatInv
<1>1. parts = 0 /\ upstream = "streaming" /\ out = <<>> /\ phase = "open"
  BY DEF StreamInit
<1>2. toolIndexes \in [Calls -> Nat] /\ \A c \in Calls : toolIndexes[c] = 0
  BY DEF Chat!RendererInit
<1>3. Indexed(toolIndexes) = {} /\ IsFiniteSet(Indexed(toolIndexes)) /\ Cardinality(Indexed(toolIndexes)) = 0
  BY <1>2, FS_EmptySet DEF Indexed
<1>4. ChatTypes
  BY <1>1, <1>2, <1>3, PartsAssumption DEF ChatTypes
<1>5. CallsTyped /\ StartedKnown
  BY CallsInitially DEF StartedKnown
<1>6. Plays("chat", Now, out, Now) /\ Now.phase = "open"
  BY <1>1, NothingYet, PlaysNone DEF Now
<1>7. ChatKnown(Now, toolIndexes, 0)
  <2>1. /\ 0 \in 0..MaxBlocks
        /\ \A b \in 1..MaxBlocks : b \in 0..MaxBlocks /\ ~(b <= 0)
    BY PartsAssumption DEF MaxBlocks
  <2> QED  BY <1>2, <2>1, NothingYet DEF ChatKnown
<1> QED  BY <1>1, <1>3, <1>4, <1>5, <1>6, <1>7 DEF ChatInv, ChatPhase

-----------------------------------------------------------------------------
(* The three renderers together.                                           *)

(* The invariants speak of what is rendered and of what the renderers keep.*)
LEMMA RenderersIdle ==
  ASSUME RenderInv, picked # "rendered", picked' = picked
  PROVE  RenderInv'
BY DEF RenderInv

LEMMA CollectedSilent ==
  ASSUME Collected!Next
  PROVE  UNCHANGED Client!vars
BY StepsAreParts, PartsAreSilent DEF Client!vars

LEMMA RenderStep ==
  ASSUME RenderInv, MCNext
  PROVE  RenderInv' /\ (Client!Next \/ UNCHANGED Client!vars)
<1>1. picked' = picked
  BY DEF MCNext
<1>2. CASE RenderResponses
  BY <1>1, <1>2, ResponsesSteps DEF RenderResponses, RenderInv
<1>3. CASE RenderAnthropic
  BY <1>1, <1>3, MessageSteps DEF RenderAnthropic, RenderInv
<1>4. CASE RenderChat
  BY <1>1, <1>4, ChatSteps DEF RenderChat, RenderInv
<1>5. CASE Collect
  BY <1>1, <1>5, CollectedSilent, RenderersIdle DEF Collect
<1>6. CASE PassOn
  BY <1>1, <1>6, RenderersIdle DEF PassOn, partVars, upstreamVars, clientVars, Client!vars
<1> QED  BY <1>2, <1>3, <1>4, <1>5, <1>6 DEF MCNext

LEMMA RenderStutter ==
  ASSUME RenderInv, UNCHANGED vars
  PROVE  RenderInv' /\ UNCHANGED Client!vars
<1>1. /\ UNCHANGED <<picked, format, kind, parts, reasoning, call, upstream, out, blocks, phase>>
      /\ UNCHANGED <<responseStarted, nextOutputIndex, currentOutputIndex, textItemStarted, reasoningItemStarted,
                     completedOutput, toolCallOutputIndices, toolCallStartEmitted>>
      /\ UNCHANGED <<messageStarted, currentBlockIndex, currentBlockType, pendingToolCalls, toolIndexes>>
  BY DEF vars, partVars, upstreamVars, clientVars, responsesVars, anthropicVars
<1>2. Now' = Now
  BY <1>1 DEF Now
<1>3. ResponsesInv => ResponsesInv'
  <2> SUFFICES ASSUME ResponsesInv PROVE ResponsesInv'
    OBVIOUS
  <2>1. PICK t : Plays("responses", Now, out, t) /\ ResponseKnown(t) /\ ResponsePhase(t)
    BY DEF ResponsesInv
  <2>2. Plays("responses", Now', out', t)
    BY <1>1, <1>2, <2>1
  <2>3. ResponseKnown(t)' /\ ResponsePhase(t)'
    BY <1>1, <2>1 DEF ResponseKnown, ResponsePhase
  <2>4. ResponsesTypes'
    <3>1. ResponsesCount'
      BY <1>1 DEF ResponsesInv, ResponsesTypes, ResponsesCount
    <3>2. ResponsesFlags'
      BY Zenon, <1>1 DEF ResponsesInv, ResponsesTypes, ResponsesFlags
    <3> QED  BY <3>1, <3>2 DEF ResponsesTypes
  <2>5. CallsTyped' /\ CallsKnown'
    BY <1>1 DEF ResponsesInv, CallsTyped, CallsKnown
  <2> QED  BY <2>2, <2>3, <2>4, <2>5 DEF ResponsesInv
<1>4. MessageInv => MessageInv'
  <2> SUFFICES ASSUME MessageInv PROVE MessageInv'
    OBVIOUS
  <2>1. PICK t : /\ Plays("anthropic", Now, out, t)
                 /\ MessageKnown(t, currentBlockIndex, currentBlockType) /\ MessagePhase(t)
    BY DEF MessageInv
  <2>2. Plays("anthropic", Now', out', t)
    BY <1>1, <1>2, <2>1
  <2>3. MessageTypes' /\ MessageKnown(t, currentBlockIndex, currentBlockType)' /\ MessagePhase(t)'
    BY <1>1, <2>1 DEF MessageInv, MessageTypes, MessageCount, MessagePhase
  <2> QED  BY <2>2, <2>3 DEF MessageInv
<1>5. ChatInv => ChatInv'
  <2> SUFFICES ASSUME ChatInv PROVE ChatInv'
    OBVIOUS
  <2>1. PICK t : /\ Plays("chat", Now, out, t) /\ ChatPhase(t)
                 /\ ChatKnown(t, toolIndexes, Cardinality(Indexed(toolIndexes)))
    BY DEF ChatInv
  <2>2. Plays("chat", Now', out', t)
    BY <1>1, <1>2, <2>1
  <2>3. ChatPhase(t)' /\ ChatKnown(t, toolIndexes, Cardinality(Indexed(toolIndexes)))'
    BY <1>1, <2>1 DEF ChatPhase
  <2>4. ChatTypes' /\ CallsTyped' /\ StartedKnown'
    BY <1>1 DEF ChatInv, ChatTypes, CallsTyped, StartedKnown
  <2> QED  BY <2>2, <2>3, <2>4 DEF ChatInv
<1> QED  BY <1>1, <1>3, <1>4, <1>5 DEF RenderInv, Client!vars

LEMMA RenderInitially ==
  ASSUME MCInit
  PROVE  RenderInv /\ Client!Init
<1>1. StreamInit /\ Responses!RendererInit /\ Anthropic!RendererInit /\ Chat!RendererInit
  BY DEF MCInit
<1>2. RenderInv
  BY <1>1, ResponsesInitially, MessageInitially, ChatInitially DEF RenderInv
<1>3. Client!Init
  BY <1>1 DEF StreamInit, Client!Init, Client!Closed, Nothing
<1> QED  BY <1>2, <1>3

(* Whatever the upstream brings, breaks off or throws, and however the     *)
(* client's reads fall between, what each of the three renderers sends is  *)
(* a stream of blocks as BlockStream promises it.                          *)
THEOREM BlocksAreStreamed == MCSpec => IsBlockStream
<1>1. MCInit => RenderInv /\ Client!Init
  BY RenderInitially
<1>2. RenderInv /\ [MCNext]_vars => RenderInv' /\ [Client!Next]_Client!vars
  BY RenderStep, RenderStutter
<1> QED  BY <1>1, <1>2, PTL DEF MCSpec, IsBlockStream, Client!Spec

-----------------------------------------------------------------------------
(* What has come (PartStream).                                             *)

LEMMA PlacedIs ==
  ASSUME NEW calls
  PROVE  /\ IsFiniteSet(Placed(calls)) /\ Cardinality(Placed(calls)) \in Nat
         /\ Cardinality(Placed(calls)) <= Cardinality(Calls) /\ Cardinality(Calls) \in Nat
         /\ \A c \in Calls \ Placed(calls) : Cardinality(Placed(calls)) < Cardinality(Calls)
<1>1. IsFiniteSet(Calls) /\ Placed(calls) \in SUBSET Calls
  BY BoundsAssumption DEF Placed
<1>2. IsFiniteSet(Placed(calls)) /\ Cardinality(Placed(calls)) <= Cardinality(Calls)
  BY <1>1, FS_Subset
<1>3. Cardinality(Placed(calls)) \in Nat /\ Cardinality(Calls) \in Nat
  BY <1>1, <1>2, FS_CardinalityType
<1>4. ASSUME NEW c \in Calls \ Placed(calls) PROVE Cardinality(Placed(calls)) < Cardinality(Calls)
  <2>1. IsFiniteSet(Calls \ {c}) /\ Cardinality(Calls \ {c}) = Cardinality(Calls) - 1
    BY <1>1, <1>4, FS_RemoveElement
  <2>2. Placed(calls) \in SUBSET (Calls \ {c})
    BY <1>1, <1>4
  <2>3. Cardinality(Placed(calls)) <= Cardinality(Calls \ {c})
    BY <2>1, <2>2, FS_Subset
  <2> QED  BY <1>3, <2>1, <2>3
<1> QED  BY <1>2, <1>3, <1>4

(* A call moves on, and comes to its place if it is new.                   *)
LEMMA ComesIs ==
  ASSUME PartInv, NEW c \in Calls, NEW status \in {"started", "called", "answered"}, Comes(c, status)
  PROVE  /\ call' \in [Calls -> CallOf] /\ UNCHANGED <<sent, reasoning>>
         /\ call'[c].at = status /\ call'[c].pieces = call[c].pieces
         /\ call'[c].place = IF call[c].at = "none" THEN 1 + Cardinality(Placed(call)) ELSE call[c].place
         /\ \A d \in Calls \ {c} : call'[d] = call[d]
         /\ Placed(call') = Placed(call) \cup {c}
         /\ Cardinality(Placed(call')) =
              IF call[c].at = "none" THEN 1 + Cardinality(Placed(call)) ELSE Cardinality(Placed(call))
<1> DEFINE n == IF call[c].at = "none" THEN 1 + Cardinality(Placed(call)) ELSE call[c].place
<1>1. /\ call \in [Calls -> CallOf] /\ call[c] \in CallOf
      /\ call[c].place = 0 <=> call[c].at = "none"
  BY DEF PartInv
<1>2. call' = [call EXCEPT ![c] = Moved(call[c], status, n)] /\ UNCHANGED <<sent, reasoning>>
  <2>1. /\ UNCHANGED <<sent, reasoning>>
        /\ call' = [call EXCEPT ![c].at = status,
                                ![c].place = IF @ = 0 THEN 1 + Cardinality(Placed(call)) ELSE @]
    BY DEF Comes, Placed
  <2>2. call' = [call EXCEPT ![c] = [[call[c] EXCEPT !.at = status] EXCEPT
                    !.place = IF @ = 0 THEN 1 + Cardinality(Placed(call)) ELSE @]]
    BY <1>1, <2>1
  <2>3. [call[c] EXCEPT !.at = status].place = call[c].place
    BY <1>1 DEF CallOf
  <2> QED  BY <1>1, <2>1, <2>2, <2>3 DEF Moved
<1>3. /\ IsFiniteSet(Placed(call)) /\ Cardinality(Placed(call)) \in Nat
      /\ Cardinality(Placed(call)) <= Cardinality(Calls) /\ Cardinality(Calls) \in Nat
      /\ \A d \in Calls \ Placed(call) : Cardinality(Placed(call)) < Cardinality(Calls)
  BY PlacedIs
<1>4. call[c].at = "none" <=> c \notin Placed(call)
  BY <1>1, <1>3 DEF Placed, CallOf
<1>5. n \in 0..Cardinality(Calls) /\ n > 0
  BY <1>1, <1>3, <1>4 DEF CallOf, Placed
<1> HIDE DEF n
<1>6. /\ Moved(call[c], status, n) \in CallOf /\ Moved(call[c], status, n).at = status
      /\ Moved(call[c], status, n).pieces = call[c].pieces /\ Moved(call[c], status, n).place = n
  BY <1>1, <1>5 DEF Moved, CallOf
<1>7. /\ call' \in [Calls -> CallOf] /\ call'[c] = Moved(call[c], status, n)
      /\ \A d \in Calls \ {c} : call'[d] = call[d]
  BY <1>1, <1>2, <1>6
<1>8. Placed(call') = Placed(call) \cup {c}
  BY <1>5, <1>6, <1>7 DEF Placed
<1>9. Cardinality(Placed(call) \cup {c}) =
        IF c \in Placed(call) THEN Cardinality(Placed(call)) ELSE Cardinality(Placed(call)) + 1
  BY <1>3, FS_AddElement
<1>10. Cardinality(Placed(call')) =
         IF call[c].at = "none" THEN 1 + Cardinality(Placed(call)) ELSE Cardinality(Placed(call))
  BY <1>3, <1>4, <1>8, <1>9
<1> QED  BY <1>2, <1>6, <1>7, <1>8, <1>10 DEF n

LEMMA CallComes ==
  ASSUME PartInv, NEW c \in Calls, NEW status \in {"started", "called", "answered"}, Comes(c, status),
         UNCHANGED <<kind, upstream>>, parts' \in parts..MaxParts, status = "answered" => kind[c] = "hosted"
  PROVE  PartInv'
<1>1. /\ call' \in [Calls -> CallOf] /\ UNCHANGED <<sent, reasoning>>
      /\ call'[c].at = status /\ call'[c].pieces = call[c].pieces
      /\ call'[c].place = IF call[c].at = "none" THEN 1 + Cardinality(Placed(call)) ELSE call[c].place
      /\ \A d \in Calls \ {c} : call'[d] = call[d]
      /\ Cardinality(Placed(call')) =
           IF call[c].at = "none" THEN 1 + Cardinality(Placed(call)) ELSE Cardinality(Placed(call))
  BY ComesIs
<1>2. Cardinality(Placed(call)) \in Nat
  BY PlacedIs
<1>3. \A d \in Calls : call[d].place \in Nat
  BY DEF PartInv, CallOf
<1>4. ASSUME NEW d \in Calls
      PROVE  /\ call'[d].place = 0 <=> call'[d].at = "none"
             /\ call'[d].place <= Cardinality(Placed(call'))
             /\ call'[d].at = "none" => call'[d].pieces = 0
             /\ call'[d].at = "answered" => kind'[d] = "hosted"
  <2>1. CASE d = c
    BY <1>1, <1>2, <1>3, <2>1 DEF PartInv
  <2>2. CASE d # c
    BY <1>1, <1>2, <1>3, <2>2 DEF PartInv
  <2> QED  BY <2>1, <2>2
<1>5. parts' \in 0..MaxParts /\ sent' \in [text : 0..parts', reasoning : 0..parts']
  BY <1>1, PartsAssumption DEF PartInv
<1> QED  BY <1>1, <1>4, <1>5 DEF PartInv

LEMMA PiecesCome ==
  ASSUME PartInv, NEW c \in Calls, SendInput(c)
  PROVE  PartInv'
<1>1. /\ call[c].at = "started" /\ call[c].pieces < MaxPieces
      /\ call' = [call EXCEPT ![c] = [call[c] EXCEPT !.pieces = @ + 1]]
      /\ parts < MaxParts /\ parts' = parts + 1 /\ UNCHANGED <<sent, reasoning, upstream, kind>>
      /\ call \in [Calls -> CallOf]
  BY DEF SendInput, Part, Asked, PartInv
<1>2. call[c] \in CallOf /\ call[c].pieces \in 0..MaxPieces
  BY <1>1 DEF CallOf
<1> DEFINE r == [call[c] EXCEPT !.pieces = @ + 1]
<1>3. r \in CallOf /\ r.at = call[c].at /\ r.place = call[c].place /\ r.pieces = call[c].pieces + 1
  BY <1>1, <1>2, BoundsAssumption DEF CallOf
<1> HIDE DEF r
<1>4. call' \in [Calls -> CallOf] /\ \A d \in Calls : call'[d] = IF d = c THEN r ELSE call[d]
  BY <1>1, <1>3 DEF r
<1>5. Placed(call') = Placed(call)
  BY <1>3, <1>4 DEF Placed
<1>6. \A d \in Calls : call'[d].at = call[d].at /\ call'[d].place = call[d].place
  BY <1>3, <1>4
<1>7. \A d \in Calls : call'[d].at = "none" => call'[d].pieces = 0
  BY <1>1, <1>3, <1>4 DEF PartInv
<1>8. parts' \in 0..MaxParts /\ sent' \in [text : 0..parts', reasoning : 0..parts']
  BY <1>1, PartsAssumption DEF PartInv
<1> QED  BY <1>1, <1>4, <1>5, <1>6, <1>7, <1>8 DEF PartInv

LEMMA PartSteps == PartInv /\ PartStep => PartInv'
<1> SUFFICES ASSUME PartInv, PartStep PROVE PartInv'
  OBVIOUS
<1>1. Part => /\ parts' \in parts..MaxParts /\ parts' = parts + 1 /\ parts' \in 0..MaxParts
              /\ UNCHANGED <<kind, upstream>>
  BY PartsAssumption DEF Part, Asked, PartInv
<1>2. CASE UNCHANGED upstreamVars
  BY <1>2 DEF upstreamVars, PartInv, Placed
<1>3. CASE \E c \in Calls : SendInputStart(c) \/ SendInput(c) \/ SendCall(c) \/ SendResult(c)
  <2>1. PICK c \in Calls : SendInputStart(c) \/ SendInput(c) \/ SendCall(c) \/ SendResult(c)
    BY <1>3
  <2>2. CASE SendInputStart(c)
    BY <1>1, <2>2, CallComes DEF SendInputStart
  <2>3. CASE SendInput(c)
    BY <2>3, PiecesCome
  <2>4. CASE SendCall(c)
    BY <1>1, <2>4, CallComes DEF SendCall
  <2>5. CASE SendResult(c)
    BY <1>1, <2>5, CallComes DEF SendResult
  <2> QED  BY <2>1, <2>2, <2>3, <2>4, <2>5
<1>4. ASSUME UNCHANGED <<kind, call>>, parts' \in parts..MaxParts, reasoning' \in BOOLEAN,
             upstream' \in {"streaming", "finished", "over"},
             sent' \in [text : 0..parts', reasoning : 0..parts']
      PROVE  PartInv'
  <2>1. parts' \in 0..MaxParts /\ Placed(call') = Placed(call)
    BY <1>4, PartsAssumption DEF PartInv, Placed
  <2> QED  BY <1>4, <2>1 DEF PartInv
<1>5. /\ sent \in [text : 0..parts, reasoning : 0..parts] /\ parts \in 0..MaxParts
      /\ reasoning \in BOOLEAN /\ upstream \in {"streaming", "finished", "over"}
  BY DEF PartInv
<1>6. CASE SendText \/ SendReasoning
  <2>1. Part /\ reasoning' \in BOOLEAN /\ UNCHANGED <<kind, call>>
    BY <1>5, <1>6 DEF SendText, SendReasoning, Part, Asked
  <2>2. sent' = [sent EXCEPT !.text = @ + 1] \/ sent' = [sent EXCEPT !.reasoning = @ + 1]
    BY <1>6 DEF SendText, SendReasoning
  <2>3. sent' \in [text : 0..parts', reasoning : 0..parts']
    BY <1>1, <1>5, <2>1, <2>2
  <2> QED  BY <1>1, <1>4, <1>5, <2>1, <2>3
<1>7. CASE SendReasoningStart \/ SendReasoningEnd \/ SendOther
  <2>1. Part /\ reasoning' \in BOOLEAN /\ UNCHANGED <<kind, call, sent>>
    BY <1>5, <1>7 DEF SendReasoningStart, SendReasoningEnd, SendOther, Part, Asked
  <2>2. sent' \in [text : 0..parts', reasoning : 0..parts']
    BY <1>1, <1>5, <2>1
  <2> QED  BY <1>1, <1>4, <1>5, <2>1, <2>2
<1>8. CASE SendFinish \/ SendError \/ Throw \/ EndOfStream
  <2>1. upstream' \in {"streaming", "finished", "over"} /\ UNCHANGED <<parts, sent, reasoning, call, kind>>
    BY <1>8 DEF SendFinish, SendError, Throw, EndOfStream, Ends, Asked
  <2> QED  BY <1>4, <1>5, <2>1, PartsAssumption
<1>9. CASE Read
  BY <1>2, <1>9 DEF Read
<1> QED  BY <1>2, <1>3, <1>6, <1>7, <1>8, <1>9 DEF PartStep, PartSent

LEMMA PartInitially == StreamInit => PartInv
<1> SUFFICES ASSUME StreamInit PROVE PartInv
  OBVIOUS
<1>1. /\ parts = 0 /\ sent = [text |-> 0, reasoning |-> 0] /\ reasoning = FALSE /\ upstream = "streaming"
      /\ call = [c \in Calls |-> [at |-> "none", pieces |-> 0, place |-> 0]]
  BY DEF StreamInit
<1>2. Cardinality(Placed(call)) \in Nat /\ Cardinality(Calls) \in Nat
  BY PlacedIs
<1>3. [at |-> "none", pieces |-> 0, place |-> 0] \in CallOf
  BY <1>2, BoundsAssumption DEF CallOf
<1>4. call \in [Calls -> CallOf]
  BY <1>1, <1>3
<1>5. \A c \in Calls : call[c].place = 0 /\ call[c].at = "none" /\ call[c].pieces = 0
  BY <1>1
<1>6. sent \in [text : 0..parts, reasoning : 0..parts] /\ parts \in 0..MaxParts
  BY <1>1, PartsAssumption
<1>7. \A c \in Calls :
        /\ call[c].place = 0 <=> call[c].at = "none"
        /\ call[c].place <= Cardinality(Placed(call))
        /\ call[c].at = "none" => call[c].pieces = 0
        /\ call[c].at = "answered" => kind[c] = "hosted"
  BY <1>2, <1>5
<1>8. reasoning \in BOOLEAN /\ upstream \in {"streaming", "finished", "over"}
  BY <1>1
<1> QED  BY <1>4, <1>6, <1>7, <1>8 DEF PartInv

(* A call more.                                                            *)
LEMMA CallListed ==
  ASSUME PartInv, CalledOnce, NEW c \in Calls, SendCall(c)
  PROVE  CalledOnce'
<1>1. /\ call[c].at \notin {"called", "answered"} /\ call'[c].at = "called"
      /\ \A d \in Calls \ {c} : call'[d] = call[d]
      /\ called' = Append(called, c)
  BY ComesIs DEF SendCall
<1>2. /\ called \in Seq(Calls) /\ Len(called) \in Nat
      /\ DOMAIN called = 1..Len(called)
      /\ \A i, j \in DOMAIN called : called[i] = called[j] => i = j
      /\ \A d \in Calls : call[d].at \in {"called", "answered"} <=> \E i \in DOMAIN called : called[i] = d
  BY DEF CalledOnce, Complete
<1>3. \A i \in DOMAIN called : called[i] # c
  BY <1>1, <1>2
<1>4. /\ called' \in Seq(Calls) /\ DOMAIN called' = 1..(Len(called) + 1)
      /\ \A i \in 1..Len(called) : called'[i] = called[i] /\ i \in 1..(Len(called) + 1)
      /\ called'[Len(called) + 1] = c
      /\ \A i \in 1..(Len(called) + 1) : i \in 1..Len(called) \/ i = Len(called) + 1
  BY <1>1, <1>2
<1>5. \A i, j \in DOMAIN called' : called'[i] = called'[j] => i = j
  BY <1>2, <1>3, <1>4
<1>6. ASSUME NEW d \in Calls
      PROVE  call'[d].at \in {"called", "answered"} <=> \E i \in DOMAIN called' : called'[i] = d
  <2>1. CASE d = c
    <3>1. Len(called) + 1 \in DOMAIN called'
      BY <1>2, <1>4
    <3> QED  BY <1>1, <1>4, <2>1, <3>1
  <2>2. CASE d # c
    <3>1. (\E i \in DOMAIN called : called[i] = d) => \E i \in DOMAIN called' : called'[i] = d
      BY <1>2, <1>4
    <3>2. (\E i \in DOMAIN called' : called'[i] = d) => \E i \in DOMAIN called : called[i] = d
      BY <1>2, <1>4, <2>2
    <3> QED  BY <1>1, <1>2, <2>2, <3>1, <3>2
  <2> QED  BY <2>1, <2>2
<1> QED  BY <1>4, <1>5, <1>6 DEF CalledOnce, Complete

LEMMA CalledSteps ==
  ASSUME PartInv, CalledOnce, PartStep
  PROVE  CalledOnce'
<1>1. CASE \E c \in Calls : SendCall(c)
  BY <1>1, CallListed
<1>2. ASSUME called' = called, \A c \in Calls : Complete(c)' <=> Complete(c) PROVE CalledOnce'
  BY <1>2 DEF CalledOnce
<1>3. CASE SendText \/ SendReasoningStart \/ SendReasoning \/ SendReasoningEnd \/ SendOther
  BY <1>2, <1>3 DEF SendText, SendReasoningStart, SendReasoning, SendReasoningEnd, SendOther, Complete
<1>4. CASE SendFinish \/ SendError \/ Throw \/ EndOfStream \/ Read \/ UNCHANGED upstreamVars
  BY <1>2, <1>4 DEF SendFinish, SendError, Throw, EndOfStream, Ends, Read, upstreamVars, Complete
<1>5. ASSUME NEW c \in Calls, SendInputStart(c) \/ SendResult(c) PROVE CalledOnce'
  <2>1. /\ called' = called /\ \A d \in Calls \ {c} : call'[d] = call[d]
        /\ call'[c].at \in {"called", "answered"} <=> call[c].at \in {"called", "answered"}
    BY <1>5, ComesIs DEF SendInputStart, SendResult
  <2> QED  BY <1>2, <2>1 DEF Complete
<1>6. ASSUME NEW c \in Calls, SendInput(c) PROVE CalledOnce'
  <2>1. call \in [Calls -> CallOf] /\ call' = [call EXCEPT ![c].pieces = @ + 1] /\ called' = called
    BY <1>6 DEF SendInput, PartInv
  <2>2. \A d \in Calls : call'[d].at = call[d].at
    BY <2>1 DEF CallOf
  <2> QED  BY <1>2, <2>1, <2>2 DEF Complete
<1> QED  BY <1>1, <1>3, <1>4, <1>5, <1>6 DEF PartStep, PartSent

LEMMA NextIsPart == MCNext => PartStep
BY StepsAreParts, ReadsTheSame
   DEF MCNext, RenderResponses, RenderAnthropic, RenderChat, Collect, PassOn, partVars, PartStep,
       Responses!Next, Anthropic!Next, Chat!Next

LEMMA PartsKept ==
  ASSUME PartInv, [MCNext]_vars
  PROVE  PartInv' /\ (CalledOnce => CalledOnce')
<1>1. UNCHANGED vars => PartStep
  BY DEF partVars, vars, PartStep, upstreamVars
<1> QED  BY <1>1, NextIsPart, PartSteps, CalledSteps

LEMMA ClientInitially == Client!Init => ClientInv
BY DEF Client!Init, Client!Closed, ClientInv

LEMMA ClientSteps == ClientInv /\ (Client!Next \/ UNCHANGED Client!vars) => ClientInv'
<1> DEFINE Found == [status : {"none", "open", "closed"}, of : Subjects \cup {"-"}, pieces : Nat, whole : Nat]
<1> SUFFICES ASSUME ClientInv, Client!Next \/ UNCHANGED Client!vars PROVE ClientInv'
  OBVIOUS
<1>1. blocks \in [0..MaxBlocks -> Found] /\ phase \in {"before", "open", "completed", "failed", "truncated"}
  BY DEF ClientInv
<1>2. CASE Client!Start \/ Client!Complete \/ Client!Fail \/ Client!Truncate \/ UNCHANGED Client!vars
  BY <1>2 DEF ClientInv, Client!Start, Client!Complete, Client!Fail, Client!Truncate, Client!vars
<1>3. ASSUME NEW b \in 0..MaxBlocks, Client!Piece(b) \/ Client!Close(b) PROVE ClientInv'
  <2>1. phase' = phase /\ blocks[b] \in Found
    BY <1>1, <1>3 DEF Client!Piece, Client!Close
  <2>2. \E v \in Found : blocks' = [blocks EXCEPT ![b] = v]
    <3>1. /\ [blocks[b] EXCEPT !.pieces = @ + 1] \in Found
          /\ [blocks[b] EXCEPT !.whole = @ + 1] \in Found
          /\ [blocks[b] EXCEPT !.status = "closed"] \in Found
      BY <2>1
    <3>2. \/ blocks' = [blocks EXCEPT ![b].pieces = @ + 1]
          \/ blocks' = [blocks EXCEPT ![b].whole = @ + 1]
          \/ blocks' = [blocks EXCEPT ![b].status = "closed"]
      BY <1>3 DEF Client!Piece, Client!Close
    <3> QED  BY <3>1, <3>2
  <2>3. blocks' \in [0..MaxBlocks -> Found]
    BY <1>1, <2>2
  <2> QED  BY <1>1, <2>1, <2>3 DEF ClientInv
<1>4. ASSUME NEW b \in 0..MaxBlocks, NEW x \in Calls \cup {"text", "reasoning"}, Client!Open(b, x) PROVE ClientInv'
  <2>1. phase' = phase /\ x \in Subjects
    BY <1>4 DEF Client!Open, Subjects
  <2>2. PICK whole \in {0, 1} :
          blocks' = [blocks EXCEPT ![b] = [status |-> "open", of |-> x, pieces |-> 0, whole |-> whole]]
    BY <1>4 DEF Client!Open
  <2>3. [status |-> "open", of |-> x, pieces |-> 0, whole |-> whole] \in Found
    BY <2>1, <2>2
  <2>4. blocks' \in [0..MaxBlocks -> Found]
    BY <1>1, <2>2, <2>3
  <2> QED  BY <1>1, <2>1, <2>4 DEF ClientInv
<1> QED  BY <1>2, <1>3, <1>4 DEF Client!Next

LEMMA TypesAreRight == PartInv /\ CalledOnce /\ ClientInv => TypeOK
<1> SUFFICES ASSUME PartInv, CalledOnce, ClientInv PROVE TypeOK
  OBVIOUS
<1>1. /\ parts \in 0..MaxParts /\ reasoning \in BOOLEAN
      /\ sent \in [text : 0..MaxParts, reasoning : 0..MaxParts]
      /\ upstream \in {"streaming", "finished", "over"}
  BY PartsAssumption DEF PartInv
<1>2. call \in [Calls -> [at : {"none", "started", "called", "answered"}, pieces : 0..MaxPieces,
                          place : 0..Cardinality(Calls)]]
  BY DEF PartInv, CallOf
<1>3. /\ \A b \in 0..MaxBlocks : blocks[b].status \in {"none", "open", "closed"}
      /\ phase \in {"before", "open", "completed", "failed", "truncated"} /\ called \in Seq(Calls)
  BY DEF ClientInv, CalledOnce
<1> QED  BY <1>1, <1>2, <1>3 DEF TypeOK

-----------------------------------------------------------------------------
(* The answer that is collected (CollectedAnswer).                         *)

(* A few items, and the calls after them.                                  *)
LEMMA CallsAfter ==
  ASSUME NEW p, p \in Seq({"text", "reasoning"}), CalledOnce, NEW list, list = called, NEW a, a = p \o list
  PROVE  IsAnswer(a, p)
<1>1. /\ list \in Seq(Calls) /\ Len(list) \in Nat /\ Len(p) \in Nat
      /\ DOMAIN list = 1..Len(list) /\ DOMAIN p = 1..Len(p)
  BY DEF CalledOnce
<1> DEFINE S == Calls \cup {"text", "reasoning"}
<1>2. p \in Seq(S) /\ list \in Seq(S)
  BY <1>1
<1> HIDE DEF S
<1>3. /\ a \in Seq(S) /\ DOMAIN a = 1..(Len(p) + Len(list))
      /\ \A i \in 1..(Len(p) + Len(list)) : a[i] = IF i <= Len(p) THEN p[i] ELSE list[i - Len(p)]
  BY <1>1, <1>2
<1>4. ASSUME NEW x, NEW i \in DOMAIN p, p[i] = x PROVE \E j \in DOMAIN a : a[j] = x
  <2>1. i \in DOMAIN a /\ i <= Len(p)
    BY <1>1, <1>3
  <2> QED  BY <1>3, <1>4, <2>1
<1>5. ASSUME NEW c \in Calls, NEW i \in DOMAIN a, a[i] = c PROVE i > Len(p) /\ i - Len(p) \in DOMAIN list /\ list[i - Len(p)] = c
  <2>1. c \notin {"text", "reasoning"}
    BY PartsAssumption
  <2>2. \A j \in 1..Len(p) : p[j] \in {"text", "reasoning"}
    BY <1>1
  <2>3. ~(i <= Len(p))
    <3>1. i <= Len(p) => i \in 1..Len(p) /\ p[i] = c
      BY <1>1, <1>3, <1>5
    <3> QED  BY <2>1, <2>2, <3>1
  <2> QED  BY <1>1, <1>3, <1>5, <2>3
<1>6. ASSUME NEW c \in Calls
      PROVE  Cardinality({i \in DOMAIN a : a[i] = c}) = IF Complete(c) THEN 1 ELSE 0
  <2> DEFINE I == {i \in DOMAIN a : a[i] = c}
  <2>1. CASE Complete(c)
    <3>1. PICK k \in DOMAIN list : list[k] = c
      BY <2>1 DEF CalledOnce
    <3>2. Len(p) + k \in DOMAIN a /\ ~(Len(p) + k <= Len(p)) /\ (Len(p) + k) - Len(p) = k
      BY <1>1, <1>3
    <3>3. a[Len(p) + k] = c
      BY <1>3, <3>1, <3>2
    <3>4. ASSUME NEW i \in I PROVE i = Len(p) + k
      <4>1. i - Len(p) \in DOMAIN list /\ list[i - Len(p)] = c
        BY <1>5, <3>4
      <4>2. i - Len(p) = k
        BY <3>1, <4>1 DEF CalledOnce
      <4> QED  BY <1>1, <1>3, <4>2
    <3>5. I = {Len(p) + k}
      BY <3>2, <3>3, <3>4
    <3> HIDE DEF I
    <3>6. Cardinality(I) = 1
      BY <3>5, FS_Singleton
    <3> QED  BY <2>1, <3>6 DEF I
  <2>2. CASE ~Complete(c)
    <3>1. ~ \E k \in DOMAIN list : list[k] = c
      BY <2>2 DEF CalledOnce
    <3>2. I = {}
      BY <1>5, <3>1
    <3> HIDE DEF I
    <3>3. Cardinality(I) = 0
      BY <3>2, FS_EmptySet
    <3> QED  BY <2>2, <3>3 DEF I
  <2> QED  BY <2>1, <2>2
<1>7. ASSUME NEW i \in DOMAIN a, NEW j \in DOMAIN a, NEW k \in DOMAIN list, NEW n \in DOMAIN list,
             a[i] = list[k], a[j] = list[n], k < n
      PROVE  i < j
  <2>1. list[k] \in Calls /\ list[n] \in Calls
    BY <1>1
  <2>2. i - Len(p) = k /\ j - Len(p) = n
    BY <1>5, <1>7, <2>1 DEF CalledOnce
  <2> QED  BY <1>1, <1>3, <1>7, <2>2
<1> QED  BY <1>4, <1>6, <1>7 DEF IsAnswer

LEMMA AnswerIsComplete == ASSUME CollectedInv, PartInv, CalledOnce PROVE Collected!ContentArrives
<1>0. \A S : Collected!Cardinality(S) = Cardinality(S)
  BY DEF Collected!Cardinality, Cardinality
<1> SUFFICES ASSUME result = "answered" PROVE Collected!ContentArrives
  BY DEF Collected!ContentArrives
<1>1. /\ text = sent.text /\ reasoningText = sent.reasoning /\ toolCalls = called
      /\ answer = Collected!Rendered /\ format \in {"responses", "anthropic", "chat"}
  BY DEF CollectedInv, CollectedSoFar
<1> DEFINE T == {"text", "reasoning"}
           r == Collected!If(reasoningText > 0, "reasoning")
           m == Collected!If(text > 0, "text")
           t == <<"text">>
<1>2. /\ r = IF reasoningText > 0 THEN <<"reasoning">> ELSE <<>>
      /\ m = IF text > 0 THEN <<"text">> ELSE <<>>
  BY DEF Collected!If
<1>3. t \in Seq(T) /\ Len(t) = 1 /\ t[1] = "text"
  OBVIOUS
<1>4. <<>> \in Seq(T) /\ <<"reasoning">> \in Seq(T) /\ Len(<<"reasoning">>) = 1 /\ <<"reasoning">>[1] = "reasoning"
  OBVIOUS
<1> DEFINE p == IF format = "responses" THEN r \o t ELSE IF format = "anthropic" THEN m ELSE t \o r
<1>5. answer = p \o toolCalls
  BY <1>1 DEF Collected!Rendered, Collected!ResponseItems, Collected!MessageItems, Collected!ChatItems
<1>6. r \in Seq(T) /\ m \in Seq(T)
  BY <1>2, <1>3, <1>4
<1>7. reasoningText > 0 => Len(r) = 1 /\ r[1] = "reasoning"
  BY <1>2, <1>4
<1>8. text > 0 => Len(m) = 1 /\ m[1] = "text"
  BY <1>2, <1>3
<1> HIDE DEF r, m, t, T
<1>9. /\ r \o t \in Seq(T) /\ t \o r \in Seq(T) /\ DOMAIN m = 1..Len(m)
      /\ Len(r) + 1 \in DOMAIN (r \o t) /\ (r \o t)[Len(r) + 1] = "text"
      /\ 1 \in DOMAIN (t \o r) /\ (t \o r)[1] = "text"
  <2>1. 1 \in 1..Len(t)
    BY <1>3
  <2>2. AreJoined(r \o t, r, t, T)
    BY <1>3, <1>6, TwoJoined
  <2>3. AreJoined(t \o r, t, r, T)
    BY <1>3, <1>6, TwoJoined
  <2>4. Len(r) + 1 \in DOMAIN (r \o t) /\ (r \o t)[Len(r) + 1] = t[1] /\ DOMAIN m = 1..Len(m)
    BY <1>6, <2>1, <2>2 DEF AreJoined
  <2>5. 1 \in DOMAIN (t \o r) /\ (t \o r)[1] = t[1]
    BY <2>1, <2>3 DEF AreJoined
  <2> QED  BY <1>3, <2>2, <2>3, <2>4, <2>5 DEF AreJoined
<1>10. ASSUME reasoningText > 0
       PROVE  /\ 1 \in DOMAIN (r \o t) /\ (r \o t)[1] = "reasoning"
              /\ 2 \in DOMAIN (t \o r) /\ (t \o r)[2] = "reasoning"
  <2>1. Len(r) = 1 /\ r[1] = "reasoning"
    BY <1>7, <1>10
  <2>2. 1 \in 1..Len(r) /\ Len(t) = 1
    BY <1>3, <2>1
  <2>3. Len(t) + 1 = 2
    BY <2>2
  <2>4. AreJoined(r \o t, r, t, T)
    BY <1>3, <1>6, TwoJoined
  <2>5. AreJoined(t \o r, t, r, T)
    BY <1>3, <1>6, TwoJoined
  <2>6. 1 \in DOMAIN (r \o t) /\ (r \o t)[1] = r[1]
    BY <2>2, <2>4 DEF AreJoined
  <2>7. Len(t) + 1 \in DOMAIN (t \o r) /\ (t \o r)[Len(t) + 1] = r[1]
    BY <2>2, <2>5 DEF AreJoined
  <2> QED  BY <2>1, <2>3, <2>6, <2>7
<1>11. p \in Seq(T)
  BY <1>6, <1>9
<1>12. ASSUME text > 0 PROVE \E i \in DOMAIN p : p[i] = "text"
  <2>1. \E i \in DOMAIN (r \o t) : (r \o t)[i] = "text"
    BY <1>9
  <2>2. \E i \in DOMAIN (t \o r) : (t \o r)[i] = "text"
    BY <1>9
  <2>3. \E i \in DOMAIN m : m[i] = "text"
    BY <1>8, <1>9, <1>12
  <2> QED  BY <2>1, <2>2, <2>3
<1>13. ASSUME reasoningText > 0, format # "anthropic" PROVE \E i \in DOMAIN p : p[i] = "reasoning"
  <2>1. \E i \in DOMAIN (r \o t) : (r \o t)[i] = "reasoning"
    BY <1>10, <1>13
  <2>2. \E i \in DOMAIN (t \o r) : (t \o r)[i] = "reasoning"
    BY <1>10, <1>13
  <2> QED  BY <1>13, <2>1, <2>2
<1> HIDE DEF p
<1>14. IsAnswer(answer, p)
  BY <1>1, <1>5, <1>11, CallsAfter DEF T
<1>15. /\ sent.text > 0 => \E i \in DOMAIN answer : answer[i] = "text"
       /\ sent.reasoning > 0 /\ format # "anthropic" => \E i \in DOMAIN answer : answer[i] = "reasoning"
  BY <1>1, <1>12, <1>13, <1>14 DEF IsAnswer
<1> QED  BY <1>0, <1>14, <1>15 DEF Collected!ContentArrives, IsAnswer, Collected!Complete, Complete

LEMMA CollectedSteps ==
  ASSUME PartInv, CollectedInv, picked = "collected", picked' = picked, Collected!Next
  PROVE  CollectedInv'
<1>1. /\ text = sent.text /\ reasoningText = sent.reasoning /\ toolCalls = called
      /\ result # "collecting" => upstream # "streaming"
      /\ upstream = "finished" => result = "releasing"
      /\ result \in {"releasing", "answered"} => answer = Collected!Rendered
      /\ format \in {"responses", "anthropic", "chat"}
      /\ sent \in [text : 0..parts, reasoning : 0..parts] /\ parts \in Nat
  BY PartsAssumption DEF CollectedInv, CollectedSoFar, PartInv
<1>2. ASSUME Part, Collected!Quietly, toolCalls' = called', text' = sent'.text, reasoningText' = sent'.reasoning
      PROVE  CollectedInv'
  <2>1. upstream = "streaming" /\ upstream' = upstream /\ format' = format /\ result' = result
    BY <1>2 DEF Part, Asked, Collected!Quietly
  <2>2. result' = "collecting"
    BY <1>1, <2>1
  <2> QED  BY <1>1, <1>2, <2>1, <2>2 DEF CollectedInv, CollectedSoFar
<1>3. CASE Collected!TextDelta
  <2>1. Part /\ Collected!Quietly /\ UNCHANGED <<called, toolCalls>> /\ text' = text + 1
        /\ sent' = [sent EXCEPT !.text = @ + 1] /\ reasoningText' = reasoningText
    BY <1>3, CollectedParts DEF Collected!TextDelta, SendText
  <2>2. text' = sent'.text /\ reasoningText' = sent'.reasoning
    BY <1>1, <2>1
  <2> QED  BY <1>1, <1>2, <2>1, <2>2
<1>4. CASE Collected!ReasoningDelta
  <2>1. Part /\ Collected!Quietly /\ UNCHANGED <<called, toolCalls>> /\ reasoningText' = reasoningText + 1
        /\ sent' = [sent EXCEPT !.reasoning = @ + 1] /\ text' = text
    BY <1>4, CollectedParts DEF Collected!ReasoningDelta, SendReasoning
  <2>2. text' = sent'.text /\ reasoningText' = sent'.reasoning
    BY <1>1, <2>1
  <2> QED  BY <1>1, <1>2, <2>1, <2>2
<1>5. CASE \E c \in Calls : Collected!ToolCall(c)
  <2>1. PICK c \in Calls : Collected!ToolCall(c)
    BY <1>5
  <2>2. /\ SendCall(c) /\ toolCalls' = Append(toolCalls, c) /\ Collected!Quietly
        /\ text' = text /\ reasoningText' = reasoningText
    BY <2>1, CollectedParts DEF Collected!ToolCall
  <2>3. Part /\ sent' = sent /\ called' = Append(called, c)
    BY <2>2 DEF SendCall, Comes
  <2> QED  BY <1>1, <1>2, <2>2, <2>3
<1>6. CASE Collected!Ignored
  <2>1. /\ Collected!Quietly /\ UNCHANGED <<text, reasoningText, toolCalls>>
        /\ \/ SendReasoningStart \/ SendReasoningEnd \/ SendOther
           \/ \E c \in Calls : SendInputStart(c) \/ SendInput(c) \/ SendResult(c)
    BY <1>6, CollectedParts DEF Collected!Ignored
  <2>2. Part /\ sent' = sent /\ called' = called
    BY <2>1 DEF SendReasoningStart, SendReasoningEnd, SendOther, SendInputStart, SendInput, SendResult, Comes
  <2> QED  BY <1>1, <1>2, <2>1, <2>2
<1>7. CASE Collected!Finish \/ Collected!Release \/ Collected!Fails
  <2>1. /\ upstream' # "streaming" /\ UNCHANGED <<format, sent, called, text, reasoningText, toolCalls>>
        /\ upstream \in {"streaming", "finished"}
        /\ upstream' = "finished" => result' = "releasing"
    BY <1>7, CollectedParts
       DEF Collected!Finish, Collected!Release, Collected!Fails, SendFinish, SendError, Throw, EndOfStream, Ends, Asked
  <2>3. Collected!Rendered' = Collected!Rendered
    BY <2>1 DEF Collected!Rendered, Collected!ResponseItems, Collected!MessageItems, Collected!ChatItems
  <2>4. result' \in {"releasing", "answered"} => answer' = Collected!Rendered
    <3>1. CASE Collected!Finish
      BY <3>1 DEF Collected!Finish
    <3>2. CASE Collected!Fails
      BY <3>2 DEF Collected!Fails
    <3>3. CASE Collected!Release
      <4>1. answer' = answer /\ upstream = "finished"
        BY <3>3 DEF Collected!Release
      <4> QED  BY <1>1, <4>1
    <3> QED  BY <1>7, <3>1, <3>2, <3>3
  <2>5. CollectedSoFar'
    BY <1>1, <2>1, <2>3, <2>4 DEF CollectedSoFar
  <2> QED  BY <1>1, <2>1, <2>5 DEF CollectedInv
<1> QED  BY <1>3, <1>4, <1>5, <1>6, <1>7 DEF Collected!Next

-----------------------------------------------------------------------------
(* What the events bring (blocks of a text, of a reasoning and of a call). *)

LEMMA PlaysSplit ==
  ASSUME NEW f, NEW s, NEW q, NEW p, NEW u, q \in Seq(Events), p \in Seq(Events), Plays(f, s, q \o p, u)
  PROVE  \E w : Plays(f, s, q, w) /\ Plays(f, w, p, u)
<1> DEFINE m == Len(q)
           k == Len(p)
           all == q \o p
<1>1. /\ m \in Nat /\ k \in Nat /\ Len(all) = m + k
      /\ \A i \in 1..(m + k) : all[i] = IF i <= m THEN q[i] ELSE p[i - m]
  OBVIOUS
<1>2. PICK r \in [0..(m + k) -> States] : r[0] = s /\ r[m + k] = u /\ IsRun(f, all, r)
  BY <1>1 DEF Plays
<1> DEFINE g == [i \in 0..m |-> r[i]]
           h == [i \in 0..k |-> r[m + i]]
<1>3. (\A i \in 0..m : i \in 0..(m + k)) /\ \A i \in 0..k : m + i \in 0..(m + k)
  BY <1>1
<1> HIDE DEF m, k, all
<1>4. /\ g \in [0..m -> States] /\ \A i \in 0..m : g[i] = r[i]
      /\ h \in [0..k -> States] /\ \A i \in 0..k : h[i] = r[m + i]
  BY <1>2, <1>3
<1>5. 0 \in 0..m /\ m \in 0..m /\ 0 \in 0..k /\ k \in 0..k /\ m + 0 = m
  BY <1>1
<1> HIDE DEF g, h
<1>6. g[0] = s /\ g[m] = r[m] /\ h[0] = r[m] /\ h[k] = u
  BY <1>2, <1>4, <1>5
<1>7. ASSUME NEW i \in 1..m PROVE May(f, g[i - 1], q[i]) /\ g[i] = After(g[i - 1], q[i])
  <2>1. i \in 1..(m + k) /\ i <= m /\ i - 1 \in 0..m /\ i \in 0..m
    BY <1>1
  <2>2. May(f, r[i - 1], all[i]) /\ r[i] = After(r[i - 1], all[i])
    BY <1>1, <1>2, <2>1 DEF IsRun
  <2> QED  BY <1>1, <1>4, <2>1, <2>2
<1>8. ASSUME NEW i \in 1..k PROVE May(f, h[i - 1], p[i]) /\ h[i] = After(h[i - 1], p[i])
  <2>1. /\ m + i \in 1..(m + k) /\ ~(m + i <= m) /\ (m + i) - m = i /\ i - 1 \in 0..k /\ i \in 0..k
        /\ (m + i) - 1 = m + (i - 1)
    BY <1>1
  <2>2. May(f, r[(m + i) - 1], all[m + i]) /\ r[m + i] = After(r[(m + i) - 1], all[m + i])
    BY <1>1, <1>2, <2>1 DEF IsRun
  <2>3. all[m + i] = p[i]
    BY <1>1, <2>1
  <2> QED  BY <1>4, <2>1, <2>2, <2>3
<1>9. IsRun(f, q, g) /\ IsRun(f, p, h)
  BY <1>7, <1>8 DEF IsRun, m, k
<1>10. Plays(f, s, q, r[m]) /\ Plays(f, r[m], p, u)
  BY <1>4, <1>6, <1>9 DEF Plays, m, k
<1> QED  BY <1>10

(* The events lead to one state only.                                      *)
LEMMA PlaysUnique ==
  ASSUME NEW f, NEW s, NEW q, NEW u, NEW v, Plays(f, s, q, u), Plays(f, s, q, v)
  PROVE  u = v
<1> DEFINE n == Len(q)
<1>1. PICK r \in [0..n -> States] : r[0] = s /\ r[n] = u /\ IsRun(f, q, r)
  BY DEF Plays
<1>2. PICK t \in [0..n -> States] : t[0] = s /\ t[n] = v /\ IsRun(f, q, t)
  BY DEF Plays
<1>3. n \in Nat
  BY DEF Plays
<1> DEFINE S == {i \in 0..n : r[i] = t[i]}
<1>4. 0 \in S
  BY <1>1, <1>2, <1>3
<1>5. ASSUME NEW i \in 0..n, i \in S, i < n PROVE i + 1 \in S
  <2>1. i + 1 \in 1..n /\ (i + 1) - 1 = i /\ i + 1 \in 0..n
    BY <1>3, <1>5
  <2>2. r[i + 1] = After(r[i], q[i + 1]) /\ t[i + 1] = After(t[i], q[i + 1])
    BY <1>1, <1>2, <2>1 DEF IsRun
  <2> QED  BY <1>5, <2>1, <2>2
<1> HIDE DEF S, n
<1>6. 0..n \subseteq S
  BY <1>3, <1>4, <1>5, BoundedInduction
<1>7. n \in S
  BY <1>3, <1>6
<1> QED  BY <1>1, <1>2, <1>7 DEF S

LEMMA PlaysOnly ==
  ASSUME NEW f, NEW s, NEW e, NEW u, Plays(f, s, <<e>>, u)
  PROVE  s \in States /\ May(f, s, e) /\ u = After(s, e) /\ u \in States
<1>1. <<e>> # <<>> /\ Head(<<e>>) = e /\ Tail(<<e>>) = <<>>
  OBVIOUS
<1>2. s \in States /\ May(f, s, e) /\ Plays(f, After(s, e), <<>>, u)
  BY <1>1, PlaysHead
<1> QED  BY <1>2, PlaysNothing

-----------------------------------------------------------------------------
(* A text may be in several blocks, which are told apart by their indexes. *)

LEMMA WeightsAre ==
  ASSUME NEW s \in States, NEW x
  PROVE  /\ IsFiniteSet(OfIn(s, x)) /\ PiecesIn(s, x) \in Nat
         /\ \A b \in 1..MaxBlocks : Weights(s)[b] = s.blocks[b].pieces /\ Weights(s)[b] \in Nat
                                    /\ s.blocks[b] \in Blocks
<1>1. /\ \A b \in 1..MaxBlocks : b \in 0..MaxBlocks
      /\ MaxBlocks \in Nat
  BY PartsAssumption DEF MaxBlocks
<1>2. \A b \in 1..MaxBlocks : s.blocks[b] \in Blocks
  BY <1>1 DEF States
<1>3. \A b \in 1..MaxBlocks : Weights(s)[b] = s.blocks[b].pieces /\ Weights(s)[b] \in Nat
  BY <1>2 DEF Weights, Blocks
<1>4. IsFiniteSet(1..MaxBlocks)
  BY <1>1, FS_Interval
<1>5. OfIn(s, x) \in SUBSET (1..MaxBlocks)
  BY DEF OfIn
<1>6. IsFiniteSet(OfIn(s, x))
  BY <1>4, <1>5, FS_Subset
<1>7. \A b \in OfIn(s, x) : Weights(s)[b] \in Nat
  BY <1>3, <1>5
<1>8. PiecesIn(s, x) \in Nat
  BY <1>6, <1>7, TotalNat DEF PiecesIn
<1> QED  BY <1>2, <1>3, <1>6, <1>8

LEMMA SameIs ==
  ASSUME NEW s \in States, NEW u \in States, NEW x, Same(s, u, x)
  PROVE  /\ PiecesIn(u, x) = PiecesIn(s, x) /\ OfIn(u, x) = OfIn(s, x)
         /\ \A b, status, n, m : Has(s, x, b, status, n, m) => Has(u, x, b, status, n, m)
<1>1. OfIn(u, x) = OfIn(s, x) /\ \A b \in OfIn(s, x) : u.blocks[b] = s.blocks[b]
  BY DEF Same
<1>2. IsFiniteSet(OfIn(s, x)) /\ OfIn(s, x) \subseteq 1..MaxBlocks
  BY WeightsAre DEF OfIn
<1>3. \A b \in OfIn(s, x) : Weights(s)[b] \in Nat /\ Weights(u)[b] = Weights(s)[b]
  BY <1>1, <1>2, WeightsAre
<1>4. Total(Weights(u), OfIn(s, x)) = Total(Weights(s), OfIn(s, x))
  BY <1>2, <1>3, TotalSame
<1> QED  BY <1>1, <1>4 DEF PiecesIn, Has

LEMMA PutsIs ==
  ASSUME NEW s \in States, NEW b \in 1..MaxBlocks, NEW x, NEW status, NEW v, IsBlock(v, status, x),
         status # "none", s.blocks[b].status = "none" \/ s.blocks[b].of = x,
         NEW u, u = Put(s, b, v)
  PROVE  Puts(s, u, b, x, v) /\ u \in States
<1>1. /\ u \in States /\ u.phase = s.phase /\ u.blocks[b] = v
      /\ \A d \in 1..MaxBlocks : d # b => u.blocks[d] = s.blocks[d]
      /\ v.of = x /\ v.status # "none"
  <2>1. IsPut(u, s, b, v)
    BY PutIs DEF IsBlock
  <2>2. \A d \in 1..MaxBlocks : d \in 0..MaxBlocks
    BY PartsAssumption DEF MaxBlocks
  <2> QED  BY <2>1, <2>2 DEF IsPut, IsBlock
<1>2. OfIn(u, x) = OfIn(s, x) \cup {b}
  BY <1>1 DEF OfIn
<1>3. \A d \in OfIn(s, x) \ {b} : u.blocks[d] = s.blocks[d]
  BY <1>1 DEF OfIn
<1>4. ASSUME NEW y, y # x PROVE Same(s, u, y)
  BY <1>1, <1>4 DEF Same, OfIn
<1> QED  BY <1>1, <1>2, <1>3, <1>4 DEF Puts

(* The number of pieces that it makes.                                     *)
LEMMA PutCounts ==
  ASSUME NEW s \in States, NEW u \in States, NEW b, NEW x, NEW v, Puts(s, u, b, x, v)
  PROVE  /\ b \notin OfIn(s, x) => PiecesIn(u, x) = PiecesIn(s, x) + v.pieces
         /\ b \in OfIn(s, x) =>
              \A k \in Nat : v.pieces = s.blocks[b].pieces + k => PiecesIn(u, x) = PiecesIn(s, x) + k
<1> DEFINE S == OfIn(s, x)
           R == S \ {b}
<1>1. /\ b \in 1..MaxBlocks /\ u.blocks[b] = v /\ OfIn(u, x) = S \cup {b}
      /\ \A d \in R : u.blocks[d] = s.blocks[d]
  BY DEF Puts
<1>2. /\ IsFiniteSet(S) /\ PiecesIn(s, x) \in Nat /\ S \subseteq 1..MaxBlocks
      /\ \A d \in 1..MaxBlocks : Weights(s)[d] = s.blocks[d].pieces /\ Weights(s)[d] \in Nat
      /\ \A d \in 1..MaxBlocks : Weights(u)[d] = u.blocks[d].pieces /\ Weights(u)[d] \in Nat
  BY WeightsAre DEF OfIn
<1> HIDE DEF S
<1>3. IsFiniteSet(R) /\ b \notin R /\ R \cup {b} = S \cup {b} /\ R \subseteq 1..MaxBlocks
  BY <1>2, FS_Subset
<1>4. \A d \in R : Weights(s)[d] \in Nat /\ Weights(u)[d] = Weights(s)[d]
  BY <1>1, <1>2, <1>3
<1> HIDE DEF R
<1>5. Total(Weights(u), R) = Total(Weights(s), R) /\ Total(Weights(s), R) \in Nat
  BY <1>3, <1>4, TotalSame, TotalNat
<1>6. \A d \in R \cup {b} : Weights(u)[d] \in Nat
  BY <1>1, <1>2, <1>3
<1>7. Total(Weights(u), R \cup {b}) = Total(Weights(u), R) + Weights(u)[b]
  BY <1>3, <1>6, TotalInserted
<1>8. PiecesIn(u, x) = Total(Weights(s), R) + v.pieces /\ v.pieces \in Nat
  BY <1>1, <1>2, <1>3, <1>5, <1>7 DEF PiecesIn
<1>9. CASE b \notin S
  <2>1. R = S
    BY <1>9 DEF R
  <2> QED  BY <1>8, <1>9, <2>1 DEF PiecesIn, S
<1>10. CASE b \in S
  <2>1. \A d \in R \cup {b} : Weights(s)[d] \in Nat
    BY <1>1, <1>2, <1>3
  <2>2. Total(Weights(s), R \cup {b}) = Total(Weights(s), R) + Weights(s)[b]
    BY <1>3, <2>1, TotalInserted
  <2>3. R \cup {b} = S
    BY <1>10 DEF R
  <2>4. PiecesIn(s, x) = Total(Weights(s), R) + s.blocks[b].pieces /\ s.blocks[b].pieces \in Nat
    BY <1>1, <1>2, <2>2, <2>3 DEF PiecesIn, S
  <2> QED  BY <1>5, <1>8, <1>10, <2>4 DEF S
<1> QED  BY <1>9, <1>10 DEF S

-----------------------------------------------------------------------------
(* What an event of a block makes.                                         *)

LEMMA EventPuts ==
  ASSUME NEW f, NEW s, NEW b, NEW x, NEW e \in EventsOf(b, x), NEW u, Plays(f, s, <<e>>, u)
  PROVE  /\ b \in 1..MaxBlocks /\ x \in Subjects /\ s \in States /\ u \in States /\ s.phase = "open"
         /\ EventMakes(s, e, b, x, u)
<1>1. s \in States /\ May(f, s, e) /\ u = After(s, e) /\ u \in States
  BY PlaysOnly
<1>2. IsEventOf(e, b, x)
  BY EventsOfBlocks
<1>3. "index" \in DOMAIN e /\ e.index = b /\ e.of = x
  BY <1>2 DEF IsEventOf
<1>4. ~MayPhase(f, s, e)
  BY <1>1, <1>3, PhaseEvents
<1>5. PICK d \in 1..MaxBlocks, y \in Subjects : MayBlock(f, s, e, d, y)
  BY <1>1, <1>4 DEF May
<1>6. e \in EventsOf(d, y)
  BY <1>5 DEF MayBlock, EventsOf
<1>7. d = b /\ y = x
  <2>1. IsEventOf(e, d, y)
    BY <1>6, EventsOfBlocks
  <2> QED  BY <1>3, <2>1 DEF IsEventOf
<1>8. b \in 1..MaxBlocks /\ x \in Subjects /\ MayBlock(f, s, e, b, x) /\ s.phase = "open"
  BY <1>5, <1>7 DEF MayBlock
<1> DEFINE v == s.blocks[b]
<1>9. /\ IsBlock(New(x, 0), "open", x) /\ IsBlock(New(x, 1), "open", x)
      /\ v.status = "open" /\ v.of = x =>
           /\ IsBlock(MorePieces(v), "open", x) /\ IsBlock(MoreWhole(v), "open", x)
           /\ IsBlock(Shut(v), "closed", x)
  BY <1>1, <1>8, BlocksAre DEF IsBlock, Statuses
<1>10. ASSUME NEW w, NEW status, IsBlock(w, status, x), status # "none", v.status = "none" \/ v.of = x,
              u = Put(s, b, w)
       PROVE  Puts(s, u, b, x, w)
  BY <1>1, <1>8, <1>10, PutsIs
<1>11. /\ e = Added(b, x) => u = Put(s, b, New(x, 0))
       /\ e = Piece(b, x) => u = Put(s, b, MorePieces(v))
       /\ e = Whole(b, x) => u = Put(s, b, MoreWhole(v))
       /\ e = Done(b, x) => u = Put(s, b, Shut(v))
       /\ e = Chunk(b, x) => u = IF IsOpen(s, b, x) THEN s ELSE Put(s, b, New(x, 0))
       /\ e = WholeChunk(b, x) => u = Put(s, b, IF IsOpen(s, b, x) THEN MoreWhole(v) ELSE New(x, 1))
  BY <1>1, <1>8, BlockEvents
<1>12. \/ e = Added(b, x) /\ CanOpen(f, s, b)
       \/ e \in {Chunk(b, x), WholeChunk(b, x)} /\ CanOpen(f, s, b)
       \/ e # Added(b, x) /\ IsOpen(s, b, x)
  <2>1. e \in {Piece(b, x), Whole(b, x), Done(b, x), Chunk(b, x), WholeChunk(b, x)} => e # Added(b, x)
    BY <1>2 DEF IsEventOf, Piece, Whole, Done, Chunk, WholeChunk
  <2> QED  BY <1>8, <2>1 DEF MayBlock
<1>13. /\ CanOpen(f, s, b) => v.status = "none"
       /\ IsOpen(s, b, x) => v.status = "open" /\ v.of = x
       /\ IsOpen(s, b, x) => ~CanOpen(f, s, b)
  BY DEF CanOpen, IsOpen
<1> HIDE DEF v
<1>14. e = Added(b, x) => v.status = "none" /\ Puts(s, u, b, x, New(x, 0))
  BY <1>2, <1>9, <1>10, <1>11, <1>12, <1>13 DEF IsEventOf
<1>15. /\ e = Piece(b, x) => IsOpen(s, b, x) /\ Puts(s, u, b, x, MorePieces(v))
       /\ e = Whole(b, x) => IsOpen(s, b, x) /\ Puts(s, u, b, x, MoreWhole(v))
       /\ e = Done(b, x) => IsOpen(s, b, x) /\ Puts(s, u, b, x, Shut(v))
  <2>1. e \in {Piece(b, x), Whole(b, x), Done(b, x)} =>
          e # Added(b, x) /\ e # Chunk(b, x) /\ e # WholeChunk(b, x)
    BY <1>2 DEF IsEventOf
  <2>2. e \in {Piece(b, x), Whole(b, x), Done(b, x)} => IsOpen(s, b, x)
    BY <1>12, <2>1
  <2> QED  BY <1>9, <1>10, <1>11, <1>13, <2>2
<1>16. e = Chunk(b, x) => IF IsOpen(s, b, x) THEN u = s
                          ELSE v.status = "none" /\ Puts(s, u, b, x, New(x, 0))
  BY <1>9, <1>10, <1>11, <1>12, <1>13
<1>17. e = WholeChunk(b, x) => IF IsOpen(s, b, x) THEN Puts(s, u, b, x, MoreWhole(v))
                               ELSE v.status = "none" /\ Puts(s, u, b, x, New(x, 1))
  <2>1. CASE IsOpen(s, b, x)
    BY <1>9, <1>10, <1>11, <1>13, <2>1
  <2>2. CASE ~IsOpen(s, b, x)
    BY <1>9, <1>10, <1>11, <1>12, <1>13, <2>2
  <2> QED  BY <2>1, <2>2
<1>18. EventMakes(s, e, b, x, u)
  BY <1>14, <1>15, <1>16, <1>17 DEF EventMakes, v
<1> QED  BY <1>1, <1>8, <1>18

LEMMA SameTwice ==
  ASSUME NEW s, NEW w, NEW u, NEW x
  PROVE  /\ Same(s, s, x)
         /\ Same(s, w, x) /\ Same(w, u, x) => Same(s, u, x)
         /\ Others(s, s, x)
         /\ Others(s, w, x) /\ Others(w, u, x) => Others(s, u, x)
BY DEF Same, Others

LEMMA HasOne ==
  ASSUME NEW s, NEW u, NEW b, NEW x, NEW v, Puts(s, u, b, x, v), OfIn(s, x) \subseteq {b}
  PROVE  Has(u, x, b, v.status, v.pieces, v.whole)
BY DEF Puts, Has

(* A block that is added is a call's first.                                *)
LEMMA AddedMakes ==
  ASSUME NEW f, NEW s, NEW b, NEW x, NEW u, Plays(f, s, <<Added(b, x)>>, u)
  PROVE  /\ s \in States /\ u \in States /\ b \in 1..MaxBlocks /\ Others(s, u, x)
         /\ OfIn(s, x) = {} => Has(u, x, b, "open", 0, 0)
         /\ Counts(s, u, x, 0)
<1> DEFINE e == Added(b, x)
<1>1. e \in EventsOf(b, x)
  BY DEF EventsOf
<1>2. /\ b \in 1..MaxBlocks /\ s \in States /\ u \in States /\ EventMakes(s, e, b, x, u)
  BY <1>1, EventPuts
<1>3. s.blocks[b].status = "none" /\ Puts(s, u, b, x, New(x, 0))
  BY <1>2 DEF EventMakes
<1>4. b \notin OfIn(s, x)
  BY <1>3 DEF OfIn
<1>5. PiecesIn(u, x) = PiecesIn(s, x) + New(x, 0).pieces
  BY <1>2, <1>3, <1>4, PutCounts
<1>6. New(x, 0).pieces = 0 /\ New(x, 0).whole = 0 /\ New(x, 0).status = "open" /\ PiecesIn(s, x) \in Nat
  BY <1>2, WeightsAre DEF New
<1>7. OfIn(s, x) = {} => Has(u, x, b, "open", 0, 0)
  BY <1>3, <1>6, HasOne
<1> QED  BY <1>2, <1>3, <1>5, <1>6, <1>7 DEF Puts, Others, Counts

(* An open block gets more, or is closed.                                  *)
LEMMA OpenMakes ==
  ASSUME NEW s \in States, NEW b \in 1..MaxBlocks, NEW x, NEW u \in States, NEW v, NEW k \in Nat,
         IsOpen(s, b, x), Puts(s, u, b, x, v), v.pieces = s.blocks[b].pieces + k
  PROVE  /\ Others(s, u, x) /\ Counts(s, u, x, k)
         /\ \A d, status, n, m : Has(s, x, d, status, n, m) =>
              /\ d = b /\ status = "open" /\ n = s.blocks[b].pieces /\ m = s.blocks[b].whole
              /\ Has(u, x, b, v.status, v.pieces, v.whole)
<1>1. b \in OfIn(s, x)
  BY DEF OfIn, IsOpen
<1>2. PiecesIn(u, x) = PiecesIn(s, x) + k
  BY <1>1, PutCounts
<1>3. ASSUME NEW d, NEW status, NEW n, NEW m, Has(s, x, d, status, n, m)
      PROVE  /\ d = b /\ status = "open" /\ n = s.blocks[b].pieces /\ m = s.blocks[b].whole
             /\ Has(u, x, b, v.status, v.pieces, v.whole)
  <2>1. OfIn(s, x) = {d} /\ d = b
    BY <1>1, <1>3 DEF Has
  <2> QED  BY <1>3, <2>1, HasOne DEF Has, IsOpen
<1> QED  BY <1>2, <1>3 DEF Puts, Others, Counts

LEMMA PieceMakes ==
  ASSUME NEW f, NEW s, NEW b, NEW x, NEW u, Plays(f, s, <<Piece(b, x)>>, u)
  PROVE  /\ s \in States /\ u \in States /\ b \in 1..MaxBlocks /\ Others(s, u, x)
         /\ \A d, status, n, m : Has(s, x, d, status, n, m) =>
              d = b /\ status = "open" /\ n \in Nat /\ Has(u, x, b, "open", n + 1, m)
         /\ Counts(s, u, x, 1)
<1> DEFINE e == Piece(b, x)
           v == MorePieces(s.blocks[b])
<1>1. e \in EventsOf(b, x)
  BY DEF EventsOf
<1>2. /\ b \in 1..MaxBlocks /\ s \in States /\ u \in States /\ EventMakes(s, e, b, x, u)
  BY <1>1, EventPuts
<1>3. IsOpen(s, b, x) /\ Puts(s, u, b, x, v)
  BY <1>2 DEF EventMakes
<1>4. s.blocks[b] \in Blocks
  BY <1>2, WeightsAre
<1>5. /\ s.blocks[b].pieces \in Nat /\ v.pieces = s.blocks[b].pieces + 1 /\ v.whole = s.blocks[b].whole
      /\ v.status = "open"
  BY <1>3, <1>4 DEF Blocks, MorePieces, IsOpen
<1> HIDE DEF v
<1>6. PICK k \in Nat : k = 1
  OBVIOUS
<1>7. v.pieces = s.blocks[b].pieces + k
  BY <1>5, <1>6
<1>8. /\ Others(s, u, x) /\ Counts(s, u, x, k)
      /\ \A d, status, n, m : Has(s, x, d, status, n, m) =>
           /\ d = b /\ status = "open" /\ n = s.blocks[b].pieces /\ m = s.blocks[b].whole
           /\ Has(u, x, b, v.status, v.pieces, v.whole)
  BY <1>2, <1>3, <1>7, OpenMakes
<1> QED  BY <1>2, <1>5, <1>6, <1>8

LEMMA WholeMakes ==
  ASSUME NEW f, NEW s, NEW b, NEW x, NEW u, Plays(f, s, <<Whole(b, x)>>, u)
  PROVE  /\ s \in States /\ u \in States /\ b \in 1..MaxBlocks /\ Others(s, u, x)
         /\ \A d, status, n, m : Has(s, x, d, status, n, m) =>
              d = b /\ status = "open" /\ m \in Nat /\ Has(u, x, b, "open", n, m + 1)
<1> DEFINE e == Whole(b, x)
           v == MoreWhole(s.blocks[b])
<1>1. e \in EventsOf(b, x)
  BY DEF EventsOf
<1>2. /\ b \in 1..MaxBlocks /\ s \in States /\ u \in States /\ EventMakes(s, e, b, x, u)
  BY <1>1, EventPuts
<1>3. IsOpen(s, b, x) /\ Puts(s, u, b, x, v)
  BY <1>2 DEF EventMakes
<1>4. s.blocks[b] \in Blocks
  BY <1>2, WeightsAre
<1>5. /\ s.blocks[b].pieces \in Nat /\ v.pieces = s.blocks[b].pieces + 0 /\ v.whole = s.blocks[b].whole + 1
      /\ v.status = "open" /\ s.blocks[b].whole \in Nat
  BY <1>3, <1>4 DEF Blocks, MoreWhole, IsOpen
<1> HIDE DEF v
<1>6. PICK k \in Nat : k = 0
  OBVIOUS
<1>7. v.pieces = s.blocks[b].pieces + k
  BY <1>5, <1>6
<1>8. /\ Others(s, u, x) /\ Counts(s, u, x, k)
      /\ \A d, status, n, m : Has(s, x, d, status, n, m) =>
           /\ d = b /\ status = "open" /\ n = s.blocks[b].pieces /\ m = s.blocks[b].whole
           /\ Has(u, x, b, v.status, v.pieces, v.whole)
  BY <1>2, <1>3, <1>7, OpenMakes
<1>9. v.pieces = s.blocks[b].pieces
  BY <1>5
<1> QED  BY <1>2, <1>5, <1>8, <1>9

LEMMA DoneMakes ==
  ASSUME NEW f, NEW s, NEW b, NEW x, NEW u, Plays(f, s, <<Done(b, x)>>, u)
  PROVE  /\ s \in States /\ u \in States /\ b \in 1..MaxBlocks /\ Others(s, u, x)
         /\ \A d, status, n, m : Has(s, x, d, status, n, m) =>
              d = b /\ status = "open" /\ Has(u, x, b, "closed", n, m)
         /\ Counts(s, u, x, 0)
<1> DEFINE e == Done(b, x)
           v == Shut(s.blocks[b])
<1>1. e \in EventsOf(b, x)
  BY DEF EventsOf
<1>2. /\ b \in 1..MaxBlocks /\ s \in States /\ u \in States /\ EventMakes(s, e, b, x, u)
  BY <1>1, EventPuts
<1>3. IsOpen(s, b, x) /\ Puts(s, u, b, x, v)
  BY <1>2 DEF EventMakes
<1>4. s.blocks[b] \in Blocks /\ PiecesIn(s, x) \in Nat
  BY <1>2, WeightsAre
<1>5. /\ s.blocks[b].pieces \in Nat /\ v.pieces = s.blocks[b].pieces + 0 /\ v.whole = s.blocks[b].whole
      /\ v.status = "closed"
  BY <1>3, <1>4 DEF Blocks, Shut, IsOpen
<1> HIDE DEF v
<1>6. /\ Others(s, u, x) /\ Counts(s, u, x, 0)
      /\ \A d, status, n, m : Has(s, x, d, status, n, m) =>
           /\ d = b /\ status = "open" /\ n = s.blocks[b].pieces /\ m = s.blocks[b].whole
           /\ Has(u, x, b, v.status, v.pieces, v.whole)
  BY <1>2, <1>3, <1>5, OpenMakes
<1>7. v.pieces = s.blocks[b].pieces
  BY <1>5
<1> QED  BY <1>2, <1>4, <1>5, <1>6, <1>7

(* The chunks of a chat answer.                                            *)
LEMMA ChunkMakes ==
  ASSUME NEW f, NEW s, NEW b, NEW x, NEW u, NEW k \in {0, 1},
         Plays(f, s, <<IF k = 0 THEN Chunk(b, x) ELSE WholeChunk(b, x)>>, u)
  PROVE  /\ s \in States /\ u \in States /\ b \in 1..MaxBlocks /\ Others(s, u, x)
         /\ OfIn(s, x) = {} => Has(u, x, b, "open", 0, k)
         /\ \A n, m : Has(s, x, b, "open", n, m) => Has(u, x, b, "open", n, IF k = 0 THEN m ELSE m + 1)
<1> DEFINE e == IF k = 0 THEN Chunk(b, x) ELSE WholeChunk(b, x)
           v == MoreWhole(s.blocks[b])
<1>1. e \in EventsOf(b, x)
  BY DEF EventsOf
<1>2. /\ b \in 1..MaxBlocks /\ s \in States /\ u \in States /\ EventMakes(s, e, b, x, u)
  BY <1>1, EventPuts
<1>3. /\ New(x, 0).pieces = 0 /\ New(x, 0).whole = 0 /\ New(x, 0).status = "open"
      /\ New(x, 1).pieces = 0 /\ New(x, 1).whole = 1 /\ New(x, 1).status = "open"
  BY DEF New
<1>4. IF IsOpen(s, b, x) THEN (IF k = 0 THEN u = s ELSE Puts(s, u, b, x, v))
      ELSE s.blocks[b].status = "none" /\ Puts(s, u, b, x, New(x, k))
  BY <1>2 DEF EventMakes
<1>5. CASE IsOpen(s, b, x)
  <2>1. b \in OfIn(s, x)
    BY <1>2, <1>5 DEF OfIn, IsOpen
  <2>2. CASE k = 0
    BY <1>2, <1>4, <1>5, <2>1, <2>2, SameTwice
  <2>3. CASE k = 1
    <3>1. s.blocks[b] \in Blocks
      BY <1>2, WeightsAre
    <3>2. /\ s.blocks[b].pieces \in Nat /\ v.pieces = s.blocks[b].pieces + 0 /\ v.whole = s.blocks[b].whole + 1
          /\ v.status = "open" /\ s.blocks[b].whole \in Nat /\ v.pieces = s.blocks[b].pieces
      BY <1>5, <3>1 DEF Blocks, MoreWhole, IsOpen
    <3> HIDE DEF v
    <3>3. /\ Others(s, u, x)
          /\ \A d, status, n, m : Has(s, x, d, status, n, m) =>
               /\ d = b /\ status = "open" /\ n = s.blocks[b].pieces /\ m = s.blocks[b].whole
               /\ Has(u, x, b, v.status, v.pieces, v.whole)
      BY <1>2, <1>4, <1>5, <2>3, <3>2, OpenMakes
    <3> QED  BY <1>2, <2>1, <2>3, <3>2, <3>3
  <2> QED  BY <2>2, <2>3
<1>6. CASE ~IsOpen(s, b, x)
  <2>1. Puts(s, u, b, x, New(x, k)) /\ Others(s, u, x)
    BY <1>4, <1>6 DEF Puts, Others
  <2>2. ASSUME NEW n, NEW m PROVE ~Has(s, x, b, "open", n, m)
    BY <1>6 DEF Has, IsOpen, OfIn
  <2>3. OfIn(s, x) = {} => Has(u, x, b, "open", 0, k)
    BY <1>3, <2>1, HasOne
  <2> QED  BY <1>2, <2>1, <2>2, <2>3
<1> QED  BY <1>5, <1>6

-----------------------------------------------------------------------------
(* What a run of events leaves of the blocks that are there.               *)

LEMMA PhaseMakes ==
  ASSUME NEW f, NEW s, NEW e \in Signals, NEW u, Plays(f, s, <<e>>, u)
  PROVE  /\ s \in States /\ u \in States /\ u.blocks = s.blocks
         /\ s.phase \notin {"before", "open"} => u.phase \notin {"before", "open"}
<1>1. s \in States /\ May(f, s, e) /\ u = After(s, e) /\ u \in States
  BY PlaysOnly
<1>2. "index" \notin DOMAIN e
  BY DEF Signals, Created, Completed, Failed, Closed, Signal
<1>3. ASSUME NEW b \in 1..MaxBlocks, NEW x \in Subjects PROVE ~MayBlock(f, s, e, b, x)
  BY <1>1, <1>2, BlockEvents
<1>4. MayPhase(f, s, e)
  BY <1>1, <1>3 DEF May
<1>5. /\ e = Created => u = Phased(s, "open") /\ s.phase = "before"
      /\ e = Completed => u = Phased(s, "completed")
      /\ e = Failed => u = Phased(s, "failed")
      /\ e = Closed => u = Phased(s, IF s.phase \in {"before", "open"} THEN "truncated" ELSE s.phase)
  BY <1>1, <1>4, PhaseEvents DEF MayPhase, Created, Completed, Failed, Closed, Signal
<1> QED  BY <1>1, <1>5 DEF Phased, Signals

LEMMA SameBlocks ==
  ASSUME NEW s, NEW u, u.blocks = s.blocks
  PROVE  \A x : Same(s, u, x)
BY DEF Same, OfIn

LEMMA EventGrows ==
  ASSUME NEW f, NEW s \in States, NEW e, May(f, s, e), NEW u, u = After(s, e)
  PROVE  Grows(s, u)
<1>1. Plays(f, s, <<e>>, u)
  BY PlaysOne
<1>2. CASE e \in Signals
  <2>1. /\ u.blocks = s.blocks
        /\ s.phase \notin {"before", "open"} => u.phase \notin {"before", "open"}
    BY <1>1, <1>2, PhaseMakes
  <2> QED  BY <2>1 DEF Grows
<1>3. CASE e \notin Signals
  <2>1. PICK b \in 1..MaxBlocks, x \in Subjects : MayBlock(f, s, e, b, x)
    BY <1>3 DEF May, MayPhase, Signals
  <2>2. e \in EventsOf(b, x)
    BY <2>1 DEF MayBlock, EventsOf
  <2>3. s.phase = "open" /\ EventMakes(s, e, b, x, u)
    BY <1>1, <2>2, EventPuts
  <2>4. PICK v : /\ u = s \/ Puts(s, u, b, x, v)
                 /\ u = s \/ s.blocks[b].status = "none" \/ IsOpen(s, b, x)
    BY <2>2, <2>3 DEF EventMakes, EventsOf
  <2>5. \A d \in 1..MaxBlocks : d # b => u.blocks[d] = s.blocks[d]
    BY <2>4 DEF Puts
  <2>6. s.blocks[b].status # "none" =>
          u = s \/ (IsOpen(s, b, x) /\ u.blocks[b].of = x /\ u.blocks[b].status # "none")
    BY <2>4 DEF Puts, IsOpen
  <2> QED  BY <2>3, <2>5, <2>6 DEF Grows, IsOpen
<1> QED  BY <1>2, <1>3

LEMMA RunGrows ==
  ASSUME NEW f, NEW s, NEW q, NEW u, Plays(f, s, q, u)
  PROVE  Grows(s, u)
<1> DEFINE n == Len(q)
<1>1. PICK r \in [0..n -> States] : r[0] = s /\ r[n] = u /\ IsRun(f, q, r)
  BY DEF Plays
<1>2. n \in Nat
  BY DEF Plays
<1> DEFINE S == {i \in 0..n : Grows(s, r[i])}
<1>3. 0 \in S
  BY <1>1, <1>2 DEF Grows
<1>4. ASSUME NEW i \in 0..n, i \in S, i < n PROVE i + 1 \in S
  <2>1. i + 1 \in 1..n /\ (i + 1) - 1 = i /\ i + 1 \in 0..n
    BY <1>2, <1>4
  <2>2. May(f, r[i], q[i + 1]) /\ r[i + 1] = After(r[i], q[i + 1]) /\ r[i] \in States
    BY <1>1, <2>1 DEF IsRun
  <2>3. Grows(r[i], r[i + 1])
    BY <2>2, EventGrows
  <2>4. Grows(s, r[i])
    BY <1>4
  <2>5. Grows(s, r[i + 1])
    BY <2>3, <2>4 DEF Grows
  <2> QED  BY <2>1, <2>5
<1> HIDE DEF S, n
<1>5. 0..n \subseteq S
  BY <1>2, <1>3, <1>4, BoundedInduction
<1>6. n \in S
  BY <1>2, <1>5
<1> QED  BY <1>1, <1>6 DEF S

-----------------------------------------------------------------------------
(* A run of one list of events and then another.                           *)

LEMMA RunSplit ==
  ASSUME NEW f, NEW s, NEW q, NEW p, NEW u, IsList(q), IsList(p), Plays(f, s, q \o p, u)
  PROVE  \E w : Plays(f, s, q, w) /\ Plays(f, w, p, u)
<1>1. PICK U, V : q \in Seq(U) /\ p \in Seq(V)
  BY ListIs
<1> DEFINE W == U \cup V
           a == q \o p
           m == Len(q)
           k == Len(p)
<1>2. q \in Seq(W) /\ p \in Seq(W)
  BY <1>1
<1> HIDE DEF W
<1>3. /\ m \in Nat /\ k \in Nat /\ Len(a) = m + k
      /\ \A i \in 1..(m + k) : a[i] = IF i <= m THEN q[i] ELSE p[i - m]
  BY <1>2
<1>4. a \in Seq(Events)
  BY DEF Plays
<1> HIDE DEF a
<1>5. \A i \in 1..(m + k) : a[i] \in Events
  BY <1>3, <1>4
<1>6. ASSUME NEW i \in 1..m PROVE q[i] \in Events
  <2>1. i \in 1..(m + k) /\ i <= m
    BY <1>3
  <2> QED  BY <1>3, <1>5, <2>1
<1>7. ASSUME NEW i \in 1..k PROVE p[i] \in Events
  <2>1. m + i \in 1..(m + k) /\ ~(m + i <= m) /\ (m + i) - m = i
    BY <1>3
  <2> QED  BY <1>3, <1>5, <2>1
<1>8. q \in Seq(Events) /\ p \in Seq(Events)
  BY <1>2, <1>6, <1>7
<1> QED  BY <1>8, PlaysSplit

(* The first part that is rendered starts the answer.                      *)
LEMMA EmittedFrom ==
  ASSUME NEW f, NEW events, IsList(events), NEW started, UNCHANGED <<blocks, phase>>,
         out' = IF started THEN events ELSE <<Created>> \o events,
         NEW t, Plays(f, Now', out', t)
  PROVE  \E s : /\ s \in States /\ s.blocks = blocks /\ Plays(f, s, events, t)
                /\ \A x : Same(Now, s, x)
<1>1. Now' = Now /\ Now.blocks = blocks
  BY DEF Now
<1>2. CASE started
  <2>1. Plays(f, Now, events, t)
    BY <1>1, <1>2
  <2>2. Now \in States
    BY <2>1 DEF Plays
  <2> QED  BY <1>1, <2>1, <2>2, SameBlocks
<1>3. CASE ~started
  <2>1. IsList(<<Created>>)
    BY ListsAre
  <2>2. PICK s : Plays(f, Now, <<Created>>, s) /\ Plays(f, s, events, t)
    BY <1>1, <1>3, <2>1, RunSplit
  <2>3. s \in States /\ s.blocks = Now.blocks
    BY <2>2, PhaseMakes DEF Signals
  <2> QED  BY <1>1, <2>2, <2>3, SameBlocks
<1> QED  BY <1>2, <1>3

(* What the client reads leads where the events did.                       *)
LEMMA ReadLeads ==
  ASSUME NEW w, Plays(format, Now, out, w), Read, NEW t, Plays(format, Now', out', t)
  PROVE  t = w
BY ReadsOn, PlaysUnique

(* With nothing to read, the client is where it will be.                   *)
LEMMA AllRead ==
  ASSUME NEW f, NEW t, Plays(f, Now, out, t), out = <<>>
  PROVE  t = Now /\ Now \in States
BY PlaysNothing

-----------------------------------------------------------------------------
(* The content of a chat answer (ChatRenderer).  A call that came is one   *)
(* block, at its place, with the pieces that came or its whole input.      *)

LEMMA CallsAre ==
  ASSUME PartInv, NEW c \in Calls
  PROVE  /\ call[c] \in CallOf /\ call[c].pieces \in Nat /\ call[c].place \in Nat
         /\ call[c].at \in {"none", "started", "called", "answered"}
         /\ call[c].place = 0 <=> call[c].at = "none"
         /\ call[c].place <= Cardinality(Placed(call))
         /\ call[c].at = "none" => call[c].pieces = 0
         /\ call[c].at = "answered" => kind[c] = "hosted"
<1>1. Cardinality(Calls) \in Nat
  BY PlacedIs
<1> QED  BY <1>1, BoundsAssumption DEF PartInv, CallOf

LEMMA ChatIndexIs ==
  ASSUME ChatInv, PartInv, ChatKept, NEW c \in Calls
  PROVE  Chat!ToolIndex(c) = IF call[c].at = "none" THEN 1 + Cardinality(Placed(call)) ELSE call[c].place
<1>1. \A d \in Calls : toolIndexes[d] # 0 <=> call[d].place > 0
  BY CallsAre DEF ChatKept
<1>2. Chat!Known = Placed(call)
  BY <1>1 DEF Chat!Known, Placed
<1>3. Chat!Cardinality(Chat!Known) = Cardinality(Placed(call)) /\ Cardinality(Placed(call)) \in Nat
  BY <1>2, ChatCardinality, PlacedIs
<1>4. c \in Chat!Known <=> call[c].at # "none"
  BY <1>1, CallsAre DEF Chat!Known
<1> QED  BY <1>3, <1>4, CallsAre DEF Chat!ToolIndex, ChatKept

LEMMA OthersChunked ==
  ASSUME NEW s \in States, NEW u \in States, NEW c \in Calls, Chunked(s), Others(s, u, c),
         \A d \in Calls \ {c} : call'[d] = call[d], CallChunked(u, c, call'[c])
  PROVE  Chunked(u)'
<1>1. ASSUME NEW d \in Calls \ {c} PROVE CallChunked(u, d, call'[d])
  <2>1. Same(s, u, d) /\ CallChunked(s, d, call[d]) /\ call'[d] = call[d]
    BY DEF Others, Chunked
  <2>2. /\ OfIn(u, d) = OfIn(s, d)
        /\ \A b, status, n, m : Has(s, d, b, status, n, m) => Has(u, d, b, status, n, m)
    BY <2>1, SameIs
  <2> QED  BY <2>1, <2>2 DEF CallChunked
<1> QED  BY <1>1 DEF Chunked

(* A chunk of a call.                                                      *)
LEMMA ChunkArrives ==
  ASSUME ChatInv, PartInv, ChatContents, out = <<>>, UNCHANGED <<blocks, phase>>,
         NEW c \in Calls, NEW e, Chat!Emit(c, <<e>>), call'[c].place = Chat!ToolIndex(c),
         \A d \in Calls \ {c} : call'[d] = call[d],
         \A d \in Calls : d \in toolCallsWithArgumentDeltas' <=> call'[d].pieces > 0,
         \A t : Plays("chat", Now, <<e>>, t) /\ CallChunked(Now, c, call[c]) =>
                  CallChunked(t, c, call'[c]) /\ Others(Now, t, c)
  PROVE  ChatContents'
<1>1. PICK t : Plays("chat", Now, out, t)
  BY DEF ChatInv
<1>2. Now \in States /\ Chunked(Now) /\ Now' = Now
  BY <1>1, AllRead DEF ChatContents, Now
<1>3. out' = <<e>> /\ toolIndexes' = [toolIndexes EXCEPT ![c] = Chat!ToolIndex(c)]
  BY DEF Chat!Emit
<1>4. ASSUME NEW u, Plays("chat", Now', out', u) PROVE Chunked(u)'
  <2>1. Plays("chat", Now, <<e>>, u) /\ u \in States
    BY <1>2, <1>3, <1>4 DEF Plays
  <2>2. CallChunked(Now, c, call[c])
    BY <1>2 DEF Chunked
  <2>3. CallChunked(u, c, call'[c]) /\ Others(Now, u, c)
    BY <2>1, <2>2
  <2> QED  BY <1>2, <2>1, <2>3, OthersChunked
<1>5. \A d \in Calls : toolIndexes'[d] = call'[d].place
  BY <1>3 DEF ChatContents, ChatKept, ChatInv, ChatTypes
<1>6. ChatKept'
  BY <1>5 DEF ChatKept
<1> QED  BY <1>4, <1>6 DEF ChatContents

LEMMA ChatStartArrives ==
  ASSUME ChatInv, PartInv, ChatContents, NEW c \in Calls, Chat!ToolInputStart(c)
  PROVE  ChatContents'
<1>1. SendInputStart(c) /\ toolCallsWithArgumentDeltas' = toolCallsWithArgumentDeltas
  BY ChatParts DEF Chat!ToolInputStart
<1>2. /\ out = <<>> /\ UNCHANGED <<blocks, phase>> /\ call[c].at = "none" /\ Comes(c, "started")
  BY <1>1 DEF SendInputStart, Part, Asked
<1> DEFINE b == Chat!ToolIndex(c)
<1>3. /\ call'[c].at = "started" /\ call'[c].pieces = 0 /\ call'[c].place = b
      /\ \A d \in Calls \ {c} : call'[d] = call[d]
  BY <1>2, ComesIs, ChatIndexIs, CallsAre DEF ChatContents
<1>4. \A d \in Calls : d \in toolCallsWithArgumentDeltas' <=> call'[d].pieces > 0
  BY <1>1, <1>2, <1>3, CallsAre DEF ChatContents, ChatKept
<1>5. Chat!Emit(c, <<Chunk(b, c)>>)
  BY DEF Chat!ToolInputStart, Chat!Chunk, Chunk
<1> HIDE DEF b
<1>6. ASSUME NEW t, Plays("chat", Now, <<Chunk(b, c)>>, t), CallChunked(Now, c, call[c])
      PROVE  CallChunked(t, c, call'[c]) /\ Others(Now, t, c)
  <2>1. OfIn(Now, c) = {}
    BY <1>2, <1>6 DEF CallChunked
  <2>2. Plays("chat", Now, <<IF 0 = 0 THEN Chunk(b, c) ELSE WholeChunk(b, c)>>, t) /\ 0 \in {0, 1}
    BY <1>6
  <2>3. Others(Now, t, c) /\ Has(t, c, b, "open", 0, 0)
    BY <2>1, <2>2, ChunkMakes
  <2> QED  BY <1>3, <2>3 DEF CallChunked
<1>7. call'[c].place = Chat!ToolIndex(c)
  BY <1>3 DEF b
<1> QED  BY <1>2, <1>3, <1>4, <1>5, <1>6, <1>7, ChunkArrives

LEMMA ChatPieceArrives ==
  ASSUME ChatInv, PartInv, ChatContents, NEW c \in Calls, Chat!ToolInputDelta(c)
  PROVE  ChatContents'
<1>1. SendInput(c) /\ toolCallsWithArgumentDeltas' = toolCallsWithArgumentDeltas \cup {c}
  BY ChatParts DEF Chat!ToolInputDelta
<1>2. /\ out = <<>> /\ UNCHANGED <<blocks, phase>> /\ call[c].at = "started"
      /\ call' = [call EXCEPT ![c].pieces = @ + 1]
  BY <1>1 DEF SendInput, Part, Asked
<1> DEFINE b == Chat!ToolIndex(c)
           n == call[c].pieces
<1>3. n \in Nat /\ call[c] \in CallOf /\ b = call[c].place
  BY <1>2, CallsAre, ChatIndexIs DEF ChatContents
<1>4. /\ call'[c].at = "started" /\ call'[c].pieces = n + 1 /\ call'[c].place = b
      /\ \A d \in Calls \ {c} : call'[d] = call[d]
  BY <1>2, <1>3 DEF PartInv, CallOf
<1>5. \A d \in Calls : d \in toolCallsWithArgumentDeltas' <=> call'[d].pieces > 0
  BY <1>1, <1>3, <1>4 DEF ChatContents, ChatKept
<1>6. Chat!Emit(c, <<Piece(b, c)>>)
  BY DEF Chat!ToolInputDelta, Chat!Piece, Piece
<1> HIDE DEF b
<1>7. ASSUME NEW t, Plays("chat", Now, <<Piece(b, c)>>, t), CallChunked(Now, c, call[c])
      PROVE  CallChunked(t, c, call'[c]) /\ Others(Now, t, c)
  <2>1. Has(Now, c, b, "open", n, 0)
    BY <1>2, <1>3, <1>7 DEF CallChunked
  <2>2. Others(Now, t, c) /\ Has(t, c, b, "open", n + 1, 0)
    BY <1>7, <2>1, PieceMakes
  <2> QED  BY <1>4, <2>2 DEF CallChunked
<1>8. call'[c].place = Chat!ToolIndex(c)
  BY <1>4 DEF b
<1> QED  BY <1>2, <1>4, <1>5, <1>6, <1>7, <1>8, ChunkArrives

LEMMA ChatCallArrives ==
  ASSUME ChatInv, PartInv, ChatContents, NEW c \in Calls, Chat!ToolCall(c)
  PROVE  ChatContents'
<1>1. SendCall(c) /\ toolCallsWithArgumentDeltas' = toolCallsWithArgumentDeltas
  BY ChatParts DEF Chat!ToolCall
<1>2. /\ out = <<>> /\ UNCHANGED <<blocks, phase>> /\ call[c].at \in {"none", "started"} /\ Comes(c, "called")
  BY <1>1 DEF SendCall, Part, Asked
<1> DEFINE b == Chat!ToolIndex(c)
           n == call[c].pieces
           k == IF n > 0 THEN 0 ELSE 1
           e == IF k = 0 THEN Chunk(b, c) ELSE WholeChunk(b, c)
<1>3. n \in Nat /\ (call[c].at = "none" => n = 0) /\ k \in {0, 1}
      /\ (call[c].at = "started" => b = call[c].place)
  BY <1>2, CallsAre, ChatIndexIs DEF ChatContents
<1>4. /\ call'[c].at = "called" /\ call'[c].pieces = n /\ call'[c].place = b
      /\ \A d \in Calls \ {c} : call'[d] = call[d]
  BY <1>2, ComesIs, ChatIndexIs DEF ChatContents
<1>5. \A d \in Calls : d \in toolCallsWithArgumentDeltas' <=> call'[d].pieces > 0
  BY <1>1, <1>3, <1>4 DEF ChatContents, ChatKept
<1>6. c \in toolCallsWithArgumentDeltas <=> n > 0
  BY DEF ChatContents, ChatKept
<1>7. Chat!Emit(c, <<e>>)
  <2>1. CASE n > 0
    <3>1. e = Chunk(b, c)
      BY <2>1
    <3> HIDE DEF e, k, b, n
    <3> QED  BY <1>6, <2>1, <3>1 DEF Chat!ToolCall, Chat!Chunk, Chunk, b, n
  <2>2. CASE ~(n > 0)
    <3>1. e = WholeChunk(b, c)
      BY <2>2
    <3> HIDE DEF e, k, b, n
    <3> QED  BY <1>6, <2>2, <3>1 DEF Chat!ToolCall, Chat!WholeChunk, WholeChunk, b, n
  <2> QED  BY <2>1, <2>2
<1> HIDE DEF b, k
<1>8. ASSUME NEW t, Plays("chat", Now, <<e>>, t), CallChunked(Now, c, call[c])
      PROVE  CallChunked(t, c, call'[c]) /\ Others(Now, t, c)
  <2>1. /\ Others(Now, t, c)
        /\ OfIn(Now, c) = {} => Has(t, c, b, "open", 0, k)
        /\ \A i, m : Has(Now, c, b, "open", i, m) => Has(t, c, b, "open", i, IF k = 0 THEN m ELSE m + 1)
    BY <1>3, <1>8, ChunkMakes
  <2>2. CASE call[c].at = "none"
    <3>1. OfIn(Now, c) = {} /\ n = 0 /\ k = 1
      BY <1>3, <1>8, <2>2 DEF CallChunked, k
    <3> QED  BY <1>4, <2>1, <3>1 DEF CallChunked
  <2>3. CASE call[c].at = "started"
    <3>1. Has(Now, c, b, "open", n, 0)
      BY <1>3, <1>8, <2>3 DEF CallChunked
    <3>2. Has(t, c, b, "open", n, IF k = 0 THEN 0 ELSE 0 + 1)
      BY <2>1, <3>1
    <3>3. (IF k = 0 THEN 0 ELSE 0 + 1) = IF n > 0 THEN 0 ELSE 1
      BY DEF k
    <3> QED  BY <1>4, <2>1, <3>2, <3>3 DEF CallChunked
  <2> QED  BY <1>2, <2>2, <2>3
<1>9. call'[c].place = Chat!ToolIndex(c)
  BY <1>4 DEF b
<1> HIDE DEF e
<1> QED  BY <1>2, <1>4, <1>5, <1>7, <1>8, <1>9, ChunkArrives

(* Nothing of the calls changes.                                           *)
LEMMA ChatKeepsContents ==
  ASSUME ChatInv, ChatContents, UNCHANGED <<toolIndexes, toolCallsWithArgumentDeltas>>,
         \A d \in Calls : /\ call'[d].place = call[d].place /\ call'[d].pieces = call[d].pieces
                          /\ call'[d].at = call[d].at \/ (call[d].at = "called" /\ call'[d].at = "answered"),
         \A t : Plays("chat", Now', out', t) =>
           \E s : s \in States /\ t \in States /\ (\A x : Same(s, t, x)) /\ Plays("chat", Now, out, s)
  PROVE  ChatContents'
<1>1. ChatKept'
  BY DEF ChatContents, ChatKept
<1>2. ASSUME NEW t, Plays("chat", Now', out', t) PROVE Chunked(t)'
  <2>1. PICK s : s \in States /\ t \in States /\ (\A x : Same(s, t, x)) /\ Plays("chat", Now, out, s)
    BY <1>2
  <2>2. ASSUME NEW c \in Calls PROVE CallChunked(t, c, call'[c])
    <3>1. CallChunked(s, c, call[c])
      BY <2>1 DEF ChatContents, Chunked
    <3>2. /\ OfIn(t, c) = OfIn(s, c)
          /\ \A b, status, n, m : Has(s, c, b, status, n, m) => Has(t, c, b, status, n, m)
      BY <2>1, SameIs
    <3> QED  BY <3>1, <3>2 DEF CallChunked
  <2> QED  BY <2>2 DEF Chunked
<1> QED  BY <1>1, <1>2 DEF ChatContents

(* Events that are of no block.                                            *)
LEMMA SignalsKeep ==
  ASSUME NEW f, NEW s, NEW t, NEW q, Plays(f, s, q, t),
         q \in {<<>>, <<Completed>>, <<Failed, Closed>>, <<Closed>>}
  PROVE  s \in States /\ t \in States /\ t.blocks = s.blocks /\ \A x : Same(s, t, x)
<1>1. s \in States /\ t \in States
  BY DEF Plays
<1>2. CASE q = <<>>
  BY <1>1, <1>2, PlaysNothing, SameBlocks
<1>3. CASE q \in {<<Completed>>, <<Closed>>}
  <2>1. PICK e \in Signals : q = <<e>>
    BY <1>3 DEF Signals
  <2>2. t.blocks = s.blocks
    BY <2>1, PhaseMakes
  <2> QED  BY <1>1, <2>2, SameBlocks
<1>4. CASE q = <<Failed, Closed>>
  <2>1. q = <<Failed>> \o <<Closed>>
    BY <1>4, Joined
  <2>2. IsList(<<Failed>>) /\ IsList(<<Closed>>)
    BY ListsAre
  <2>3. PICK w : Plays(f, s, <<Failed>>, w) /\ Plays(f, w, <<Closed>>, t)
    BY <2>1, <2>2, RunSplit
  <2>4. Failed \in Signals /\ Closed \in Signals
    BY DEF Signals
  <2>5. t.blocks = w.blocks /\ w.blocks = s.blocks
    BY <2>3, <2>4, PhaseMakes
  <2> QED  BY <1>1, <2>5, SameBlocks
<1> QED  BY <1>2, <1>3, <1>4

LEMMA ChatRestArrives ==
  ASSUME ChatInv, PartInv, ChatContents, Chat!Unindexed \/ Chat!Finish \/ Chat!Error \/ Chat!Return
  PROVE  ChatContents'
<1>1. PICK w : Plays("chat", Now, out, w)
  BY DEF ChatInv
<1>2. /\ out = <<>> /\ UNCHANGED <<blocks, phase, toolIndexes, toolCallsWithArgumentDeltas>>
      /\ out' \in {<<>>, <<Completed>>, <<Failed, Closed>>, <<Closed>>}
      /\ UNCHANGED call \/ \E c \in Calls : call[c].at = "called" /\ kind[c] = "hosted" /\ Comes(c, "answered")
  <2>1. CASE Chat!Unindexed
    <3>1. /\ SendText \/ SendReasoning \/ SendReasoningStart \/ SendReasoningEnd \/ SendOther \/ \E c \in Calls : SendResult(c)
          /\ out' = <<>> /\ UNCHANGED <<toolIndexes, toolCallsWithArgumentDeltas>>
      BY <2>1, ChatParts DEF Chat!Unindexed, Chat!rendererVars
    <3> QED
      BY <3>1 DEF SendText, SendReasoning, SendReasoningStart, SendReasoningEnd, SendOther, SendResult, Part, Asked
  <2>2. CASE Chat!Finish \/ Chat!Error \/ Chat!Return
    <3>1. SendFinish \/ SendError \/ Throw \/ EndOfStream
      BY <2>2, ChatParts DEF Chat!Finish, Chat!Error, Chat!Return
    <3>2. out = <<>> /\ UNCHANGED <<blocks, phase, call>>
      BY <3>1 DEF SendFinish, SendError, Throw, EndOfStream, Ends, Asked
    <3>3. /\ UNCHANGED <<toolIndexes, toolCallsWithArgumentDeltas>>
          /\ out' \in {<<Completed>>, <<Failed, Closed>>, <<Closed>>}
      BY <2>2 DEF Chat!Finish, Chat!Error, Chat!Return, Chat!rendererVars, Chat!Completed, Chat!Failed,
                  Chat!Closed, Chat!Signal, Completed, Failed, Closed, Signal
    <3> QED  BY <3>2, <3>3
  <2> QED  BY <2>1, <2>2
<1>3. \A d \in Calls : /\ call'[d].place = call[d].place /\ call'[d].pieces = call[d].pieces
                       /\ call'[d].at = call[d].at \/ (call[d].at = "called" /\ call'[d].at = "answered")
  <2>1. CASE UNCHANGED call
    BY <2>1
  <2>2. ASSUME NEW c \in Calls, call[c].at = "called", Comes(c, "answered")
        PROVE  \A d \in Calls : /\ call'[d].place = call[d].place /\ call'[d].pieces = call[d].pieces
                                /\ call'[d].at = call[d].at \/ (call[d].at = "called" /\ call'[d].at = "answered")
    BY <2>2, ComesIs
  <2> QED  BY <1>2, <2>1, <2>2
<1>4. Now \in States /\ Now' = Now /\ Plays("chat", Now, out, Now)
  BY <1>1, <1>2, AllRead DEF Now
<1>5. ASSUME NEW t, Plays("chat", Now', out', t)
      PROVE  \E s : s \in States /\ t \in States /\ (\A x : Same(s, t, x)) /\ Plays("chat", Now, out, s)
  <2>1. Plays("chat", Now, out', t)
    BY <1>4, <1>5
  <2>2. t \in States /\ \A x : Same(Now, t, x)
    BY <1>2, <2>1, SignalsKeep
  <2> QED  BY <1>4, <2>2
<1> QED  BY <1>2, <1>3, <1>5, ChatKeepsContents

LEMMA ChatReadArrives ==
  ASSUME ChatInv, ChatContents, format = "chat", Read,
         UNCHANGED <<toolIndexes, toolCallsWithArgumentDeltas>>
  PROVE  ChatContents'
<1>1. PICK w : Plays("chat", Now, out, w)
  BY DEF ChatInv
<1>2. call' = call
  BY DEF Read, upstreamVars
<1>3. ASSUME NEW t, Plays("chat", Now', out', t) PROVE Chunked(t)'
  <2>1. t = w
    BY <1>1, <1>3, ReadLeads
  <2>2. Chunked(w)
    BY <1>1 DEF ChatContents
  <2> QED  BY <1>2, <2>1, <2>2 DEF Chunked
<1>4. ChatKept'
  BY <1>2 DEF ChatContents, ChatKept
<1> QED  BY <1>3, <1>4 DEF ChatContents

LEMMA ChatContentSteps ==
  ASSUME ChatInv, PartInv, ChatContents, format = "chat", Chat!Next
  PROVE  ChatContents'
<1>1. CASE Chat!Step
  <2>1. \/ \E c \in Calls : Chat!ToolInputStart(c) \/ Chat!ToolInputDelta(c) \/ Chat!ToolCall(c)
        \/ Chat!Unindexed \/ Chat!Finish \/ Chat!Error \/ Chat!Return
    BY <1>1 DEF Chat!Step
  <2> QED  BY <2>1, ChatStartArrives, ChatPieceArrives, ChatCallArrives, ChatRestArrives
<1>2. CASE Chat!Read /\ UNCHANGED Chat!rendererVars
  BY <1>2, ReadsTheSame, ChatReadArrives DEF Chat!rendererVars
<1> QED  BY <1>1, <1>2 DEF Chat!Next

LEMMA NoneYet ==
  ASSUME StreamInit
  PROVE  Now \in States /\ \A x : OfIn(Now, x) = {}
<1>1. Now \in States /\ \A b \in 0..MaxBlocks : Now.blocks[b].status = "none"
  BY NothingYet
<1> QED  BY <1>1, PartsAssumption DEF OfIn, MaxBlocks

LEMMA ChatContentInitially ==
  ASSUME StreamInit, Chat!RendererInit
  PROVE  ChatContents
<1>1. /\ \A c \in Calls : call[c].at = "none" /\ call[c].pieces = 0 /\ call[c].place = 0
      /\ out = <<>>
  BY DEF StreamInit
<1>2. ChatKept
  BY <1>1 DEF Chat!RendererInit, ChatKept
<1>3. ASSUME NEW t, Plays("chat", Now, out, t) PROVE Chunked(t)
  <2>1. t = Now
    BY <1>1, <1>3, AllRead
  <2> QED  BY <1>1, <2>1, NoneYet DEF Chunked, CallChunked
<1> QED  BY <1>2, <1>3 DEF ChatContents

-----------------------------------------------------------------------------
(* What the client has seen, in the terms of the three renderers.          *)

LEMMA SumOfPieces ==
  ASSUME NEW S, IsFiniteSet(S), NEW w, \A x \in S : w[x] \in Nat /\ blocks[x].pieces = w[x]
  PROVE  (CHOOSE g : g = [t \in SUBSET S |-> IF t = {} THEN 0 ELSE
            blocks[CHOOSE x \in t : TRUE].pieces + g[t \ {CHOOSE x \in t : TRUE}]])[S] = Total(w, S)
<1> DEFINE Sums(g) == g = [t \in SUBSET S |-> IF t = {} THEN 0 ELSE
                         blocks[CHOOSE x \in t : TRUE].pieces + g[t \ {CHOOSE x \in t : TRUE}]]
<1>1. \A t \in SUBSET S : t # {} => w[Pick(t)] = blocks[CHOOSE x \in t : TRUE].pieces
  BY DEF Pick
<1>2. \E g : Sums(g)
  <2>1. PICK g : Unfolds(g, w, S)
    BY SumExists, AddsUnfolds
  <2> DEFINE h == [t \in SUBSET S |-> g[t]]
  <2>2. ASSUME NEW t \in SUBSET S, t # {}
        PROVE  h[t] = blocks[CHOOSE x \in t : TRUE].pieces + h[t \ {CHOOSE x \in t : TRUE}]
    <3>1. g[t] = w[Pick(t)] + g[t \ {Pick(t)}]
      BY <2>1, <2>2 DEF Unfolds
    <3>2. t \ {Pick(t)} \in SUBSET S
      OBVIOUS
    <3>3. h[t] = w[Pick(t)] + h[t \ {Pick(t)}]
      BY <3>1, <3>2
    <3> HIDE DEF h
    <3> QED  BY <1>1, <2>2, <3>3 DEF Pick
  <2>3. h[{}] = 0
    BY <2>1 DEF Unfolds
  <2>4. Sums(h)
    BY <2>2, <2>3
  <2> QED  BY <2>4
<1> DEFINE sum == CHOOSE g : Sums(g)
<1>3. Sums(sum)
  <2> HIDE DEF Sums
  <2> QED  BY <1>2
<1>4. Unfolds(sum, w, S)
  <2> HIDE DEF sum
  <2>1. sum[{}] = 0
    BY <1>3
  <2>2. ASSUME NEW t \in SUBSET S, t # {} PROVE sum[t] = w[Pick(t)] + sum[t \ {Pick(t)}]
    <3>1. sum[t] = blocks[CHOOSE x \in t : TRUE].pieces + sum[t \ {CHOOSE x \in t : TRUE}]
      BY <1>3, <2>2
    <3> QED  BY <1>1, <2>2, <3>1 DEF Pick
  <2> QED  BY <2>1, <2>2 DEF Unfolds
<1>5. sum[S] = Total(w, S)
  <2> HIDE DEF sum
  <2> QED  BY <1>4, TotalIs
<1> QED  BY <1>5

LEMMA BlocksSeen ==
  ASSUME NEW x
  PROVE  /\ Responses!BlocksOf(x) = OfIn(Now, x)
         /\ Anthropic!BlocksOf(x) = OfIn(Now, x)
         /\ Chat!BlocksOf(x) = OfIn(Now, x)
<1>1. Now.blocks = blocks
  BY DEF Now
<1> QED
  BY <1>1 DEF Responses!BlocksOf, Anthropic!BlocksOf, Chat!BlocksOf, OfIn, MaxBlocks,
              Responses!MaxBlocks, Anthropic!MaxBlocks, Chat!MaxBlocks

LEMMA PiecesAreSeen ==
  ASSUME Now \in States, NEW x
  PROVE  Responses!PiecesSeen(x) = PiecesIn(Now, x) /\ Anthropic!PiecesSeen(x) = PiecesIn(Now, x)
<1> DEFINE S == OfIn(Now, x)
           w == Weights(Now)
<1>1. Responses!BlocksOf(x) = S /\ Anthropic!BlocksOf(x) = S
  BY BlocksSeen
<1>2. IsFiniteSet(S) /\ \A b \in S : w[b] \in Nat /\ blocks[b].pieces = w[b]
  BY WeightsAre DEF OfIn, Now
<1> HIDE DEF S, w
<1> DEFINE sum == (CHOOSE g : g = [t \in SUBSET S |-> IF t = {} THEN 0 ELSE
                      blocks[CHOOSE d \in t : TRUE].pieces + g[t \ {CHOOSE d \in t : TRUE}]])[S]
<1>3. sum = Total(w, S)
  BY <1>2, SumOfPieces
<1>4. Responses!PiecesSeen(x) = sum
  BY <1>1 DEF Responses!PiecesSeen, Responses!MapThenSumSet, Responses!MapThenFoldSet
<1>5. Anthropic!PiecesSeen(x) = sum
  BY <1>1 DEF Anthropic!PiecesSeen, Anthropic!MapThenSumSet, Anthropic!MapThenFoldSet
<1> QED  BY <1>3, <1>4, <1>5 DEF PiecesIn, S, w

LEMMA ChatAnswerIsComplete ==
  ASSUME ChatInv, PartInv, ChatContents
  PROVE  Chat!ContentArrives
<1> SUFFICES ASSUME out = <<>>
             PROVE  /\ \A c \in Calls :
                         /\ call[c].at # "none" => Chat!CallArrived(c)
                         /\ Chat!InputArrived(c)
                    /\ Chat!InOrder
  BY DEF Chat!ContentArrives
<1>1. PICK t : Plays("chat", Now, out, t)
  BY DEF ChatInv
<1>2. Now \in States /\ \A c \in Calls : CallChunked(Now, c, call[c])
  BY <1>1, AllRead DEF ChatContents, Chunked
<1>3. ASSUME NEW c \in Calls
      PROVE  /\ Chat!BlocksOf(c) = OfIn(Now, c) /\ OfIn(Now, c) \subseteq {call[c].place}
             /\ call[c].place \in Nat /\ OfIn(Now, c) \subseteq 1..MaxBlocks
             /\ call[c].at # "none" => OfIn(Now, c) = {call[c].place} /\ call[c].place \in 1..MaxBlocks
             /\ call[c].at = "none" => OfIn(Now, c) = {}
             /\ call[c].at # "none" =>
                  LET block == blocks[call[c].place] IN
                  \/ block.pieces = call[c].pieces /\ block.whole = 0 /\ (Complete(c) => call[c].pieces > 0)
                  \/ block.pieces = 0 /\ block.whole = 1 /\ Complete(c)
  <2>1. CallChunked(Now, c, call[c]) /\ call[c].place \in Nat /\ call[c].pieces \in Nat
    BY <1>2, CallsAre
  <2>2. Chat!BlocksOf(c) = OfIn(Now, c) /\ OfIn(Now, c) \subseteq 1..MaxBlocks
    BY BlocksSeen DEF OfIn
  <2>3. CASE call[c].at = "none"
    BY <2>1, <2>2, <2>3 DEF CallChunked
  <2>4. CASE call[c].at # "none"
    <3>1. Has(Now, c, call[c].place, "open", call[c].pieces,
              IF call[c].at = "started" \/ call[c].pieces > 0 THEN 0 ELSE 1)
      BY <2>1, <2>4 DEF CallChunked
    <3>2. call[c].at \in {"none", "started", "called", "answered"}
      BY CallsAre
    <3> QED  BY <2>1, <2>2, <2>4, <3>1, <3>2 DEF Has, Now, Complete
  <2> QED  BY <2>3, <2>4
<1>4. ASSUME NEW c \in Calls, call[c].at # "none" PROVE Chat!CallArrived(c)
  BY <1>3, <1>4 DEF Chat!CallArrived, Chat!MaxBlocks, MaxBlocks
<1>5. ASSUME NEW c \in Calls PROVE Chat!InputArrived(c)
  BY <1>3 DEF Chat!InputArrived, Chat!Complete, Complete
<1>6. Chat!InOrder
  <2> SUFFICES ASSUME NEW c \in Calls, NEW d \in Calls, call[c].place < call[d].place,
                      NEW b \in OfIn(Now, c), NEW e \in OfIn(Now, d)
               PROVE  b < e
    BY <1>3 DEF Chat!InOrder
  <2> QED  BY <1>3
<1> QED  BY <1>4, <1>5, <1>6

-----------------------------------------------------------------------------
(* The content of a response (ResponsesRenderer).  An item that is open    *)
(* has the pieces that are streamed; one that is done has them or the      *)
(* whole input.                                                            *)

LEMMA BringsTwice ==
  ASSUME NEW s, NEW w, NEW u, NEW x, NEW k \in Nat, NEW y, Brings(s, w, y, 0), Brings(w, u, x, k)
  PROVE  Brings(s, u, x, k)
<1>1. s \in States /\ w \in States /\ u \in States
  BY DEF Brings
<1>2. \A c \in Calls : Same(s, u, c)
  BY SameTwice DEF Brings
<1>3. ASSUME NEW z \in {"text", "reasoning"} PROVE PiecesIn(u, z) = PiecesIn(s, z) + IF z = x THEN k ELSE 0
  <2>1. PiecesIn(s, z) \in Nat /\ PiecesIn(w, z) \in Nat
    BY <1>1, WeightsAre
  <2>2. PiecesIn(w, z) = PiecesIn(s, z) + 0
    BY DEF Brings
  <2>3. PiecesIn(u, z) = PiecesIn(w, z) + IF z = x THEN k ELSE 0
    BY DEF Brings
  <2> QED  BY <2>1, <2>2, <2>3
<1> QED  BY <1>1, <1>2, <1>3 DEF Brings

LEMMA AllSame ==
  ASSUME NEW s \in States, NEW u \in States, \A y : Same(s, u, y), NEW x
  PROVE  Brings(s, u, x, 0)
<1>1. \A y : PiecesIn(u, y) = PiecesIn(s, y) /\ PiecesIn(s, y) \in Nat
  BY SameIs, WeightsAre
<1> QED  BY <1>1 DEF Brings

LEMMA OthersBring ==
  ASSUME NEW s \in States, NEW u \in States, NEW x \in {"text", "reasoning"}, Others(s, u, x),
         NEW k \in Nat, Counts(s, u, x, k)
  PROVE  Brings(s, u, x, k)
<1>1. \A c \in Calls : c # x
  BY PartsAssumption
<1>2. \A c \in Calls : Same(s, u, c)
  BY <1>1 DEF Others
<1>3. ASSUME NEW y \in {"text", "reasoning"} PROVE PiecesIn(u, y) = PiecesIn(s, y) + IF y = x THEN k ELSE 0
  <2>1. CASE y = x
    BY <2>1 DEF Counts
  <2>2. CASE y # x
    <3>1. Same(s, u, y)
      BY <2>2 DEF Others
    <3>2. PiecesIn(u, y) = PiecesIn(s, y) /\ PiecesIn(s, y) \in Nat
      BY <3>1, SameIs, WeightsAre
    <3> QED  BY <2>2, <3>2
  <2> QED  BY <2>1, <2>2
<1> QED  BY <1>2, <1>3 DEF Brings

LEMMA AddedBrings ==
  ASSUME NEW f, NEW s, NEW b, NEW x \in {"text", "reasoning"}, NEW u, Plays(f, s, <<Added(b, x)>>, u)
  PROVE  Brings(s, u, x, 0)
<1>1. s \in States /\ u \in States /\ Others(s, u, x) /\ Counts(s, u, x, 0) /\ 0 \in Nat
  BY AddedMakes
<1> QED  BY <1>1, OthersBring

LEMMA PieceBrings ==
  ASSUME NEW f, NEW s, NEW b, NEW x \in {"text", "reasoning"}, NEW u, Plays(f, s, <<Piece(b, x)>>, u)
  PROVE  Brings(s, u, x, 1)
<1>1. s \in States /\ u \in States /\ Others(s, u, x) /\ Counts(s, u, x, 1) /\ 1 \in Nat
  BY PieceMakes
<1> QED  BY <1>1, OthersBring

LEMMA EndingBrings ==
  ASSUME NEW f, NEW s, NEW started, NEW b, NEW x \in {"text", "reasoning"}, NEW u,
         Plays(f, s, Ending(started, b, x), u), NEW y
  PROVE  Brings(s, u, y, 0)
<1>1. CASE started
  <2>1. s \in States /\ u \in States /\ Others(s, u, x) /\ Counts(s, u, x, 0) /\ 0 \in Nat
    BY <1>1, DoneMakes DEF Ending
  <2>2. Brings(s, u, x, 0)
    BY <2>1, OthersBring
  <2> QED  BY <2>2 DEF Brings
<1>2. CASE ~started
  <2>1. Plays(f, s, <<>>, u)
    BY <1>2 DEF Ending
  <2>2. u = s /\ s \in States
    BY <2>1, PlaysNothing
  <2> QED  BY <2>2, AllSame, SameTwice
<1> QED  BY <1>1, <1>2

LEMMA EndingIsList ==
  ASSUME NEW started, NEW b, NEW x
  PROVE  IsList(Ending(started, b, x))
BY ListsAre DEF Ending

LEMMA LeavesIs ==
  ASSUME NEW s, NEW u, NEW c \in Calls
  PROVE  /\ s \in States /\ u \in States /\ Others(s, u, c) => Leaves(s, u, c)
         /\ \A x : Brings(s, u, x, 0) => Leaves(s, u, c) /\ Same(s, u, c)
         /\ \A w : Leaves(s, w, c) /\ Leaves(w, u, c) => Leaves(s, u, c)
<1>1. \A y \in {"text", "reasoning"} : c # y
  BY PartsAssumption
<1>2. ASSUME s \in States, u \in States, Others(s, u, c) PROVE Leaves(s, u, c)
  <2>1. ASSUME NEW y \in {"text", "reasoning"} PROVE PiecesIn(u, y) = PiecesIn(s, y)
    <3>1. Same(s, u, y)
      BY <1>1, <1>2 DEF Others
    <3> QED  BY <1>2, <3>1, SameIs
  <2> QED  BY <1>2, <2>1 DEF Leaves, Others
<1>3. ASSUME NEW x, Brings(s, u, x, 0) PROVE Leaves(s, u, c) /\ Same(s, u, c)
  <2>1. ASSUME NEW y \in {"text", "reasoning"} PROVE PiecesIn(u, y) = PiecesIn(s, y)
    <3>1. PiecesIn(u, y) = PiecesIn(s, y) + 0
      BY <1>3 DEF Brings
    <3>2. PiecesIn(s, y) \in Nat
      BY <1>3, WeightsAre DEF Brings
    <3> QED  BY <3>1, <3>2
  <2> QED  BY <1>3, <2>1 DEF Leaves, Brings
<1>4. ASSUME NEW w, Leaves(s, w, c), Leaves(w, u, c) PROVE Leaves(s, u, c)
  BY <1>4, SameTwice DEF Leaves
<1> QED  BY <1>2, <1>3, <1>4

(* What the client will have, after a part.                                *)
LEMMA ItemSame ==
  ASSUME NEW s \in States, NEW u \in States, NEW c, Same(s, u, c), NEW r, NEW index, ItemOf(s, c, r, index)
  PROVE  ItemOf(u, c, r, index)
<1>1. /\ OfIn(u, c) = OfIn(s, c)
      /\ \A b, status, n, m : Has(s, c, b, status, n, m) => Has(u, c, b, status, n, m)
  BY SameIs
<1>2. ItemDone(s, c, r) => ItemDone(u, c, r)
  BY <1>1 DEF ItemDone
<1> QED  BY <1>1, <1>2 DEF ItemOf

LEMMA ContentSame ==
  ASSUME NEW s \in States, NEW u \in States, \A x : Same(s, u, x), ResponseContent(s)
  PROVE  ResponseContent(u)
<1>1. \A c \in Calls : ItemOf(u, c, call[c], toolCallOutputIndices[c])
  BY ItemSame DEF ResponseContent
<1>2. \A x \in {"text", "reasoning"} : PiecesIn(u, x) = sent[x]
  BY SameIs DEF ResponseContent
<1> QED  BY <1>1, <1>2 DEF ResponseContent

LEMMA ContentBrought ==
  ASSUME NEW s, NEW u, ResponseContent(s), NEW x, NEW k \in Nat, Brings(s, u, x, k),
         UNCHANGED <<kind, call, toolCallOutputIndices>>,
         \A y \in {"text", "reasoning"} : sent'[y] = sent[y] + IF y = x THEN k ELSE 0
  PROVE  ResponseContent(u)'
<1>1. ASSUME NEW c \in Calls PROVE ItemOf(u, c, call[c], toolCallOutputIndices[c])'
  <2>1. ItemOf(u, c, call[c], toolCallOutputIndices[c])
    BY ItemSame DEF ResponseContent, Brings
  <2> QED  BY <2>1 DEF ItemOf, ItemDone, OpenWith
<1>2. \A y \in {"text", "reasoning"} : PiecesIn(u, y) = sent'[y]
  BY DEF ResponseContent, Brings
<1> QED  BY <1>1, <1>2 DEF ResponseContent

LEMMA ContentOfOne ==
  ASSUME NEW s, NEW u, ResponseContent(s), NEW c \in Calls, Leaves(s, u, c), UNCHANGED <<kind, sent>>,
         \A d \in Calls \ {c} : call'[d] = call[d] /\ toolCallOutputIndices'[d] = toolCallOutputIndices[d],
         ItemOf(u, c, call'[c], toolCallOutputIndices'[c])
  PROVE  ResponseContent(u)'
<1>1. ASSUME NEW d \in Calls PROVE ItemOf(u, d, call[d], toolCallOutputIndices[d])'
  <2>1. ItemOf(u, d, call'[d], toolCallOutputIndices'[d])
    BY ItemSame DEF ResponseContent, Leaves
  <2> QED  BY <2>1 DEF ItemOf, ItemDone, OpenWith
<1>2. \A y \in {"text", "reasoning"} : PiecesIn(u, y) = sent'[y]
  BY DEF ResponseContent, Leaves
<1> QED  BY <1>1, <1>2 DEF ResponseContent

(* What a part leaves.                                                     *)
LEMMA PartArrives ==
  ASSUME ResponsesInv, ResponseContents, out = <<>>, UNCHANGED <<blocks, phase>>,
         NEW events, IsList(events), Responses!Emit(events), CallsKept', OutputKnown',
         \A s, u : ResponseContent(s) /\ Plays("responses", s, events, u) => ResponseContent(u)'
  PROVE  ResponseContents'
<1>1. out' = IF responseStarted THEN events ELSE <<Created>> \o events
  BY DEF Responses!Emit, Responses!Created, Created, Responses!Signal, Signal
<1>2. PICK w : Plays("responses", Now, out, w)
  BY DEF ResponsesInv
<1>3. Now \in States /\ ResponseContent(Now)
  BY <1>2, AllRead DEF ResponseContents
<1>4. ASSUME NEW t, Plays("responses", Now', out', t) PROVE ResponseContent(t)'
  <2>1. PICK s : s \in States /\ Plays("responses", s, events, t) /\ \A x : Same(Now, s, x)
    BY <1>1, <1>4, EmittedFrom
  <2>2. ResponseContent(s)
    BY <1>3, <2>1, ContentSame
  <2> QED  BY <2>1, <2>2
<1> QED  BY <1>4 DEF ResponseContents

(* Text and reasoning.                                                     *)
LEMMA SentIs ==
  ASSUME PartInv, NEW k \in Nat
  PROVE  /\ sent' = sent => \A y \in {"text", "reasoning"} : sent'[y] = sent[y] + 0
         /\ sent' = [sent EXCEPT !.text = @ + k] =>
              \A y \in {"text", "reasoning"} : sent'[y] = sent[y] + IF y = "text" THEN k ELSE 0
         /\ sent' = [sent EXCEPT !.reasoning = @ + k] =>
              \A y \in {"text", "reasoning"} : sent'[y] = sent[y] + IF y = "reasoning" THEN k ELSE 0
BY DEF PartInv

LEMMA WordsArrive ==
  ASSUME ResponsesInv, PartInv, ResponseContents, out = <<>>,
         UNCHANGED <<kind, blocks, phase, call, toolCallOutputIndices, toolCallsWithArgumentDeltas, hostedToolCallIds>>,
         OutputKnown', NEW events, IsList(events), Responses!Emit(events), NEW x, NEW k \in Nat,
         \A y \in {"text", "reasoning"} : sent'[y] = sent[y] + IF y = x THEN k ELSE 0,
         \A s, u : Plays("responses", s, events, u) => Brings(s, u, x, k)
  PROVE  ResponseContents'
<1>1. CallsKept'
  BY DEF ResponseContents, CallsKept, OpenWith
<1>2. \A s, u : ResponseContent(s) /\ Plays("responses", s, events, u) => ResponseContent(u)'
  BY ContentBrought
<1> QED  BY <1>1, <1>2, PartArrives

LEMMA TextDeltaArrives ==
  ASSUME ResponsesInv, PartInv, ResponseContents, Responses!TextDelta
  PROVE  ResponseContents'
<1>1. /\ out = <<>> /\ upstream' = "streaming" /\ sent' = [sent EXCEPT !.text = @ + 1]
      /\ UNCHANGED <<kind, blocks, phase, call, toolCallOutputIndices, toolCallsWithArgumentDeltas, hostedToolCallIds>>
  BY ResponsesParts DEF Responses!TextDelta, SendText, Part, Asked, Responses!callVars
<1>2. OutputKnown' /\ 1 \in Nat
  BY <1>1 DEF OutputKnown
<1>3. \A y \in {"text", "reasoning"} : sent'[y] = sent[y] + IF y = "text" THEN 1 ELSE 0
  BY <1>1, <1>2, SentIs
<1>4. CASE textItemStarted
  <2> DEFINE events == <<Piece(currentOutputIndex, "text")>>
  <2>1. Responses!Emit(events) /\ IsList(events)
    BY <1>4, <1>2, ListsAre DEF Responses!TextDelta, Responses!Piece, Piece
  <2>2. \A s, u : Plays("responses", s, events, u) => Brings(s, u, "text", 1)
    BY PieceBrings
  <2> HIDE DEF events
  <2> QED  BY <1>1, <1>2, <1>3, <2>1, <2>2, WordsArrive
<1>5. CASE ~textItemStarted
  <2> DEFINE n == nextOutputIndex
             first == <<Added(n, "text")>>
             second == <<Piece(n, "text")>>
             events == first \o second
  <2>1. Responses!Emit(<<Added(n, "text"), Piece(n, "text")>>)
    BY <1>5 DEF Responses!TextDelta, Responses!Piece, Piece, Responses!Added, Added
  <2>2. Responses!Emit(events)
    BY <2>1, Joined
  <2>3. IsList(first) /\ IsList(second)
    BY <1>2, ListsAre
  <2>4. IsList(events)
    <3> HIDE DEF first, second
    <3> QED  BY <2>3, ListsJoined
  <2>5. ASSUME NEW s, NEW u, Plays("responses", s, events, u) PROVE Brings(s, u, "text", 1)
    <3>1. PICK w : Plays("responses", s, first, w) /\ Plays("responses", w, second, u)
      <4> HIDE DEF first, second
      <4> QED  BY <2>3, <2>5, RunSplit
    <3>2. Brings(s, w, "text", 0) /\ Brings(w, u, "text", 1)
      BY <3>1, AddedBrings, PieceBrings
    <3> QED  BY <3>2, <1>2, BringsTwice
  <2> HIDE DEF events
  <2> QED  BY <1>1, <1>2, <1>3, <2>2, <2>4, <2>5, WordsArrive
<1> QED  BY <1>4, <1>5

LEMMA PiecesBring ==
  ASSUME NEW s, NEW u, NEW k \in {0, 1}, NEW b, NEW x \in {"text", "reasoning"},
         Plays("responses", s, Pieces(k, b, x), u)
  PROVE  Brings(s, u, x, k)
<1>1. CASE k = 0
  <2>1. Plays("responses", s, <<>>, u)
    BY <1>1, Repeated DEF Pieces
  <2>2. u = s /\ s \in States
    BY <2>1, PlaysNothing
  <2> QED  BY <1>1, <2>2, AllSame, SameTwice
<1>2. CASE k = 1
  <2>1. Plays("responses", s, <<Piece(b, x)>>, u)
    BY <1>2, Repeated DEF Pieces
  <2> QED  BY <1>2, <2>1, PieceBrings
<1> QED  BY <1>1, <1>2

LEMMA StartReasoningArrives ==
  ASSUME ResponsesInv, PartInv, ResponseContents, out = <<>>, upstream' = "streaming",
         UNCHANGED <<kind, blocks, phase, call, toolCallOutputIndices, toolCallsWithArgumentDeltas, hostedToolCallIds>>,
         NEW k \in {0, 1}, Responses!StartReasoning(k),
         \A y \in {"text", "reasoning"} : sent'[y] = sent[y] + IF y = "reasoning" THEN k ELSE 0
  PROVE  ResponseContents'
<1>1. OutputKnown' /\ k \in Nat
  BY DEF OutputKnown
<1>2. \A b : IsList(Pieces(k, b, "reasoning"))
  BY <1>1, ListsAre, RepeatedIsList DEF Pieces
<1>3. CASE reasoningItemStarted
  <2> DEFINE events == Pieces(k, currentOutputIndex, "reasoning")
  <2>1. Responses!Emit(events)
    BY <1>3 DEF Responses!StartReasoning, Pieces, Responses!Piece, Piece
  <2>2. \A s, u : Plays("responses", s, events, u) => Brings(s, u, "reasoning", k)
    BY PiecesBring
  <2>3. IsList(events)
    BY <1>2
  <2> HIDE DEF events
  <2> QED  BY <1>1, <2>1, <2>2, <2>3, WordsArrive
<1>4. CASE ~reasoningItemStarted
  <2> DEFINE n == nextOutputIndex
             first == Ending(textItemStarted, currentOutputIndex, "text")
             second == <<Added(n, "reasoning")>>
             third == Pieces(k, n, "reasoning")
             events == first \o second \o third
  <2>1. Responses!Emit(events)
    BY <1>4 DEF Responses!StartReasoning, Pieces, Responses!Piece, Piece, Responses!Added, Added,
                Responses!ClosedText, Ending, Responses!Done, Done
  <2>2. IsList(first) /\ IsList(second) /\ IsList(third)
    BY <1>1, <1>2, ListsAre, EndingIsList
  <2>3. IsList(first \o second) /\ IsList(events)
    <3> HIDE DEF first, second, third
    <3>1. IsList(first \o second)
      BY <2>2, ListsJoined
    <3> QED  BY <2>2, <3>1, ListsJoined
  <2>4. ASSUME NEW s, NEW u, Plays("responses", s, events, u) PROVE Brings(s, u, "reasoning", k)
    <3>1. PICK v, w : /\ Plays("responses", s, first, v) /\ Plays("responses", v, second, w)
                      /\ Plays("responses", w, third, u)
      <4> HIDE DEF first, second, third
      <4>1. PICK w : Plays("responses", s, first \o second, w) /\ Plays("responses", w, third, u)
        BY <2>2, <2>3, <2>4, RunSplit
      <4> QED  BY <2>2, <4>1, RunSplit
    <3>2. Brings(s, v, "reasoning", 0)
      BY <3>1, EndingBrings
    <3>3. Brings(v, w, "reasoning", 0)
      BY <3>1, AddedBrings
    <3>4. Brings(w, u, "reasoning", k)
      BY <3>1, PiecesBring
    <3> QED  BY <1>1, <3>2, <3>3, <3>4, BringsTwice
  <2> HIDE DEF events
  <2> QED  BY <1>1, <2>1, <2>3, <2>4, WordsArrive
<1> QED  BY <1>3, <1>4

LEMMA NoWords ==
  ASSUME ResponsesInv, PartInv, ResponseContents, out = <<>>, OutputKnown',
         UNCHANGED <<kind, blocks, phase, call, sent, toolCallOutputIndices, toolCallsWithArgumentDeltas,
                     hostedToolCallIds>>,
         NEW events, IsList(events), Responses!Emit(events),
         \A s, u : Plays("responses", s, events, u) => Brings(s, u, "text", 0)
  PROVE  ResponseContents'
<1>1. 0 \in Nat
  OBVIOUS
<1>2. \A y \in {"text", "reasoning"} : sent'[y] = sent[y] + 0
  BY <1>1, SentIs
<1>3. \A y \in {"text", "reasoning"} : sent'[y] = sent[y] + IF y = "text" THEN 0 ELSE 0
  BY <1>2
<1> QED  BY <1>1, <1>3, WordsArrive

LEMMA ReasoningArrives ==
  ASSUME ResponsesInv, PartInv, ResponseContents,
         Responses!ReasoningStart \/ Responses!ReasoningDelta \/ Responses!ReasoningEnd \/ Responses!Other
  PROVE  ResponseContents'
<1>1. CASE Responses!ReasoningStart
  <2>1. SendReasoningStart /\ Responses!StartReasoning(0) /\ UNCHANGED Responses!callVars
    BY <1>1, ResponsesParts DEF Responses!ReasoningStart
  <2>2. out = <<>> /\ upstream' = "streaming" /\ UNCHANGED <<kind, blocks, phase, call, sent>>
    BY <2>1 DEF SendReasoningStart, Part, Asked
  <2>3. \A y \in {"text", "reasoning"} : sent'[y] = sent[y] + IF y = "reasoning" THEN 0 ELSE 0
    BY <2>2 DEF PartInv
  <2> QED  BY <2>1, <2>2, <2>3, StartReasoningArrives DEF Responses!callVars
<1>2. CASE Responses!ReasoningDelta
  <2>1. SendReasoning /\ Responses!StartReasoning(1) /\ UNCHANGED Responses!callVars
    BY <1>2, ResponsesParts DEF Responses!ReasoningDelta
  <2>2. /\ out = <<>> /\ upstream' = "streaming" /\ UNCHANGED <<kind, blocks, phase, call>>
        /\ sent' = [sent EXCEPT !.reasoning = @ + 1]
    BY <2>1 DEF SendReasoning, Part, Asked
  <2>3. \A y \in {"text", "reasoning"} : sent'[y] = sent[y] + IF y = "reasoning" THEN 1 ELSE 0
    BY <2>2, SentIs, 1 \in Nat
  <2> QED  BY <2>1, <2>2, <2>3, StartReasoningArrives DEF Responses!callVars
<1>3. CASE Responses!ReasoningEnd
  <2> DEFINE events == Ending(reasoningItemStarted, currentOutputIndex, "reasoning")
  <2>1. SendReasoningEnd /\ Responses!Emit(events) /\ UNCHANGED Responses!callVars
    BY <1>3, ResponsesParts DEF Responses!ReasoningEnd, Responses!ClosedReasoning, Ending, Responses!Done, Done
  <2>2. out = <<>> /\ upstream' = "streaming" /\ UNCHANGED <<kind, blocks, phase, call, sent>>
    BY <2>1 DEF SendReasoningEnd, Part, Asked
  <2>3. \A s, u : Plays("responses", s, events, u) => Brings(s, u, "text", 0)
    BY EndingBrings
  <2>4. IsList(events) /\ OutputKnown'
    BY <2>2, EndingIsList DEF OutputKnown
  <2> HIDE DEF events
  <2> QED  BY <2>1, <2>2, <2>3, <2>4, NoWords DEF Responses!callVars
<1>4. CASE Responses!Other
  <2>1. SendOther /\ Responses!Emit(<<>>) /\ UNCHANGED Responses!callVars
    BY <1>4, ResponsesParts DEF Responses!Other
  <2>2. out = <<>> /\ upstream' = "streaming" /\ UNCHANGED <<kind, blocks, phase, call, sent>>
    BY <2>1 DEF SendOther, Part, Asked
  <2>3. \A s, u : Plays("responses", s, <<>>, u) => Brings(s, u, "text", 0)
    BY PlaysNothing, AllSame, SameTwice
  <2>4. IsList(<<>>) /\ OutputKnown'
    BY <2>2, ListsAre DEF OutputKnown
  <2> QED  BY <2>1, <2>2, <2>3, <2>4, NoWords DEF Responses!callVars
<1> QED  BY <1>1, <1>2, <1>3, <1>4

(* A call.                                                                 *)
LEMMA CallsStayKept ==
  ASSUME CallsKept, NEW c \in Calls, UNCHANGED kind, \A d \in Calls \ {c} : call'[d] = call[d],
         \A d \in Calls \ {c} :
           /\ d \in toolCallsWithArgumentDeltas' <=> d \in toolCallsWithArgumentDeltas
           /\ d \in hostedToolCallIds' <=> d \in hostedToolCallIds,
         c \in toolCallsWithArgumentDeltas' <=> OpenWith(c, call[c])' > 0,
         c \in hostedToolCallIds' <=> kind[c] = "hosted" /\ call'[c].at \in {"started", "called"}
  PROVE  CallsKept'
<1>1. ASSUME NEW d \in Calls \ {c}
      PROVE  /\ d \in toolCallsWithArgumentDeltas' <=> OpenWith(d, call[d])' > 0
             /\ d \in hostedToolCallIds' <=> kind'[d] = "hosted" /\ call'[d].at \in {"started", "called"}
  BY <1>1 DEF CallsKept, OpenWith
<1> QED  BY <1>1 DEF CallsKept

LEMMA CallArrives ==
  ASSUME ResponsesInv, ResponseContents, out = <<>>, upstream' = "streaming",
         UNCHANGED <<kind, blocks, phase, sent>>, NEW c \in Calls,
         \A d \in Calls \ {c} : call'[d] = call[d] /\ toolCallOutputIndices'[d] = toolCallOutputIndices[d],
         CallsKept', NEW events, IsList(events), Responses!Emit(events),
         \A s, u : ItemOf(s, c, call[c], toolCallOutputIndices[c]) /\ Plays("responses", s, events, u) =>
                     Leaves(s, u, c) /\ ItemOf(u, c, call'[c], toolCallOutputIndices'[c])
  PROVE  ResponseContents'
<1>1. OutputKnown'
  BY DEF OutputKnown
<1>2. ASSUME NEW s, NEW u, ResponseContent(s), Plays("responses", s, events, u) PROVE ResponseContent(u)'
  <2>1. ItemOf(s, c, call[c], toolCallOutputIndices[c])
    BY <1>2 DEF ResponseContent
  <2>2. Leaves(s, u, c) /\ ItemOf(u, c, call'[c], toolCallOutputIndices'[c])
    BY <1>2, <2>1
  <2> QED  BY <1>2, <2>2, ContentOfOne
<1> QED  BY <1>1, <1>2, PartArrives

LEMMA OpenWithIs ==
  ASSUME PartInv, NEW c \in Calls
  PROVE  /\ OpenWith(c, call[c]) \in Nat /\ call[c].pieces \in Nat
         /\ call[c].at = "none" \/ kind[c] = "hosted" => OpenWith(c, call[c]) = 0
         /\ kind[c] \in Unstreamed => OpenWith(c, call[c]) = 0
         /\ kind[c] \notin Unstreamed => OpenWith(c, call[c]) = call[c].pieces
BY CallsAre DEF OpenWith, Unstreamed

LEMMA InputStartArrives ==
  ASSUME ResponsesInv, PartInv, ResponseContents, NEW c \in Calls, Responses!ToolInputStart(c)
  PROVE  ResponseContents'
<1> DEFINE n == nextOutputIndex
           first == Ending(textItemStarted, currentOutputIndex, "text")
           second == <<Added(n, c)>>
           events == first \o second
<1>1. SendInputStart(c) /\ UNCHANGED toolCallsWithArgumentDeltas
      /\ toolCallOutputIndices' = [toolCallOutputIndices EXCEPT ![c] = n]
      /\ hostedToolCallIds' = hostedToolCallIds \cup {d \in {c} : kind[d] = "hosted"}
  BY ResponsesParts DEF Responses!ToolInputStart
<1>2. Responses!Emit(events)
  BY DEF Responses!ToolInputStart, Responses!Added, Added, Responses!ClosedText, Ending, Responses!Done, Done
<1>3. /\ out = <<>> /\ upstream' = "streaming" /\ UNCHANGED <<kind, blocks, phase, sent>>
      /\ call[c].at = "none" /\ Comes(c, "started")
  BY <1>1 DEF SendInputStart, Part, Asked, Comes
<1>4. /\ call'[c].at = "started" /\ call'[c].pieces = 0
      /\ \A d \in Calls \ {c} : call'[d] = call[d]
  BY <1>3, ComesIs, CallsAre
<1>5. /\ toolCallOutputIndices'[c] = n
      /\ \A d \in Calls \ {c} : toolCallOutputIndices'[d] = toolCallOutputIndices[d]
  BY <1>1, IndicesTyped
<1>6. OpenWith(c, call[c]) = 0 /\ OpenWith(c, call'[c]) = 0 /\ OpenWith(c, call[c])' = 0
  BY <1>3, <1>4, OpenWithIs DEF OpenWith
<1>7. CallsKept'
  <2>1. c \notin toolCallsWithArgumentDeltas'
    BY <1>1, <1>6 DEF ResponseContents, CallsKept
  <2>2. c \in hostedToolCallIds' <=> kind[c] = "hosted" /\ call'[c].at \in {"started", "called"}
    BY <1>1, <1>3, <1>4 DEF ResponseContents, CallsKept
  <2>3. \A d \in Calls \ {c} :
           /\ d \in toolCallsWithArgumentDeltas' <=> d \in toolCallsWithArgumentDeltas
           /\ d \in hostedToolCallIds' <=> d \in hostedToolCallIds
    BY <1>1
  <2>4. CallsKept
    BY DEF ResponseContents
  <2>5. c \in toolCallsWithArgumentDeltas' <=> OpenWith(c, call[c])' > 0
    BY <1>6, <2>1
  <2> QED  BY <1>3, <1>4, <2>2, <2>3, <2>4, <2>5, CallsStayKept
<1>8. IsList(first) /\ IsList(second)
  BY ListsAre, EndingIsList
<1>9. IsList(events)
  <2> HIDE DEF first, second
  <2> QED  BY <1>8, ListsJoined
<1>10. ASSUME NEW s, NEW u, ItemOf(s, c, call[c], toolCallOutputIndices[c]), Plays("responses", s, events, u)
       PROVE  Leaves(s, u, c) /\ ItemOf(u, c, call'[c], toolCallOutputIndices'[c])
  <2>1. PICK w : Plays("responses", s, first, w) /\ Plays("responses", w, second, u)
    <3> HIDE DEF first, second
    <3> QED  BY <1>8, <1>10, RunSplit
  <2>2. Brings(s, w, "text", 0)
    BY <2>1, EndingBrings
  <2>3. Leaves(s, w, c) /\ Same(s, w, c) /\ s \in States /\ w \in States
    BY <2>2, LeavesIs DEF Brings
  <2>4. OfIn(w, c) = {}
    BY <1>3, <1>10, <2>3 DEF ItemOf, Same
  <2>5. u \in States /\ Others(w, u, c) /\ Has(u, c, n, "open", 0, 0)
    BY <2>1, <2>4, AddedMakes
  <2>6. Leaves(s, u, c)
    BY <2>3, <2>5, LeavesIs
  <2>7. ItemOf(u, c, call'[c], toolCallOutputIndices'[c])
    BY <1>4, <1>5, <1>6, <2>5 DEF ItemOf
  <2> QED  BY <2>6, <2>7
<1> HIDE DEF events, n
<1> QED  BY <1>2, <1>3, <1>4, <1>5, <1>7, <1>9, <1>10, CallArrives

LEMMA InputDeltaArrives ==
  ASSUME ResponsesInv, PartInv, ResponseContents, NEW c \in Calls, Responses!ToolInputDelta(c)
  PROVE  ResponseContents'
<1> DEFINE index == toolCallOutputIndices[c]
<1>1. SendInput(c) /\ UNCHANGED <<toolCallOutputIndices, hostedToolCallIds>>
  BY ResponsesParts DEF Responses!ToolInputDelta
<1>2. /\ out = <<>> /\ upstream' = "streaming" /\ UNCHANGED <<kind, blocks, phase, sent>>
      /\ call[c].at = "started" /\ call' = [call EXCEPT ![c].pieces = @ + 1]
  BY <1>1 DEF SendInput, Part, Asked
<1>3. /\ call'[c].at = "started" /\ call'[c].pieces = call[c].pieces + 1
      /\ \A d \in Calls \ {c} : call'[d] = call[d]
  BY <1>2, CallsAre DEF PartInv, CallOf
<1>4. index # 0
  BY <1>2 DEF ResponsesInv, CallsKnown, CallKnown
<1>5. CallsKept /\ (c \in hostedToolCallIds <=> kind[c] = "hosted")
  BY <1>2 DEF ResponseContents, CallsKept
<1>6. Responses!Streamed(c) <=> kind[c] \notin Unstreamed
  BY <1>5 DEF Responses!Streamed, Unstreamed
<1>7. c \in hostedToolCallIds' <=> kind[c] = "hosted" /\ call'[c].at \in {"started", "called"}
  BY <1>1, <1>3, <1>5
<1>8. CASE Responses!Streamed(c)
  <2> DEFINE events == <<Piece(index, c)>>
  <2>1. Responses!Emit(events)
    <3>1. Responses!Emit([i \in 1..1 |-> Piece(index, c)])
      BY <1>4, <1>8 DEF Responses!ToolInputDelta, Responses!Piece, Piece
    <3>2. [i \in 1..1 |-> Piece(index, c)] = events
      BY Repeated
    <3> QED  BY <3>1, <3>2
  <2>2. toolCallsWithArgumentDeltas' = toolCallsWithArgumentDeltas \cup {c}
    BY <1>8 DEF Responses!ToolInputDelta
  <2>3. /\ OpenWith(c, call[c]) = call[c].pieces /\ call[c].pieces \in Nat
        /\ OpenWith(c, call'[c]) = call[c].pieces + 1 /\ OpenWith(c, call[c])' = call[c].pieces + 1
    BY <1>2, <1>3, <1>6, <1>8, OpenWithIs DEF OpenWith
  <2>4. CallsKept'
    <3>1. OpenWith(c, call[c])' > 0
      BY <2>3
    <3>2. c \in toolCallsWithArgumentDeltas' <=> OpenWith(c, call[c])' > 0
      BY <2>2, <3>1
    <3>3. \A d \in Calls \ {c} :
            /\ d \in toolCallsWithArgumentDeltas' <=> d \in toolCallsWithArgumentDeltas
            /\ d \in hostedToolCallIds' <=> d \in hostedToolCallIds
      BY <1>1, <2>2
    <3> QED  BY <1>2, <1>3, <1>5, <1>7, <3>2, <3>3, CallsStayKept
  <2>5. IsList(events)
    BY ListsAre
  <2>6. ASSUME NEW s, NEW u, ItemOf(s, c, call[c], index), Plays("responses", s, events, u)
        PROVE  Leaves(s, u, c) /\ ItemOf(u, c, call'[c], toolCallOutputIndices'[c])
    <3>1. Has(s, c, index, "open", call[c].pieces, 0)
      BY <1>2, <2>3, <2>6 DEF ItemOf
    <3>2. s \in States /\ u \in States /\ Others(s, u, c) /\ Has(u, c, index, "open", call[c].pieces + 1, 0)
      BY <2>6, <3>1, PieceMakes
    <3>3. Leaves(s, u, c)
      BY <3>2, LeavesIs
    <3>4. ItemOf(u, c, call'[c], toolCallOutputIndices'[c])
      BY <1>1, <1>3, <2>3, <3>2 DEF ItemOf
    <3> QED  BY <3>3, <3>4
  <2> HIDE DEF events
  <2>7. \A d \in Calls \ {c} : call'[d] = call[d] /\ toolCallOutputIndices'[d] = toolCallOutputIndices[d]
    BY <1>1, <1>3
  <2> QED  BY <1>2, <2>1, <2>4, <2>5, <2>6, <2>7, CallArrives
<1>9. CASE ~Responses!Streamed(c)
  <2>1. Responses!Emit(<<>>) /\ UNCHANGED toolCallsWithArgumentDeltas
    BY <1>9 DEF Responses!ToolInputDelta
  <2>2. OpenWith(c, call[c]) = 0 /\ OpenWith(c, call'[c]) = 0 /\ OpenWith(c, call[c])' = 0
    BY <1>2, <1>6, <1>9, OpenWithIs DEF OpenWith
  <2>3. CallsKept'
    <3>1. c \in toolCallsWithArgumentDeltas' <=> OpenWith(c, call[c])' > 0
      BY <1>5, <2>1, <2>2 DEF CallsKept
    <3>2. \A d \in Calls \ {c} :
            /\ d \in toolCallsWithArgumentDeltas' <=> d \in toolCallsWithArgumentDeltas
            /\ d \in hostedToolCallIds' <=> d \in hostedToolCallIds
      BY <1>1, <2>1
    <3> QED  BY <1>2, <1>3, <1>5, <1>7, <3>1, <3>2, CallsStayKept
  <2>4. ASSUME NEW s, NEW u, ItemOf(s, c, call[c], index), Plays("responses", s, <<>>, u)
        PROVE  Leaves(s, u, c) /\ ItemOf(u, c, call'[c], toolCallOutputIndices'[c])
    <3>1. u = s /\ s \in States
      BY <2>4, PlaysNothing
    <3>2. Leaves(s, u, c)
      BY <3>1, LeavesIs, SameTwice
    <3>3. Has(s, c, index, "open", 0, 0)
      BY <1>2, <2>2, <2>4 DEF ItemOf
    <3>4. ItemOf(u, c, call'[c], toolCallOutputIndices'[c])
      BY <1>1, <1>3, <2>2, <3>1, <3>3 DEF ItemOf
    <3> QED  BY <3>2, <3>4
  <2>5. IsList(<<>>)
    BY ListsAre
  <2>6. \A d \in Calls \ {c} : call'[d] = call[d] /\ toolCallOutputIndices'[d] = toolCallOutputIndices[d]
    BY <1>1, <1>3
  <2> QED  BY <1>2, <2>1, <2>3, <2>4, <2>5, <2>6, CallArrives
<1> QED  BY <1>8, <1>9

LEMMA HostedCallArrives ==
  ASSUME ResponsesInv, PartInv, ResponseContents, NEW c \in Calls, Responses!HostedCall(c)
  PROVE  ResponseContents'
<1>1. /\ SendCall(c) /\ kind[c] = "hosted" /\ Responses!Emit(<<>>)
      /\ hostedToolCallIds' = hostedToolCallIds \cup {c}
      /\ UNCHANGED <<toolCallOutputIndices, toolCallsWithArgumentDeltas>>
  BY ResponsesParts DEF Responses!HostedCall
<1>2. /\ out = <<>> /\ upstream' = "streaming" /\ UNCHANGED <<kind, blocks, phase, sent>>
      /\ call[c].at \in {"none", "started"} /\ Comes(c, "called")
  BY <1>1 DEF SendCall, Part, Asked, Comes
<1>3. call'[c].at = "called" /\ \A d \in Calls \ {c} : call'[d] = call[d]
  BY <1>2, ComesIs
<1>4. OpenWith(c, call[c]) = 0 /\ OpenWith(c, call'[c]) = 0 /\ OpenWith(c, call[c])' = 0
  BY <1>1, <1>2 DEF OpenWith, Unstreamed
<1>5. CallsKept'
  <2>1. CallsKept
    BY DEF ResponseContents
  <2>2. c \in toolCallsWithArgumentDeltas' <=> OpenWith(c, call[c])' > 0
    BY <1>1, <1>4, <2>1 DEF CallsKept
  <2>3. c \in hostedToolCallIds' <=> kind[c] = "hosted" /\ call'[c].at \in {"started", "called"}
    BY <1>1, <1>3
  <2>4. \A d \in Calls \ {c} :
            /\ d \in toolCallsWithArgumentDeltas' <=> d \in toolCallsWithArgumentDeltas
            /\ d \in hostedToolCallIds' <=> d \in hostedToolCallIds
    BY <1>1
  <2> QED  BY <1>2, <1>3, <2>1, <2>2, <2>3, <2>4, CallsStayKept
<1>6. CallKnown(call[c].at, kind[c] = "hosted", c \in toolCallStartEmitted, toolCallOutputIndices[c])
  BY DEF ResponsesInv, CallsKnown
<1>7. ASSUME NEW s, NEW u, ItemOf(s, c, call[c], toolCallOutputIndices[c]), Plays("responses", s, <<>>, u)
      PROVE  Leaves(s, u, c) /\ ItemOf(u, c, call'[c], toolCallOutputIndices'[c])
  <2>1. u = s /\ s \in States
    BY <1>7, PlaysNothing
  <2>2. Leaves(s, u, c)
    BY <2>1, LeavesIs, SameTwice
  <2>3. IF toolCallOutputIndices[c] = 0 THEN OfIn(s, c) = {} ELSE Has(s, c, toolCallOutputIndices[c], "open", 0, 0)
    BY <1>2, <1>4, <1>6, <1>7 DEF ItemOf, CallKnown
  <2>4. ItemOf(u, c, call'[c], toolCallOutputIndices'[c])
    BY <1>1, <1>3, <2>1, <2>3 DEF ItemOf
  <2> QED  BY <2>2, <2>4
<1>8. IsList(<<>>)
  BY ListsAre
<1>9. \A d \in Calls \ {c} : call'[d] = call[d] /\ toolCallOutputIndices'[d] = toolCallOutputIndices[d]
  BY <1>1, <1>3
<1> QED  BY <1>1, <1>2, <1>5, <1>7, <1>8, <1>9, CallArrives

(* A call that completes: it is opened if it is not, gets the whole of its *)
(* input if none of it came before, and is closed.                         *)
LEMMA CallCompletes ==
  ASSUME NEW s, NEW u, NEW c \in Calls, NEW index, NEW b, NEW k \in Nat, NEW whole, NEW started, NEW cur,
         NEW m, m = IF whole THEN 1 ELSE 0,
         index = 0 => OfIn(s, c) = {} /\ k = 0,
         index # 0 => b = index /\ Has(s, c, index, "open", k, 0),
         Plays("responses", s, Ending(started, cur, "text") \o Added1(index, b, c) \o RestOf(b, c, whole)
                                 \o <<Done(b, c)>>, u)
  PROVE  Leaves(s, u, c) /\ Has(u, c, b, "closed", k, m)
<1> DEFINE e1 == Ending(started, cur, "text")
           e2 == Added1(index, b, c)
           e3 == RestOf(b, c, whole)
           e4 == <<Done(b, c)>>
<1>1. IsList(e1) /\ IsList(e2) /\ IsList(e3) /\ IsList(e4)
  BY ListsAre, EndingIsList DEF Added1, RestOf
<1>2. PICK v, w, y : /\ Plays("responses", s, e1, v) /\ Plays("responses", v, e2, w)
                     /\ Plays("responses", w, e3, y) /\ Plays("responses", y, e4, u)
  <2> HIDE DEF e1, e2, e3, e4
  <2>1. IsList(e1 \o e2) /\ IsList(e1 \o e2 \o e3)
    BY <1>1, ListsJoined
  <2>2. Plays("responses", s, e1 \o e2 \o e3 \o e4, u)
    BY DEF e1, e2, e3, e4
  <2>3. PICK y : Plays("responses", s, e1 \o e2 \o e3, y) /\ Plays("responses", y, e4, u)
    BY <1>1, <2>1, <2>2, RunSplit
  <2>4. PICK w : Plays("responses", s, e1 \o e2, w) /\ Plays("responses", w, e3, y)
    BY <1>1, <2>1, <2>3, RunSplit
  <2> QED  BY <1>1, <2>3, <2>4, RunSplit
<1>3. Brings(s, v, "text", 0)
  BY <1>2, EndingBrings
<1>4. Leaves(s, v, c) /\ Same(s, v, c) /\ s \in States /\ v \in States
  BY <1>3, LeavesIs DEF Brings
<1>5. Leaves(v, w, c) /\ Has(w, c, b, "open", k, 0)
  <2>1. CASE index = 0
    <3>1. Plays("responses", v, <<Added(b, c)>>, w)
      BY <1>2, <2>1 DEF Added1
    <3>2. OfIn(v, c) = {}
      BY <1>4, <2>1 DEF Same
    <3>3. v \in States /\ w \in States /\ Others(v, w, c) /\ Has(w, c, b, "open", 0, 0)
      BY <3>1, <3>2, AddedMakes
    <3> QED  BY <2>1, <3>3, LeavesIs
  <2>2. CASE index # 0
    <3>1. w = v
      BY <1>2, <2>2, PlaysNothing DEF Added1
    <3>2. Has(v, c, b, "open", k, 0)
      BY <1>4, <2>2, SameIs
    <3> QED  BY <1>4, <3>1, <3>2, LeavesIs, SameTwice
  <2> QED  BY <2>1, <2>2
<1>6. Leaves(w, y, c) /\ Has(y, c, b, "open", k, IF whole THEN 1 ELSE 0)
  <2>1. CASE whole
    <3>1. Plays("responses", w, <<Whole(b, c)>>, y)
      BY <1>2, <2>1 DEF RestOf
    <3>2. w \in States /\ y \in States /\ Others(w, y, c) /\ Has(y, c, b, "open", k, 0 + 1)
      BY <1>5, <3>1, WholeMakes
    <3> QED  BY <2>1, <3>2, LeavesIs
  <2>2. CASE ~whole
    <3>1. y = w /\ w \in States
      BY <1>2, <2>2, PlaysNothing DEF RestOf
    <3> QED  BY <1>5, <2>2, <3>1, LeavesIs, SameTwice
  <2> QED  BY <2>1, <2>2
<1>7. Leaves(y, u, c) /\ Has(u, c, b, "closed", k, IF whole THEN 1 ELSE 0)
  <2>1. y \in States /\ u \in States /\ Others(y, u, c) /\ Has(u, c, b, "closed", k, IF whole THEN 1 ELSE 0)
    BY <1>2, <1>6, DoneMakes
  <2> QED  BY <2>1, LeavesIs
<1> QED  BY <1>4, <1>5, <1>6, <1>7, LeavesIs

LEMMA CompleteCallArrives ==
  ASSUME ResponsesInv, PartInv, ResponseContents, out = <<>>, upstream' = "streaming",
         UNCHANGED <<kind, blocks, phase, sent>>, NEW c \in Calls, NEW whole,
         Responses!CompleteCall(c, RestOf(Responses!Index(c), c, whole)),
         kind[c] # "hosted" => call[c].at \in {"none", "started"},
         kind[c] = "hosted" => call[c].at = "called",
         call'[c].at = IF kind[c] = "hosted" THEN "answered" ELSE "called",
         call'[c].pieces = call[c].pieces,
         \A d \in Calls \ {c} : call'[d] = call[d],
         hostedToolCallIds' = hostedToolCallIds \ {c},
         kind[c] \notin {"hosted", "search"} => (whole <=> c \notin toolCallsWithArgumentDeltas)
  PROVE  ResponseContents'
<1> DEFINE b == Responses!Index(c)
           index == toolCallOutputIndices[c]
           events == Ending(textItemStarted, currentOutputIndex, "text") \o Added1(index, b, c)
                       \o RestOf(b, c, whole) \o <<Done(b, c)>>
<1>1. CallKnown(call[c].at, kind[c] = "hosted", c \in toolCallStartEmitted, index)
  BY DEF ResponsesInv, CallsKnown
<1>2. c \in toolCallStartEmitted <=> index # 0
  BY <1>1 DEF CallKnown
<1>3. Responses!Missing(c) = Added1(index, b, c)
  BY <1>2 DEF Responses!Missing, Added1, Responses!Added, Added
<1>4. Responses!ClosedText = Ending(textItemStarted, currentOutputIndex, "text")
  BY DEF Responses!ClosedText, Ending, Responses!Done, Done
<1>5. /\ Responses!Emit(events) /\ UNCHANGED toolCallsWithArgumentDeltas
      /\ toolCallOutputIndices' = [toolCallOutputIndices EXCEPT ![c] = 0]
  BY <1>3, <1>4 DEF Responses!CompleteCall, Responses!Done, Done
<1>6. \A d \in Calls \ {c} : call'[d] = call[d] /\ toolCallOutputIndices'[d] = toolCallOutputIndices[d]
  BY <1>5, IndicesTyped
<1>7. index # 0 => b = index
  BY DEF Responses!Index
<1>8. CallsKept /\ OpenWith(c, call[c]) \in Nat
  BY OpenWithIs DEF ResponseContents
<1>9. CallsKept'
  <2>1. c \in toolCallsWithArgumentDeltas' <=> OpenWith(c, call[c])' > 0
    BY <1>5, <1>8 DEF CallsKept, OpenWith
  <2>2. c \in hostedToolCallIds' <=> kind[c] = "hosted" /\ call'[c].at \in {"started", "called"}
    OBVIOUS
  <2>3. \A d \in Calls \ {c} :
            /\ d \in toolCallsWithArgumentDeltas' <=> d \in toolCallsWithArgumentDeltas
            /\ d \in hostedToolCallIds' <=> d \in hostedToolCallIds
    BY <1>5
  <2> QED  BY <1>8, <2>1, <2>2, <2>3, CallsStayKept
<1>10. IsList(events)
  <2>1. /\ IsList(Ending(textItemStarted, currentOutputIndex, "text")) /\ IsList(Added1(index, b, c))
        /\ IsList(RestOf(b, c, whole)) /\ IsList(<<Done(b, c)>>)
    BY ListsAre, EndingIsList DEF Added1, RestOf
  <2> HIDE DEF b, index
  <2> QED  BY <2>1, ListsJoined
<1>11. ASSUME NEW s, NEW u, ItemOf(s, c, call[c], index), Plays("responses", s, events, u)
       PROVE  Leaves(s, u, c) /\ ItemOf(u, c, call'[c], toolCallOutputIndices'[c])
  <2> DEFINE k == OpenWith(c, call[c])
             m == IF whole THEN 1 ELSE 0
  <2>1. k \in Nat /\ (call[c].at = "none" \/ kind[c] = "hosted" => k = 0)
    BY OpenWithIs
  <2>2. index = 0 => OfIn(s, c) = {} /\ k = 0
    BY <1>1, <1>11, <2>1 DEF ItemOf, CallKnown
  <2>3. index # 0 => b = index /\ Has(s, c, index, "open", k, 0)
    BY <1>1, <1>7, <1>11, <2>1 DEF ItemOf, CallKnown
  <2>4. Leaves(s, u, c) /\ Has(u, c, b, "closed", k, m)
    <3>1. Plays("responses", s, Ending(textItemStarted, currentOutputIndex, "text") \o Added1(index, b, c)
                                  \o RestOf(b, c, whole) \o <<Done(b, c)>>, u)
      BY <1>11
    <3>2. m = IF whole THEN 1 ELSE 0
      OBVIOUS
    <3> HIDE DEF k, b, index, m
    <3> QED  BY ONLY <2>1, <2>2, <2>3, <3>1, <3>2, CallCompletes, c \in Calls
  <2>5. kind[c] \notin {"hosted", "search"} =>
          \/ k = call'[c].pieces /\ (IF whole THEN 1 ELSE 0) = 0 /\ call'[c].pieces > 0
          \/ k = 0 /\ (IF whole THEN 1 ELSE 0) = 1
    <3>1. c \in toolCallsWithArgumentDeltas <=> k > 0
      BY <1>8 DEF CallsKept
    <3>2. kind[c] \notin {"hosted", "search"} => k = 0 \/ k = call[c].pieces
      BY OpenWithIs
    <3> HIDE DEF k
    <3> QED  BY <2>1, <3>1, <3>2
  <2>6. ItemDone(u, c, call'[c])
    <3> HIDE DEF k, b
    <3> QED  BY <2>4, <2>5 DEF ItemDone
  <2> QED  BY <2>4, <2>6 DEF ItemOf
<1> HIDE DEF events, index
<1> QED  BY <1>5, <1>6, <1>9, <1>10, <1>11, CallArrives DEF index

LEMMA ToolCallArrives ==
  ASSUME ResponsesInv, PartInv, ResponseContents, NEW c \in Calls, Responses!ToolCall(c)
  PROVE  ResponseContents'
<1> DEFINE whole == ~(c \in toolCallsWithArgumentDeltas \/ kind[c] = "search")
<1>1. SendCall(c) /\ kind[c] # "hosted" /\ UNCHANGED hostedToolCallIds
  BY ResponsesParts DEF Responses!ToolCall
<1>2. Responses!CompleteCall(c, RestOf(Responses!Index(c), c, whole))
  BY DEF Responses!ToolCall, Responses!Rest, RestOf, Responses!Whole, Whole
<1>3. /\ out = <<>> /\ upstream' = "streaming" /\ UNCHANGED <<kind, blocks, phase, sent>>
      /\ call[c].at \in {"none", "started"} /\ Comes(c, "called")
  BY <1>1 DEF SendCall, Part, Asked, Comes
<1>4. call'[c].at = "called" /\ call'[c].pieces = call[c].pieces /\ \A d \in Calls \ {c} : call'[d] = call[d]
  BY <1>3, ComesIs
<1>5. hostedToolCallIds' = hostedToolCallIds \ {c}
  BY <1>1 DEF ResponseContents, CallsKept
<1>6. kind[c] \notin {"hosted", "search"} => (whole <=> c \notin toolCallsWithArgumentDeltas)
  OBVIOUS
<1> HIDE DEF whole
<1> QED  BY <1>1, <1>2, <1>3, <1>4, <1>5, <1>6, CompleteCallArrives

LEMMA ToolResultArrives ==
  ASSUME ResponsesInv, PartInv, ResponseContents, NEW c \in Calls, Responses!ToolResult(c)
  PROVE  ResponseContents'
<1>1. SendResult(c) /\ hostedToolCallIds' = hostedToolCallIds \ {c}
  BY ResponsesParts DEF Responses!ToolResult
<1>2. Responses!CompleteCall(c, RestOf(Responses!Index(c), c, FALSE))
  BY DEF Responses!ToolResult, RestOf
<1>3. /\ out = <<>> /\ upstream' = "streaming" /\ UNCHANGED <<kind, blocks, phase, sent>>
      /\ kind[c] = "hosted" /\ call[c].at = "called" /\ Comes(c, "answered")
  BY <1>1 DEF SendResult, Part, Asked, Comes
<1>4. call'[c].at = "answered" /\ call'[c].pieces = call[c].pieces /\ \A d \in Calls \ {c} : call'[d] = call[d]
  BY <1>3, ComesIs
<1> QED  BY <1>1, <1>2, <1>3, <1>4, CompleteCallArrives

(* The end, and what the client reads.                                     *)
LEMMA FinishArrives ==
  ASSUME ResponsesInv, PartInv, ResponseContents, Responses!Finish
  PROVE  ResponseContents'
<1> DEFINE after == IF reasoningItemStarted THEN 0 ELSE currentOutputIndex
           e1 == Ending(reasoningItemStarted, currentOutputIndex, "reasoning")
           e2 == Ending(textItemStarted, after, "text")
           e3 == <<Completed>>
           events == e1 \o e2 \o e3
<1>1. SendFinish /\ UNCHANGED Responses!callVars /\ output' = Responses!Items(completedOutput')
  BY ResponsesParts DEF Responses!Finish
<1>2. out = <<>> /\ upstream = "streaming" /\ UNCHANGED <<kind, blocks, phase, call, sent>>
  BY <1>1 DEF SendFinish, Ends, Asked
<1>3. Responses!Emit(events)
  BY DEF Responses!Finish, Responses!ClosedReasoning, Ending, Responses!Done, Done, Responses!Completed,
         Completed, Responses!Signal, Signal
<1>4. OutputKnown'
  BY <1>1 DEF OutputKnown
<1>5. IsList(e1) /\ IsList(e2) /\ IsList(e3)
  BY ListsAre, EndingIsList
<1>6. IsList(e1 \o e2) /\ IsList(events)
  <2> HIDE DEF e1, e2, e3
  <2>1. IsList(e1 \o e2)
    BY <1>5, ListsJoined
  <2> QED  BY <1>5, <2>1, ListsJoined
<1>7. ASSUME NEW s, NEW u, Plays("responses", s, events, u) PROVE Brings(s, u, "text", 0)
  <2>1. PICK v, w : /\ Plays("responses", s, e1, v) /\ Plays("responses", v, e2, w)
                    /\ Plays("responses", w, e3, u)
    <3> HIDE DEF e1, e2, e3
    <3>1. PICK w : Plays("responses", s, e1 \o e2, w) /\ Plays("responses", w, e3, u)
      BY <1>5, <1>6, <1>7, RunSplit
    <3> QED  BY <1>5, <3>1, RunSplit
  <2>2. Brings(s, v, "text", 0)
    BY <2>1, EndingBrings
  <2>3. Brings(v, w, "text", 0)
    BY <2>1, EndingBrings
  <2>4. w \in States /\ u \in States /\ \A x : Same(w, u, x)
    BY <2>1, SignalsKeep
  <2>5. Brings(w, u, "text", 0)
    BY <2>4, AllSame
  <2> QED  BY <2>2, <2>3, <2>5, 0 \in Nat, BringsTwice
<1> HIDE DEF events
<1> QED  BY <1>1, <1>2, <1>3, <1>4, <1>6, <1>7, NoWords DEF Responses!callVars

LEMMA NotCompletedYet ==
  ASSUME ResponsesInv, out = <<>>, upstream = "streaming"
  PROVE  phase # "completed"
<1>1. PICK t : Plays("responses", Now, out, t) /\ ResponsePhase(t)
  BY DEF ResponsesInv
<1>2. t = Now
  BY <1>1, AllRead
<1> QED  BY <1>1, <1>2 DEF ResponsePhase, Now

LEMMA SignalsAre ==
  /\ \A i \in DOMAIN <<Failed, Closed>> : <<Failed, Closed>>[i].kind # "completed"
  /\ \A i \in DOMAIN <<Closed>> : <<Closed>>[i].kind # "completed"
  /\ \A i \in DOMAIN (<<Created>> \o <<Failed, Closed>>) : (<<Created>> \o <<Failed, Closed>>)[i].kind # "completed"
<1>1. Failed.kind # "completed" /\ Closed.kind # "completed" /\ Created.kind # "completed"
  BY DEF Failed, Closed, Created, Signal
<1> HIDE DEF Failed, Closed, Created
<1> QED  BY <1>1

LEMMA ErrorArrives ==
  ASSUME ResponsesInv, PartInv, ResponseContents, Responses!Error
  PROVE  ResponseContents'
<1> DEFINE events == <<Failed, Closed>>
<1>1. SendError /\ UNCHANGED Responses!callVars
  BY ResponsesParts DEF Responses!Error
<1>2. out = <<>> /\ upstream = "streaming" /\ UNCHANGED <<kind, blocks, phase, call, sent>>
  BY <1>1 DEF SendError, Ends, Asked
<1>3. Responses!Emit(events)
  BY DEF Responses!Error, Responses!Failed, Failed, Responses!Closed, Closed, Responses!Signal, Signal
<1>4. out' = IF responseStarted THEN events ELSE <<Created>> \o events
  BY <1>3 DEF Responses!Emit, Responses!Created, Created, Responses!Signal, Signal
<1>5. OutputKnown'
  <2>1. \A i \in DOMAIN out' : out'[i].kind # "completed"
    <3>1. CASE responseStarted
      BY <1>4, <3>1, SignalsAre
    <3>2. CASE ~responseStarted
      BY <1>4, <3>2, SignalsAre
    <3> QED  BY <3>1, <3>2
  <2>2. phase' # "completed"
    BY <1>2, NotCompletedYet
  <2> QED  BY <2>1, <2>2 DEF OutputKnown, NeverCompleted
<1>6. IsList(events)
  BY DEF IsList
<1>7. ASSUME NEW s, NEW u, Plays("responses", s, events, u) PROVE Brings(s, u, "text", 0)
  <2>1. s \in States /\ u \in States /\ \A x : Same(s, u, x)
    BY <1>7, SignalsKeep
  <2> QED  BY <2>1, AllSame
<1> HIDE DEF events
<1> QED  BY <1>1, <1>2, <1>3, <1>5, <1>6, <1>7, NoWords DEF Responses!callVars

LEMMA EndArrives ==
  ASSUME ResponsesInv, PartInv, ResponseContents, Responses!Catch \/ Responses!Return
  PROVE  ResponseContents'
<1>1. (Throw \/ EndOfStream) /\ UNCHANGED Responses!rendererVars /\ out' \in {<<Failed, Closed>>, <<Closed>>}
  BY ResponsesParts DEF Responses!Catch, Responses!Return, Responses!Failed, Failed, Responses!Closed, Closed,
     Responses!Signal, Signal
<1>2. /\ out = <<>> /\ upstream \in {"streaming", "finished"} /\ UNCHANGED <<kind, blocks, phase, call, sent>>
      /\ UNCHANGED <<toolCallOutputIndices, toolCallsWithArgumentDeltas, hostedToolCallIds, output, completedOutput>>
  BY <1>1 DEF Throw, EndOfStream, Ends, Asked, Responses!rendererVars, Responses!callVars, Responses!itemVars
<1>3. \A i \in DOMAIN out' : out'[i].kind # "completed"
  BY <1>1, SignalsAre
<1>4. OutputKnown'
  <2>1. CASE upstream = "streaming"
    BY <1>2, <1>3, <2>1, NotCompletedYet DEF OutputKnown, NeverCompleted
  <2>2. CASE upstream # "streaming" /\ output = Responses!Items(completedOutput)
    BY <1>2, <2>2 DEF OutputKnown
  <2>3. CASE upstream # "streaming" /\ NeverCompleted
    BY <1>2, <1>3, <2>3 DEF OutputKnown, NeverCompleted
  <2> QED  BY <2>1, <2>2, <2>3 DEF ResponseContents, OutputKnown
<1>5. CallsKept'
  BY <1>2 DEF ResponseContents, CallsKept, OpenWith
<1>6. PICK w : Plays("responses", Now, out, w)
  BY DEF ResponsesInv
<1>7. Now \in States /\ ResponseContent(Now) /\ Now' = Now
  BY <1>2, <1>6, AllRead DEF ResponseContents, Now
<1>8. ASSUME NEW t, Plays("responses", Now', out', t) PROVE ResponseContent(t)'
  <2>1. Plays("responses", Now, out', t)
    BY <1>7, <1>8
  <2>2. t \in States /\ \A x : Same(Now, t, x)
    BY <1>1, <2>1, SignalsKeep
  <2>3. ResponseContent(t)
    BY <1>7, <2>2, ContentSame
  <2> QED  BY <1>2, <2>3 DEF ResponseContent, ItemOf, ItemDone, OpenWith
<1> QED  BY <1>4, <1>5, <1>8 DEF ResponseContents

LEMMA NotCompletedAfter ==
  ASSUME NEW f, NEW s \in States, NEW e, May(f, s, e), s.phase # "completed", e.kind # "completed"
  PROVE  After(s, e).phase # "completed"
<1>1. CASE MayPhase(f, s, e)
  <2>1. e # Completed
    BY DEF Completed, Signal
  <2>2. e = Created \/ e = Failed \/ e = Closed
    BY <1>1, <2>1 DEF MayPhase
  <2> QED  BY <1>1, <2>2, PhaseEvents DEF Phased
<1>2. ASSUME NEW b \in 1..MaxBlocks, NEW x \in Subjects, MayBlock(f, s, e, b, x)
      PROVE  After(s, e).phase # "completed"
  <2>1. "index" \in DOMAIN e
    BY <1>2, BlockEvents
  <2> QED  BY <2>1 DEF After, Put
<1> QED  BY <1>1, <1>2 DEF May

LEMMA ResponseReadArrives ==
  ASSUME ResponsesInv, ResponseContents, format = "responses", Read, UNCHANGED Responses!rendererVars
  PROVE  ResponseContents'
<1>1. PICK w : Plays(format, Now, out, w)
  BY DEF ResponsesInv
<1>2. out # <<>> /\ out' = Tail(out) /\ UNCHANGED <<kind, call, sent, upstream, format>>
  BY DEF Read, upstreamVars
<1>3. UNCHANGED <<toolCallOutputIndices, toolCallsWithArgumentDeltas, hostedToolCallIds, output, completedOutput>>
  BY DEF Responses!rendererVars, Responses!callVars, Responses!itemVars
<1>4. CallsKept'
  BY <1>2, <1>3 DEF ResponseContents, CallsKept, OpenWith
<1>5. OutputKnown'
  <2>1. CASE upstream = "streaming" \/ output = Responses!Items(completedOutput)
    BY <1>2, <1>3, <2>1 DEF OutputKnown
  <2>2. CASE NeverCompleted
    <3>1. Now \in States /\ May(format, Now, Head(out)) /\ out \in Seq(Events)
      BY <1>1, <1>2, PlaysHead DEF Plays
    <3>2. Now' = After(Now, Head(out))
      BY <3>1, ReadSteps
    <3>3. Head(out).kind # "completed" /\ Now.phase # "completed"
      BY <1>2, <2>2, <3>1 DEF NeverCompleted, Now
    <3>4. Now'.phase # "completed"
      BY <3>1, <3>2, <3>3, NotCompletedAfter
    <3>5. \A i \in DOMAIN Tail(out) : Tail(out)[i] = out[i + 1] /\ i + 1 \in DOMAIN out
      BY <1>2, <3>1
    <3>6. \A i \in DOMAIN out' : out'[i].kind # "completed"
      BY <1>2, <2>2, <3>5 DEF NeverCompleted
    <3> QED  BY <3>4, <3>6 DEF OutputKnown, NeverCompleted, Now
  <2> QED  BY <2>1, <2>2 DEF ResponseContents, OutputKnown
<1>6. ASSUME NEW t, Plays("responses", Now', out', t) PROVE ResponseContent(t)'
  <2>1. t = w
    BY <1>1, <1>2, <1>6, ReadLeads
  <2>2. ResponseContent(t)
    BY <1>1, <2>1 DEF ResponseContents
  <2> QED  BY <1>2, <1>3, <2>2 DEF ResponseContent, ItemOf, ItemDone, OpenWith
<1> QED  BY <1>4, <1>5, <1>6 DEF ResponseContents

LEMMA ResponseContentSteps ==
  ASSUME ResponsesInv, PartInv, ResponseContents, format = "responses", Responses!Next
  PROVE  ResponseContents'
<1>1. CASE Responses!Step
  BY <1>1, TextDeltaArrives, ReasoningArrives, InputStartArrives, InputDeltaArrives, HostedCallArrives,
     ToolCallArrives, ToolResultArrives, FinishArrives, ErrorArrives, EndArrives DEF Responses!Step
<1>2. CASE Responses!Read /\ UNCHANGED Responses!rendererVars
  BY <1>2, ReadsTheSame, ResponseReadArrives
<1> QED  BY <1>1, <1>2 DEF Responses!Next

LEMMA ResponseContentInitially ==
  ASSUME StreamInit, Responses!RendererInit
  PROVE  ResponseContents
<1>1. /\ \A c \in Calls : call[c].at = "none" /\ call[c].pieces = 0
      /\ out = <<>> /\ upstream = "streaming" /\ sent = [text |-> 0, reasoning |-> 0]
  BY DEF StreamInit
<1>2. toolCallsWithArgumentDeltas = {} /\ hostedToolCallIds = {}
  BY DEF Responses!RendererInit
<1>3. CallsKept /\ OutputKnown
  BY <1>1, <1>2 DEF CallsKept, OpenWith, OutputKnown
<1>4. ASSUME NEW t, Plays("responses", Now, out, t) PROVE ResponseContent(t)
  <2>1. t = Now /\ Now \in States /\ \A x : OfIn(Now, x) = {}
    BY <1>1, <1>4, AllRead, NoneYet
  <2>2. \A c \in Calls : ItemOf(t, c, call[c], toolCallOutputIndices[c])
    BY <1>1, <2>1 DEF ItemOf
  <2>3. \A x : PiecesIn(t, x) = 0
    <3>1. IsFiniteSet({}) /\ \A x \in {} : Weights(t)[x] \in Nat
      BY FS_EmptySet
    <3>2. Total(Weights(t), {}) = 0
      BY <3>1, TotalNat
    <3> QED  BY <2>1, <3>2 DEF PiecesIn
  <2> QED  BY <1>1, <2>2, <2>3 DEF ResponseContent
<1> QED  BY <1>3, <1>4 DEF ResponseContents

(* What the client has of a response is what it is told.                   *)
LEMMA FinishedItems ==
  ASSUME ResponsesInv, ResponseContents, phase = "completed", NEW t, Plays("responses", Now, out, t),
         ResponseKnown(t), ResponsePhase(t)
  PROVE  /\ t.blocks = blocks
         /\ output = Responses!Items([b \in 1..MaxBlocks |->
                       IF blocks[b].status = "closed" THEN blocks[b].of ELSE "none"])
<1>1. Grows(Now, t)
  BY RunGrows
<1>2. t.blocks = blocks /\ t.phase \notin {"before", "open"}
  BY <1>1 DEF Grows, Now
<1>3. output = Responses!Items(completedOutput)
  <2>1. upstream # "streaming"
    BY <1>2 DEF ResponsePhase
  <2> QED  BY <2>1 DEF ResponseContents, OutputKnown, NeverCompleted
<1>4. \A b \in 1..MaxBlocks :
        completedOutput[b] = IF blocks[b].status = "closed" THEN blocks[b].of ELSE "none"
  BY <1>2 DEF ResponseKnown, ItemsKnown
<1> DEFINE o == [b \in 1..MaxBlocks |-> IF blocks[b].status = "closed" THEN blocks[b].of ELSE "none"]
<1>5. [b \in 1..MaxBlocks |-> completedOutput[b]] = [b \in 1..MaxBlocks |-> o[b]]
  BY <1>4
<1>6. Responses!Items(completedOutput) = Responses!Items(o)
  <2> HIDE DEF o
  <2> QED  BY <1>5 DEF Responses!Items, Responses!MaxBlocks, MaxBlocks
<1> QED  BY <1>2, <1>3, <1>6

LEMMA ResponseIsComplete ==
  ASSUME ResponsesInv, PartInv, ResponseContents
  PROVE  Responses!ContentArrives
<1>1. PICK t : Plays("responses", Now, out, t) /\ ResponseKnown(t) /\ ResponsePhase(t)
  BY DEF ResponsesInv
<1>2. ResponseContent(t) /\ Grows(Now, t)
  BY <1>1, RunGrows DEF ResponseContents
<1>3. \A c : Responses!BlocksOf(c) = OfIn(Now, c) /\ OfIn(Now, c) \subseteq OfIn(t, c)
  BY <1>2, BlocksSeen DEF Grows, OfIn
<1>4. ASSUME out = <<>>, NEW x \in {"text", "reasoning"} PROVE Responses!PiecesSeen(x) = sent[x]
  <2>1. t = Now /\ Now \in States
    BY <1>1, <1>4, AllRead
  <2>2. PiecesIn(Now, x) = sent[x]
    BY <1>2, <2>1 DEF ResponseContent
  <2> QED  BY <2>1, <2>2, PiecesAreSeen
<1>5. ASSUME NEW c \in Calls, Responses!ClosedBlocks(c) # {}, kind[c] \notin {"hosted", "search"}
      PROVE  Responses!InputArrived(c)
  <2>1. PICK b \in OfIn(Now, c) : blocks[b].status = "closed"
    BY <1>3, <1>5 DEF Responses!ClosedBlocks
  <2>2. b \in OfIn(t, c) /\ t.blocks[b] = blocks[b]
    BY <1>2, <1>3, <2>1 DEF Grows, Now, OfIn
  <2>3. ItemOf(t, c, call[c], toolCallOutputIndices[c]) /\ call[c].at \in {"none", "started", "called", "answered"}
    BY <1>2, CallsAre DEF ResponseContent
  <2>4. ItemDone(t, c, call[c]) /\ Complete(c)
    BY <1>5, <2>1, <2>2, <2>3 DEF ItemOf, Has, Complete
  <2>5. /\ OfIn(t, c) = {b}
        /\ \/ t.blocks[b].pieces = call[c].pieces /\ t.blocks[b].whole = 0 /\ call[c].pieces > 0
           \/ t.blocks[b].pieces = 0 /\ t.blocks[b].whole = 1
    BY <1>5, <2>2, <2>4 DEF ItemDone, Has
  <2> QED  BY <1>3, <2>2, <2>4, <2>5 DEF Responses!InputArrived, Responses!Complete, Complete
<1>6. ASSUME phase = "completed", NEW c \in Calls, call[c].at = (IF kind[c] = "hosted" THEN "answered" ELSE "called")
      PROVE  Responses!CallArrived(c) /\ Responses!ClosedBlocks(c) # {}
  <2>1. t.blocks = blocks
    BY <1>1, <1>6, FinishedItems
  <2>2. ItemDone(t, c, call[c])
    BY <1>2, <1>6 DEF ResponseContent, ItemOf
  <2>3. PICK b : OfIn(t, c) = {b} /\ t.blocks[b].status = "closed"
    BY <2>2 DEF ItemDone, Has
  <2>4. Responses!BlocksOf(c) = {b} /\ blocks[b].status = "closed" /\ b \in 1..MaxBlocks
    BY <1>3, <2>1, <2>3 DEF OfIn, Now
  <2> QED  BY <2>4 DEF Responses!CallArrived, Responses!ClosedBlocks, Responses!MaxBlocks, MaxBlocks
<1>7. phase = "completed" =>
        output = Responses!Items([b \in 1..MaxBlocks |->
                   IF blocks[b].status = "closed" THEN blocks[b].of ELSE "none"])
  BY <1>1, FinishedItems
<1>8. Responses!MaxBlocks = MaxBlocks
  BY DEF Responses!MaxBlocks, MaxBlocks
<1> QED  BY <1>4, <1>5, <1>6, <1>7, <1>8 DEF Responses!ContentArrives

-----------------------------------------------------------------------------
(* The content of a message (AnthropicRenderer).  The blocks of the calls  *)
(* that have waited.                                                       *)

LEMMA PiecesMake ==
  ASSUME NEW f, NEW s, NEW u, NEW b, NEW x, NEW k \in Nat, Has(s, x, b, "open", 0, 0),
         Plays(f, s, Pieces(k, b, x), u)
  PROVE  s \in States /\ u \in States /\ Others(s, u, x) /\ Has(u, x, b, "open", k, 0)
<1> DEFINE Filled(v, i) == s \in States /\ v \in States /\ Others(s, v, x) /\ Has(v, x, b, "open", i, 0)
           S == {i \in 0..k : \A v : Plays(f, s, Pieces(i, b, x), v) => Filled(v, i)}
<1>1. 0 \in S
  <2>1. Pieces(0, b, x) = <<>> /\ 0 \in 0..k
    BY Repeated DEF Pieces
  <2>2. ASSUME NEW v, Plays(f, s, <<>>, v) PROVE Filled(v, 0)
    BY <2>2, PlaysNothing, SameTwice
  <2> HIDE DEF Filled
  <2> QED  BY <2>1, <2>2
<1>2. ASSUME NEW i \in 0..k, i \in S, i < k PROVE i + 1 \in S
  <2>1. Pieces(i + 1, b, x) = Pieces(i, b, x) \o <<Piece(b, x)>> /\ i \in Nat /\ i + 1 \in 0..k
    BY <1>2, LastRepeated DEF Pieces
  <2>2. IsList(Pieces(i, b, x)) /\ IsList(<<Piece(b, x)>>)
    BY <2>1, ListsAre, RepeatedIsList DEF Pieces
  <2>3. ASSUME NEW v, Plays(f, s, Pieces(i + 1, b, x), v) PROVE Filled(v, i + 1)
    <3>1. PICK w : Plays(f, s, Pieces(i, b, x), w) /\ Plays(f, w, <<Piece(b, x)>>, v)
      BY <2>1, <2>2, <2>3, RunSplit
    <3>2. Filled(w, i)
      BY <1>2, <3>1
    <3>3. Others(w, v, x) /\ v \in States /\ Has(v, x, b, "open", i + 1, 0)
      BY <3>1, <3>2, PieceMakes
    <3> QED  BY <3>2, <3>3, SameTwice
  <2> HIDE DEF Filled
  <2> QED  BY <2>1, <2>3
<1>3. 0..k \subseteq S
  <2> HIDE DEF S
  <2> QED  BY <1>1, <1>2, BoundedInduction
<1>4. Filled(u, k)
  <2>1. k \in S
    BY <1>3
  <2> HIDE DEF Filled
  <2> QED  BY <2>1
<1> QED  BY <1>4

LEMMA WholesMake ==
  ASSUME NEW f, NEW s, NEW u, NEW b, NEW x, NEW n, NEW k \in Nat, Has(s, x, b, "open", n, 0),
         Plays(f, s, Wholes(k, b, x), u)
  PROVE  s \in States /\ u \in States /\ Others(s, u, x) /\ Has(u, x, b, "open", n, k)
<1> DEFINE Filled(v, i) == s \in States /\ v \in States /\ Others(s, v, x) /\ Has(v, x, b, "open", n, i)
           S == {i \in 0..k : \A v : Plays(f, s, Wholes(i, b, x), v) => Filled(v, i)}
<1>1. 0 \in S
  <2>1. Wholes(0, b, x) = <<>> /\ 0 \in 0..k
    BY Repeated DEF Wholes
  <2>2. ASSUME NEW v, Plays(f, s, <<>>, v) PROVE Filled(v, 0)
    BY <2>2, PlaysNothing, SameTwice
  <2> HIDE DEF Filled
  <2> QED  BY <2>1, <2>2
<1>2. ASSUME NEW i \in 0..k, i \in S, i < k PROVE i + 1 \in S
  <2>1. Wholes(i + 1, b, x) = Wholes(i, b, x) \o <<Whole(b, x)>> /\ i \in Nat /\ i + 1 \in 0..k
    BY <1>2, LastRepeated DEF Wholes
  <2>2. IsList(Wholes(i, b, x)) /\ IsList(<<Whole(b, x)>>)
    BY <2>1, ListsAre, RepeatedIsList DEF Wholes
  <2>3. ASSUME NEW v, Plays(f, s, Wholes(i + 1, b, x), v) PROVE Filled(v, i + 1)
    <3>1. PICK w : Plays(f, s, Wholes(i, b, x), w) /\ Plays(f, w, <<Whole(b, x)>>, v)
      BY <2>1, <2>2, <2>3, RunSplit
    <3>2. Filled(w, i)
      BY <1>2, <3>1
    <3>3. Others(w, v, x) /\ v \in States /\ Has(v, x, b, "open", n, i + 1)
      BY <3>1, <3>2, WholeMakes
    <3> QED  BY <3>2, <3>3, SameTwice
  <2> HIDE DEF Filled
  <2> QED  BY <2>1, <2>3
<1>3. 0..k \subseteq S
  <2> HIDE DEF S
  <2> QED  BY <1>1, <1>2, BoundedInduction
<1>4. Filled(u, k)
  <2>1. k \in S
    BY <1>3
  <2> HIDE DEF Filled
  <2> QED  BY <2>1
<1> QED  BY <1>4

LEMMA CallBlockMakes ==
  ASSUME NEW f, NEW s, NEW u, NEW b, NEW p \in Pendings, OfIn(s, p.id) = {},
         Plays(f, s, Anthropic!CallBlock(p, b), u)
  PROVE  s \in States /\ u \in States /\ Others(s, u, p.id) /\ Has(u, p.id, b, "closed", p.deltas, p.whole)
<1> DEFINE x == p.id
           k == p.deltas
           m == p.whole
           e1 == <<Added(b, x)>>
           e2 == Pieces(k, b, x)
           e3 == Wholes(m, b, x)
           e4 == <<Done(b, x)>>
<1>1. k \in Nat /\ m \in Nat
  BY DEF Pendings
<1>2. Anthropic!CallBlock(p, b) = e1 \o e2 \o e3 \o e4
  BY DEF Anthropic!CallBlock, Anthropic!Added, Anthropic!Piece, Anthropic!Whole, Anthropic!Done,
         Added, Piece, Whole, Done, Pieces, Wholes
<1>3. IsList(e1) /\ IsList(e2) /\ IsList(e3) /\ IsList(e4)
  BY <1>1, ListsAre, RepeatedIsList DEF Pieces, Wholes
<1> HIDE DEF x, k, m
<1>4. PICK v, w, y : /\ Plays(f, s, e1, v) /\ Plays(f, v, e2, w)
                     /\ Plays(f, w, e3, y) /\ Plays(f, y, e4, u)
  <2> HIDE DEF e1, e2, e3, e4
  <2>1. IsList(e1 \o e2) /\ IsList(e1 \o e2 \o e3)
    BY <1>3, ListsJoined
  <2>2. PICK y : Plays(f, s, e1 \o e2 \o e3, y) /\ Plays(f, y, e4, u)
    BY <1>2, <1>3, <2>1, RunSplit
  <2>3. PICK w : Plays(f, s, e1 \o e2, w) /\ Plays(f, w, e3, y)
    BY <1>3, <2>1, <2>2, RunSplit
  <2> QED  BY <1>3, <2>2, <2>3, RunSplit
<1>5. OfIn(s, x) = {}
  BY DEF x
<1>6. s \in States /\ v \in States /\ Others(s, v, x) /\ Has(v, x, b, "open", 0, 0)
  BY <1>4, <1>5, AddedMakes
<1>7. Others(v, w, x) /\ Has(w, x, b, "open", k, 0)
  BY <1>1, <1>4, <1>6, PiecesMake
<1>8. Others(w, y, x) /\ Has(y, x, b, "open", k, m)
  BY <1>1, <1>4, <1>7, WholesMake
<1>9. u \in States /\ Others(y, u, x) /\ Has(u, x, b, "closed", k, m)
  BY <1>4, <1>8, DoneMakes
<1>10. Others(s, u, x)
  BY <1>6, <1>7, <1>8, <1>9, SameTwice
<1> QED  BY <1>6, <1>9, <1>10 DEF x, k, m

LEMMA EmittedNext ==
  ASSUME NEW s, NEW w, NEW u, NEW list \in Seq(Pendings), Distinct(list), NEW k \in Nat, k < Len(list),
         \A i \in DOMAIN list : OfIn(s, list[i].id) = {}, Emitted(s, w, list, k),
         NEW f, Plays(f, w, Anthropic!CallBlock(list[k + 1], currentBlockIndex + (k + 1)), u)
  PROVE  Emitted(s, u, list, k + 1)
<1> DEFINE p == list[k + 1]
           b == currentBlockIndex + (k + 1)
<1>1. k + 1 \in DOMAIN list /\ p \in Pendings
  OBVIOUS
<1>2. \A i \in 1..k : i \in DOMAIN list /\ list[i].id # p.id
  BY <1>1 DEF Distinct
<1>3. Same(s, w, p.id) /\ OfIn(s, p.id) = {}
  BY <1>1, <1>2 DEF Emitted
<1>4. OfIn(w, p.id) = {}
  BY <1>3 DEF Same
<1> HIDE DEF b
<1>5. Plays(f, w, Anthropic!CallBlock(p, b), u)
  BY DEF b
<1> HIDE DEF p
<1>6. w \in States /\ u \in States /\ Others(w, u, p.id) /\ Has(u, p.id, b, "closed", p.deltas, p.whole)
  BY <1>1, <1>4, <1>5, CallBlockMakes
<1>7. ASSUME NEW i \in 1..(k + 1)
      PROVE  Has(u, list[i].id, currentBlockIndex + i, "closed", list[i].deltas, list[i].whole)
  <2>1. CASE i = k + 1
    BY <1>6, <2>1 DEF p, b
  <2>2. CASE i # k + 1
    <3>1. i \in 1..k
      BY <2>2
    <3>2. Same(w, u, list[i].id)
      BY <1>2, <1>6, <3>1 DEF Others
    <3>3. Has(w, list[i].id, currentBlockIndex + i, "closed", list[i].deltas, list[i].whole)
      BY <3>1 DEF Emitted
    <3> QED  BY <1>6, <3>2, <3>3, SameIs
  <2> QED  BY <2>1, <2>2
<1>8. ASSUME NEW x, \A i \in 1..(k + 1) : x # list[i].id PROVE Same(s, u, x)
  <2>1. k + 1 \in 1..(k + 1) /\ \A i \in 1..k : i \in 1..(k + 1)
    OBVIOUS
  <2>2. Same(s, w, x)
    BY <1>8, <2>1 DEF Emitted
  <2>3. Same(w, u, x)
    BY <1>6, <1>8, <2>1 DEF Others, p
  <2> QED  BY <2>2, <2>3, SameTwice
<1> QED  BY <1>6, <1>7, <1>8 DEF Emitted

LEMMA BlocksMake ==
  ASSUME NEW s, NEW u, currentBlockIndex \in Nat,
         NEW list \in Seq(Pendings), Distinct(list), NEW n \in 0..Len(list), currentBlockIndex + n <= MaxBlocks,
         \A i \in DOMAIN list : OfIn(s, list[i].id) = {},
         NEW f, Plays(f, s, Anthropic!Blocks(list, n), u)
  PROVE  Emitted(s, u, list, n)
<1> DEFINE cur == currentBlockIndex
           p == [i \in 1..n |-> Anthropic!CallBlock(list[i], cur + i)]
<1>1. n \in Nat /\ cur \in Nat /\ MaxBlocks \in Nat /\ Len(list) \in Nat
  BY PartsAssumption DEF MaxBlocks
<1>2. \A i \in 1..n : list[i] \in Pendings /\ cur + i \in 1..MaxBlocks
  BY <1>1
<1>3. p \in [1..n -> Seq(Events)]
  BY <1>2, CallBlockEvents
<1>4. Anthropic!Blocks(list, n) = Anthropic!FlattenSeq(p)
  BY DEF Anthropic!Blocks
<1>5. \A i \in 1..n : p[i] = Anthropic!CallBlock(list[i], currentBlockIndex + i) /\ p[i] \in Seq(Events)
  BY <1>3
<1> HIDE DEF p, cur
<1>6. PICK c : Concatenates(c, p, n, Events)
  BY <1>1, <1>3, Concatenation
<1> DEFINE S == {i \in 0..n : \A v : Plays(f, s, c[i], v) => Emitted(s, v, list, i)}
<1>7. 0 \in S
  <2>1. c[0] = <<>> /\ 0 \in 0..n
    BY <1>1, <1>6 DEF Concatenates
  <2>2. ASSUME NEW v, Plays(f, s, <<>>, v) PROVE Emitted(s, v, list, 0)
    <3>1. v = s /\ s \in States
      BY <2>2, PlaysNothing
    <3> QED  BY <3>1, SameTwice DEF Emitted
  <2> QED  BY <2>1, <2>2
<1>8. ASSUME NEW i \in 0..n, i \in S, i < n PROVE i + 1 \in S
  <2>1. i + 1 \in 1..n /\ i + 1 \in 0..n /\ i \in Nat /\ i < Len(list) /\ (i + 1) - 1 = i
    BY <1>1, <1>8
  <2>2. c[i + 1] = c[i] \o p[i + 1] /\ c[i] \in Seq(Events)
    BY <1>6, <1>8, <2>1 DEF Concatenates
  <2>3. ASSUME NEW v, Plays(f, s, c[i + 1], v) PROVE Emitted(s, v, list, i + 1)
    <3>1. p[i + 1] \in Seq(Events) /\ p[i + 1] = Anthropic!CallBlock(list[i + 1], currentBlockIndex + (i + 1))
      BY <1>5, <2>1
    <3>2. PICK w : Plays(f, s, c[i], w) /\ Plays(f, w, p[i + 1], v)
      BY <2>2, <2>3, <3>1, PlaysSplit
    <3>3. Emitted(s, w, list, i)
      BY <1>8, <3>2
    <3> QED  BY <2>1, <3>1, <3>2, <3>3, EmittedNext
  <2> QED  BY <2>1, <2>3
<1>9. 0..n \subseteq S
  <2> HIDE DEF S
  <2> QED  BY <1>1, <1>7, <1>8, BoundedInduction
<1>10. n \in S
  BY <1>1, <1>9
<1>11. Anthropic!FlattenSeq(p) = c[n]
  BY <1>1, <1>3, <1>6, BlocksAreConcatenated
<1> QED  BY <1>4, <1>10, <1>11

LEMMA PendingIs ==
  ASSUME NEW list \in Seq(Pendings)
  PROVE  /\ Len(list) \in Nat /\ DOMAIN list = 1..Len(list)
         /\ \A i \in DOMAIN list : /\ list[i] \in Pendings /\ list[i].id \in Calls /\ list[i].deltas \in Nat
                                   /\ list[i].whole \in Nat /\ list[i].complete \in BOOLEAN
<1>1. Len(list) \in Nat /\ DOMAIN list = 1..Len(list) /\ \A i \in DOMAIN list : list[i] \in Pendings
  OBVIOUS
<1> QED  BY <1>1 DEF Pendings

LEMMA PlacedSame ==
  ASSUME NEW s \in States, NEW u \in States, \A c \in Calls : Same(s, u, c), NEW list, NEW calls,
         CallsPlaced(s, list, calls)
  PROVE  CallsPlaced(u, list, calls)
<1>1. ASSUME NEW c \in Calls PROVE CallPlaced(u, list, c, calls[c]) /\ OfIn(u, c) = OfIn(s, c)
  <2>1. /\ OfIn(u, c) = OfIn(s, c)
        /\ \A b, status, n, m : Has(s, c, b, status, n, m) => Has(u, c, b, status, n, m)
    BY SameIs
  <2>2. CallPlaced(s, list, c, calls[c])
    BY DEF CallsPlaced
  <2>3. CASE calls[c].at = "none" \/ Waits(list, c)
    BY <2>1, <2>2, <2>3 DEF CallPlaced
  <2>4. CASE ~(calls[c].at = "none" \/ Waits(list, c))
    BY <2>1, <2>2, <2>4 DEF CallPlaced
  <2> QED  BY <2>1, <2>3, <2>4
<1>2. ASSUME NEW c \in Calls, NEW d \in Calls, calls[c].place < calls[d].place,
             NEW b \in OfIn(u, c), NEW e \in OfIn(u, d)
      PROVE  b < e
  BY <1>1, <1>2 DEF CallsPlaced
<1> QED  BY <1>1, <1>2 DEF CallsPlaced

LEMMA RequeuedWaits ==
  ASSUME PartInv, QueueKnown(pendingToolCalls, call), NEW c \in Calls, NEW list, Requeued(list, c)
  PROVE  /\ call[c].at = "none" => ~Waits(pendingToolCalls, c)
         /\ \A d : Waits(list, d) <=> Waits(pendingToolCalls, d) \/ (d = c /\ call[c].at = "none")
         /\ Len(pendingToolCalls) \in Nat /\ DOMAIN pendingToolCalls = 1..Len(pendingToolCalls)
         /\ DOMAIN list = 1..Len(list)
<1>1. pendingToolCalls \in Seq(Pendings)
  BY DEF QueueKnown
<1>2. /\ Len(pendingToolCalls) \in Nat /\ DOMAIN pendingToolCalls = 1..Len(pendingToolCalls)
      /\ Len(list) \in Nat /\ DOMAIN list = 1..Len(list)
  BY <1>1, PendingIs DEF Requeued
<1>3. call[c].at = "none" => ~Waits(pendingToolCalls, c)
  BY DEF QueueKnown, Waits, Remembered
<1>4. ASSUME NEW d, Waits(list, d) PROVE Waits(pendingToolCalls, d) \/ (d = c /\ call[c].at = "none")
  <2>1. PICK i \in DOMAIN list : list[i].id = d
    BY <1>4 DEF Waits
  <2>2. CASE i \in DOMAIN pendingToolCalls
    BY <2>1, <2>2 DEF Requeued, Waits
  <2>3. CASE i \notin DOMAIN pendingToolCalls
    <3>1. call[c].at = "none" /\ i = Len(pendingToolCalls) + 1
      BY <1>2, <2>3 DEF Requeued
    <3> QED  BY <2>1, <3>1 DEF Requeued
  <2> QED  BY <2>2, <2>3
<1>5. ASSUME NEW d, Waits(pendingToolCalls, d) PROVE Waits(list, d)
  <2>1. PICK i \in DOMAIN pendingToolCalls : pendingToolCalls[i].id = d
    BY <1>5 DEF Waits
  <2>2. i \in DOMAIN list /\ list[i].id = d
    BY <1>2, <2>1 DEF Requeued
  <2> QED  BY <2>2 DEF Waits
<1>6. ASSUME call[c].at = "none" PROVE Waits(list, c)
  <2>1. Len(pendingToolCalls) + 1 \in DOMAIN list /\ list[Len(pendingToolCalls) + 1].id = c
    BY <1>2, <1>6 DEF Requeued
  <2> QED  BY <2>1 DEF Waits
<1> QED  BY <1>2, <1>3, <1>4, <1>5, <1>6

(* The places, as they were and as they are.                               *)
LEMMA PlacesNext ==
  ASSUME PartInv, NEW c \in Calls, Continues(c)
  PROVE  /\ \A d \in Calls : call[d].place \in Nat /\ call'[d].place \in Nat
         /\ \A d \in Calls : call[d].at # "none" => call'[d].place = call[d].place /\ call'[d].at # "none"
         /\ call[c].at = "none" => \A d \in Calls \ {c} : call[d].place < call'[c].place
<1>1. Cardinality(Placed(call)) \in Nat
  BY PlacedIs
<1>2. \A d \in Calls : call[d].place \in Nat /\ call[d].place <= Cardinality(Placed(call))
  BY CallsAre
<1> QED  BY <1>1, <1>2 DEF Continues

LEMMA QueueNext ==
  ASSUME PartInv, QueueKnown(pendingToolCalls, call), NEW c \in Calls, Continues(c),
         NEW list, Requeued(list, c)
  PROVE  QueueKnown(list, call')
<1> DEFINE old == pendingToolCalls
<1>1. /\ call[c].at = "none" => ~Waits(old, c)
      /\ \A d : Waits(list, d) <=> Waits(old, d) \/ (d = c /\ call[c].at = "none")
      /\ Len(old) \in Nat /\ DOMAIN old = 1..Len(old)
      /\ DOMAIN list = 1..Len(list)
  BY RequeuedWaits
<1>2. /\ \A d \in Calls : call[d].place \in Nat /\ call'[d].place \in Nat
      /\ \A d \in Calls : call[d].at # "none" => call'[d].place = call[d].place /\ call'[d].at # "none"
      /\ call[c].at = "none" => \A d \in Calls \ {c} : call[d].place < call'[c].place
  BY PlacesNext
<1>3. /\ list \in Seq(Pendings) /\ Len(list) = Len(old) + IF call[c].at = "none" THEN 1 ELSE 0
      /\ \A i \in DOMAIN old : list[i].id = old[i].id /\ (old[i].id # c => list[i] = old[i])
      /\ call[c].at = "none" => list[Len(old) + 1].id = c
      /\ \A i \in DOMAIN list : list[i].id = c => Remembered(list[i], call'[c])
  BY DEF Requeued
<1>4. /\ \A i \in DOMAIN old : Remembered(old[i], call[old[i].id])
      /\ \A i, j \in DOMAIN old : i < j => call[old[i].id].place < call[old[j].id].place
      /\ \A d \in Calls : call[d].at # "none" /\ ~Waits(old, d) =>
           \A i \in DOMAIN old : call[d].place < call[old[i].id].place
      /\ \A i \in DOMAIN old : old[i].id \in Calls /\ call[old[i].id].at # "none"
  <2>1. old \in Seq(Pendings) /\ \A i \in DOMAIN old : Remembered(old[i], call[old[i].id])
    BY DEF QueueKnown
  <2>2. \A i \in DOMAIN old : old[i].id \in Calls /\ call[old[i].id].at # "none"
    BY <2>1, PendingIs DEF Remembered
  <2> QED  BY <2>1, <2>2 DEF QueueKnown
<1>5. ASSUME NEW i \in DOMAIN list, i \notin DOMAIN old
      PROVE  call[c].at = "none" /\ i = Len(old) + 1 /\ list[i].id = c
  BY <1>1, <1>3, <1>5
<1>6. ASSUME NEW i \in DOMAIN list PROVE Remembered(list[i], call'[list[i].id])
  <2>1. CASE list[i].id = c
    BY <1>3, <2>1
  <2>2. CASE list[i].id # c
    <3>1. i \in DOMAIN old
      BY <1>5, <2>2
    <3>2. list[i] = old[i] /\ old[i].id # c /\ old[i].id \in Calls
      BY <1>3, <1>4, <2>2, <3>1
    <3>3. call'[old[i].id] = call[old[i].id]
      BY <3>2 DEF Continues
    <3> QED  BY <1>4, <3>1, <3>2, <3>3
  <2> QED  BY <2>1, <2>2
<1>7. ASSUME NEW i \in DOMAIN old
      PROVE  list[i].id = old[i].id /\ old[i].id \in Calls /\ call'[old[i].id].place = call[old[i].id].place
  BY <1>2, <1>3, <1>4
<1>8. ASSUME NEW i \in DOMAIN list, NEW j \in DOMAIN list, i < j
      PROVE  call'[list[i].id].place < call'[list[j].id].place
  <2>1. i \in Nat /\ j \in Nat /\ i \in DOMAIN old
    BY <1>1, <1>3, <1>8
  <2>2. CASE j \in DOMAIN old
    BY <1>4, <1>7, <1>8, <2>1, <2>2
  <2>3. CASE j \notin DOMAIN old
    <3>1. call[c].at = "none" /\ list[j].id = c
      BY <1>5, <2>3
    <3>2. list[i].id = old[i].id /\ old[i].id \in Calls \ {c} /\ call'[old[i].id].place = call[old[i].id].place
      BY <1>4, <1>7, <2>1, <3>1
    <3> QED  BY <1>2, <3>1, <3>2
  <2> QED  BY <2>2, <2>3
<1>9. ASSUME NEW d \in Calls, call'[d].at # "none", ~Waits(list, d), NEW i \in DOMAIN list
      PROVE  call'[d].place < call'[list[i].id].place
  <2>1. ~Waits(old, d) /\ (call[c].at = "none" => d # c) /\ call[d].at # "none"
    BY <1>1, <1>9 DEF Continues
  <2>2. call'[d].place = call[d].place
    BY <1>2, <2>1
  <2>3. CASE i \in DOMAIN old
    BY <1>4, <1>7, <2>1, <2>2, <2>3
  <2>4. CASE i \notin DOMAIN old
    BY <1>2, <1>5, <2>1, <2>2, <2>4
  <2> QED  BY <2>3, <2>4
<1> QED  BY <1>3, <1>6, <1>8, <1>9 DEF QueueKnown

LEMMA PlacedNext ==
  ASSUME PartInv, QueueKnown(pendingToolCalls, call), NEW c \in Calls, Continues(c),
         NEW list, Requeued(list, c), NEW s, CallsPlaced(s, pendingToolCalls, call)
  PROVE  CallsPlaced(s, list, call')
<1>1. /\ call[c].at = "none" => ~Waits(pendingToolCalls, c)
      /\ \A d : Waits(list, d) <=> Waits(pendingToolCalls, d) \/ (d = c /\ call[c].at = "none")
  BY RequeuedWaits
<1>2. \A d \in Calls : call[d].at # "none" => call'[d].place = call[d].place /\ call'[d].at # "none"
  BY PlacesNext
<1>3. ASSUME NEW d \in Calls PROVE CallPlaced(s, list, d, call'[d])
  <2>1. CallPlaced(s, pendingToolCalls, d, call[d])
    BY DEF CallsPlaced
  <2>2. CASE d # c
    <3>1. call'[d] = call[d] /\ (Waits(list, d) <=> Waits(pendingToolCalls, d))
      BY <1>1, <2>2 DEF Continues
    <3> QED  BY <2>1, <3>1 DEF CallPlaced
  <2>3. CASE d = c /\ (call[c].at = "none" \/ Waits(pendingToolCalls, c))
    <3>1. OfIn(s, c) = {} /\ Waits(list, c)
      BY <1>1, <2>1, <2>3 DEF CallPlaced
    <3> QED  BY <2>3, <3>1 DEF CallPlaced
  <2>4. CASE d = c /\ ~(call[c].at = "none" \/ Waits(pendingToolCalls, c))
    <3>1. /\ ~Waits(list, c) /\ call'[c].at # "none"
          /\ call'[c].pieces = call[c].pieces /\ WholeOf(call'[c]) = WholeOf(call[c])
      BY <1>1, <2>4 DEF Continues
    <3> QED  BY <2>1, <2>4, <3>1 DEF CallPlaced
  <2> QED  BY <2>2, <2>3, <2>4
<1>4. ASSUME NEW d \in Calls, call[d].at = "none" PROVE OfIn(s, d) = {}
  BY <1>4 DEF CallsPlaced, CallPlaced
<1>5. ASSUME NEW d \in Calls, NEW e \in Calls, call'[d].place < call'[e].place,
             NEW b \in OfIn(s, d), NEW g \in OfIn(s, e)
      PROVE  b < g
  <2>1. call'[d].place = call[d].place /\ call'[e].place = call[e].place
    BY <1>2, <1>4, <1>5
  <2> QED  BY <1>5, <2>1 DEF CallsPlaced
<1> QED  BY <1>3, <1>5 DEF CallsPlaced

LEMMA RestIs ==
  ASSUME NEW list \in Seq(Pendings), NEW n \in 0..Len(list)
  PROVE  IsRest(SubSeq(list, n + 1, Len(list)), list, n)
<1>1. Len(list) \in Nat /\ n \in Nat /\ n <= Len(list)
  OBVIOUS
<1>2. /\ SubSeq(list, n + 1, Len(list)) \in Seq(Pendings)
      /\ Len(SubSeq(list, n + 1, Len(list))) = Len(list) - n
      /\ \A i \in 1..(Len(list) - n) : SubSeq(list, n + 1, Len(list))[i] = list[i + n] /\ i + n \in 1..Len(list)
  BY <1>1
<1> QED  BY <1>1, <1>2 DEF IsRest

LEMMA RestWaits ==
  ASSUME NEW list \in Seq(Pendings), Distinct(list), NEW n \in 0..Len(list), NEW rest, IsRest(rest, list, n)
  PROVE  \A d : Waits(rest, d) <=> Waits(list, d) /\ \A i \in 1..n : d # list[i].id
<1>1. Len(list) \in Nat /\ DOMAIN list = 1..Len(list) /\ n \in Nat /\ n <= Len(list)
  BY PendingIs
<1>2. ASSUME NEW d, Waits(rest, d) PROVE Waits(list, d) /\ \A i \in 1..n : d # list[i].id
  <2>1. PICK j \in DOMAIN rest : rest[j].id = d
    BY <1>2 DEF Waits
  <2>2. j \in Nat /\ j >= 1 /\ j + n \in DOMAIN list /\ list[j + n].id = d
    BY <2>1, <1>1 DEF IsRest
  <2>3. ASSUME NEW i \in 1..n PROVE d # list[i].id
    <3>1. i \in DOMAIN list /\ i # j + n
      BY <1>1, <2>2
    <3> QED  BY <2>2, <3>1 DEF Distinct
  <2> QED  BY <2>2, <2>3 DEF Waits
<1>3. ASSUME NEW d, Waits(list, d), \A i \in 1..n : d # list[i].id PROVE Waits(rest, d)
  <2>1. PICK j \in DOMAIN list : list[j].id = d
    BY <1>3 DEF Waits
  <2>2. j \in Nat /\ j > n /\ j <= Len(list)
    BY <1>1, <1>3, <2>1
  <2>3. j - n \in DOMAIN rest /\ (j - n) + n = j
    BY <1>1, <2>2 DEF IsRest
  <2>4. rest[j - n] = list[j]
    BY <2>3 DEF IsRest
  <2> QED  BY <2>1, <2>3, <2>4 DEF Waits
<1> QED  BY <1>2, <1>3

LEMMA RestKnown ==
  ASSUME NEW calls, Numbered(calls), NEW list, QueueKnown(list, calls), Distinct(list),
         NEW n \in 0..Len(list), NEW rest, IsRest(rest, list, n)
  PROVE  QueueKnown(rest, calls)
<1>1. list \in Seq(Pendings)
  BY DEF QueueKnown
<1>2. /\ Len(list) \in Nat /\ DOMAIN list = 1..Len(list) /\ n \in Nat /\ n <= Len(list)
      /\ \A d : Waits(rest, d) <=> Waits(list, d) /\ \A i \in 1..n : d # list[i].id
  BY <1>1, PendingIs, RestWaits
<1>3. /\ \A i \in DOMAIN list : Remembered(list[i], calls[list[i].id])
      /\ \A i, j \in DOMAIN list : i < j => calls[list[i].id].place < calls[list[j].id].place
      /\ \A c \in Calls : calls[c].at # "none" /\ ~Waits(list, c) =>
           \A i \in DOMAIN list : calls[c].place < calls[list[i].id].place
  BY DEF QueueKnown
<1>4. /\ rest \in Seq(Pendings) /\ DOMAIN rest \subseteq Nat \ {0}
      /\ \A i \in DOMAIN rest : i + n \in DOMAIN list /\ rest[i] = list[i + n]
  BY <1>2 DEF IsRest
<1>5. \A i \in DOMAIN rest : Remembered(rest[i], calls[rest[i].id])
  BY <1>3, <1>4
<1>6. ASSUME NEW i \in DOMAIN rest, NEW j \in DOMAIN rest, i < j
      PROVE  calls[rest[i].id].place < calls[rest[j].id].place
  <2>1. i + n < j + n
    BY <1>2, <1>4, <1>6
  <2> QED  BY <1>3, <1>4, <2>1
<1>7. ASSUME NEW c \in Calls, calls[c].at # "none", ~Waits(rest, c), NEW i \in DOMAIN rest
      PROVE  calls[c].place < calls[rest[i].id].place
  <2>1. CASE ~Waits(list, c)
    BY <1>3, <1>4, <1>7, <2>1
  <2>2. CASE Waits(list, c)
    <3>1. PICK j \in 1..n : c = list[j].id
      BY <1>2, <1>7, <2>2
    <3>2. j \in DOMAIN list /\ j < i + n
      BY <1>2, <1>4, <3>1
    <3> QED  BY <1>3, <1>4, <3>1, <3>2
  <2> QED  BY <2>1, <2>2
<1> QED  BY <1>4, <1>5, <1>6, <1>7 DEF QueueKnown

LEMMA RestPlaced ==
  ASSUME currentBlockIndex \in Nat, NEW calls, Numbered(calls), NEW list, QueueKnown(list, calls), Distinct(list),
         NEW n \in 0..Len(list), NEW rest, IsRest(rest, list, n),
         NEW s, NEW u, Emitted(s, u, list, n), CallsPlaced(s, list, calls),
         \A c \in Calls : \A b \in OfIn(s, c) : b <= currentBlockIndex
  PROVE  CallsPlaced(u, rest, calls)
<1> DEFINE Sent(c) == \E i \in 1..n : c = list[i].id
<1>1. list \in Seq(Pendings)
  BY DEF QueueKnown
<1>2. /\ Len(list) \in Nat /\ DOMAIN list = 1..Len(list) /\ n \in Nat /\ 1..n \subseteq DOMAIN list
      /\ \A d : Waits(rest, d) <=> Waits(list, d) /\ ~Sent(d)
  BY <1>1, PendingIs, RestWaits
<1>3. /\ s \in States /\ u \in States
      /\ \A i \in 1..n : Has(u, list[i].id, currentBlockIndex + i, "closed", list[i].deltas, list[i].whole)
      /\ \A x : ~Sent(x) => Same(s, u, x)
  BY DEF Emitted
<1>4. ASSUME NEW c \in Calls, ~Sent(c)
      PROVE  CallPlaced(u, rest, c, calls[c]) /\ OfIn(u, c) = OfIn(s, c)
  <2>1. /\ OfIn(u, c) = OfIn(s, c)
        /\ \A b, status, k, m : Has(s, c, b, status, k, m) => Has(u, c, b, status, k, m)
    BY <1>3, <1>4, SameIs
  <2>2. CallPlaced(s, list, c, calls[c]) /\ (Waits(rest, c) <=> Waits(list, c))
    BY <1>2, <1>4 DEF CallsPlaced
  <2>3. CASE calls[c].at = "none" \/ Waits(list, c)
    BY <2>1, <2>2, <2>3 DEF CallPlaced
  <2>4. CASE ~(calls[c].at = "none" \/ Waits(list, c))
    BY <2>1, <2>2, <2>4 DEF CallPlaced
  <2> QED  BY <2>1, <2>3, <2>4
<1>5. ASSUME NEW i \in 1..n, NEW c \in Calls, c = list[i].id
      PROVE  CallPlaced(u, rest, c, calls[c]) /\ OfIn(u, c) = {currentBlockIndex + i} /\ calls[c].at # "none"
  <2>1. Remembered(list[i], calls[c]) /\ calls[c].pieces \in Nat
    BY <1>2, <1>5 DEF QueueKnown, Numbered
  <2>2. Has(u, c, currentBlockIndex + i, "closed", list[i].deltas, list[i].whole)
    BY <1>3, <1>5
  <2>3. calls[c].at # "none" /\ ~Waits(rest, c)
    BY <1>2, <1>5, <2>1 DEF Remembered
  <2>4. list[i].deltas = calls[c].pieces /\ list[i].whole = WholeOf(calls[c])
    BY <2>1 DEF Remembered, WholeOf
  <2>5. CallPlaced(u, rest, c, calls[c])
    BY <2>2, <2>3, <2>4 DEF CallPlaced
  <2> QED  BY <2>2, <2>3, <2>5 DEF Has
<1>6. ASSUME NEW c \in Calls PROVE CallPlaced(u, rest, c, calls[c])
  <2>1. CASE Sent(c)
    BY <1>5, <2>1
  <2>2. CASE ~Sent(c)
    BY <1>4, <2>2
  <2> QED  BY <2>1, <2>2
<1>7. ASSUME NEW c \in Calls, NEW d \in Calls, calls[c].place < calls[d].place,
             NEW b \in OfIn(u, c), NEW e \in OfIn(u, d)
      PROVE  b < e
  <2>1. \A x \in Calls : calls[x].place \in Nat
    BY DEF Numbered
  <2>2. CASE ~Sent(c) /\ ~Sent(d)
    BY <1>4, <1>7, <2>2 DEF CallsPlaced
  <2>3. CASE ~Sent(c) /\ Sent(d)
    <3>1. PICK j \in 1..n : d = list[j].id
      BY <2>3
    <3>2. b \in OfIn(s, c) /\ b \in 1..MaxBlocks
      BY <1>4, <1>7, <2>3 DEF OfIn
    <3>3. b <= currentBlockIndex /\ e = currentBlockIndex + j
      BY <1>5, <1>7, <3>1, <3>2
    <3> QED  BY <1>2, <3>2, <3>3, PartsAssumption DEF MaxBlocks
  <2>4. CASE Sent(c) /\ ~Sent(d)
    <3>1. PICK i \in 1..n : c = list[i].id
      BY <2>4
    <3>2. OfIn(s, d) # {} /\ CallPlaced(s, list, d, calls[d])
      BY <1>4, <1>7, <2>4 DEF CallsPlaced
    <3>3. calls[d].at # "none" /\ ~Waits(list, d)
      BY <3>2 DEF CallPlaced
    <3>4. calls[d].place < calls[c].place
      BY <1>2, <3>1, <3>3 DEF QueueKnown
    <3> QED  BY <1>7, <2>1, <3>4
  <2>5. CASE Sent(c) /\ Sent(d)
    <3>1. PICK i \in 1..n : c = list[i].id
      BY <2>5
    <3>2. PICK j \in 1..n : d = list[j].id
      BY <2>5
    <3>3. b = currentBlockIndex + i /\ e = currentBlockIndex + j
      BY <1>5, <1>7, <3>1, <3>2
    <3>4. ~(j < i) /\ i # j
      <4>1. i \in DOMAIN list /\ j \in DOMAIN list
        BY <1>2
      <4>2. j < i => calls[d].place < calls[c].place
        BY <3>1, <3>2, <4>1 DEF QueueKnown
      <4> QED  BY <1>7, <2>1, <3>1, <3>2, <4>2
    <3> QED  BY <1>2, <3>3, <3>4
  <2> QED  BY <2>2, <2>3, <2>4, <2>5
<1> QED  BY <1>6, <1>7 DEF CallsPlaced

LEMMA MessageSame ==
  ASSUME NEW s \in States, NEW u \in States, \A x : Same(s, u, x), MessageContent(s)
  PROVE  MessageContent(u)
<1>1. CallsPlaced(u, pendingToolCalls, call)
  BY PlacedSame DEF MessageContent
<1>2. PiecesIn(u, "text") = PiecesIn(s, "text")
  BY SameIs
<1> QED  BY <1>1, <1>2 DEF MessageContent

(* What a part leaves.                                                     *)
LEMMA MessageArrives ==
  ASSUME MessageInv, MessageContents, out = <<>>, UNCHANGED <<blocks, phase>>,
         NEW events, IsList(events), Anthropic!Emit(events),
         QueueKnown(pendingToolCalls, call)', WaitingKnown',
         \A s, u :
           s \in States /\ s.blocks = blocks /\ MessageContent(s) /\ Plays("anthropic", s, events, u) =>
             MessageContent(u)'
  PROVE  MessageContents'
<1>1. out' = IF messageStarted THEN events ELSE <<Created>> \o events
  BY DEF Anthropic!Emit, Anthropic!Created, Created, Anthropic!Signal, Signal
<1>2. PICK w : Plays("anthropic", Now, out, w)
  BY DEF MessageInv
<1>3. Now \in States /\ MessageContent(Now)
  BY <1>2, AllRead DEF MessageContents
<1>4. ASSUME NEW t, Plays("anthropic", Now', out', t) PROVE MessageContent(t)'
  <2>1. PICK s : /\ s \in States /\ s.blocks = blocks /\ Plays("anthropic", s, events, t)
                 /\ \A x : Same(Now, s, x)
    BY <1>1, <1>4, EmittedFrom
  <2>2. MessageContent(s)
    BY <1>3, <2>1, MessageSame
  <2> QED  BY <2>1, <2>2
<1> QED  BY <1>4 DEF MessageContents

LEMMA MessageIsSilent ==
  ASSUME MessageInv, MessageContents, out = <<>>, out' = <<>>, UNCHANGED <<blocks, phase>>,
         QueueKnown(pendingToolCalls, call)', WaitingKnown',
         \A s : MessageContent(s) => MessageContent(s)'
  PROVE  MessageContents'
<1>1. ASSUME NEW t, Plays("anthropic", Now', out', t) PROVE MessageContent(t)'
  <2>1. Now' = Now /\ out' = out
    BY DEF Now
  <2>2. Plays("anthropic", Now, out, t)
    BY <1>1, <2>1
  <2> QED  BY <2>2 DEF MessageContents
<1> QED  BY <1>1 DEF MessageContents

(* Text.                                                                   *)
LEMMA TextIsBrought ==
  ASSUME NEW s, NEW u, MessageContent(s), NEW k \in Nat, Brings(s, u, "text", k),
         UNCHANGED <<call, pendingToolCalls>>, sent'.text = sent.text + k
  PROVE  MessageContent(u)'
<1>1. CallsPlaced(u, pendingToolCalls, call)
  BY PlacedSame DEF MessageContent, Brings
<1>2. PiecesIn(u, "text") = PiecesIn(s, "text") + k
  BY DEF Brings
<1> QED  BY <1>1, <1>2 DEF MessageContent

LEMMA MessageTextArrives ==
  ASSUME MessageInv, PartInv, MessageContents, Anthropic!TextDelta
  PROVE  MessageContents'
<1>1. SendText /\ UNCHANGED pendingToolCalls
  BY AnthropicParts DEF Anthropic!TextDelta
<1>2. /\ out = <<>> /\ UNCHANGED <<blocks, phase, upstream, call>>
      /\ sent' = [sent EXCEPT !.text = @ + 1]
  BY <1>1 DEF SendText, Part, Asked
<1>3. sent'.text = sent.text + 1
  BY <1>2 DEF PartInv
<1>4. QueueKnown(pendingToolCalls, call)' /\ WaitingKnown'
  BY <1>1, <1>2 DEF MessageContents, QueueKnown, WaitingKnown
<1>5. PICK b, events : /\ Anthropic!Emit(events)
                       /\ events = <<Piece(b, "text")>> \/ events = <<Added(b, "text"), Piece(b, "text")>>
  BY DEF Anthropic!TextDelta, Anthropic!Piece, Anthropic!Added, Piece, Added
<1>6. /\ IsList(<<Piece(b, "text")>>) /\ IsList(<<Added(b, "text")>>)
      /\ <<Added(b, "text"), Piece(b, "text")>> = <<Added(b, "text")>> \o <<Piece(b, "text")>>
  BY ListsAre, Joined
<1>7. IsList(events)
  BY <1>5, <1>6, ListsJoined
<1>8. ASSUME NEW s, NEW u, MessageContent(s), Plays("anthropic", s, events, u) PROVE MessageContent(u)'
  <2>1. CASE events = <<Piece(b, "text")>>
    <3>1. Brings(s, u, "text", 1)
      BY <1>8, <2>1, PieceBrings
    <3> QED  BY <1>1, <1>2, <1>3, <1>8, <3>1, TextIsBrought
  <2>2. CASE events = <<Added(b, "text"), Piece(b, "text")>>
    <3>1. PICK w : Plays("anthropic", s, <<Added(b, "text")>>, w) /\ Plays("anthropic", w, <<Piece(b, "text")>>, u)
      BY <1>6, <1>8, <2>2, RunSplit
    <3>2. Brings(s, w, "text", 0) /\ Brings(w, u, "text", 1)
      BY <3>1, AddedBrings, PieceBrings
    <3>3. Brings(s, u, "text", 1)
      BY <3>2, BringsTwice
    <3> QED  BY <1>1, <1>2, <1>3, <1>8, <3>3, TextIsBrought
  <2> QED  BY <1>5, <2>1, <2>2
<1>9. /\ out = <<>> /\ UNCHANGED <<blocks, phase>> /\ Anthropic!Emit(events)
      /\ QueueKnown(pendingToolCalls, call)' /\ WaitingKnown'
      /\ \A s, u :
           s \in States /\ s.blocks = blocks /\ MessageContent(s) /\ Plays("anthropic", s, events, u) =>
             MessageContent(u)'
  BY <1>2, <1>4, <1>5, <1>8
<1> QED  BY <1>7, <1>9, MessageArrives

(* emitBlockStop.                                                          *)
LEMMA BlockStopBrings ==
  ASSUME NEW f, NEW s, NEW u, Plays(f, s, Anthropic!BlockStop, u), NEW y
  PROVE  Brings(s, u, y, 0)
<1> DEFINE started == currentBlockType # "none"
<1>1. Anthropic!BlockStop = Ending(started, currentBlockIndex, "text")
  BY DEF Anthropic!BlockStop, Anthropic!Done, Done, Ending
<1> QED  BY <1>1, EndingBrings

LEMMA BlockStopIsList == IsList(Anthropic!BlockStop)
<1> DEFINE started == currentBlockType # "none"
<1>1. Anthropic!BlockStop = Ending(started, currentBlockIndex, "text")
  BY DEF Anthropic!BlockStop, Anthropic!Done, Done, Ending
<1> QED  BY <1>1, EndingIsList

LEMMA QueuedHas ==
  ASSUME PartInv, MessageContents, upstream = "streaming", NEW c \in Calls, call[c].at \in {"none", "started"},
         NEW q, q = Anthropic!Queued(c)
  PROVE  IsQueued(q, c)
<1> DEFINE p == [id |-> c, deltas |-> 0, whole |-> 0, complete |-> FALSE]
<1>1. p \in Pendings
  BY DEF Pendings
<1>2. /\ pendingToolCalls \in Seq(Pendings)
      /\ \A i \in DOMAIN pendingToolCalls : Remembered(pendingToolCalls[i], call[pendingToolCalls[i].id])
      /\ call[c].at = "started" => Waits(pendingToolCalls, c)
  BY DEF MessageContents, QueueKnown, WaitingKnown
<1>3. /\ Len(pendingToolCalls) \in Nat /\ DOMAIN pendingToolCalls = 1..Len(pendingToolCalls)
      /\ \A i \in DOMAIN pendingToolCalls : pendingToolCalls[i].complete \in BOOLEAN
      /\ call[c].at = "none" => call[c].pieces = 0
  BY <1>2, PendingIs, CallsAre
<1>4. CASE call[c].at = "started"
  <2>1. q = pendingToolCalls
    BY <1>2, <1>4 DEF Anthropic!Queued, Waits
  <2>2. ASSUME NEW i \in DOMAIN q, q[i].id = c
        PROVE  q[i].deltas = call[c].pieces /\ q[i].whole = 0 /\ q[i].complete = FALSE
    BY <1>2, <1>3, <1>4, <2>1, <2>2 DEF Remembered
  <2>3. /\ q \in Seq(Pendings) /\ Len(q) = Len(pendingToolCalls) + 0
        /\ \A i \in DOMAIN pendingToolCalls : i \in DOMAIN q /\ q[i] = pendingToolCalls[i]
    BY <1>2, <1>3, <2>1
  <2> QED  BY <1>4, <2>2, <2>3 DEF IsQueued
<1>5. CASE call[c].at = "none"
  <2>1. \A i \in DOMAIN pendingToolCalls : pendingToolCalls[i].id # c
    BY <1>2, <1>5 DEF Remembered
  <2>2. q = Append(pendingToolCalls, p)
    BY <2>1 DEF Anthropic!Queued
  <2> HIDE DEF p
  <2>3. /\ q \in Seq(Pendings) /\ Len(q) = Len(pendingToolCalls) + 1 /\ DOMAIN q = 1..(Len(pendingToolCalls) + 1)
        /\ \A i \in DOMAIN pendingToolCalls : q[i] = pendingToolCalls[i]
        /\ q[Len(pendingToolCalls) + 1] = p
    BY <1>1, <1>2, <1>3, <2>2
  <2>4. p.id = c /\ p.deltas = 0 /\ p.whole = 0 /\ p.complete = FALSE
    BY DEF p
  <2>5. ASSUME NEW i \in DOMAIN q, q[i].id = c
        PROVE  q[i].deltas = call[c].pieces /\ q[i].whole = 0 /\ q[i].complete = FALSE
    <3>1. i \notin DOMAIN pendingToolCalls
      BY <2>1, <2>3, <2>5
    <3>2. i = Len(pendingToolCalls) + 1
      BY <1>3, <2>3, <2>5, <3>1
    <3> QED  BY <1>3, <1>5, <2>3, <2>4, <3>2
  <2>6. \A i \in DOMAIN pendingToolCalls : i \in DOMAIN q /\ q[i] = pendingToolCalls[i]
    BY <1>3, <2>3
  <2>7. q[Len(pendingToolCalls) + 1].id = c
    BY <2>3, <2>4
  <2> QED  BY <1>5, <2>3, <2>5, <2>6, <2>7 DEF IsQueued
<1> QED  BY <1>4, <1>5

LEMMA ComesContinues ==
  ASSUME PartInv, MessageContents, upstream = "streaming", NEW c \in Calls,
         NEW status \in {"started", "called", "answered"}, Comes(c, status), status = "started" => call[c].at = "none"
  PROVE  /\ Continues(c) /\ call'[c].at = status /\ call'[c].pieces = call[c].pieces /\ sent' = sent
         /\ Numbered(call')
<1>1. /\ call' \in [Calls -> CallOf] /\ UNCHANGED <<sent, reasoning>>
      /\ call'[c].at = status /\ call'[c].pieces = call[c].pieces
      /\ call'[c].place = IF call[c].at = "none" THEN 1 + Cardinality(Placed(call)) ELSE call[c].place
      /\ \A d \in Calls \ {c} : call'[d] = call[d]
  BY ComesIs
<1>2. Numbered(call')
  <2>1. Cardinality(Calls) \in Nat
    BY PlacedIs
  <2>2. \A d \in Calls : call'[d] \in CallOf
    BY <1>1
  <2> QED  BY <2>1, <2>2, BoundsAssumption DEF CallOf, Numbered
<1>3. call[c].at # "none" => \/ Waits(pendingToolCalls, c)
                             \/ WholeOf(call'[c]) = WholeOf(call[c])
  BY <1>1, CallsAre DEF MessageContents, WaitingKnown, WholeOf
<1> QED  BY <1>1, <1>2, <1>3 DEF Continues

LEMMA MessageCallBegins ==
  ASSUME MessageInv, PartInv, MessageContents, NEW c \in Calls, Anthropic!ToolInputStart(c)
  PROVE  MessageContents'
<1>1. SendInputStart(c) /\ Anthropic!Emit(Anthropic!BlockStop) /\ pendingToolCalls' = Anthropic!Queued(c)
  BY AnthropicParts DEF Anthropic!ToolInputStart
<1>2. /\ out = <<>> /\ upstream = "streaming" /\ UNCHANGED <<blocks, phase, upstream>>
      /\ call[c].at = "none" /\ Comes(c, "started")
  BY <1>1 DEF SendInputStart, Part, Asked
<1>3. Continues(c) /\ call'[c].at = "started" /\ call'[c].pieces = call[c].pieces /\ sent' = sent
  BY <1>2, ComesContinues
<1>4. Requeued(pendingToolCalls', c)
  <2> DEFINE q == pendingToolCalls'
  <2>1. IsQueued(q, c)
    BY <1>1, <1>2, QueuedHas
  <2>2. \A i \in DOMAIN q : q[i].id = c => Remembered(q[i], call'[c])
    BY <1>3, <2>1 DEF IsQueued, Remembered
  <2> QED  BY <2>1, <2>2 DEF IsQueued, Requeued
<1>5. QueueKnown(pendingToolCalls, call)
  BY DEF MessageContents
<1>6. QueueKnown(pendingToolCalls, call)'
  BY <1>3, <1>4, <1>5, QueueNext
<1>7. WaitingKnown'
  <2>1. \A d : Waits(pendingToolCalls', d) <=> Waits(pendingToolCalls, d) \/ (d = c /\ call[c].at = "none")
    BY <1>4, <1>5, RequeuedWaits
  <2>2. \A d \in Calls : call[d].at = "started" => Waits(pendingToolCalls, d)
    BY <1>2 DEF MessageContents, WaitingKnown
  <2> QED  BY <1>2, <1>3, <2>1, <2>2 DEF WaitingKnown, Continues
<1>8. ASSUME NEW s, NEW u, MessageContent(s), Plays("anthropic", s, Anthropic!BlockStop, u)
      PROVE  MessageContent(u)'
  <2>1. Brings(s, u, "text", 0)
    BY <1>8, BlockStopBrings
  <2>2. s \in States /\ u \in States /\ (\A d \in Calls : Same(s, u, d))
        /\ PiecesIn(u, "text") = PiecesIn(s, "text") + 0
    BY <2>1 DEF Brings
  <2>3. CallsPlaced(u, pendingToolCalls, call)
    BY <1>8, <2>2, PlacedSame DEF MessageContent
  <2>4. CallsPlaced(u, pendingToolCalls', call')
    BY <1>3, <1>4, <1>5, <2>3, PlacedNext
  <2>5. PiecesIn(s, "text") \in Nat
    BY <2>2, WeightsAre
  <2> QED  BY <1>3, <1>8, <2>2, <2>4, <2>5 DEF MessageContent
<1> QED  BY <1>1, <1>2, <1>6, <1>7, <1>8, BlockStopIsList, MessageArrives

(* emitPendingToolCalls.                                                   *)
LEMMA QueueIsDistinct ==
  ASSUME NEW calls, Numbered(calls), NEW list, QueueKnown(list, calls)
  PROVE  Distinct(list) /\ list \in Seq(Pendings)
<1>1. list \in Seq(Pendings)
  BY DEF QueueKnown
<1>2. /\ Len(list) \in Nat /\ DOMAIN list = 1..Len(list)
      /\ \A i \in DOMAIN list : list[i].id \in Calls
  BY <1>1, PendingIs
<1>3. ASSUME NEW i \in DOMAIN list, NEW j \in DOMAIN list, list[i].id = list[j].id PROVE i = j
  <2>1. calls[list[i].id].place \in Nat
    BY <1>2 DEF Numbered
  <2>2. i \in Nat /\ j \in Nat /\ ~(i < j) /\ ~(j < i)
    BY <1>2, <1>3, <2>1 DEF QueueKnown
  <2> QED  BY <2>2
<1> QED  BY <1>1, <1>3 DEF Distinct

LEMMA AllNumbered == ASSUME PartInv PROVE Numbered(call)
  BY CallsAre DEF Numbered

LEMMA BlocksAreList ==
  ASSUME currentBlockIndex \in Nat, NEW list \in Seq(Pendings), NEW n \in 0..Len(list),
         currentBlockIndex + n <= MaxBlocks
  PROVE  IsList(Anthropic!Blocks(list, n))
<1> DEFINE p == [i \in 1..n |-> Anthropic!CallBlock(list[i], currentBlockIndex + i)]
<1>1. n \in Nat /\ MaxBlocks \in Nat /\ Len(list) \in Nat
  BY PartsAssumption DEF MaxBlocks
<1>2. \A i \in 1..n : list[i] \in Pendings /\ currentBlockIndex + i \in 1..MaxBlocks
  BY <1>1
<1>3. p \in [1..n -> Seq(Events)]
  BY <1>2, CallBlockEvents
<1>4. Anthropic!Blocks(list, n) = Anthropic!FlattenSeq(p)
  BY DEF Anthropic!Blocks
<1> HIDE DEF p
<1>5. PICK c : Concatenates(c, p, n, Events)
  BY <1>1, <1>3, Concatenation
<1>6. Anthropic!FlattenSeq(p) = c[n] /\ c[n] \in Seq(Events)
  <2>1. Anthropic!FlattenSeq(p) = c[n]
    BY <1>1, <1>3, <1>5, BlocksAreConcatenated
  <2>2. n \in 0..n
    BY <1>1
  <2> QED  BY <1>5, <2>1, <2>2 DEF Concatenates
<1>7. \A q \in Seq(Events) : q = [i \in 1..Len(q) |-> q[i]] /\ Len(q) \in Nat
  OBVIOUS
<1> QED  BY <1>4, <1>6, <1>7 DEF IsList

(* The client has as many blocks as the renderer has made.                 *)
LEMMA BlocksSoFar ==
  ASSUME MessageInv, out = <<>>, NEW s, s.blocks = blocks
  PROVE  \A x : \A b \in OfIn(s, x) : b <= currentBlockIndex
<1>1. PICK t : Plays("anthropic", Now, out, t) /\ MessageKnown(t, currentBlockIndex, currentBlockType)
  BY DEF MessageInv
<1>2. t = Now
  BY <1>1, AllRead
<1>3. MessageBlocks(Now, currentBlockIndex)
  BY <1>1, <1>2 DEF MessageKnown, MessageOpen, MessageClosed
<1> QED  BY <1>3 DEF MessageBlocks, OfIn, Now

LEMMA PendingArrives ==
  ASSUME MessageInv, NEW calls, Numbered(calls), NEW list, QueueKnown(list, calls), NEW n \in 0..Len(list),
         currentBlockIndex + n <= MaxBlocks, NEW rest, IsRest(rest, list, n), NEW last \in Ends3,
         NEW s, NEW u, CallsPlaced(s, list, calls),
         \A c \in Calls : \A b \in OfIn(s, c) : b <= currentBlockIndex,
         Plays("anthropic", s, Anthropic!BlockStop \o Anthropic!Blocks(list, n) \o last, u)
  PROVE  CallsPlaced(u, rest, calls) /\ PiecesIn(u, "text") = PiecesIn(s, "text")
<1> DEFINE stop == Anthropic!BlockStop
           sends == Anthropic!Blocks(list, n)
<1>1. Distinct(list) /\ list \in Seq(Pendings) /\ currentBlockIndex \in Nat
  BY QueueIsDistinct DEF MessageInv, MessageTypes, MessageCount
<1>2. IsList(stop) /\ IsList(sends) /\ IsList(last)
  <2>1. <<Failed, Closed>> = <<Failed>> \o <<Closed>>
    BY Joined
  <2>2. IsList(<<Failed>>) /\ IsList(<<Closed>>) /\ IsList(<<Completed>>) /\ IsList(<<>>)
    BY ListsAre
  <2>3. IsList(<<Failed, Closed>>)
    BY <2>1, <2>2, ListsJoined
  <2>4. IsList(last)
    BY <2>2, <2>3 DEF Ends3
  <2> QED  BY <1>1, <2>4, BlocksAreList, BlockStopIsList
<1>3. PICK v, w : Plays("anthropic", s, stop, v) /\ Plays("anthropic", v, sends, w) /\ Plays("anthropic", w, last, u)
  <2> HIDE DEF stop, sends
  <2>1. IsList(stop \o sends)
    BY <1>2, ListsJoined
  <2>2. PICK w : Plays("anthropic", s, stop \o sends, w) /\ Plays("anthropic", w, last, u)
    BY <1>2, <2>1, RunSplit DEF stop, sends
  <2> QED  BY <1>2, <2>2, RunSplit
<1>4. Brings(s, v, "text", 0)
  BY <1>3, BlockStopBrings
<1>5. /\ s \in States /\ v \in States /\ \A c \in Calls : Same(s, v, c)
      /\ PiecesIn(v, "text") = PiecesIn(s, "text") + 0
  BY <1>4 DEF Brings
<1>6. CallsPlaced(v, list, calls)
  BY <1>5, PlacedSame
<1>7. \A c \in Calls : OfIn(v, c) = OfIn(s, c)
  BY <1>5 DEF Same
<1>8. \A i \in DOMAIN list : OfIn(v, list[i].id) = {} /\ list[i].id \in Calls
  <2>1. ASSUME NEW i \in DOMAIN list PROVE OfIn(v, list[i].id) = {} /\ list[i].id \in Calls
    <3>1. list[i].id \in Calls /\ Waits(list, list[i].id)
      BY <1>1, PendingIs DEF Waits
    <3> QED  BY <1>6, <3>1 DEF CallsPlaced, CallPlaced
  <2> QED  BY <2>1
<1>9. Emitted(v, w, list, n)
  BY <1>1, <1>3, <1>8, BlocksMake
<1>10. CallsPlaced(w, rest, calls)
  BY <1>1, <1>6, <1>7, <1>9, RestPlaced
<1>11. w \in States /\ u \in States /\ \A x : Same(w, u, x)
  BY <1>3, SignalsKeep DEF Ends3
<1>12. CallsPlaced(u, rest, calls)
  BY <1>10, <1>11, PlacedSame
<1>13. Same(v, w, "text")
  <2>1. \A i \in 1..n : i \in DOMAIN list
    BY <1>1
  <2>2. \A i \in 1..n : "text" # list[i].id
    BY <1>8, <2>1, PartsAssumption
  <2> QED  BY <1>9, <2>2 DEF Emitted
<1>14. PiecesIn(w, "text") = PiecesIn(v, "text") /\ PiecesIn(u, "text") = PiecesIn(w, "text")
  BY <1>5, <1>11, <1>13, SameIs
<1>15. PiecesIn(s, "text") \in Nat
  BY <1>5, WeightsAre
<1> QED  BY <1>5, <1>12, <1>14, <1>15

(* The parts of a call, and those that the renderer passes over.           *)
LEMMA RequeuedKnown ==
  ASSUME PartInv, MessageContents, upstream = "streaming", NEW c \in Calls, Continues(c),
         NEW list, Requeued(list, c), call'[c].at = "started" => call[c].at \in {"none", "started"}
  PROVE  /\ QueueKnown(list, call')
         /\ \A d \in Calls : call'[d].at = "started" => Waits(list, d)
<1>1. QueueKnown(pendingToolCalls, call) /\ \A d \in Calls : call[d].at = "started" => Waits(pendingToolCalls, d)
  BY DEF MessageContents, WaitingKnown
<1>2. QueueKnown(list, call')
  BY <1>1, QueueNext
<1>3. \A d : Waits(list, d) <=> Waits(pendingToolCalls, d) \/ (d = c /\ call[c].at = "none")
  BY <1>1, RequeuedWaits
<1>4. ASSUME NEW d \in Calls, call'[d].at = "started" PROVE Waits(list, d)
  <2>1. call[d].at \in {"none", "started"} /\ (call[d].at = "none" => d = c)
    BY <1>4 DEF Continues
  <2> QED  BY <1>1, <1>3, <2>1
<1> QED  BY <1>2, <1>4

LEMMA MessagePieceArrives ==
  ASSUME MessageInv, PartInv, MessageContents, NEW c \in Calls, Anthropic!ToolInputDelta(c)
  PROVE  MessageContents'
<1>1. SendInput(c) /\ out' = <<>>
  BY AnthropicParts DEF Anthropic!ToolInputDelta
<1>2. /\ out = <<>> /\ upstream = "streaming" /\ UNCHANGED <<blocks, phase, upstream, sent>>
      /\ call[c].at = "started" /\ call' = [call EXCEPT ![c].pieces = @ + 1]
  BY <1>1 DEF SendInput, Part, Asked
<1>3. call \in [Calls -> CallOf] /\ call[c] \in CallOf
  BY DEF PartInv
<1>4. /\ call'[c].at = "started" /\ call'[c].pieces = call[c].pieces + 1 /\ call'[c].place = call[c].place
      /\ \A d \in Calls \ {c} : call'[d] = call[d]
  BY <1>2, <1>3 DEF CallOf
<1>5. /\ pendingToolCalls \in Seq(Pendings) /\ Waits(pendingToolCalls, c)
      /\ \A i \in DOMAIN pendingToolCalls : Remembered(pendingToolCalls[i], call[pendingToolCalls[i].id])
  BY <1>2 DEF MessageContents, WaitingKnown, QueueKnown
<1>6. Continues(c)
  BY <1>2, <1>4, <1>5 DEF Continues
<1>7. /\ pendingToolCalls' = [i \in DOMAIN pendingToolCalls |-> pendingToolCalls'[i]]
      /\ \A i \in DOMAIN pendingToolCalls :
           pendingToolCalls'[i] = IF pendingToolCalls[i].id = c THEN [pendingToolCalls[i] EXCEPT !.deltas = @ + 1]
                                  ELSE pendingToolCalls[i]
  BY DEF Anthropic!ToolInputDelta, Anthropic!Updated
<1>8. ASSUME NEW i \in DOMAIN pendingToolCalls
      PROVE  /\ pendingToolCalls'[i] \in Pendings /\ pendingToolCalls'[i].id = pendingToolCalls[i].id
             /\ pendingToolCalls[i].id # c => pendingToolCalls'[i] = pendingToolCalls[i]
             /\ pendingToolCalls[i].id = c => Remembered(pendingToolCalls'[i], call'[c])
  <2> DEFINE p == pendingToolCalls[i]
             q == pendingToolCalls'[i]
  <2>1. p \in Pendings /\ Remembered(p, call[p.id])
    BY <1>5
  <2>2. CASE p.id = c
    <3>1. q = [p EXCEPT !.deltas = @ + 1]
      BY <1>7, <2>2
    <3> HIDE DEF p, q
    <3>2. /\ q \in Pendings /\ q.id = p.id /\ q.deltas = p.deltas + 1
          /\ q.whole = p.whole /\ q.complete = p.complete
      BY <2>1, <3>1 DEF Pendings
    <3>3. p.complete = FALSE /\ p.deltas = call[c].pieces /\ p.whole = 0
      BY <1>2, <2>1, <2>2 DEF Remembered, Pendings
    <3>4. Remembered(q, call'[c])
      BY <1>4, <3>2, <3>3 DEF Remembered
    <3> QED  BY <2>2, <3>2, <3>4 DEF p, q
  <2>3. CASE p.id # c
    BY <1>7, <2>1, <2>3
  <2> QED  BY <2>2, <2>3
<1>9. /\ pendingToolCalls' \in Seq(Pendings) /\ Len(pendingToolCalls') = Len(pendingToolCalls)
      /\ Len(pendingToolCalls) \in Nat
  BY <1>5, <1>7, <1>8, UpdatedIs
<1>10. Requeued(pendingToolCalls', c)
  <2>1. DOMAIN pendingToolCalls' = DOMAIN pendingToolCalls
    BY <1>7
  <2>2. Len(pendingToolCalls') = Len(pendingToolCalls) + 0
    BY <1>9
  <2> QED  BY <1>2, <1>8, <1>9, <2>1, <2>2 DEF Requeued
<1>11. QueueKnown(pendingToolCalls, call)' /\ WaitingKnown'
  BY <1>2, <1>6, <1>10, RequeuedKnown DEF WaitingKnown
<1>12. ASSUME NEW s, MessageContent(s) PROVE MessageContent(s)'
  <2>1. CallsPlaced(s, pendingToolCalls', call')
    BY <1>6, <1>10, <1>12, PlacedNext DEF MessageContent, MessageContents
  <2> QED  BY <1>2, <1>12, <2>1 DEF MessageContent
<1> QED  BY <1>1, <1>2, <1>11, <1>12, MessageIsSilent

LEMMA MessageResultArrives ==
  ASSUME MessageInv, PartInv, MessageContents, NEW c \in Calls, SendResult(c), out' = <<>>, UNCHANGED pendingToolCalls
  PROVE  MessageContents'
<1>1. /\ out = <<>> /\ upstream = "streaming" /\ UNCHANGED <<blocks, phase, upstream>>
      /\ call[c].at = "called" /\ Comes(c, "answered")
  BY DEF SendResult, Part, Asked
<1>2. Continues(c) /\ call'[c].at = "answered" /\ call'[c].pieces = call[c].pieces /\ sent' = sent
  BY <1>1, ComesContinues
<1>3. /\ pendingToolCalls \in Seq(Pendings)
      /\ \A i \in DOMAIN pendingToolCalls : Remembered(pendingToolCalls[i], call[pendingToolCalls[i].id])
  BY DEF MessageContents, QueueKnown
<1>4. Requeued(pendingToolCalls, c)
  <2>1. Len(pendingToolCalls) = Len(pendingToolCalls) + 0
    BY <1>3
  <2>2. \A i \in DOMAIN pendingToolCalls : pendingToolCalls[i].id = c => Remembered(pendingToolCalls[i], call'[c])
    BY <1>1, <1>2, <1>3 DEF Remembered
  <2> QED  BY <1>1, <1>3, <2>1, <2>2 DEF Requeued
<1>5. QueueKnown(pendingToolCalls, call)' /\ WaitingKnown'
  BY <1>1, <1>2, <1>4, RequeuedKnown DEF WaitingKnown
<1>6. ASSUME NEW s, MessageContent(s) PROVE MessageContent(s)'
  <2>1. CallsPlaced(s, pendingToolCalls, call')
    BY <1>2, <1>4, <1>6, PlacedNext DEF MessageContent, MessageContents
  <2> QED  BY <1>2, <1>6, <2>1 DEF MessageContent
<1> QED  BY <1>1, <1>5, <1>6, MessageIsSilent

LEMMA MessageSkips ==
  ASSUME MessageInv, PartInv, MessageContents, Anthropic!Ignored
  PROVE  MessageContents'
<1>1. /\ out' = <<>> /\ UNCHANGED pendingToolCalls
      /\ (\E c \in Calls : SendResult(c)) \/ SendReasoningStart \/ SendReasoning \/ SendReasoningEnd \/ SendOther
  BY AnthropicParts DEF Anthropic!Ignored, Anthropic!Skip, Anthropic!rendererVars
<1>2. CASE \E c \in Calls : SendResult(c)
  BY <1>1, <1>2, MessageResultArrives
<1>3. CASE SendReasoningStart \/ SendReasoning \/ SendReasoningEnd \/ SendOther
  <2>1. /\ out = <<>> /\ UNCHANGED <<blocks, phase, upstream, call>>
        /\ sent' = sent \/ sent' = [sent EXCEPT !.reasoning = @ + 1]
    BY <1>3 DEF SendReasoningStart, SendReasoning, SendReasoningEnd, SendOther, Part, Asked
  <2>2. sent'.text = sent.text
    BY <2>1 DEF PartInv
  <2>3. QueueKnown(pendingToolCalls, call)' /\ WaitingKnown'
    BY <1>1, <2>1 DEF MessageContents, QueueKnown, WaitingKnown
  <2>4. ASSUME NEW s, MessageContent(s) PROVE MessageContent(s)'
    BY <1>1, <2>1, <2>2, <2>4 DEF MessageContent
  <2> QED  BY <1>1, <2>1, <2>3, <2>4, MessageIsSilent
<1> QED  BY <1>1, <1>2, <1>3

(* A call that is complete: those before the first that is not are sent.   *)
LEMMA CompletedRecords ==
  ASSUME PartInv, MessageContents, NEW c \in Calls, call'[c].at = "called", call'[c].pieces = call[c].pieces,
         NEW queued, IsQueued(queued, c),
         NEW pending, pending = [i \in DOMAIN queued |-> pending[i]],
         \A i \in DOMAIN queued :
           pending[i] = IF queued[i].id = c THEN Anthropic!CompletedCall(queued[i]) ELSE queued[i]
  PROVE  Requeued(pending, c) /\ Len(pending) <= Len(pendingToolCalls) + 1
<1>1. /\ queued \in Seq(Pendings) /\ Len(queued) = Len(pendingToolCalls) + IF call[c].at = "none" THEN 1 ELSE 0
      /\ \A i \in DOMAIN pendingToolCalls : i \in DOMAIN queued /\ queued[i] = pendingToolCalls[i]
      /\ call[c].at = "none" => queued[Len(pendingToolCalls) + 1].id = c
      /\ \A i \in DOMAIN queued : queued[i].id = c => /\ queued[i].deltas = call[c].pieces /\ queued[i].whole = 0
                                                      /\ queued[i].complete = FALSE
  BY DEF IsQueued
<1>2. \A i \in DOMAIN queued :
        pending[i] = IF queued[i].id = c THEN Anthropic!CompletedCall(queued[i]) ELSE queued[i]
  OBVIOUS
<1>3. call[c].pieces \in Nat
  BY CallsAre
<1>4. ASSUME NEW i \in DOMAIN queued
      PROVE  /\ pending[i] \in Pendings /\ pending[i].id = queued[i].id
             /\ queued[i].id # c => pending[i] = queued[i]
             /\ queued[i].id = c => Remembered(pending[i], call'[c])
  <2> DEFINE p == queued[i]
             q == pending[i]
             m == IF call[c].pieces = 0 THEN 1 ELSE 0
  <2>1. p \in Pendings
    BY <1>1
  <2>2. CASE p.id = c
    <3>1. p.deltas = call[c].pieces /\ p.whole = 0 /\ q = Anthropic!CompletedCall(p) /\ m \in Nat
      BY <1>1, <1>2, <2>2
    <3>2. p.deltas + p.whole = 0 <=> call[c].pieces = 0
      BY <1>3, <3>1
    <3> HIDE DEF p, q
    <3>3. q = [p EXCEPT !.complete = TRUE, !.whole = m]
      BY <3>1, <3>2 DEF Anthropic!CompletedCall
    <3> HIDE DEF m
    <3>4. q \in Pendings /\ q.id = p.id /\ q.deltas = p.deltas /\ q.whole = m /\ q.complete = TRUE
      BY <2>1, <3>1, <3>3 DEF Pendings
    <3>5. Remembered(q, call'[c])
      BY <3>1, <3>4 DEF Remembered, m
    <3> QED  BY <2>2, <3>4, <3>5 DEF p, q
  <2>3. CASE p.id # c
    BY <1>2, <2>1, <2>3
  <2> QED  BY <2>2, <2>3
<1>5. pending \in Seq(Pendings) /\ Len(pending) = Len(queued) /\ DOMAIN pending = DOMAIN queued
  BY <1>1, <1>2, <1>4, UpdatedIs
<1>6. pendingToolCalls \in Seq(Pendings)
  BY DEF MessageContents, QueueKnown
<1>7. Len(pendingToolCalls) \in Nat /\ DOMAIN queued = 1..Len(queued)
  BY <1>1, <1>6, PendingIs
<1>8. Len(pendingToolCalls) + 1 \in DOMAIN queued \/ call[c].at # "none"
  BY <1>1, <1>7
<1>9. \A i \in DOMAIN pendingToolCalls :
        /\ pending[i].id = pendingToolCalls[i].id
        /\ pendingToolCalls[i].id # c => pending[i] = pendingToolCalls[i]
  BY <1>1, <1>4
<1>10. call[c].at = "none" => pending[Len(pendingToolCalls) + 1].id = c
  BY <1>1, <1>4, <1>8
<1>11. \A i \in DOMAIN pending : pending[i].id = c => Remembered(pending[i], call'[c])
  BY <1>4, <1>5
<1>12. Len(pending) = Len(pendingToolCalls) + IF call[c].at = "none" THEN 1 ELSE 0
  BY <1>1, <1>5
<1>13. Len(pending) <= Len(pendingToolCalls) + 1
  BY <1>7, <1>12
<1> QED  BY <1>5, <1>9, <1>10, <1>11, <1>12, <1>13 DEF Requeued

(* Those that are sent are complete, so what has only started waits.       *)
LEMMA StartedWait ==
  ASSUME NEW calls, NEW list, QueueKnown(list, calls), Distinct(list), NEW n \in 0..Len(list),
         \A i \in 1..n : list[i].complete, NEW rest, IsRest(rest, list, n),
         NEW d, Waits(list, d), calls[d].at = "started"
  PROVE  Waits(rest, d)
<1>1. list \in Seq(Pendings)
  BY DEF QueueKnown
<1>2. /\ Len(list) \in Nat /\ DOMAIN list = 1..Len(list)
      /\ \A x : Waits(rest, x) <=> Waits(list, x) /\ \A i \in 1..n : x # list[i].id
  BY <1>1, PendingIs, RestWaits
<1>3. ASSUME NEW i \in 1..n PROVE d # list[i].id
  <2>1. i \in DOMAIN list
    BY <1>2
  <2>2. Remembered(list[i], calls[list[i].id])
    BY <2>1 DEF QueueKnown
  <2> QED  BY <2>2 DEF Remembered
<1> QED  BY <1>2, <1>3

LEMMA MessageCallArrives ==
  ASSUME MessageInv, PartInv, MessageContents, NEW c \in Calls, Anthropic!ToolCall(c)
  PROVE  MessageContents'
<1> DEFINE queued == Anthropic!Queued(c)
           pending == Anthropic!Updated(queued, c, Anthropic!CompletedCall)
           n == Anthropic!Ready(pending, FALSE)
<1>1. SendCall(c)
  BY AnthropicParts DEF Anthropic!ToolCall
<1>2. /\ out = <<>> /\ upstream = "streaming" /\ UNCHANGED <<blocks, phase, upstream>>
      /\ call[c].at \in {"none", "started"} /\ Comes(c, "called") /\ parts < MaxParts
  BY <1>1 DEF SendCall, Part, Asked
<1>3. /\ Continues(c) /\ call'[c].at = "called" /\ call'[c].pieces = call[c].pieces /\ sent' = sent
      /\ Numbered(call')
  BY <1>2, ComesContinues
<1>4. IF n > 0 THEN Anthropic!EmitPending(pending, n, <<>>)
      ELSE /\ Anthropic!Emit(<<>>) /\ pendingToolCalls' = pending
           /\ UNCHANGED <<currentBlockIndex, currentBlockType>>
  BY DEF Anthropic!ToolCall
<1>5. Requeued(pending, c) /\ Len(pending) <= Len(pendingToolCalls) + 1
  <2>1. IsQueued(queued, c)
    BY <1>2, QueuedHas
  <2> HIDE DEF queued
  <2>2. /\ pending = [i \in DOMAIN queued |-> pending[i]]
        /\ \A i \in DOMAIN queued :
             pending[i] = IF queued[i].id = c THEN Anthropic!CompletedCall(queued[i]) ELSE queued[i]
    BY DEF Anthropic!Updated
  <2> HIDE DEF pending
  <2> QED  BY <1>2, <1>3, <2>1, <2>2, CompletedRecords
<1> HIDE DEF queued, pending
<1>6. QueueKnown(pending, call') /\ \A d \in Calls : call'[d].at = "started" => Waits(pending, d)
  BY <1>2, <1>3, <1>5, RequeuedKnown
<1>7. pending \in Seq(Pendings) /\ Distinct(pending) /\ Len(pending) \in Nat
  BY <1>3, <1>6, QueueIsDistinct, PendingIs
<1>8. n \in 0..Len(pending) /\ \A i \in 1..n : pending[i].complete
  BY <1>7, ReadyIs
<1> HIDE DEF n
<1>9. currentBlockIndex + n <= MaxBlocks
  <2>1. /\ currentBlockIndex \in Nat /\ pendingToolCalls \in Seq(Pendings) /\ parts \in Nat
        /\ currentBlockIndex + Len(pendingToolCalls) <= parts
    BY PartsAssumption DEF MessageInv, MessageTypes, MessageCount
  <2>2. Len(pendingToolCalls) \in Nat
    BY <2>1, PendingIs
  <2> QED  BY <1>2, <1>5, <1>7, <1>8, <2>1, <2>2, PartsAssumption DEF MaxBlocks
<1>10. ASSUME NEW s, MessageContent(s) PROVE CallsPlaced(s, pending, call') /\ PiecesIn(s, "text") = sent'.text
  BY <1>3, <1>5, <1>10, PlacedNext DEF MessageContent, MessageContents
<1>11. CASE n > 0
  <2> DEFINE rest == SubSeq(pending, n + 1, Len(pending))
             last == <<>>
             events == Anthropic!BlockStop \o Anthropic!Blocks(pending, n) \o last
  <2>1. Anthropic!Emit(events) /\ pendingToolCalls' = rest
    BY <1>4, <1>11 DEF Anthropic!EmitPending
  <2>2. IsRest(rest, pending, n)
    BY <1>7, <1>8, RestIs
  <2> HIDE DEF rest
  <2>3. QueueKnown(rest, call')
    BY <1>3, <1>6, <1>7, <1>8, <2>2, RestKnown
  <2>4. \A d \in Calls : call'[d].at = "started" => Waits(rest, d)
    BY <1>6, <1>7, <1>8, <2>2, StartedWait
  <2>5. QueueKnown(pendingToolCalls, call)' /\ WaitingKnown'
    BY <1>2, <2>1, <2>3, <2>4 DEF WaitingKnown
  <2>6. IsList(events)
    <3>1. /\ IsList(Anthropic!BlockStop) /\ IsList(Anthropic!Blocks(pending, n)) /\ IsList(last)
      BY <1>7, <1>8, <1>9, BlocksAreList, BlockStopIsList, ListsAre DEF MessageInv, MessageTypes, MessageCount
    <3> QED  BY <3>1, ListsJoined
  <2>7. ASSUME NEW s, NEW u, s.blocks = blocks, MessageContent(s), Plays("anthropic", s, events, u)
        PROVE  MessageContent(u)'
    <3>1. \A d \in Calls : \A b \in OfIn(s, d) : b <= currentBlockIndex
      BY <1>2, <2>7, BlocksSoFar
    <3>2. CallsPlaced(s, pending, call') /\ PiecesIn(s, "text") = sent'.text
      BY <1>10, <2>7
    <3>3. last \in Ends3
      BY DEF Ends3
    <3> HIDE DEF last
    <3>4. CallsPlaced(u, rest, call') /\ PiecesIn(u, "text") = PiecesIn(s, "text")
      BY <1>3, <1>6, <1>8, <1>9, <2>2, <2>7, <3>1, <3>2, <3>3, PendingArrives
    <3> QED  BY <2>1, <3>2, <3>4 DEF MessageContent
  <2> HIDE DEF events
  <2>8. \A s, u : s \in States /\ s.blocks = blocks /\ MessageContent(s) /\ Plays("anthropic", s, events, u) =>
          MessageContent(u)'
    BY <2>7
  <2> QED  BY <1>2, <2>1, <2>5, <2>6, <2>8, MessageArrives
<1>12. CASE ~(n > 0)
  <2>1. Anthropic!Emit(<<>>) /\ pendingToolCalls' = pending
    BY <1>4, <1>12
  <2>2. QueueKnown(pendingToolCalls, call)' /\ WaitingKnown'
    BY <1>2, <1>6, <2>1 DEF WaitingKnown
  <2>3. \A s, u : s \in States /\ s.blocks = blocks /\ MessageContent(s) /\ Plays("anthropic", s, <<>>, u) =>
          MessageContent(u)'
    <3>1. ASSUME NEW s, NEW u, MessageContent(s), Plays("anthropic", s, <<>>, u) PROVE MessageContent(u)'
      <4>1. u = s
        BY <3>1, PlaysNothing
      <4> QED  BY <1>10, <2>1, <3>1, <4>1 DEF MessageContent
    <3> QED  BY <3>1
  <2>4. IsList(<<>>)
    BY ListsAre
  <2> QED  BY <1>2, <2>1, <2>2, <2>3, <2>4, MessageArrives
<1> QED  BY <1>11, <1>12

(* The end of a message, and what the client reads of it.                  *)
LEMMA MessageEndArrives ==
  ASSUME MessageInv, PartInv, MessageContents, out = <<>>, UNCHANGED <<blocks, phase, call, sent>>,
         upstream' # "streaming", NEW last \in Ends3, Anthropic!EmitAll(last)
  PROVE  MessageContents'
<1> DEFINE n == Len(pendingToolCalls)
           events == Anthropic!BlockStop \o Anthropic!Blocks(pendingToolCalls, n) \o last
<1>1. n \in Nat /\ Anthropic!Emit(events) /\ pendingToolCalls' = <<>>
  BY AllReady DEF MessageInv
<1>2. Numbered(call) /\ QueueKnown(pendingToolCalls, call)
  BY AllNumbered DEF MessageContents
<1>3. Distinct(pendingToolCalls) /\ pendingToolCalls \in Seq(Pendings)
  BY <1>2, QueueIsDistinct
<1>4. n \in 0..Len(pendingToolCalls)
  BY <1>1
<1>5. IsRest(<<>>, pendingToolCalls, n)
  <2>1. <<>> \in Seq(Pendings) /\ Len(<<>>) = 0 /\ DOMAIN <<>> = {}
    OBVIOUS
  <2>2. n - n = 0 /\ 1..0 = {}
    BY <1>1
  <2> QED  BY <2>1, <2>2 DEF IsRest
<1>6. currentBlockIndex + n <= MaxBlocks /\ currentBlockIndex \in Nat
  BY <1>1, PartsAssumption DEF MessageInv, MessageTypes, MessageCount, MaxBlocks
<1> HIDE DEF n
<1>7. QueueKnown(<<>>, call)
  BY <1>2, <1>3, <1>4, <1>5, RestKnown
<1>8. QueueKnown(pendingToolCalls, call)' /\ WaitingKnown'
  BY <1>1, <1>7 DEF WaitingKnown
<1>9. IsList(events)
  <2>1. IsList(last)
    <3>1. IsList(<<Failed>>) /\ IsList(<<Closed>>) /\ IsList(<<Completed>>) /\ IsList(<<>>)
      BY ListsAre
    <3>2. <<Failed, Closed>> = <<Failed>> \o <<Closed>>
      BY Joined
    <3>3. IsList(<<Failed, Closed>>)
      BY <3>1, <3>2, ListsJoined
    <3> QED  BY <3>1, <3>3 DEF Ends3
  <2>2. IsList(Anthropic!BlockStop) /\ IsList(Anthropic!Blocks(pendingToolCalls, n))
    BY <1>3, <1>4, <1>6, BlocksAreList, BlockStopIsList
  <2> QED  BY <2>1, <2>2, ListsJoined
<1>10. ASSUME NEW s, NEW u, s.blocks = blocks, MessageContent(s), Plays("anthropic", s, events, u)
       PROVE  MessageContent(u)'
  <2>1. \A d \in Calls : \A b \in OfIn(s, d) : b <= currentBlockIndex
    BY <1>10, BlocksSoFar
  <2>2. CallsPlaced(s, pendingToolCalls, call) /\ PiecesIn(s, "text") = sent.text
    BY <1>10 DEF MessageContent
  <2>3. CallsPlaced(u, <<>>, call) /\ PiecesIn(u, "text") = PiecesIn(s, "text")
    <3> DEFINE rest == <<>>
    <3>1. IsRest(rest, pendingToolCalls, n)
      BY <1>5
    <3> HIDE DEF rest
    <3>2. CallsPlaced(u, rest, call) /\ PiecesIn(u, "text") = PiecesIn(s, "text")
      BY <1>2, <1>4, <1>6, <1>10, <2>1, <2>2, <3>1, PendingArrives
    <3> QED  BY <3>2 DEF rest
  <2> QED  BY <1>1, <2>2, <2>3 DEF MessageContent
<1> HIDE DEF events
<1>11. \A s, u : s \in States /\ s.blocks = blocks /\ MessageContent(s) /\ Plays("anthropic", s, events, u) =>
         MessageContent(u)'
  BY <1>10
<1> QED  BY <1>1, <1>8, <1>9, <1>11, MessageArrives

LEMMA MessageFinishArrives ==
  ASSUME MessageInv, PartInv, MessageContents, Anthropic!Finish \/ Anthropic!TerminalError
  PROVE  MessageContents'
<1>1. PICK last \in Ends3 : Anthropic!EmitAll(last)
  BY DEF Anthropic!Finish, Anthropic!TerminalError, Ends3, Anthropic!Completed, Completed, Anthropic!Failed, Failed,
         Anthropic!Closed, Closed, Anthropic!Signal, Signal
<1>2. SendFinish \/ SendError \/ Throw \/ EndOfStream
  BY AnthropicParts DEF Anthropic!Finish, Anthropic!TerminalError
<1>3. out = <<>> /\ UNCHANGED <<blocks, phase, call, sent>> /\ upstream' # "streaming"
  BY <1>2 DEF SendFinish, SendError, Throw, EndOfStream, Ends, Asked
<1> QED  BY <1>1, <1>3, MessageEndArrives

LEMMA MessageReturnArrives ==
  ASSUME MessageInv, MessageContents, Anthropic!Return
  PROVE  MessageContents'
<1>1. EndOfStream /\ upstream = "finished" /\ out' = <<Closed>> /\ UNCHANGED pendingToolCalls
  BY AnthropicParts DEF Anthropic!Return, Anthropic!rendererVars, Anthropic!Closed, Closed, Anthropic!Signal, Signal
<1>2. out = <<>> /\ UNCHANGED <<blocks, phase, call, sent>> /\ upstream' # "streaming"
  BY <1>1 DEF EndOfStream, Ends, Asked
<1>3. QueueKnown(pendingToolCalls, call)' /\ WaitingKnown'
  BY <1>1, <1>2 DEF MessageContents, QueueKnown, WaitingKnown
<1>4. PICK w : Plays("anthropic", Now, out, w)
  BY DEF MessageInv
<1>5. Now \in States /\ MessageContent(Now)
  BY <1>2, <1>4, AllRead DEF MessageContents
<1>6. ASSUME NEW t, Plays("anthropic", Now', out', t) PROVE MessageContent(t)'
  <2>1. Plays("anthropic", Now, <<Closed>>, t)
    BY <1>1, <1>2, <1>6 DEF Now
  <2>2. t \in States /\ \A x : Same(Now, t, x)
    BY <2>1, SignalsKeep
  <2>3. MessageContent(t)
    BY <1>5, <2>2, MessageSame
  <2> QED  BY <1>1, <1>2, <2>3 DEF MessageContent
<1> QED  BY <1>3, <1>6 DEF MessageContents

LEMMA MessageReadArrives ==
  ASSUME MessageInv, MessageContents, format = "anthropic", Read, UNCHANGED pendingToolCalls
  PROVE  MessageContents'
<1>1. PICK w : Plays(format, Now, out, w)
  BY DEF MessageInv
<1>2. UNCHANGED <<call, sent, upstream, format>>
  BY DEF Read, upstreamVars
<1>3. QueueKnown(pendingToolCalls, call)' /\ WaitingKnown'
  BY <1>2 DEF MessageContents, QueueKnown, WaitingKnown
<1>4. MessageContent(w)
  BY <1>1 DEF MessageContents
<1>5. ASSUME NEW t, Plays("anthropic", Now', out', t) PROVE MessageContent(t)'
  <2>1. t = w
    BY <1>1, <1>2, <1>5, ReadLeads
  <2> QED  BY <1>2, <1>4, <2>1 DEF MessageContent
<1> QED  BY <1>3, <1>5 DEF MessageContents

LEMMA MessageContentSteps ==
  ASSUME MessageInv, PartInv, MessageContents, format = "anthropic", Anthropic!Next
  PROVE  MessageContents'
<1>1. CASE Anthropic!Step
  BY <1>1, MessageTextArrives, MessageSkips, MessageCallBegins, MessagePieceArrives, MessageCallArrives,
     MessageFinishArrives, MessageReturnArrives DEF Anthropic!Step
<1>2. CASE Anthropic!Read /\ UNCHANGED Anthropic!rendererVars
  <2>1. Read /\ UNCHANGED pendingToolCalls
    BY <1>2, ReadsTheSame DEF Anthropic!rendererVars
  <2> QED  BY <2>1, MessageReadArrives
<1> QED  BY <1>1, <1>2 DEF Anthropic!Next

LEMMA MessageContentInitially ==
  ASSUME StreamInit, Anthropic!RendererInit
  PROVE  MessageContents
<1>1. /\ \A c \in Calls : call[c].at = "none" /\ call[c].place = 0
      /\ out = <<>> /\ upstream = "streaming" /\ sent = [text |-> 0, reasoning |-> 0]
      /\ pendingToolCalls = <<>>
  BY DEF StreamInit, Anthropic!RendererInit
<1>2. QueueKnown(pendingToolCalls, call) /\ WaitingKnown
  <2>1. <<>> \in Seq(Pendings) /\ DOMAIN <<>> = {}
    OBVIOUS
  <2> QED  BY <1>1, <2>1 DEF QueueKnown, WaitingKnown
<1>3. ASSUME NEW t, Plays("anthropic", Now, out, t) PROVE MessageContent(t)
  <2>1. t = Now /\ Now \in States /\ \A x : OfIn(Now, x) = {}
    BY <1>1, <1>3, AllRead, NoneYet
  <2>2. CallsPlaced(t, pendingToolCalls, call)
    BY <1>1, <2>1 DEF CallsPlaced, CallPlaced
  <2>3. PiecesIn(t, "text") = 0
    <3>1. IsFiniteSet({}) /\ \A x \in {} : Weights(t)[x] \in Nat
      BY FS_EmptySet
    <3>2. Total(Weights(t), {}) = 0
      BY <3>1, TotalNat
    <3> QED  BY <2>1, <3>2 DEF PiecesIn
  <2> QED  BY <1>1, <2>2, <2>3 DEF MessageContent
<1> QED  BY <1>2, <1>3 DEF MessageContents

(* What the client has of a message is what it is told.                    *)
LEMMA MessageIsComplete ==
  ASSUME MessageInv, PartInv, MessageContents
  PROVE  Anthropic!ContentArrives
<1>1. PICK t : /\ Plays("anthropic", Now, out, t) /\ MessagePhase(t)
  BY DEF MessageInv
<1>2. /\ CallsPlaced(t, pendingToolCalls, call) /\ PiecesIn(t, "text") = sent.text
      /\ WaitingKnown /\ \A c \in Calls : CallPlaced(t, pendingToolCalls, c, call[c])
  BY <1>1 DEF MessageContents, MessageContent, CallsPlaced
<1>3. Grows(Now, t)
  BY <1>1, RunGrows
<1>4. \A x : Anthropic!BlocksOf(x) = OfIn(Now, x)
  BY BlocksSeen
<1>5. ASSUME NEW x
      PROVE  OfIn(Now, x) \subseteq OfIn(t, x) /\ OfIn(Now, x) \subseteq 1..MaxBlocks
  BY <1>3 DEF OfIn, Grows
<1>6. out = <<>> => Anthropic!PiecesSeen("text") = sent.text
  <2> SUFFICES ASSUME out = <<>> PROVE Anthropic!PiecesSeen("text") = sent.text
    OBVIOUS
  <2>1. t = Now /\ Now \in States
    BY <1>1, AllRead
  <2> QED  BY <1>2, <2>1, PiecesAreSeen
<1>7. ASSUME NEW c \in Calls, Anthropic!ClosedBlocks(c) # {} PROVE Anthropic!InputArrived(c)
  <2>1. PICK d \in OfIn(Now, c) : blocks[d].status = "closed"
    BY <1>4, <1>7 DEF Anthropic!ClosedBlocks
  <2>2. d \in OfIn(t, c) /\ d \in 1..MaxBlocks
    BY <1>5
  <2>3. PICK b : Has(t, c, b, "closed", call[c].pieces, WholeOf(call[c]))
    BY <1>2, <2>2 DEF CallPlaced
  <2>4. OfIn(t, c) = {b} /\ t.blocks[b].pieces = call[c].pieces /\ t.blocks[b].whole = WholeOf(call[c])
    BY <2>3 DEF Has
  <2>5. d = b /\ OfIn(Now, c) = {b}
    BY <1>5, <2>2, <2>4
  <2>6. t.blocks[b] = blocks[b]
    BY <1>3, <2>1, <2>2, <2>5 DEF Grows, Now
  <2>7. call[c].pieces \in Nat
    BY CallsAre
  <2> QED  BY <1>4, <2>4, <2>5, <2>6, <2>7 DEF Anthropic!InputArrived, Anthropic!Complete, WholeOf
<1>8. ASSUME phase = "completed", NEW c \in Calls, call[c].at # "none" PROVE Anthropic!CallArrived(c)
  <2>1. t.phase \notin {"before", "open"} /\ t.blocks = blocks
    BY <1>3, <1>8 DEF Grows, Now
  <2>2. upstream # "streaming"
    BY <1>1, <2>1 DEF MessagePhase
  <2>3. ~Waits(pendingToolCalls, c)
    BY <1>2, <2>2 DEF WaitingKnown, Waits
  <2>4. PICK b : OfIn(t, c) = {b}
    BY <1>2, <1>8, <2>3 DEF CallPlaced, Has
  <2>5. OfIn(Now, c) = OfIn(t, c)
    BY <2>1 DEF OfIn, Now
  <2> QED  BY <1>4, <1>5, <2>4, <2>5 DEF Anthropic!CallArrived, Anthropic!MaxBlocks, MaxBlocks
<1>9. Anthropic!InOrder
  <2> SUFFICES ASSUME NEW c \in Calls, NEW d \in Calls, call[c].place < call[d].place,
                      NEW b \in OfIn(Now, c), NEW e \in OfIn(Now, d)
               PROVE  b < e
    BY <1>4 DEF Anthropic!InOrder
  <2>1. b \in OfIn(t, c) /\ e \in OfIn(t, d)
    BY <1>5
  <2> QED  BY <1>2, <2>1 DEF CallsPlaced
<1> QED  BY <1>6, <1>7, <1>8, <1>9 DEF Anthropic!ContentArrives

-----------------------------------------------------------------------------
(* The content of the answer that is rendered, and of all of them.         *)

LEMMA FormatStays ==
  ASSUME PartStep
  PROVE  format' = format
BY PartsAreSilent DEF PartStep, Read, upstreamVars

LEMMA NextIsParts ==
  ASSUME MCNext
  PROVE  picked' = picked /\ format' = format
BY NextIsPart, FormatStays DEF MCNext

LEMMA CollectedKept ==
  ASSUME PartInv, CollectedInv, MCNext
  PROVE  CollectedInv'
<1>1. picked' = picked /\ format' = format
  BY NextIsParts
<1>2. CASE Collect
  BY <1>1, <1>2, CollectedSteps DEF Collect
<1>3. CASE ~Collect
  <2>1. picked # "collected" /\ result' = result
    <3>1. CASE RenderResponses
      BY <3>1 DEF RenderResponses, collectedVars
    <3>2. CASE RenderAnthropic
      BY <3>2 DEF RenderAnthropic, collectedVars
    <3>3. CASE RenderChat
      BY <3>3 DEF RenderChat, collectedVars
    <3>4. CASE PassOn
      BY <3>4 DEF PassOn, collectedVars
    <3> QED  BY <1>3, <3>1, <3>2, <3>3, <3>4 DEF MCNext
  <2> QED  BY <1>1, <2>1 DEF CollectedInv
<1> QED  BY <1>2, <1>3

LEMMA RenderedKept ==
  ASSUME PartInv, RenderInv, RenderedContents, MCNext
  PROVE  RenderedContents'
<1>1. picked' = picked /\ format' = format
  BY NextIsParts
<1>2. CASE RenderResponses
  <2>1. format = "responses" /\ ResponsesInv /\ ResponseContents /\ Responses!Next
    BY <1>2 DEF RenderResponses, RenderInv, RenderedContents
  <2> QED  BY <1>1, <2>1, ResponseContentSteps DEF RenderedContents
<1>3. CASE RenderAnthropic
  <2>1. format = "anthropic" /\ MessageInv /\ MessageContents /\ Anthropic!Next
    BY <1>3 DEF RenderAnthropic, RenderInv, RenderedContents
  <2> QED  BY <1>1, <2>1, MessageContentSteps DEF RenderedContents
<1>4. CASE RenderChat
  <2>1. format = "chat" /\ ChatInv /\ ChatContents /\ Chat!Next
    BY <1>4 DEF RenderChat, RenderInv, RenderedContents
  <2> QED  BY <1>1, <2>1, ChatContentSteps DEF RenderedContents
<1>5. CASE Collect \/ PassOn
  BY <1>1, <1>5 DEF Collect, PassOn, RenderedContents
<1> QED  BY <1>2, <1>3, <1>4, <1>5 DEF MCNext

LEMMA ContentStutter ==
  ASSUME CollectedInv, RenderedContents, UNCHANGED vars
  PROVE  CollectedInv' /\ RenderedContents'
<1>1. /\ UNCHANGED <<picked, format, kind, parts, sent, reasoning, call, called, upstream, out, blocks, phase>>
      /\ UNCHANGED <<completedOutput, toolCallOutputIndices, toolCallsWithArgumentDeltas, hostedToolCallIds, output>>
      /\ UNCHANGED <<pendingToolCalls, toolIndexes>>
      /\ UNCHANGED <<text, reasoningText, toolCalls, result, answer>>
  BY DEF vars, partVars, upstreamVars, clientVars, responsesVars, anthropicVars, collectedVars
<1>2. Now' = Now
  BY <1>1 DEF Now
<1>3. CollectedInv'
  <2>1. CollectedSoFar => CollectedSoFar'
    <3>1. Collected!Rendered' = Collected!Rendered
      BY <1>1 DEF Collected!Rendered, Collected!ResponseItems, Collected!MessageItems, Collected!ChatItems
    <3> QED  BY <1>1, <3>1 DEF CollectedSoFar
  <2> QED  BY <1>1, <2>1 DEF CollectedInv
<1>4. ResponseContents => ResponseContents'
  <2> SUFFICES ASSUME ResponseContents PROVE ResponseContents'
    OBVIOUS
  <2>1. CallsKept' /\ OutputKnown'
    BY <1>1 DEF ResponseContents, CallsKept, OutputKnown, NeverCompleted, OpenWith
  <2>2. ASSUME NEW t, Plays("responses", Now', out', t) PROVE ResponseContent(t)'
    <3>1. ResponseContent(t)
      BY <1>1, <1>2, <2>2 DEF ResponseContents
    <3>2. \A c \in Calls : ItemOf(t, c, call[c], toolCallOutputIndices[c])'
      BY <1>1, <3>1 DEF ResponseContent, ItemOf, ItemDone, OpenWith
    <3> QED  BY <1>1, <3>1, <3>2 DEF ResponseContent
  <2> QED  BY <2>1, <2>2 DEF ResponseContents
<1>5. MessageContents => MessageContents'
  <2> SUFFICES ASSUME MessageContents PROVE MessageContents'
    OBVIOUS
  <2>1. QueueKnown(pendingToolCalls, call)' /\ WaitingKnown'
    BY <1>1 DEF MessageContents, QueueKnown, WaitingKnown
  <2>2. ASSUME NEW t, Plays("anthropic", Now', out', t) PROVE MessageContent(t)'
    BY <1>1, <1>2, <2>2 DEF MessageContents, MessageContent
  <2> QED  BY <2>1, <2>2 DEF MessageContents
<1>6. ChatContents => ChatContents'
  <2> SUFFICES ASSUME ChatContents PROVE ChatContents'
    OBVIOUS
  <2>1. ChatKept'
    BY <1>1 DEF ChatContents, ChatKept
  <2>2. ASSUME NEW t, Plays("chat", Now', out', t) PROVE Chunked(t)'
    BY <1>1, <1>2, <2>2 DEF ChatContents, Chunked
  <2> QED  BY <2>1, <2>2 DEF ChatContents
<1> QED  BY <1>1, <1>3, <1>4, <1>5, <1>6 DEF RenderedContents

LEMMA ContentInitially ==
  ASSUME MCInit
  PROVE  ContentInv
<1>1. /\ StreamInit /\ Responses!RendererInit /\ Anthropic!RendererInit /\ Chat!RendererInit
      /\ Collected!RendererInit
  BY DEF MCInit
<1>2. RenderInv /\ Client!Init
  BY RenderInitially
<1>3. PartInv /\ ClientInv
  BY <1>1, <1>2, PartInitially, ClientInitially
<1>4. CollectedInv /\ CalledOnce
  <2>1. /\ format \in {"responses", "anthropic", "chat"} /\ upstream = "streaming"
        /\ text = 0 /\ reasoningText = 0 /\ toolCalls = <<>> /\ called = <<>> /\ result = "collecting"
        /\ sent = [text |-> 0, reasoning |-> 0] /\ \A c \in Calls : call[c].at = "none"
    BY <1>1 DEF StreamInit, Collected!RendererInit
  <2>2. CalledOnce
    BY <2>1 DEF CalledOnce, Complete
  <2> QED  BY <2>1, <2>2 DEF CollectedInv, CollectedSoFar
<1>5. RenderedContents
  BY <1>1, ResponseContentInitially, MessageContentInitially, ChatContentInitially DEF RenderedContents
<1> QED  BY <1>2, <1>3, <1>4, <1>5 DEF ContentInv

LEMMA ContentKept ==
  ASSUME ContentInv, [MCNext]_vars
  PROVE  ContentInv'
<1>1. PartInv /\ CalledOnce /\ ClientInv /\ CollectedInv /\ RenderInv /\ RenderedContents
  BY DEF ContentInv
<1>2. PartInv' /\ CalledOnce'
  BY <1>1, PartsKept
<1>3. CASE MCNext
  BY <1>1, <1>2, <1>3, RenderStep, ClientSteps, CollectedKept, RenderedKept DEF ContentInv
<1>4. CASE UNCHANGED vars
  BY <1>1, <1>2, <1>4, RenderStutter, ClientSteps, ContentStutter DEF ContentInv
<1> QED  BY <1>3, <1>4

LEMMA AllArrives ==
  ASSUME ContentInv
  PROVE  ContentArrives
<1>1. /\ PartInv /\ CalledOnce /\ ClientInv /\ CollectedInv /\ RenderInv /\ RenderedContents
      /\ format \in {"responses", "anthropic", "chat"}
  BY DEF ContentInv, CollectedInv
<1>2. TypeOK /\ Collected!ContentArrives
  BY <1>1, TypesAreRight, AnswerIsComplete
<1>3. ASSUME picked = "rendered", format = "responses" PROVE Responses!ContentArrives
  BY <1>1, <1>3, ResponseIsComplete DEF RenderInv, RenderedContents
<1>4. ASSUME picked = "rendered", format = "anthropic" PROVE Anthropic!ContentArrives
  BY <1>1, <1>4, MessageIsComplete DEF RenderInv, RenderedContents
<1>5. ASSUME picked = "rendered", format = "chat" PROVE Chat!ContentArrives
  BY <1>1, <1>5, ChatAnswerIsComplete DEF RenderInv, RenderedContents
<1> QED  BY <1>1, <1>2, <1>3, <1>4, <1>5 DEF ContentArrives

(* Whatever parts the upstream brings and wherever it breaks off, and      *)
(* however the client's reads fall between: its text and its reasoning     *)
(* arrive whole, and each call that came is one block in its place, with   *)
(* the pieces of its input or, if it is complete and none came, all of it  *)
(* once, in each of the three formats; and the answer that is collected    *)
(* has each complete call once, in the order in which they were completed. *)
THEOREM AllContentArrives == MCSpec => []ContentArrives
<1>1. MCInit => ContentInv
  BY ContentInitially
<1>2. ContentInv /\ [MCNext]_vars => ContentInv'
  BY ContentKept
<1>3. ContentInv => ContentArrives
  BY AllArrives
<1> QED
  BY <1>1, <1>2, <1>3, PTL DEF MCSpec
=============================================================================
