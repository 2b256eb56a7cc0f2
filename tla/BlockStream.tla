------------------------------ MODULE BlockStream ------------------------------
(***************************************************************************)
(* What the client of a streamed answer is promised, whatever its format:  *)
(* blocks (a text, a reasoning, a tool call) are opened in the order of    *)
(* their indexes, get their pieces while they are open and close once; the *)
(* answer starts once and completes once, with no text or reasoning left   *)
(* open.  A Messages client is promised more: its blocks never overlap,    *)
(* and an answer that has started never just stops.                        *)
(***************************************************************************)
EXTENDS Naturals

CONSTANTS Calls, MaxBlocks

VARIABLES format, blocks, phase

vars == <<format, blocks, phase>>

Strict == format = "anthropic"

Holds(b, status) == blocks[b].status = status

Closed == [status |-> "none", of |-> "-", pieces |-> 0, whole |-> 0]

Init ==
  /\ format \in {"responses", "anthropic", "chat"}
  /\ blocks = [b \in 0..MaxBlocks |-> Closed]
  /\ phase = IF format = "chat" THEN "open" ELSE "before"

Start == phase = "before" /\ phase' = "open" /\ UNCHANGED <<format, blocks>>

NoneOpen == \A b \in 0..MaxBlocks : ~Holds(b, "open")

(* A chunk of a chat answer may open a tool call and bring its arguments.  *)
Open(b, x) ==
  /\ phase = "open" /\ b > 0 /\ Holds(b, "none")
  /\ \A c \in 1..(b - 1) : ~Holds(c, "none")
  /\ Strict => NoneOpen
  /\ \E whole \in IF format = "chat" THEN {0, 1} ELSE {0} :
       blocks' = [blocks EXCEPT ![b] = [status |-> "open", of |-> x, pieces |-> 0, whole |-> whole]]
  /\ UNCHANGED <<format, phase>>

(* A piece of its content, or all of it.                                   *)
Piece(b) ==
  /\ phase = "open" /\ Holds(b, "open")
  /\ \/ blocks' = [blocks EXCEPT ![b].pieces = @ + 1]
     \/ blocks' = [blocks EXCEPT ![b].whole = @ + 1]
  /\ UNCHANGED <<format, phase>>

Close(b) ==
  /\ phase = "open" /\ Holds(b, "open")
  /\ blocks' = [blocks EXCEPT ![b].status = "closed"]
  /\ UNCHANGED <<format, phase>>

OnlyCallsOpen == \A b \in 0..MaxBlocks : Holds(b, "open") => blocks[b].of \in Calls

Complete ==
  /\ phase = "open"
  /\ IF Strict THEN NoneOpen ELSE OnlyCallsOpen
  /\ phase' = "completed" /\ UNCHANGED <<format, blocks>>

(* The upstream may fail until its connection is closed.                   *)
Fail ==
  /\ phase # "failed" /\ phase # "truncated"
  /\ Strict => phase # "before" /\ NoneOpen
  /\ phase' = "failed" /\ UNCHANGED <<format, blocks>>

(* The upstream's stream ended early.                                      *)
Truncate ==
  /\ phase \in {"before", "open"} /\ ~Strict
  /\ phase' = "truncated" /\ UNCHANGED <<format, blocks>>

Next ==
  \/ Start \/ Complete \/ Fail \/ Truncate
  \/ \E b \in 0..MaxBlocks : Piece(b) \/ Close(b) \/ \E x \in Calls \cup {"text", "reasoning"} : Open(b, x)

Spec == Init /\ [][Next]_vars
=============================================================================
