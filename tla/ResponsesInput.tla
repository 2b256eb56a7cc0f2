---------------------------- MODULE ResponsesInput ----------------------------
(***************************************************************************)
(* The input of a Responses client on its way to OpenAI.  It is mapped to  *)
(* messages (mapResponsesRequestToAISDKInput in                            *)
(* src/providers/openai-responses/protocol.ts), the SDK makes items of the *)
(* messages, and the items get back what that has cost (passthrough-       *)
(* input.ts): types that the SDK does not know are mapped to anchors, and  *)
(* items are matched to those that the client sent.                        *)
(***************************************************************************)
EXTENDS Naturals, Sequences, SequencesExt, FiniteSets

CONSTANTS
  InputItems,         \* what a client may send: [type, role, text, id]
  MaxInput            \* bound: of the items

VARIABLES
  rawInput,           \* of the client, without the images that were filtered
  transformed,        \* whether some were
  store,              \* whether OpenAI stores its answers
  stage,              \* the step that comes next
  sdkInput            \* items, each with its place in rawInput and whether it is that one

vars == <<rawInput, transformed, store, stage, sdkInput>>

Init ==
  /\ rawInput \in SeqOf(InputItems, MaxInput) \ {<<>>}
  /\ transformed \in BOOLEAN /\ store \in BOOLEAN
  /\ stage = "map" /\ sdkInput = <<>>

Raw(i) == rawInput[i]

Places == DOMAIN rawInput

Goes(next, items) ==
  /\ stage' = next /\ sdkInput' = items
  /\ UNCHANGED <<rawInput, transformed, store>>

-----------------------------------------------------------------------------
(* Text is a set of letters: one text is in another if its letters are.    *)
(* Content without text is in parts, of a file say, or an empty string.    *)
IsEasy(item) == item.type = "message"

IsEmpty(item) == item.text \in {{}, {"parts"}}

IsSystem(role) == role \in {"system", "developer"}

(* The items that become a message: instructions without text do not, nor  *)
(* reasoning that has no id.                                               *)
IsMapped(item) ==
  /\ item.type # "web_search_call"
  /\ IsEasy(item) /\ IsSystem(item.role) => ~IsEmpty(item)
  /\ item.type = "reasoning" => item.id # 0

(* The SDK leaves out an assistant's message without text, and joins       *)
(* reasoning with one id.                                                  *)
IsSent(i) ==
  /\ IsMapped(Raw(i))
  /\ IsEasy(Raw(i)) /\ Raw(i).role = "assistant" => ~IsEmpty(Raw(i))
  /\ Raw(i).type = "reasoning" => \A j \in 1..(i - 1) : Raw(j) # Raw(i)

(* What stands for an item that the SDK does not know (createInputItem-    *)
(* Anchor).                                                                *)
Anchor(type) ==
  IF type = "agent_message" THEN "agent_message anchor" ELSE "additional_tools anchor"

(* What it makes of an item: a reference to one that is stored, a function *)
(* output of a search output.  Instructions have one of the roles.         *)
SDKType(item) ==
  CASE item.type \in {"reasoning", "compaction"} /\ store -> "item_reference"
    [] item.type = "tool_search_output" -> "function_call_output"
    [] item.type \in {"agent_message", "additional_tools"} -> Anchor(item.type)
    [] OTHER -> item.type

SDKItem(i) ==
  LET item == Raw(i) IN
    [type |-> SDKType(item),
     role |-> IF IsSystem(item.role) /\ \E j \in Places : Raw(j).role = "developer" THEN "developer"
              ELSE item.role,
     text |-> item.text, id |-> item.id, at |-> i, raw |-> FALSE]

(* Some places, from the first to the last.                                *)
InOrder(places) ==
  CHOOSE p \in [1..Cardinality(places) -> places] : \A k, l \in DOMAIN p : k < l => p[k] < p[l]

Map ==
  /\ stage = "map"
  /\ Goes("tool search",
          LET sent == InOrder({i \in Places : IsSent(i)}) IN [k \in DOMAIN sent |-> SDKItem(sent[k])])

-----------------------------------------------------------------------------
RawItem(i) ==
  [type |-> Raw(i).type, role |-> Raw(i).role, text |-> Raw(i).text, id |-> Raw(i).id,
   at |-> i, raw |-> TRUE]

Lowest(s) == CHOOSE i \in s : \A j \in s : i <= j

(* Of the items of the client, the first that is left and matches.  A fold *)
(* carries those that are taken, and where each item is to be.             *)
Left(acc) == Places \ acc.taken

Unmatched(acc, item) == [acc EXCEPT !.out = Append(@, [item |-> item, place |-> 0])]

Matched(acc, i, item) ==
  [taken |-> acc.taken \cup {i}, out |-> Append(acc.out, [item |-> item, place |-> i])]

Start == [taken |-> {}, out |-> <<>>]

OutItems(acc) == [k \in DOMAIN acc.out |-> acc.out[k].item]

(* patchNativeToolSearchInput: a search call and a search output are the   *)
(* client's; outputs of one call are told apart by their order.            *)
Outputs == {"function_call_output", "tool_search_output"}

RestoreToolSearch(acc, item) ==
  LET types == CASE item.type = "item_reference" -> {"compaction", "tool_search_output"}
                 [] item.type = "tool_search_call" -> {"tool_search_call"}
                 [] item.type = "function_call_output" -> Outputs
                 [] OTHER -> {}
      left == {i \in Left(acc) : Raw(i).type \in types /\ Raw(i).id = item.id}
  IN IF left = {} THEN Unmatched(acc, item)
     ELSE IF Raw(Lowest(left)).type \in {"tool_search_call", "tool_search_output"}
          THEN IF item.type = "item_reference" THEN Matched(acc, Lowest(left), item)
               ELSE Matched(acc, Lowest(left), RawItem(Lowest(left)))
          ELSE Matched(acc, Lowest(left), item)

PatchNativeToolSearchInput ==
  /\ stage = "tool search"
  /\ Goes("filtered", OutItems(FoldLeft(RestoreToolSearch, Start, sdkInput)))

-----------------------------------------------------------------------------
(* patchFilteredRawInputItems                                              *)

SameRole(r, role) == IsEasy(r) /\ (r.role = role \/ (IsSystem(r.role) /\ IsSystem(role)))

(* Faulty: the first message of the role is taken, whatever its text.      *)
EasyMatch_Faulty(acc, item) == {i \in Left(acc) : SameRole(Raw(i), item.role)}

(* findMatchingRawEasyMessage: one whose text is in the item's, if any.    *)
EasyMatch(acc, item) ==
  LET sameRole == {i \in Left(acc) : SameRole(Raw(i), item.role)}
      sameText == {i \in sameRole : ~IsEmpty(Raw(i)) /\ Raw(i).text \subseteq item.text}
  IN IF sameText # {} THEN sameText ELSE sameRole

(* Where an item is: by its type, and by its id where that is the same at  *)
(* the client and here.                                                    *)
IsMatch(r, item) ==
  CASE item.type = "item_reference" -> r.type \in {"compaction", "tool_search_output"} /\ r.id = item.id
    [] item.type = "agent_message anchor" -> r.type = "agent_message"
    [] item.type = "additional_tools anchor" -> r.type = "additional_tools"
    [] item.type = "reasoning" -> r.type = "reasoning"
    [] OTHER -> r.type = item.type /\ r.id = item.id

ItemMatch(acc, item) == {i \in Left(acc) : IsMatch(Raw(i), item)}

Locate(acc, item) ==
  LET left == IF IsEasy(item) THEN EasyMatch(acc, item) ELSE ItemMatch(acc, item)
      place == Lowest(left)
  IN IF left = {} THEN Unmatched(acc, item)
     ELSE IF IsEasy(item) \/ item.type = "function_call_output" THEN Matched(acc, place, RawItem(place))
     ELSE Matched(acc, place, item)

(* shouldRestoreUnmatchedEasyMessage                                       *)
IsRestored(r) == IsEasy(r) /\ r.role # "user" /\ r.text = {"parts"}

(* It goes before the first item that comes later.                         *)
Restore(acc, i) ==
  LET later == {k \in DOMAIN acc.out : acc.out[k].place > i}
      at == IF later = {} THEN Len(acc.out) + 1 ELSE Lowest(later)
  IN [acc EXCEPT !.out = InsertAt(@, at, [item |-> RawItem(i), place |-> i])]

PatchFilteredRawInputItems ==
  /\ stage = "filtered"
  /\ LET located == FoldLeft(Locate, Start, sdkInput)
         restored == InOrder({i \in Left(located) : IsRestored(Raw(i))})
     IN Goes("anchors",
             IF transformed THEN OutItems(FoldLeft(Restore, located, restored)) ELSE sdkInput)

-----------------------------------------------------------------------------
(* patchAgentMessagesInput, patchAdditionalToolsInput: the k-th anchor is  *)
(* the k-th item of the type.                                              *)
Unanchored(items, type) ==
  LET Anchors(k) == {j \in 1..k : items[j].type = Anchor(type)}
      Raws(i) == {j \in 1..i : Raw(j).type = type}
  IN [k \in DOMAIN items |->
       IF k \in Anchors(k)
       THEN RawItem(CHOOSE i \in Places : i \in Raws(i) /\ Cardinality(Raws(i)) = Cardinality(Anchors(k)))
       ELSE items[k]]

PatchAnchors ==
  /\ stage = "anchors"
  /\ Goes("sent", Unanchored(Unanchored(sdkInput, "agent_message"), "additional_tools"))

Next == Map \/ PatchNativeToolSearchInput \/ PatchFilteredRawInputItems \/ PatchAnchors

Spec == Init /\ [][Next]_vars

-----------------------------------------------------------------------------
(* What is sent, besides instructions and assistants' messages of files.   *)
IsKept(i) == IsSent(i) \/ (transformed /\ IsRestored(Raw(i)))

SentPlaces == [k \in DOMAIN sdkInput |-> sdkInput[k].at]

(* OpenAI gets every item that has a form there once, and in the client's  *)
(* order: only a message of files that is put back may come after reasoning*)
(* that it was before.  What the SDK cannot express is the       *)
(* client's own item, with all that it brought; and so are, after images   *)
(* were filtered, its messages and outputs.                                *)
InputRestored ==
  stage = "sent" =>
    /\ IsInjective(SentPlaces) /\ ToSet(SentPlaces) = {i \in Places : IsKept(i)}
    /\ \A k, l \in DOMAIN sdkInput :
         k < l => \/ SentPlaces[k] < SentPlaces[l]
                  \/ (transformed /\ ~IsSent(SentPlaces[l]) /\ Raw(SentPlaces[k]).type = "reasoning")
    /\ \A k \in DOMAIN sdkInput :
         LET type == Raw(SentPlaces[k]).type IN
           \/ sdkInput[k].raw
           \/ type \in {"function_call", "reasoning", "compaction"}
           \/ (type \in {"message", "function_call_output"} /\ ~transformed)
=============================================================================
