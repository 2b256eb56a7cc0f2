----------------------------- MODULE MCRequestInput -----------------------------
(***************************************************************************)
(* What is done to the input of a Responses client's request, for TLC: the *)
(* images of tool results go to the vision artifact store, or the tools    *)
(* and the input items are translated for the upstream.  An initial state  *)
(* picks one; the variables of the others stay as they are.                *)
(*                                                                         *)
(* The store has two images of different sizes, which fit once but not     *)
(* with a second copy of both.  The bounds are two batches of any of them, *)
(* or three of the small one (stored, forgotten and stored again).         *)
(***************************************************************************)
EXTENDS VisionArtifacts, TLC

CONSTANTS small, large, Names, Namespaces, Search, ApplyPatch, MaxTools, InputItems, MaxInput

(* Names are sequences of parts; no tool but the search has its name.      *)
ASSUME ToolsAssumption ==
  /\ Names \subseteq Seq(STRING) /\ Namespaces \subseteq Seq(STRING) \ {<<>>}
  /\ Search \in Seq(STRING) \ ({<<>>, ApplyPatch} \cup Names)
  /\ \A space \in Namespaces, name \in Names : space \o name # Search

ItemTypes ==
  {"message", "function_call", "function_call_output", "tool_search_call", "tool_search_output",
   "agent_message", "additional_tools", "reasoning", "compaction", "web_search_call"}

(* An id is that of one item of a kind that is referred to by its id.      *)
ASSUME InputAssumption ==
  /\ \A item \in InputItems :
       /\ item.type \in ItemTypes
       /\ item.type = "message" => item.role \in {"system", "developer", "user", "assistant"}
  /\ \A item, other \in InputItems :
       /\ item.type \in {"reasoning", "compaction"} /\ item.id = other.id
       /\ other.type \in {"compaction", "tool_search_output"}
       => item.type = other.type

VARIABLES
  picked,
  declared, discovered, toolChoice, registered, toolSet, duplicate,
  rawInput, transformed, store, stage, sdkInput

toolVars == <<declared, discovered, toolChoice, registered, toolSet, duplicate>>
inputVars == <<rawInput, transformed, store, stage, sdkInput>>

mcVars == <<picked, vars, toolVars, inputVars>>

Tools == INSTANCE ToolNames
Input == INSTANCE ResponsesInput

MCSize == [i \in Images |-> IF i = large THEN 2 ELSE 1]

\* tools whose names meet once their namespace is part of them
MCNames == {<<"a">>, <<"s", "a">>, <<"apply_patch">>}
MCNamespaces == {<<"s">>}
MCSearch == <<"tool_search">>
MCApplyPatch == <<"apply_patch">>

Easy(role, texts) == [type : {"message"}, role : {role}, text : texts, id : {0}]
Other(type, ids) == [type : {type}, role : {"none"}, text : {{}}, id : ids]

\* ids of different kinds of items differ
MCItems ==
  Easy("system", {{}, {"parts"}, {"a"}, {"a", "b"}}) \cup Easy("developer", {{"a"}})
  \cup Easy("user", {{"parts"}, {"a"}, {"a", "b"}}) \cup Easy("assistant", {{"parts"}, {"a"}})
  \cup Other("function_call", {1}) \cup Other("function_call_output", {1, 2})
  \cup Other("tool_search_call", {1}) \cup Other("tool_search_output", {1, 2})
  \cup Other("agent_message", {0}) \cup Other("additional_tools", {0})
  \cup Other("reasoning", {0, 3}) \cup Other("compaction", {4}) \cup Other("web_search_call", {0})

ToolsIdle ==
  /\ declared = <<>> /\ discovered = <<>> /\ toolChoice = <<>>
  /\ registered = 0 /\ toolSet = {} /\ duplicate = FALSE

InputIdle ==
  /\ rawInput = <<>> /\ transformed = FALSE /\ store = FALSE
  /\ stage = "map" /\ sdkInput = <<>>

MCInit ==
  /\ picked \in {"two batches", "small images", "tools", "input"}
  /\ Init
  /\ IF picked = "tools" THEN Tools!Init ELSE ToolsIdle
  /\ IF picked = "input" THEN Input!Init ELSE InputIdle

StoreImages ==
  /\ picked \in {"two batches", "small images"}
  /\ Next
  /\ picked = "two batches" => state'[3] = "idle"
  /\ picked = "small images" => \A b \in Batches : large \notin images'[b]
  /\ UNCHANGED <<toolVars, inputVars>>

TranslateTools == picked = "tools" /\ Tools!Next /\ UNCHANGED <<vars, inputVars>>

TranslateInput == picked = "input" /\ Input!Next /\ UNCHANGED <<vars, toolVars>>

MCNext == UNCHANGED picked /\ (StoreImages \/ TranslateTools \/ TranslateInput)

MCSpec == MCInit /\ [][MCNext]_mcVars /\ WF_vars(Step)

-----------------------------------------------------------------------------
(* What the store keeps has its type and never takes more than the quota,  *)
(* whatever failed.                                                        *)
StoreWithinQuota == TypeOK /\ QuotaHolds

(* Of a request nothing is lost or mistaken on its way to the upstream: a  *)
(* called tool is the one that the client meant, and an OpenAI upstream    *)
(* gets the client's items; see ToolCallsReturn in ToolNames and           *)
(* InputRestored in ResponsesInput.                                        *)
RequestTranslated ==
  /\ picked = "tools" => Tools!ToolCallsReturn
  /\ picked = "input" => Input!InputRestored
=============================================================================
