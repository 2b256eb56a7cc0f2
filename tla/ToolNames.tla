------------------------------- MODULE ToolNames -------------------------------
(***************************************************************************)
(* The tools of a Responses client at an upstream that knows no namespaces *)
(* (src/providers/openai-responses/protocol.ts, for every provider but     *)
(* OpenAI's): each is offered under one flat name, those of the request    *)
(* and those that earlier searches discovered; what the upstream calls is  *)
(* given its namespace back (resolveNamespacedToolName in renderer.ts).  A *)
(* name is the sequence of its parts, as "__" joins them.                  *)
(***************************************************************************)
EXTENDS Naturals, Sequences, SequencesExt, FiniteSets

CONSTANTS
  Names, Namespaces,          \* sequences of parts
  Search,                     \* the name of the search tool; no tool of the client has it
  ApplyPatch,                 \* the name of Codex's custom tool
  MaxTools                    \* bound: of the declared and of the discovered tools

VARIABLES
  declared,           \* getRequestTools: the tools of the request and of its additional_tools
  discovered,         \* collectDiscoveredToolSearchFunctions
  toolChoice,
  registered,         \* how many of declared and discovered are in the tool set
  toolSet,            \* the tools that are offered
  duplicate           \* addSelectableTool has thrown

vars == <<declared, discovered, toolChoice, registered, toolSet, duplicate>>

Plain(kind, name) == [kind |-> kind, namespace |-> <<>>, name |-> name]

Namespaced == [kind : {"function"}, namespace : Namespaces, name : Names]

SearchTool == Plain("search", Search)

(* What a client declares: one of the functions of a namespace is a tool   *)
(* here.  A hosted tool is left out: these upstreams do not have it.       *)
Declarable ==
  {Plain(kind, name) : kind \in {"function", "custom"}, name \in Names}
  \cup Namespaced \cup {SearchTool, Plain("hosted", <<>>)}

Discoverable == {Plain("function", name) : name \in Names} \cup Namespaced

Init ==
  /\ declared \in SeqOf(Declarable, MaxTools)
  /\ discovered \in SeqOf(Discoverable, MaxTools)
  /\ toolChoice \in {<<>>, Search} \cup Names
  /\ registered = 0 /\ toolSet = {} /\ duplicate = FALSE

-----------------------------------------------------------------------------
(* flattenToolName                                                         *)
Flat(tool) == tool.namespace \o tool.name

Named(n) == {t \in toolSet : Flat(t) = n}

\* a search tool takes the place of another
SetSearch == toolSet' = (toolSet \ Named(Search)) \cup {SearchTool} /\ UNCHANGED duplicate

\* addSelectableTool: any other must be new
AddSelectable(tool) ==
  IF Named(Flat(tool)) = {} THEN toolSet' = toolSet \cup {tool} /\ UNCHANGED duplicate
  ELSE duplicate' = TRUE /\ UNCHANGED toolSet

AddDeclared(tool) ==
  CASE tool.kind = "hosted" -> UNCHANGED <<toolSet, duplicate>>
    [] tool.kind = "search" -> SetSearch
    [] OTHER -> AddSelectable(tool)

(* addDiscoveredToolSearchOutputTools: a name that is there stays as it is.*)
AddDiscovered(tool) ==
  /\ toolSet' = IF Named(Flat(tool)) = {} THEN toolSet \cup {tool} ELSE toolSet
  /\ UNCHANGED duplicate

Register ==
  LET i == registered + 1 IN
  /\ ~duplicate /\ registered < Len(declared) + Len(discovered)
  /\ registered' = i
  /\ IF i <= Len(declared) THEN AddDeclared(declared[i])
     ELSE AddDiscovered(discovered[i - Len(declared)])
  /\ UNCHANGED <<declared, discovered, toolChoice>>

Next == Register

Spec == Init /\ [][Next]_vars

-----------------------------------------------------------------------------
(* What the renderer knows of the request (buildResponsesEnrichment).      *)

customToolNames == {t.name : t \in {t \in ToSet(declared) : t.kind = "custom"}}

toolSearchShimmed == SearchTool \in ToSet(declared)

Collected == declared \o discovered

\* of two with one name the first
FlatEntry(entries) == Collected[CHOOSE i \in entries : \A j \in entries : i <= j]

(* collectNamespaceFlatMap: the declared tools without a namespace are not *)
(* in it.                                                                  *)
FlatEntries(n) ==
  {i \in DOMAIN Collected :
     Flat(Collected[i]) = n /\ (i <= Len(declared) => Collected[i].namespace # <<>>)}

(* apply_patch is taken for a custom tool, whatever it was declared as.    *)
IsCustomToolName(n) == n \in customToolNames \/ n = ApplyPatch

(* isToolSearchShimmed, resolveNamespacedToolName.                         *)
Rendered(n) ==
  IF IsCustomToolName(n) THEN Plain("custom", n)
  ELSE IF n = Search /\ toolSearchShimmed THEN SearchTool
  ELSE IF FlatEntries(n) # {} /\ FlatEntry(FlatEntries(n)).namespace # <<>> THEN
    FlatEntry(FlatEntries(n))
  ELSE Plain("function", n)

(* mapResponsesToolChoice, with a check if there are tools.  <<>> is auto. *)
MappedChoice == IF toolSet = {} \/ Named(toolChoice) # {} THEN toolChoice ELSE <<>>

-----------------------------------------------------------------------------
(* Plain functions whose name a discovered tool has with its namespace.    *)
Shadowed(tool) ==
  /\ tool = Plain("function", tool.name) /\ tool \in ToSet(declared)
  /\ \E t \in ToSet(discovered) : t.namespace # <<>> /\ Flat(t) = tool.name

(* A function that has the name of Codex's custom tool.                    *)
TakenForCustom(tool) == tool.kind = "function" /\ Flat(tool) = ApplyPatch

(* Every tool that the client declared is offered, and those that it       *)
(* discovered unless another has the same flat name.  A call of an offered *)
(* tool comes back to the client as a call of that tool, of its kind, name *)
(* and namespace, but for two: a plain function that is shadowed comes back*)
(* as the other tool, and a function named apply_patch as a custom tool of *)
(* that name.  A tool that the upstream has to call is one that it has.    *)
ToolCallsReturn ==
  registered = Len(declared) + Len(discovered) /\ ~duplicate =>
    /\ \A t \in ToSet(declared) : t.kind = "hosted" \/ t \in toolSet
    /\ \A t \in ToSet(discovered) : Named(Flat(t)) # {}
    /\ \A t \in toolSet :
         /\ Cardinality(Named(Flat(t))) = 1
         /\ \/ Rendered(Flat(t)) = t
            \/ Shadowed(t)
            \/ TakenForCustom(t) /\ Rendered(Flat(t)) = Plain("custom", ApplyPatch)
    /\ toolSet # {} /\ MappedChoice # <<>> => Named(MappedChoice) # {}
=============================================================================
