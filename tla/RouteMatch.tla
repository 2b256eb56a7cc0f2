------------------------------ MODULE RouteMatch ------------------------------
(***************************************************************************)
(* What a route does to its requests (buildRoute in src/routing.ts): the   *)
(* plugins that see the upstream's stream (getPipelinePlugins in           *)
(* src/plugins/registry.ts), and the tools that it takes out of the        *)
(* request (filterDisabledTools in src/tool-filter.ts).                    *)
(***************************************************************************)
EXTENDS Naturals, Sequences, SequencesExt

CONSTANTS
  PluginNames,
  MaxPlugins,         \* bound: of a level
  Tools, NoTools      \* tools by their names; a request without any

Levels == <<"global", "provider", "model">>

(* A plugin of a level as far as this route sees it: one that is available *)
(* and, if it is global, a proxy plugin for all providers or this one.     *)
LevelLists == SeqOf([name : PluginNames, serves : BOOLEAN], MaxPlugins)

VARIABLES
  configured,         \* of a level: its plugins
  hasKey,             \* the model's key is not the empty one
  level,              \* the levels merged so far
  resolvedPlugins,    \* the chain: names, and the level and place of each
  tools, disabled, toolChoice,        \* of a request and its route
  filtered            \* the request that goes on

vars == <<configured, hasKey, level, resolvedPlugins, tools, disabled, toolChoice, filtered>>

ToolChoices == Tools \cup {"auto", "none", "required"}

Nothing == [tools |-> NoTools, toolChoice |-> "auto"]

Init ==
  /\ \/ /\ configured \in [DOMAIN Levels -> LevelLists]
        /\ tools = NoTools /\ disabled = {} /\ toolChoice = "auto"
     \/ /\ configured = [l \in DOMAIN Levels |-> <<>>]
        /\ tools \in SUBSET Tools /\ disabled \in SUBSET Tools /\ toolChoice \in ToolChoices
        /\ toolChoice \in Tools \cup {"required"} => tools # {} /\ toolChoice \in tools \cup {"required"}
  /\ hasKey \in BOOLEAN
  /\ level = 0 /\ resolvedPlugins = <<>>
  /\ filtered = Nothing

-----------------------------------------------------------------------------
(* getPipelinePlugins: a Map keeps the place of a name that is set again.  *)

Place(chain, name) == {i \in DOMAIN chain : chain[i].name = name}

(* Faulty: a plugin that is set again is added.                            *)
Set_Faulty(chain, p) == Append(chain, p)

Set(chain, p) ==
  IF Place(chain, p.name) = {} THEN Append(chain, p)
  ELSE [i \in DOMAIN chain |-> IF chain[i].name = p.name THEN p ELSE chain[i]]

(* An empty key is taken for none: the plugins of such a model are not.    *)
Serves(l, i) == configured[l][i].serves /\ (Levels[l] = "model" => hasKey)

(* The chain with the plugins of a level, one after another.               *)
Merged(chain, l) ==
  LET list == configured[l]
      after[i \in 0..Len(list)] ==
        IF i = 0 THEN chain
        ELSE IF Serves(l, i) THEN Set(after[i - 1], [name |-> list[i].name, from |-> <<l, i>>])
        ELSE after[i - 1]
  IN after[Len(list)]

MergeLevel ==
  /\ level < Len(Levels) /\ level' = level + 1
  /\ resolvedPlugins' = Merged(resolvedPlugins, level')
  /\ UNCHANGED <<configured, hasKey, tools, disabled, toolChoice, filtered>>

-----------------------------------------------------------------------------
(* filterDisabledTools                                                     *)

(* Faulty: a tool that was chosen and is gone stays chosen.                *)
Choice_Faulty(removed, retained) ==
  IF retained = {} /\ toolChoice = "required" THEN "auto" ELSE toolChoice

Choice(removed, retained) ==
  IF toolChoice \in removed \/ (retained = {} /\ toolChoice = "required") THEN "auto" ELSE toolChoice

FilterTools ==
  /\ level = Len(Levels) /\ level' = Len(Levels) + 1
  /\ filtered' =
       IF tools = NoTools \/ tools \cap disabled = {} THEN [tools |-> tools, toolChoice |-> toolChoice]
       ELSE [tools |-> IF tools \ disabled = {} THEN NoTools ELSE tools \ disabled,
             toolChoice |-> Choice(tools \cap disabled, tools \ disabled)]
  /\ UNCHANGED <<configured, hasKey, resolvedPlugins, tools, disabled, toolChoice>>

Next == MergeLevel \/ FilterTools

Spec == Init /\ [][Next]_vars

-----------------------------------------------------------------------------
Serving ==
  {e \in UNION {{l} \X DOMAIN configured[l] : l \in DOMAIN Levels} : Serves(e[1], e[2])}

Named(name) == {e \in Serving : configured[e[1]][e[2]].name = name}

Before(e, f) == e[1] < f[1] \/ (e[1] = f[1] /\ e[2] < f[2])

(* The chain has every plugin that serves the route once, as the most      *)
(* specific level (the last entry of it) configures it, in the order of    *)
(* their first entries; the level of the model is the last one only if the *)
(* model has a key, else that of its provider is.                          *)
PluginsLayered ==
  level >= Len(Levels) =>
    /\ \A e \in Serving : \E k \in DOMAIN resolvedPlugins : e \in Named(resolvedPlugins[k].name)
    /\ \A k \in DOMAIN resolvedPlugins :
         LET plugin == resolvedPlugins[k] IN
           /\ plugin.from \in Named(plugin.name)
           /\ \A e \in Named(plugin.name) : ~Before(plugin.from, e)
    /\ \A k, m \in DOMAIN resolvedPlugins : k < m =>
         \E e \in Named(resolvedPlugins[k].name) :
           \A f \in Named(resolvedPlugins[m].name) : Before(e, f)

(* What goes on has no disabled tool and all others; its choice is the     *)
(* client's unless that asks for a tool that is gone, and is never a tool  *)
(* that is not there.                                                      *)
ToolsConsistent ==
  level > Len(Levels) =>
    LET there == IF filtered.tools = NoTools THEN {} ELSE filtered.tools IN
      /\ there = (IF tools = NoTools THEN {} ELSE tools \ disabled)
      /\ filtered.toolChoice \in Tools => filtered.toolChoice \in there
      /\ filtered.toolChoice = "required" => there # {}
      /\ filtered.toolChoice # toolChoice => toolChoice \in disabled \/ there = {}

RouteApplied == PluginsLayered /\ ToolsConsistent
=============================================================================
