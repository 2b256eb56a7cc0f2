----------------------------- MODULE MCKeyFailover -----------------------------
(***************************************************************************)
(* Instances for TLC of what leads a request to its upstream, the key      *)
(* failover, the routes, the Codex catalog and the login of a provider,    *)
(* and of the command that syncs the models in the settings.  A behaviour  *)
(* is one of them, as picked; the variables of the others are unused.      *)
(* Requests are interchangeable, and only invariants are checked.          *)
(***************************************************************************)
EXTENDS KeyFailover, TLC

CONSTANTS
  Parts, Empty, ProviderNames, Names, MaxModels, MaxAliases,
  PluginNames, MaxPlugins, Tools, NoTools,
  MaxFetches,
  Providers, Unknown, MaxLogins, MaxPendingStates, Ttl, MaxTime,
  Commands, Edits, firstFile, dead, None,
  SyncNames, NoModel

ASSUME CatalogAssumption == MaxFetches \in Nat

\* createOAuthCallbackApp throws when maxPendingStates is less than 1
ASSUME OAuthAssumption == MaxPendingStates \in Nat \ {0} /\ Ttl \in Nat

(* The files of the settings have names of their own.                      *)
ASSUME SettingsAssumption ==
  /\ firstFile \notin Commands \cup Edits /\ Commands \cap Edits = {}
  /\ None \notin {firstFile} \cup Commands \cup Edits

(* Bounds are numbers; tools are not the other choices of one, or none.    *)
ASSUME RouteAssumption ==
  /\ MaxModels \in Nat /\ MaxPlugins \in Nat
  /\ {"auto", "none", "required"} \cap Tools = {} /\ \A s \in SUBSET Tools : s # NoTools

(* A name has at least one part.                                           *)
ASSUME NameAssumption ==
  /\ ProviderNames \in Seq(Seq(Parts) \ {<<>>})
  /\ Names \subseteq Seq(Parts) \ {<<>>}

(* The names of the instance: p/x/m is a model of the first provider or of *)
(* the second; the third has no name, and a model may have none.           *)
MCProviderNames == <<<<"p">>, <<"p", "x">>, <<"">>>>
MCNames == {<<"m">>, <<"n">>, <<"x", "m">>, <<"">>}

(* A file of settings and the list of an upstream's models end.            *)
ASSUME PlanAssumption == IsFiniteSet(SyncNames) /\ NoModel \notin SyncNames

VARIABLES
  picked,
  entries, at, flatRoutes, prefixedRoutes, duplicate,
  configured, hasKey, level, resolvedPlugins, tools, disabled, toolChoice, filtered,
  fetches, inflight, cached, cachedModels, buildable, request, awaits,
  now, pendingStates, logins, consumed, exchanges,
  target, inode, lock, proc, saved, late,
  existing, discovered, selected, left, newModels, kept, added

Routes   == INSTANCE Routing
Match    == INSTANCE RouteMatch
Catalog  == INSTANCE CodexCatalog
OAuth    == INSTANCE OAuthCallback
Settings == INSTANCE SettingsWriter WITH first <- firstFile
Plan     == INSTANCE SyncPlan WITH Names <- SyncNames

keyVars      == <<nextIndex, phase, first, current, calls, read, buffered, delivered, open, retryable>>
routeVars    == <<entries, at, flatRoutes, prefixedRoutes, duplicate>>
matchVars    == <<configured, hasKey, level, resolvedPlugins, tools, disabled, toolChoice, filtered>>
catalogVars  == <<fetches, inflight, cached, cachedModels, buildable, request, awaits>>
oauthVars    == <<now, pendingStates, logins, consumed, exchanges>>
settingsVars == <<target, inode, lock, proc, saved, late>>
planVars     == <<existing, discovered, selected, left, newModels, kept, added>>

RoutesUnused  == entries = 0 /\ at = 0 /\ flatRoutes = 0 /\ prefixedRoutes = 0 /\ duplicate = 0
MatchUnused   == /\ configured = 0 /\ hasKey = 0 /\ level = 0 /\ resolvedPlugins = 0 /\ tools = 0 /\ disabled = 0
                 /\ toolChoice = 0 /\ filtered = 0
CatalogUnused == /\ fetches = 0 /\ inflight = 0 /\ cached = 0 /\ cachedModels = 0 /\ buildable = 0
                 /\ request = 0 /\ awaits = 0
OAuthUnused   == now = 0 /\ pendingStates = 0 /\ logins = 0 /\ consumed = 0 /\ exchanges = 0
SettingsUnused == target = 0 /\ inode = 0 /\ lock = 0 /\ proc = 0 /\ saved = 0 /\ late = 0
PlanUnused    == /\ existing = 0 /\ discovered = 0 /\ selected = 0 /\ left = 0 /\ newModels = 0
                 /\ kept = 0 /\ added = 0

MCInit ==
  /\ picked \in {"keys", "routes", "match", "catalog", "oauth", "settings", "plan"}
  /\ Init
  /\ IF picked = "routes" THEN Routes!Init ELSE RoutesUnused
  /\ IF picked = "match" THEN Match!Init ELSE MatchUnused
  /\ IF picked = "catalog" THEN Catalog!Init ELSE CatalogUnused
  /\ IF picked = "oauth" THEN OAuth!Init ELSE OAuthUnused
  /\ IF picked = "settings" THEN Settings!Init ELSE SettingsUnused
  /\ IF picked = "plan" THEN Plan!Init ELSE PlanUnused

MCNext ==
  /\ UNCHANGED picked
  /\ \/ /\ picked = "keys" /\ Next
        /\ UNCHANGED <<routeVars, matchVars, catalogVars, oauthVars, settingsVars, planVars>>
     \/ /\ picked = "routes" /\ Routes!Next
        /\ UNCHANGED <<keyVars, matchVars, catalogVars, oauthVars, settingsVars, planVars>>
     \/ /\ picked = "match" /\ Match!Next
        /\ UNCHANGED <<keyVars, routeVars, catalogVars, oauthVars, settingsVars, planVars>>
     \/ /\ picked = "catalog" /\ Catalog!Next
        /\ UNCHANGED <<keyVars, routeVars, matchVars, oauthVars, settingsVars, planVars>>
     \/ /\ picked = "oauth" /\ OAuth!Next
        /\ UNCHANGED <<keyVars, routeVars, matchVars, catalogVars, settingsVars, planVars>>
     \/ /\ picked = "settings" /\ Settings!Next
        /\ UNCHANGED <<keyVars, routeVars, matchVars, catalogVars, oauthVars, planVars>>
     \/ /\ picked = "plan" /\ Plan!Next
        /\ UNCHANGED <<keyVars, routeVars, matchVars, catalogVars, oauthVars, settingsVars>>

MCvars == <<picked, keyVars, routeVars, matchVars, catalogVars, oauthVars, settingsVars, planVars>>

MCSpec == MCInit /\ [][MCNext]_MCvars

RequestSymmetry == Permutations(Requests)

-----------------------------------------------------------------------------
(* See Routing: a selector leads to the model that is listed under it; and *)
(* RouteMatch: the plugins of a route and the tools of its requests.       *)
RoutesRight ==
  /\ picked = "routes" => Routes!RoutesAreListed
  /\ picked = "match" => Match!RouteApplied

(* See CodexCatalog: one fetch at a time, and a failed one is not kept.    *)
CatalogFetchedOnce == picked = "catalog" => Catalog!CatalogFetchedOnce

(* See OAuthCallback: a login is good for one exchange, and remembered.    *)
LoginsHonoured == picked = "oauth" => OAuth!LoginsHonoured

(* See SettingsWriter: a change that was saved is not lost.                *)
NoLostUpdate == picked = "settings" => Settings!NoLostUpdate

(* See SyncPlan: what is written is what the user chose.                   *)
PlanIsTheChoice == picked = "plan" => Plan!PlanIsTheChoice
=============================================================================
