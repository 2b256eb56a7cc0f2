-------------------------------- MODULE Routing --------------------------------
(***************************************************************************)
(* Which model a request's selector leads to (RoutingTable.fromSettings    *)
(* and resolve in src/routing.ts), and which selectors GET /v1/models      *)
(* lists (enumerateModelEntries in src/providers/model-types.ts).  A name  *)
(* or a selector is the sequence of its parts, those between the slashes.  *)
(***************************************************************************)
EXTENDS Naturals, Sequences, SequencesExt, FiniteSets

CONSTANTS
  Parts, Empty,       \* what is between slashes; nothing
  ProviderNames,      \* the names of the providers, in the order of the settings
  Names,              \* those of models
  MaxModels, MaxAliases       \* bounds: of the settings, of a model

VARIABLES
  entries,            \* the models of the settings, in their order
  at,                 \* those that are registered
  flatRoutes,         \* of a name: its model, a place in entries, or 0
  prefixedRoutes,     \* of a selector with a provider
  duplicate           \* fromSettings has thrown

vars == <<entries, at, flatRoutes, prefixedRoutes, duplicate>>

ProviderNumbers == DOMAIN ProviderNames

HasSlash(name) == Len(name) # 1

\* canUseFlatModelSelector
CanUseFlat(name) == ~HasSlash(name) /\ name[1] # Empty

\* `${providerName}/${name}`
Prefixed(p, name) == ProviderNames[p] \o name

Selectors == Names \cup {Prefixed(p, n) : p \in ProviderNumbers, n \in Names}

\* aliasNameSchema: a name that is not empty and has no slash
AliasNames == {n \in Names : CanUseFlat(n)}

(* modelFlat: the model's own flag, its provider's or that of the settings *)
Entry == [provider : ProviderNumbers, modelKey : Names, modelFlat : BOOLEAN,
          aliases : SeqOf([name : AliasNames, flat : BOOLEAN], MaxAliases)]

(* The models of a provider are together, and their keys are distinct.     *)
IsSettings(models) == \A i, j \in DOMAIN models : i < j =>
  /\ models[i].provider <= models[j].provider
  /\ models[i].provider = models[j].provider => models[i].modelKey # models[j].modelKey

Init ==
  /\ entries \in {models \in SeqOf(Entry, MaxModels) : IsSettings(models)}
  /\ at = 0
  /\ flatRoutes = [n \in Names |-> 0]
  /\ prefixedRoutes = [s \in Selectors |-> 0]
  /\ duplicate = FALSE

AliasesOf(entry) == ToSet(entry.aliases)

(* The names under which an entry is there without its provider.           *)
BareNames(entry) ==
  {n \in {entry.modelKey} : entry.modelFlat /\ CanUseFlat(n)}
  \cup {a.name : a \in {a \in AliasesOf(entry) : (entry.modelFlat \/ a.flat) /\ CanUseFlat(a.name)}}

PrefixedNames(entry) == {entry.modelKey} \cup {a.name : a \in AliasesOf(entry)}

PrefixedIds(entry) == {Prefixed(entry.provider, n) : n \in PrefixedNames(entry)}

(* assertPrefixedUnique                                                    *)
IsUnique(entry) ==
  /\ Cardinality(PrefixedNames(entry)) = 1 + Len(entry.aliases)
  /\ \A s \in PrefixedIds(entry) : prefixedRoutes[s] = 0

(* Faulty: the first model keeps a bare name.                              *)
Bare_Faulty(n, i) == IF flatRoutes[n] = 0 THEN i ELSE flatRoutes[n]

\* registerBare: the later model has the name
Bare(n, i) == i

Register ==
  LET i == at + 1
      entry == entries[i]
  IN
  /\ at < Len(entries) /\ ~duplicate
  /\ at' = i
  /\ IF IsUnique(entry) THEN
       /\ prefixedRoutes' =
            [s \in Selectors |-> IF s \in PrefixedIds(entry) THEN i ELSE prefixedRoutes[s]]
       /\ flatRoutes' = [n \in Names |-> IF n \in BareNames(entry) THEN Bare(n, i) ELSE flatRoutes[n]]
       /\ UNCHANGED duplicate
     ELSE duplicate' = TRUE /\ UNCHANGED <<flatRoutes, prefixedRoutes>>
  /\ UNCHANGED entries

Next == Register

Spec == Init /\ [][Next]_vars

-----------------------------------------------------------------------------
(* parseModelSelector, resolve.                                            *)

(* The first slash is the selector's first character, or its last.         *)
IsInvalid(selector) ==
  HasSlash(selector) /\ (selector[1] = Empty \/ (Len(selector) = 2 /\ selector[2] = Empty))

Resolve(selector) ==
  IF IsInvalid(selector) THEN 0
  ELSE IF HasSlash(selector) THEN prefixedRoutes[selector] ELSE flatRoutes[selector]

(* enumerateModelEntries, listModels; modelsById of the app.               *)
Ids(entry) == PrefixedIds(entry) \cup BareNames(entry)

Listing(selector) == {i \in DOMAIN entries : selector \in Ids(entries[i])}

ModelById(selector) ==
  IF Listing(selector) = {} THEN 0 ELSE CHOOSE i \in Listing(selector) : \A j \in Listing(selector) : j <= i

-----------------------------------------------------------------------------
(* The server that starts routes every selector that parses to the model   *)
(* that /v1/models tells of it, the last one if several have its bare name,*)
(* and no other selector to any.  A selector with a provider is listed once*)
(* whatever slashes are in the names it is made of.  What does not parse is*)
(* listed too, but leads nowhere: '/m' of a provider without a name, '/p/m'*)
(* of one whose name begins with a slash, 'p/' of a model without a key.   *)
RoutesAreListed ==
  at = Len(entries) /\ ~duplicate =>
    /\ \A s \in Selectors : Resolve(s) = (IF IsInvalid(s) THEN 0 ELSE ModelById(s))
    /\ \A s \in Selectors : HasSlash(s) => Cardinality(Listing(s)) <= 1
=============================================================================
