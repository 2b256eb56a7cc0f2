----------------------------- MODULE CodexCatalog -----------------------------
(***************************************************************************)
(* GET /codex/v1/models: the catalog that the codex command prints is      *)
(* fetched once for all requests (CodexCatalogCache in                     *)
(* src/codex-catalog.ts), and what is built of it kept                     *)
(* (src/server/codex.ts).  A fetch takes its time and may fail.            *)
(***************************************************************************)
EXTENDS Naturals, FiniteSets

CONSTANTS Requests, MaxFetches           \* MaxFetches: a bound of the model

VARIABLES
  fetches,            \* of each fetch so far: how it stands
  inflight,           \* the fetch that is shared, or 0
  cached, cachedModels,
  buildable,          \* whether every template of the settings is in the catalog
  request,            \* of a request: whether it waits, or its answer
  awaits              \* of a request: the fetch that it waited for

vars == <<fetches, inflight, cached, cachedModels, buildable, request, awaits>>

Fetches == 1..MaxFetches

Init ==
  /\ fetches = [f \in Fetches |-> "none"]
  /\ inflight = 0
  /\ cached = FALSE /\ cachedModels = FALSE
  /\ buildable \in BOOLEAN
  /\ request = [r \in Requests |-> "none"]
  /\ awaits = [r \in Requests |-> 0]

Started == {f \in Fetches : fetches[f] # "none"}

(* buildCodexModelsResponse throws if a template is not in the catalog.    *)
Builds(r) ==
  /\ request' = [request EXCEPT ![r] = IF buildable THEN "models" ELSE "failed"]
  /\ cachedModels' = (cachedModels \/ buildable)

Waits(r, fetch) ==
  /\ request' = [request EXCEPT ![r] = "waiting"]
  /\ awaits' = [awaits EXCEPT ![r] = fetch]

Get(r) ==
  /\ request[r] = "none"
  /\ \/ /\ cachedModels
        /\ request' = [request EXCEPT ![r] = "models"]
        /\ UNCHANGED <<fetches, inflight, cachedModels, awaits>>
     \/ /\ ~cachedModels /\ cached
        /\ Builds(r)
        /\ UNCHANGED <<fetches, inflight, awaits>>
     \/ /\ ~cached /\ inflight # 0
        /\ Waits(r, inflight)
        /\ UNCHANGED <<fetches, inflight, cachedModels>>
     \/ /\ ~cached /\ inflight = 0 /\ Started # Fetches
        /\ inflight' = Cardinality(Started) + 1
        /\ fetches' = [fetches EXCEPT ![inflight'] = "running"]
        /\ Waits(r, inflight')
        /\ UNCHANGED cachedModels
  /\ UNCHANGED <<cached, buildable>>

(* Faulty: the promise of a fetch that failed stays.                       *)
Left_Faulty(outcome) == IF outcome = "done" THEN 0 ELSE inflight

\* what the finally of get() leaves of inflight
Left(outcome) == 0

(* The command ends; what it printed may not be a catalog.                 *)
FetchSettles ==
  /\ inflight # 0 /\ fetches[inflight] = "running"
  /\ \E outcome \in {"done", "failed"} :
       /\ fetches' = [fetches EXCEPT ![inflight] = outcome]
       /\ cached' = (outcome = "done")
       /\ inflight' = Left(outcome)
  /\ UNCHANGED <<cachedModels, buildable, request, awaits>>

Resume(r) ==
  /\ request[r] = "waiting" /\ fetches[awaits[r]] # "running"
  /\ IF fetches[awaits[r]] = "done" THEN Builds(r)
     ELSE request' = [request EXCEPT ![r] = "failed"] /\ UNCHANGED cachedModels
  /\ UNCHANGED <<fetches, inflight, cached, buildable, awaits>>

\* the client has its answer and may ask again
Again(r) ==
  /\ request[r] \in {"models", "failed"}
  /\ request' = [request EXCEPT ![r] = "none"]
  /\ awaits' = [awaits EXCEPT ![r] = 0]
  /\ UNCHANGED <<fetches, inflight, cached, cachedModels, buildable>>

Next ==
  \/ FetchSettles
  \/ \E r \in Requests : Get(r) \/ Resume(r) \/ Again(r)

Spec == Init /\ [][Next]_vars

-----------------------------------------------------------------------------
(* The catalog is fetched once at a time, and never again after it was     *)
(* got.  A fetch that failed is the answer of those who waited for it      *)
(* only: who asks later starts another, until one has brought the models.  *)
CatalogFetchedOnce ==
  /\ \A f, g \in Fetches : f < g => fetches[f] = "failed" \/ fetches[g] = "none"
  /\ inflight # 0 => fetches[inflight] = "running"
  /\ \A r \in Requests :
       /\ request[r] = "failed" => ~buildable \/ fetches[awaits[r]] = "failed"
       /\ request[r] = "models" => buildable /\ \E f \in Fetches : fetches[f] = "done"
=============================================================================
