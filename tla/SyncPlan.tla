------------------------------- MODULE SyncPlan -------------------------------
(***************************************************************************)
(* planModelSyncChanges (src/cli/models/sync-plan.ts): which models of a   *)
(* provider "models sync" writes to the settings, one selected model after *)
(* another.  A model of the settings has a key and the name by which the   *)
(* upstream knows it; a new one has that name for a key.                   *)
(***************************************************************************)
EXTENDS Naturals, Sequences, FiniteSets, Functions

CONSTANTS
  Names,              \* of models, by which the upstream or the settings know them
  NoModel

VARIABLES
  existing,           \* of a key: the upstream's name of its model, or NoModel
  discovered,         \* the names that the upstream has now
  selected,           \* the names that the user leaves or makes selected
  left,               \* those of them to come
  newModels, kept, added

vars == <<existing, discovered, selected, left, newModels, kept, added>>

Keys(models) == {k \in Names : models[k] # NoModel}

KeysOf(name) == {k \in Names : existing[k] = name}

(* getInitialModelSelections: what the prompt shows as selected.           *)
InitialSelections == {existing[k] : k \in Keys(existing)} \cap discovered

Init ==
  /\ existing \in [Names -> Names \cup {NoModel}]
  /\ discovered \in SUBSET Names
  /\ selected \in SUBSET discovered
  /\ left \in {s \in [1..Cardinality(selected) -> selected] : IsInjective(s)}
  /\ newModels = [k \in Names |-> NoModel]
  /\ kept = 0 /\ added = 0

(* Faulty: of the keys that a model has, one is known.                     *)
Keep_Faulty ==
  /\ left # <<>>
  /\ \E k \in KeysOf(Head(left)) : newModels' = [newModels EXCEPT ![k] = Head(left)]
  /\ kept' = kept + 1
  /\ left' = Tail(left)
  /\ UNCHANGED <<existing, discovered, selected, added>>

(* A model that the settings have is kept, under all its keys.             *)
Keep ==
  /\ left # <<>>
  /\ LET keys == KeysOf(Head(left)) IN
       /\ keys # {}
       /\ newModels' = [k \in Names |-> IF k \in keys THEN Head(left) ELSE newModels[k]]
       /\ kept' = kept + Cardinality(keys)
  /\ left' = Tail(left)
  /\ UNCHANGED <<existing, discovered, selected, added>>

Add ==
  /\ left # <<>>
  /\ KeysOf(Head(left)) = {}
  /\ newModels' = [newModels EXCEPT ![Head(left)] = Head(left)]
  /\ added' = added + 1
  /\ left' = Tail(left)
  /\ UNCHANGED <<existing, discovered, selected, kept>>

Next == Keep \/ Add

removed == Cardinality(Keys(existing)) - kept

-----------------------------------------------------------------------------
(* New names that the settings have as the keys of other models.           *)
Clashes == {n \in selected : existing[n] # NoModel /\ KeysOf(n) = {}}

(* The plan is what the user chose: the models that are selected, under    *)
(* the keys they had or under their names, and the counts that are shown   *)
(* are those of the plan.  Only where a new name is the key of another     *)
(* model that stays, one of the two replaces the other.                    *)
PlanIsTheChoice ==
  left = <<>> =>
    /\ \A k \in Names \ Clashes :
         newModels[k] = (IF existing[k] \in selected THEN existing[k]
                         ELSE IF k \in selected /\ KeysOf(k) = {} THEN k ELSE NoModel)
    /\ \A k \in Clashes : newModels[k] \in {k, existing[k]}
    /\ selected = InitialSelections => added = 0
    /\ Clashes = {} =>
         /\ kept + added = Cardinality(Keys(newModels))
         /\ removed = Cardinality(Keys(existing) \ {k \in Keys(newModels) : newModels[k] = existing[k]})
=============================================================================
