------------------------------- MODULE AuthFile -------------------------------
(***************************************************************************)
(* auth.json (src/oauth/token-store.ts): one file that holds the tokens of *)
(* the OAuth providers and a subtree for each auth plugin, updated by the  *)
(* token manager (saveTokenStore) and by the plugins' stores (PluginStore. *)
(* set, src/plugins/store-adapter.ts) of one process.  An update waits for *)
(* the one called before it, reads the file, changes its own part, writes  *)
(* a temporary file and renames it into place.  The process may be killed  *)
(* between any two steps and started again.                                *)
(***************************************************************************)
EXTENDS Naturals, Sequences

CONSTANTS
  Providers,          \* providers with an oauth section
  Plugins,            \* plugins with a store
  Updates,            \* the calls, each made once: the bound of the model
  None                \* no entry

ASSUME NoneIsNoEntry == None \notin Updates \cup Plugins

(* A token or a plugin's data is known by the update that wrote it.        *)
Versions == Updates \cup {None}
Tokens   == [Providers -> Versions]
Subtrees == [Plugins -> Versions]

(* A file that is absent reads as one without entries; one that is not a   *)
(* JSON object is not valid.                                               *)
Contents == [valid : BOOLEAN, tokens : Tokens, plugins : Subtrees]

(* A change gives the whole token store, or one plugin's subtree.          *)
Changes == [tokens : Tokens, plugin : Plugins \cup {None}, value : Versions]

VARIABLES
  file,               \* auth.json
  temporaries,        \* the updates whose temporary file is in the directory
  store,              \* TokenManager.store
  loaded,             \* whether a token manager was created: its load succeeded
  change,             \* of each update: the change it was called with
  authFileLocks,      \* the chain of updates, in call order
  pc,                 \* of each update: the step it is at
  content,            \* of each update: what it writes
  failing,            \* the updates whose step has failed
  answer              \* what the caller was told: none, ok, failed, or lost in a crash

vars == <<file, temporaries, store, loaded, change, authFileLocks, pc, content, failing, answer>>

Steps   == {"idle", "called", "loaded", "written", "renamed", "finishing", "abandoning"}
Answers == {"none", "ok", "failed", "lost"}
Empty   == [valid |-> TRUE, tokens |-> [p \in Providers |-> None],
            plugins |-> [g \in Plugins |-> None]]
Unreadable == [valid |-> FALSE, tokens |-> Empty.tokens, plugins |-> Empty.plugins]
NoChange == [tokens |-> Empty.tokens, plugin |-> None, value |-> None]

Init ==
  /\ file \in {Empty, Unreadable}
  /\ temporaries = {}
  /\ store = Empty.tokens
  /\ loaded = file.valid
  /\ change = [u \in Updates |-> NoChange]
  /\ authFileLocks = <<>>
  /\ pc = [u \in Updates |-> "idle"]
  /\ content = [u \in Updates |-> Empty]
  /\ failing = {}
  /\ answer = [u \in Updates |-> "none"]

-----------------------------------------------------------------------------
(* The updates.                                                            *)

(* Faulty: the token store is written without what else the file holds.    *)
MergedTokens_Faulty(c, d) == [valid |-> TRUE, tokens |-> c.tokens]

(* mergeTokenStore: the tokens of the store, none of the others.           *)
MergedTokens(c, d) == [valid |-> TRUE, tokens |-> c.tokens, plugins |-> d.plugins]

MergedPlugin(c, d) == [valid |-> TRUE, tokens |-> d.tokens,
                       plugins |-> [d.plugins EXCEPT ![c.plugin] = c.value]]

Changed(c, d) == IF c.plugin = None THEN MergedTokens(c, d) ELSE MergedPlugin(c, d)

SavesTokens(u) == pc[u] # "idle" /\ change[u].plugin = None

Begin(u, c) ==
  /\ pc[u] = "idle"
  /\ answer[u] = "none"
  /\ change' = [change EXCEPT ![u] = c]
  /\ pc' = [pc EXCEPT ![u] = "called"]
  /\ authFileLocks' = Append(authFileLocks, u)
  /\ UNCHANGED <<file, temporaries, store, loaded, content, failing, answer>>

(* saveTokenStore, which persistToken calls one at a time.                 *)
SaveTokenStore(u, p) ==
  /\ loaded
  /\ \A v \in Updates : ~SavesTokens(v)
  /\ Begin(u, [tokens |-> [store EXCEPT ![p] = u], plugin |-> None, value |-> None])

(* PluginStore.set                                                         *)
SetPluginStore(u, g) == Begin(u, [tokens |-> Empty.tokens, plugin |-> g, value |-> u])

-----------------------------------------------------------------------------
(* The steps of updateAuthFile.                                            *)

IsTurn_Faulty(u) == \E i \in DOMAIN authFileLocks : authFileLocks[i] = u

IsTurn(u) == authFileLocks # <<>> /\ Head(authFileLocks) = u

Goto(u, step) == pc' = [pc EXCEPT ![u] = step]

Unaffected == <<store, loaded, change, authFileLocks, answer>>

(* Faulty: an update that failed is not caught in the chain, and the next  *)
(* one never starts.                                                       *)
Released_Faulty(u, ok) == IF ok THEN Tail(authFileLocks) ELSE authFileLocks

Released(u, ok) == Tail(authFileLocks)

(* The update settles: its caller goes on, and so does the next update.    *)
Settle(u, ok) ==
  /\ Goto(u, "idle")
  /\ answer' = [answer EXCEPT ![u] = IF ok THEN "ok" ELSE "failed"]
  /\ store' = IF ok /\ SavesTokens(u) THEN change[u].tokens ELSE store
  /\ authFileLocks' = Released(u, ok)
  /\ content' = [content EXCEPT ![u] = Empty]
  /\ failing' = failing \ {u}
  /\ UNCHANGED <<file, loaded, change>>

LoadAuthFile(u) ==
  /\ IsTurn(u)
  /\ pc[u] = "called"
  /\ \/ /\ file.valid
        /\ Goto(u, "loaded")
        /\ content' = [content EXCEPT ![u] = Changed(change[u], file)]
        /\ UNCHANGED <<file, temporaries, failing, Unaffected>>
     \/ Settle(u, FALSE) /\ UNCHANGED temporaries

(* A step of saveAuthFile that throws goes on with the finally block.      *)
Fail(u, step) ==
  /\ Goto(u, step)
  /\ failing' = failing \cup {u}
  /\ UNCHANGED <<file, content, Unaffected>>

WriteTemporary(u) ==
  /\ pc[u] = "loaded"
  /\ \/ /\ Goto(u, "written")
        /\ temporaries' = temporaries \cup {u}
        /\ UNCHANGED <<file, content, failing, Unaffected>>
     \/ /\ Fail(u, "abandoning")
        /\ temporaries' \in {temporaries, temporaries \cup {u}}

Rename(u) ==
  /\ pc[u] = "written"
  /\ \/ /\ Goto(u, "renamed")
        /\ file' = content[u]
        /\ temporaries' = temporaries \ {u}
        /\ UNCHANGED <<content, failing, Unaffected>>
     \/ Fail(u, "abandoning") /\ UNCHANGED temporaries

Chmod(u) ==
  /\ pc[u] = "renamed"
  /\ \/ /\ Goto(u, "finishing")
        /\ UNCHANGED <<file, temporaries, content, failing, Unaffected>>
     \/ Fail(u, "finishing") /\ UNCHANGED temporaries

(* The finally block of saveAuthFile: after the rename there is nothing to *)
(* remove.                                                                 *)
UnlinkTemporary(u) ==
  /\ pc[u] \in {"finishing", "abandoning"}
  /\ \/ /\ Settle(u, u \notin failing)
        /\ temporaries' = temporaries \ {u}
     \/ Settle(u, FALSE) /\ UNCHANGED temporaries

-----------------------------------------------------------------------------
(* The process is killed, and started again.                               *)
Crash ==
  /\ answer' = [u \in Updates |-> IF pc[u] # "idle" THEN "lost" ELSE answer[u]]
  /\ pc' = [u \in Updates |-> "idle"]
  /\ authFileLocks' = <<>>
  /\ loaded' = file.valid
  /\ store' = IF file.valid THEN file.tokens ELSE Empty.tokens
  /\ content' = [u \in Updates |-> Empty]
  /\ failing' = {}
  /\ UNCHANGED <<file, temporaries, change>>

Update(u) ==
  LoadAuthFile(u) \/ WriteTemporary(u) \/ Rename(u) \/ Chmod(u) \/ UnlinkTemporary(u)

Next ==
  \/ \E u \in Updates :
       \/ \E p \in Providers : SaveTokenStore(u, p)
       \/ \E g \in Plugins : SetPluginStore(u, g)
       \/ Update(u)
  \/ Crash

(* A file operation ends, one way or another.                              *)
Spec == Init /\ [][Next]_vars /\ \A u \in Updates : WF_vars(Update(u))

-----------------------------------------------------------------------------
(* Every variable keeps its type; a written file keeps both its parts.     *)
TypeOK ==
  /\ file \in Contents
  /\ temporaries \subseteq Updates
  /\ store \in Tokens
  /\ loaded \in BOOLEAN
  /\ change \in [Updates -> Changes]
  /\ authFileLocks \in Seq(Updates)
  /\ pc \in [Updates -> Steps]
  /\ content \in [Updates -> Contents]
  /\ failing \subseteq Updates
  /\ answer \in [Updates -> Answers]

(* auth.json behaves like an atomic store: no update loses another's       *)
(* change, no step or crash leaves a partial one, success means applied.   *)
Abstract == INSTANCE AuthStore WITH
  data <- file,
  queue <- authFileLocks,
  applied <- authFileLocks # <<>> /\ pc[Head(authFileLocks)] \in {"renamed", "finishing"}

IsAtomicStore == Abstract!Spec

(* An update is answered, even after an earlier one has failed.            *)
UpdateAnswered == \A u \in Updates : pc[u] = "called" ~> pc[u] = "idle"
=============================================================================
