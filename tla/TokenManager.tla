----------------------------- MODULE TokenManager -----------------------------
(***************************************************************************)
(* The OAuth token manager of src/oauth/token-manager.ts: the in-memory    *)
(* token store of the proxy, its single-flight refreshes with cancellable  *)
(* waiters, the authorization-code exchanges that take precedence over     *)
(* them, and the queue that serialises the writes to auth.json.            *)
(*                                                                         *)
(* JavaScript runs one continuation at a time, so an action is what runs   *)
(* between two awaits.  A promise that settles wakes its waiters in a later *)
(* continuation: settling (Settle) and resuming (LeaveWait) are two        *)
(* actions, and a cancellation may fall in between.                        *)
(*                                                                         *)
(* A definition named after the one below it with a suffix _Faulty is a    *)
(* plausible bug in that code: replacing the definition by it must break   *)
(* a property, which shows that the property depends on that code.         *)
(***************************************************************************)
EXTENDS Naturals, Sequences, FiniteSets

CONSTANTS
  Providers,          \* provider names with an oauth section
  ClientCredentials,  \* the providers whose flow is client_credentials
  Callers,            \* concurrent requests, logins and start-up checks
  MaxGeneration       \* bound: operations begun per provider

ASSUME ConstantsAssumption ==
  /\ Providers # {}
  /\ ClientCredentials \subseteq Providers
  /\ IsFiniteSet(Callers)
  /\ MaxGeneration \in Nat

Generation == 1 .. MaxGeneration
Operations == Providers \X Generation

(* A token is known by the operation that obtained it (0: read from        *)
(* auth.json by load) and by whether it carries a refresh_token.  An       *)
(* absent entry is a generation-0 token that is expired and has no refresh *)
(* token: ensureValidToken treats the two alike.                           *)
Token == [generation : 0 .. MaxGeneration, refresh : BOOLEAN]
Store == [Providers -> Token]

NoToken == [generation |-> 0, refresh |-> FALSE]

Status  == {"pending", "ok", "failed"}
Outcome == [status : Status, token : Token]
NoOutcome == [status |-> "pending", token |-> NoToken]

VARIABLES
  store,                        \* this.store
  disk,                         \* the tokens auth.json holds
  expired,                      \* per provider, the generations whose token has under 30 s left
  nextProviderGeneration,
  persistedProviderGeneration,
  refreshLocks,                 \* generation of the refresh a provider is locked by, or 0
  exchangeLocks,                \* generations of the exchanges a provider waits for
  pendingRefreshOperations,
  storeMutationQueue,           \* operations whose mutation is chained, in order
  nextStore,                    \* what the running mutation saves; store when none runs
  kind, phase,                  \* of each operation
  aborted,                      \* its AbortSignal
  activeWaiters,
  currentToken,                 \* the token a refresh was started from
  outcome,                      \* what its promise settles with
  pc, waitsFor,                 \* of each caller: where it waits, and for which operations
  drain, drained,               \* waitForPendingRefreshes and its snapshot
  handedOut                     \* history: per provider, the newest generation a caller was given

opVars    == <<kind, phase, aborted, activeWaiters, currentToken, outcome>>
storeVars == <<store, disk, expired, persistedProviderGeneration, nextStore>>
lockVars  == <<nextProviderGeneration, refreshLocks, exchangeLocks, pendingRefreshOperations>>
callVars  == <<pc, waitsFor, handedOut>>
drainVars == <<drain, drained>>
vars == <<opVars, storeVars, lockVars, callVars, drainVars, storeMutationQueue>>

Kinds  == {"none", "refresh", "exchange"}
Phases == {"none", "fetching", "queued", "saving", "returning", "settled"}
PCs    == {"idle", "awaitingExchange", "waiting", "leaving", "exchanging"}

-----------------------------------------------------------------------------
(* load() at start-up: any mix of absent, valid and expired tokens.        *)
Init ==
  /\ store \in [Providers -> {t \in Token : t.generation = 0}]
  /\ disk = store
  /\ nextStore = store
  /\ expired \in [Providers -> SUBSET {0}]
  /\ nextProviderGeneration = [p \in Providers |-> 0]
  /\ persistedProviderGeneration = [p \in Providers |-> 0]
  /\ refreshLocks = [p \in Providers |-> 0]
  /\ exchangeLocks = [p \in Providers |-> {}]
  /\ pendingRefreshOperations = {}
  /\ storeMutationQueue = <<>>
  /\ kind = [o \in Operations |-> "none"]
  /\ phase = [o \in Operations |-> "none"]
  /\ aborted = [o \in Operations |-> FALSE]
  /\ activeWaiters = [o \in Operations |-> 0]
  /\ currentToken = [o \in Operations |-> NoToken]
  /\ outcome = [o \in Operations |-> NoOutcome]
  /\ pc = [c \in Callers |-> "idle"]
  /\ waitsFor = [c \in Callers |-> {}]
  /\ handedOut = [p \in Providers |-> 0]
  /\ drain = "idle"
  /\ drained = {}

-----------------------------------------------------------------------------
(* isTokenValid: not within 30 s of its expiry.                            *)
Valid(p) == store[p].generation \notin expired[p]

(* resolveRefreshFlow                                                      *)
CanRefresh(p) == p \in ClientCredentials \/ store[p].refresh

(* beginProviderOperation: the generation an operation is given.           *)
NewGeneration(p) == nextProviderGeneration[p] + 1

NewOperation(p) == <<p, NewGeneration(p)>>

BeginOperation(p, k) ==
  LET o == NewOperation(p) IN
  /\ NewGeneration(p) <= MaxGeneration
  /\ nextProviderGeneration' = [nextProviderGeneration EXCEPT ![p] = NewGeneration(p)]
  /\ kind' = [kind EXCEPT ![o] = k]
  /\ phase' = [phase EXCEPT ![o] = "fetching"]
  /\ currentToken' = [currentToken EXCEPT ![o] = store[p]]

HandOut(p, g) == [handedOut EXCEPT ![p] = IF @ < g THEN g ELSE @]

(* Caller c returns to its own code, or waits for operations ops.          *)
Return(c) ==
  /\ pc' = [pc EXCEPT ![c] = "idle"]
  /\ waitsFor' = [waitsFor EXCEPT ![c] = {}]

Wait(c, at, ops) ==
  /\ pc' = [pc EXCEPT ![c] = at]
  /\ waitsFor' = [waitsFor EXCEPT ![c] = ops]

-----------------------------------------------------------------------------
(* ensureValidToken: one action per way its synchronous part can go.  It   *)
(* is entered by a new call, and again by a call whose awaited exchanges   *)
(* have all settled.                                                       *)
PendingExchanges(p) == {p} \X exchangeLocks[p]

Enters(c, p) ==
  \/ pc[c] = "idle"
  \/ /\ pc[c] = "awaitingExchange"
     /\ \A o \in waitsFor[c] : o[1] = p
     /\ waitsFor[c] \cap PendingExchanges(p) = {}

LoginPending_Faulty(p) == FALSE

LoginPending(p) == exchangeLocks[p] # {}

AwaitExchanges(c, p) ==
  /\ Enters(c, p)
  /\ LoginPending(p)
  /\ Wait(c, "awaitingExchange", PendingExchanges(p))
  /\ UNCHANGED <<handedOut, opVars, storeVars, lockVars, drainVars, storeMutationQueue>>

ReturnCached(c, p) ==
  /\ Enters(c, p)
  /\ ~LoginPending(p)
  /\ Valid(p)
  /\ Return(c)
  /\ handedOut' = HandOut(p, store[p].generation)
  /\ UNCHANGED <<opVars, storeVars, lockVars, drainVars, storeMutationQueue>>

RequireLogin(c, p) ==
  /\ Enters(c, p)
  /\ ~LoginPending(p)
  /\ ~Valid(p)
  /\ refreshLocks[p] = 0
  /\ ~CanRefresh(p)
  /\ Return(c)
  /\ UNCHANGED <<handedOut, opVars, storeVars, lockVars, drainVars, storeMutationQueue>>

JoinedWaiters_Faulty(o) == activeWaiters

JoinedWaiters(o) == [activeWaiters EXCEPT ![o] = @ + 1]

JoinRefresh(c, p) ==
  LET o == <<p, refreshLocks[p]>> IN
  /\ Enters(c, p)
  /\ ~LoginPending(p)
  /\ ~Valid(p)
  /\ refreshLocks[p] # 0
  /\ activeWaiters' = JoinedWaiters(o)
  /\ Wait(c, "waiting", {o})
  /\ UNCHANGED <<handedOut, kind, phase, aborted, currentToken, outcome, storeVars, lockVars,
                 drainVars, storeMutationQueue>>

StartRefresh(c, p) ==
  LET o == NewOperation(p) IN
  /\ Enters(c, p)
  /\ ~LoginPending(p)
  /\ ~Valid(p)
  /\ refreshLocks[p] = 0
  /\ CanRefresh(p)
  /\ BeginOperation(p, "refresh")
  /\ refreshLocks' = [refreshLocks EXCEPT ![p] = o[2]]
  /\ pendingRefreshOperations' = pendingRefreshOperations \cup {o}
  /\ activeWaiters' = [activeWaiters EXCEPT ![o] = 1]
  /\ Wait(c, "waiting", {o})
  /\ UNCHANGED <<handedOut, aborted, outcome, storeVars, exchangeLocks, drainVars,
                 storeMutationQueue>>

(* exchangeCode, called for authorization_code providers only.             *)
ExchangeCode(c, p) ==
  LET o == NewOperation(p) IN
  /\ pc[c] = "idle"
  /\ p \notin ClientCredentials
  /\ BeginOperation(p, "exchange")
  /\ exchangeLocks' = [exchangeLocks EXCEPT ![p] = @ \cup {o[2]}]
  /\ Wait(c, "exchanging", {o})
  /\ UNCHANGED <<handedOut, aborted, activeWaiters, outcome, storeVars, refreshLocks,
                 pendingRefreshOperations, drainVars, storeMutationQueue>>

-----------------------------------------------------------------------------
(* The caller's own AbortSignal fires.                                     *)

(* waitForRefresh: the race rejects, its finally block runs in LeaveWait.  *)
(* Faulty: only the last waiter's signal is listened to.                   *)
Interruptible_Faulty(c) ==
  pc[c] = "waiting" /\ \A o \in waitsFor[c] : activeWaiters[o] = 1

Interruptible(c) == pc[c] = "waiting"

AbortWaiting(c) ==
  /\ Interruptible(c)
  /\ pc' = [pc EXCEPT ![c] = "leaving"]
  /\ UNCHANGED <<opVars, storeVars, lockVars, drainVars, storeMutationQueue, waitsFor, handedOut>>

(* waitForOperation around the exchanges ensureValidToken waits for.       *)
AbortAwaiting(c) ==
  /\ pc[c] = "awaitingExchange"
  /\ Return(c)
  /\ UNCHANGED <<handedOut, opVars, storeVars, lockVars, drainVars, storeMutationQueue>>

(* waitForOperation around doExchangeCode: the caller and the exchange     *)
(* lock are released at once, while doExchangeCode may still persist.      *)
AbortExchange(c, o) ==
  /\ pc[c] = "exchanging"
  /\ waitsFor[c] = {o}
  /\ aborted' = [aborted EXCEPT ![o] = TRUE]
  /\ exchangeLocks' = [exchangeLocks EXCEPT ![o[1]] = @ \ {o[2]}]
  /\ Return(c)
  /\ UNCHANGED <<handedOut, kind, phase, activeWaiters, currentToken, outcome, storeVars,
                 nextProviderGeneration, refreshLocks, pendingRefreshOperations,
                 drainVars, storeMutationQueue>>

-----------------------------------------------------------------------------
(* doRefresh and doExchangeCode, from the token endpoint's answer on.      *)

(* A refresh_token grant keeps the refresh token it used when the answer   *)
(* has none; the other grants have only what the answer carries.           *)
KeepsRefreshToken(o) ==
  kind[o] = "refresh" /\ o[1] \notin ClientCredentials /\ currentToken[o].refresh

FetchAnswered(o) ==
  /\ phase[o] = "fetching"
  /\ ~aborted[o]
  /\ phase' = [phase EXCEPT ![o] = "queued"]
  /\ \E carried \in BOOLEAN :
       outcome' = [outcome EXCEPT ![o] =
         [status |-> "pending",
          token |-> [generation |-> o[2], refresh |-> carried \/ KeepsRefreshToken(o)]]]
  /\ storeMutationQueue' = Append(storeMutationQueue, o)
  /\ UNCHANGED <<kind, aborted, activeWaiters, currentToken, storeVars, lockVars,
                 callVars, drainVars>>

FailedOutcome == [status |-> "failed", token |-> NoToken]

(* A network, HTTP or JSON error, or the operation's signal.               *)
FetchFailed(o) ==
  /\ phase[o] = "fetching"
  /\ phase' = [phase EXCEPT ![o] = "returning"]
  /\ outcome' = [outcome EXCEPT ![o] = FailedOutcome]
  /\ UNCHANGED <<kind, aborted, activeWaiters, currentToken, storeVars, lockVars,
                 callVars, drainVars, storeMutationQueue>>

(* persistToken: the mutation at the head of the queue starts once the one *)
(* before it has settled.                                                  *)
IsNextMutation_Faulty(o) == phase[o] = "queued"

IsNextMutation(o) ==
  /\ phase[o] = "queued"
  /\ storeMutationQueue # <<>>
  /\ Head(storeMutationQueue) = o

Superseded_Faulty(o) == FALSE

Superseded(o) == o[2] < persistedProviderGeneration[o[1]]

SupersededOutcome_Faulty(o) == [status |-> "ok", token |-> currentToken[o]]

SupersededOutcome(o) == [status |-> "ok", token |-> store[o[1]]]

(* A newer operation has persisted: its token is returned, nothing saved.  *)
SkipSave(o) ==
  /\ IsNextMutation(o)
  /\ Superseded(o)
  /\ phase' = [phase EXCEPT ![o] = "returning"]
  /\ outcome' = [outcome EXCEPT ![o] = SupersededOutcome(o)]
  /\ storeMutationQueue' = Tail(storeMutationQueue)
  /\ UNCHANGED <<kind, aborted, activeWaiters, currentToken, storeVars, lockVars,
                 callVars, drainVars>>

BeginSave(o) ==
  /\ IsNextMutation(o)
  /\ ~Superseded(o)
  /\ phase' = [phase EXCEPT ![o] = "saving"]
  /\ nextStore' = [store EXCEPT ![o[1]] = outcome[o].token]
  /\ UNCHANGED <<kind, aborted, activeWaiters, currentToken, outcome, store, disk, expired,
                 persistedProviderGeneration, lockVars, callVars, drainVars, storeMutationQueue>>

SaveSucceeded(o) ==
  /\ phase[o] = "saving"
  /\ phase' = [phase EXCEPT ![o] = "returning"]
  /\ disk' = nextStore
  /\ store' = nextStore
  /\ nextStore' = nextStore
  /\ persistedProviderGeneration' = [persistedProviderGeneration EXCEPT ![o[1]] = o[2]]
  /\ outcome' = [outcome EXCEPT ![o].status = "ok"]
  /\ storeMutationQueue' = Tail(storeMutationQueue)
  /\ UNCHANGED <<kind, aborted, activeWaiters, currentToken, expired, lockVars, callVars,
                 drainVars>>

(* Faulty: the error of the save is swallowed.                             *)
SaveFailedOutcome_Faulty(o) == [outcome[o] EXCEPT !.status = "ok"]

SaveFailedOutcome(o) == FailedOutcome

(* persistence.save rejects, before auth.json was renamed into place or    *)
(* after it (chmod, the removal of the temporary file).                    *)
SaveFailed(o) ==
  /\ phase[o] = "saving"
  /\ phase' = [phase EXCEPT ![o] = "returning"]
  /\ disk' \in {disk, nextStore}
  /\ nextStore' = store
  /\ outcome' = [outcome EXCEPT ![o] = SaveFailedOutcome(o)]
  /\ storeMutationQueue' = Tail(storeMutationQueue)
  /\ UNCHANGED <<kind, aborted, activeWaiters, currentToken, store, expired,
                 persistedProviderGeneration, lockVars, callVars, drainVars>>

-----------------------------------------------------------------------------
(* The operation's promise settles.                                        *)

Waiters(o, at) == {c \in Callers : pc[c] = at /\ waitsFor[c] = {o}}

(* The callers that wait at a place are given a token, or an error.        *)
Deliver(o, callers) ==
  handedOut' = IF callers # {} /\ outcome[o].status = "ok"
               THEN HandOut(o[1], outcome[o].token.generation)
               ELSE handedOut

(* The lock is deleted only while it is the operation's own.               *)
Unlocked_Faulty(o) == [refreshLocks EXCEPT ![o[1]] = 0]

Unlocked(o) == [refreshLocks EXCEPT ![o[1]] = IF @ = o[2] THEN 0 ELSE @]

(* finishRefreshOperation, then the race of every caller still waiting.    *)
SettleRefresh(o) ==
  LET waiters == Waiters(o, "waiting") IN
  /\ phase[o] = "returning"
  /\ kind[o] = "refresh"
  /\ phase' = [phase EXCEPT ![o] = "settled"]
  /\ pendingRefreshOperations' = pendingRefreshOperations \ {o}
  /\ refreshLocks' = Unlocked(o)
  /\ pc' = [c \in Callers |-> IF c \in waiters THEN "leaving" ELSE pc[c]]
  /\ Deliver(o, waiters)
  /\ UNCHANGED <<kind, aborted, activeWaiters, currentToken, outcome, storeVars,
                 nextProviderGeneration, exchangeLocks, waitsFor, drainVars, storeMutationQueue>>

(* finishExchangeOperation, unless the cancellation has run it already.    *)
SettleExchange(o) ==
  LET login == Waiters(o, "exchanging") IN
  /\ phase[o] = "returning"
  /\ kind[o] = "exchange"
  /\ phase' = [phase EXCEPT ![o] = "settled"]
  /\ exchangeLocks' = [exchangeLocks EXCEPT ![o[1]] = @ \ {o[2]}]
  /\ pc' = [c \in Callers |-> IF c \in login THEN "idle" ELSE pc[c]]
  /\ waitsFor' = [c \in Callers |-> IF c \in login THEN {} ELSE waitsFor[c]]
  /\ Deliver(o, login)
  /\ UNCHANGED <<kind, aborted, activeWaiters, currentToken, outcome, storeVars,
                 nextProviderGeneration, refreshLocks, pendingRefreshOperations,
                 drainVars, storeMutationQueue>>

(* The finally block of waitForRefresh: the last caller to leave a refresh *)
(* that has not settled releases its lock and cancels it.                  *)
AbandonsAnyway_Faulty(o) == phase[o] # "settled"

AbandonsNever_Faulty(o) == FALSE

Abandons(o) == activeWaiters[o] = 1 /\ phase[o] # "settled"

LeaveWait(c, o) ==
  /\ pc[c] = "leaving"
  /\ waitsFor[c] = {o}
  /\ Return(c)
  /\ activeWaiters' = [activeWaiters EXCEPT ![o] = @ - 1]
  /\ refreshLocks' = IF Abandons(o) THEN Unlocked(o) ELSE refreshLocks
  /\ aborted' = [aborted EXCEPT ![o] = @ \/ Abandons(o)]
  /\ UNCHANGED <<handedOut, kind, phase, currentToken, outcome, storeVars,
                 nextProviderGeneration, exchangeLocks, pendingRefreshOperations, drainVars,
                 storeMutationQueue>>

-----------------------------------------------------------------------------
(* waitForPendingRefreshes: await a snapshot, and loop while more are      *)
(* pending.                                                                *)
(* Faulty: one snapshot is awaited and no second look taken.               *)
NothingPending_Faulty == drain = "waiting" \/ pendingRefreshOperations = {}

NothingPending == pendingRefreshOperations = {}

DrainPending ==
  /\ \/ drain = "idle"
     \/ drain = "waiting" /\ \A o \in drained : phase[o] = "settled"
  /\ drained' = pendingRefreshOperations
  /\ drain' = IF NothingPending THEN "done" ELSE "waiting"
  /\ UNCHANGED <<opVars, storeVars, lockVars, callVars, storeMutationQueue>>

(* Time passes: the stored token comes within 30 s of its expiry.          *)
Expire(p) ==
  /\ Valid(p)
  /\ expired' = [expired EXCEPT ![p] = @ \cup {store[p].generation}]
  /\ UNCHANGED <<opVars, store, disk, persistedProviderGeneration, nextStore, lockVars,
                 callVars, drainVars, storeMutationQueue>>

-----------------------------------------------------------------------------
EnsureValidToken(c, p) ==
  \/ AwaitExchanges(c, p)
  \/ ReturnCached(c, p)
  \/ RequireLogin(c, p)
  \/ JoinRefresh(c, p)
  \/ StartRefresh(c, p)

Settle(o) == SettleRefresh(o) \/ SettleExchange(o)

Mutate(o) ==
  SkipSave(o) \/ BeginSave(o) \/ SaveSucceeded(o) \/ SaveFailed(o)

Next ==
  \/ \E c \in Callers, p \in Providers : EnsureValidToken(c, p) \/ ExchangeCode(c, p)
  \/ \E c \in Callers : AbortWaiting(c) \/ AbortAwaiting(c)
  \/ \E o \in Operations :
       \/ \E c \in Callers : AbortExchange(c, o) \/ LeaveWait(c, o)
       \/ FetchAnswered(o) \/ FetchFailed(o) \/ Mutate(o) \/ Settle(o)
  \/ DrainPending
  \/ \E p \in Providers : Expire(p)

Spec == Init /\ [][Next]_vars

(* What the code guarantees by itself: continuations run, file operations  *)
(* end, an aborted fetch rejects, and a request leaves at its deadline     *)
(* (withRequestTimeout aborts the signal ensureValidToken was given).  The *)
(* token endpoint may never answer, and a login has no deadline.           *)
AbortedFetchRejects(o) == aborted[o] /\ FetchFailed(o)

Continue(c) ==
  \/ \E o \in Operations : LeaveWait(c, o)
  \/ pc[c] = "awaitingExchange" /\ \E p \in Providers : EnsureValidToken(c, p)
  \/ AbortWaiting(c) \/ AbortAwaiting(c)

Progress(o) == Mutate(o) \/ Settle(o) \/ AbortedFetchRejects(o)

Fairness ==
  /\ \A c \in Callers : WF_vars(Continue(c))
  /\ \A o \in Operations : WF_vars(Progress(o))
  /\ WF_vars(drain = "waiting" /\ DrainPending)

FairSpec == Spec /\ Fairness

-----------------------------------------------------------------------------
(* Every variable keeps the type the code gives it.                        *)
TypeOK ==
  /\ store \in Store /\ disk \in Store /\ nextStore \in Store
  /\ expired \in [Providers -> SUBSET (0 .. MaxGeneration)]
  /\ nextProviderGeneration \in [Providers -> 0 .. MaxGeneration]
  /\ persistedProviderGeneration \in [Providers -> 0 .. MaxGeneration]
  /\ refreshLocks \in [Providers -> 0 .. MaxGeneration]
  /\ exchangeLocks \in [Providers -> SUBSET Generation]
  /\ pendingRefreshOperations \subseteq Operations
  /\ storeMutationQueue \in Seq(Operations)
  /\ kind \in [Operations -> Kinds]
  /\ phase \in [Operations -> Phases]
  /\ aborted \in [Operations -> BOOLEAN]
  /\ activeWaiters \in [Operations -> Nat]
  /\ currentToken \in [Operations -> Token]
  /\ outcome \in [Operations -> Outcome]
  /\ pc \in [Callers -> PCs]
  /\ waitsFor \in [Callers -> SUBSET Operations]
  /\ handedOut \in [Providers -> 0 .. MaxGeneration]
  /\ drain \in {"idle", "waiting", "done"}
  /\ drained \subseteq Operations

(* The store mutations of different providers never lose one another's     *)
(* token: each provider's entry is the token of the last operation that    *)
(* persistToken recorded for it.                                           *)
StoreMatchesGeneration ==
  \A p \in Providers : store[p].generation = persistedProviderGeneration[p]

(* A late answer never replaces the token of an operation begun after its  *)
(* own: a login completed during a slow refresh survives the refresh.      *)
NewestWins ==
  [][\A p \in Providers : store'[p].generation >= store[p].generation]_vars

(* Single flight: a refresh that is neither settled nor cancelled is the   *)
(* one later callers of its provider join.                                 *)
SingleLiveRefresh ==
  \A o \in Operations :
    /\ kind[o] = "refresh"
    /\ phase[o] # "settled"
    /\ ~aborted[o]
    => refreshLocks[o[1]] = o[2]

(* One caller's cancellation never cancels another's refresh: the shared   *)
(* operation of a caller that still waits has not been aborted.            *)
NoWaiterOnAborted ==
  \A c \in Callers :
    pc[c] = "waiting" => \A o \in waitsFor[c] : ~aborted[o]

(* A caller that waited for an operation gets that operation's token, or   *)
(* the token of a later one that superseded it, never an earlier token.    *)
YieldsOwnOrNewerToken ==
  \A o \in Operations :
    outcome[o].status = "ok" => outcome[o].token.generation >= o[2]

(* A token is handed to a caller only once auth.json holds it or a newer   *)
(* one, and auth.json never falls behind it again: a crash cannot lose a   *)
(* refresh token already put to use.                                       *)
HandedOutIsDurable ==
  \A p \in Providers : handedOut[p] <= disk[p].generation

(* A refresh never spends the refresh token of a superseded login: it      *)
(* starts from the token of every login begun before it that was not       *)
(* cancelled and has succeeded, or from a newer one.                       *)
RefreshStartsFromLogin ==
  \A r, e \in Operations :
    /\ kind[r] = "refresh" /\ kind[e] = "exchange" /\ e[1] = r[1] /\ e[2] < r[2]
    /\ phase[e] = "settled" /\ outcome[e].status = "ok" /\ ~aborted[e]
    => currentToken[r].generation >= e[2]

(* When waitForPendingRefreshes returns, no refresh is under way, not even *)
(* a cancelled one that is still being written.                            *)
DrainLeavesNoRefresh ==
  [][drain # "done" /\ drain' = "done" =>
       \A o \in Operations : kind[o] = "refresh" => phase[o] = "settled"]_vars

(* A request that waits for a token, or for a login to settle, returns,    *)
(* even when the token endpoint never answers.                             *)
RequestReturns ==
  \A c \in Callers :
    pc[c] \in {"awaitingExchange", "waiting", "leaving"} ~>
      pc[c] \notin {"awaitingExchange", "waiting", "leaving"}

(* Once no new call is made, as after the server has closed at shutdown,   *)
(* waitForPendingRefreshes returns, even when the token endpoint never     *)
(* answers: the last caller to leave a refresh cancels it.                 *)
NoMoreCalls == <>[][\A c \in Callers : pc[c] = "idle" => pc'[c] = "idle"]_vars

DrainReturns == NoMoreCalls => (drain = "waiting" ~> drain = "done")

(* The class comment of TokenManager: one refresh per provider at a time.  *)
OneRefreshAtATime ==
  \A p \in Providers :
    Cardinality({o \in Operations :
      o[1] = p /\ kind[o] = "refresh" /\ phase[o] # "settled"}) <= 1

=============================================================================
