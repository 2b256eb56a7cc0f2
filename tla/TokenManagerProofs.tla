-------------------------- MODULE TokenManagerProofs --------------------------
(***************************************************************************)
(* Theorems about TokenManager, for every set of providers and callers and *)
(* every bound on the generations.                                         *)
(***************************************************************************)
EXTENDS TokenManager, FiniteSetTheorems, SequenceTheorems, TLAPS

-----------------------------------------------------------------------------
(* Facts about the data the model is built from.                           *)

(* An operation is a provider and a generation.                            *)
LEMMA OperationParts ==
  \A o \in Operations :
    o[1] \in Providers /\ o[2] \in Generation /\ o = <<o[1], o[2]>>
BY DEF Operations

LEMMA OperationOf ==
  \A p \in Providers, g \in Generation : <<p, g>> \in Operations
BY DEF Operations

(* The generation a lock or a new operation holds names an operation.      *)
LEMMA GenerationFacts ==
  /\ 0 \in 0 .. MaxGeneration
  /\ \A g \in 0 .. MaxGeneration : g # 0 => g \in Generation
  /\ \A g \in 0 .. MaxGeneration : g + 1 <= MaxGeneration => g + 1 \in Generation
  /\ \A g \in Generation : g \in 0 .. MaxGeneration /\ g # 0
BY ConstantsAssumption DEF Generation

(* The records the outcomes are built from.                                *)
LEMMA OutcomeFacts ==
  /\ NoToken \in Token /\ NoOutcome \in Outcome /\ FailedOutcome \in Outcome
  /\ \A g \in 0 .. MaxGeneration, r \in BOOLEAN : [generation |-> g, refresh |-> r] \in Token
  /\ \A s \in Status, t \in Token : [status |-> s, token |-> t] \in Outcome
  /\ \A t \in Token : t.generation \in 0 .. MaxGeneration /\ t.refresh \in BOOLEAN
  /\ \A u \in Outcome : u.token \in Token /\ u.status \in Status
  /\ \A u \in Outcome : [u EXCEPT !.status = "ok"] \in Outcome
BY ConstantsAssumption DEF NoToken, NoOutcome, FailedOutcome, Token, Outcome, Status

(* What stays in a queue when its head leaves it.                          *)
LEMMA TailFacts ==
  \A q \in Seq(Operations) :
    q # <<>> => Head(q) \in Operations /\ Tail(q) \in Seq(Operations)
OBVIOUS

(* What stays at the head of a queue when an operation joins it.           *)
LEMMA AppendFacts ==
  ASSUME NEW q \in Seq(Operations), NEW o \in Operations
  PROVE  /\ Append(q, o) \in Seq(Operations)
         /\ Append(q, o) # <<>>
         /\ q # <<>> => Head(Append(q, o)) = Head(q)
BY AppendProperties, HeadTailAppend

-----------------------------------------------------------------------------
(* The inductive invariant, in three parts.                                *)

(* The operation that saves is at the head of the mutation queue, so that  *)
(* there is a head to remove when the save ends.                           *)
SavingIsHead ==
  \A o \in Operations :
    phase[o] = "saving" => storeMutationQueue # <<>> /\ Head(storeMutationQueue) = o

TypeInv == TypeOK /\ SavingIsHead

(* activeWaiters counts the callers inside waitForRefresh.                 *)
WaitersOf(o) == {c \in Callers : pc[c] \in {"waiting", "leaving"} /\ waitsFor[c] = {o}}

WaitersCounted == \A o \in Operations : activeWaiters[o] = Cardinality(WaitersOf(o))

(* Nothing has happened to a generation that has not been given out.       *)
FutureUntouched ==
  /\ \A o \in Operations :
       o[2] > nextProviderGeneration[o[1]] =>
         kind[o] = "none" /\ phase[o] = "none" /\ ~aborted[o] /\ activeWaiters[o] = 0
  /\ \A p \in Providers : refreshLocks[p] <= nextProviderGeneration[p]

(* A lock is that of a refresh later callers can still join.               *)
LockIsLive ==
  \A o \in Operations :
    refreshLocks[o[1]] = o[2] => kind[o] = "refresh" /\ phase[o] # "settled" /\ ~aborted[o]

(* What a caller waits for.                                                *)
WaitsForLive ==
  \A c \in Callers :
    pc[c] = "waiting" =>
      \E o \in Operations :
        waitsFor[c] = {o} /\ kind[o] = "refresh" /\ phase[o] # "settled" /\ ~aborted[o]

WaitsForLogin ==
  \A c \in Callers :
    pc[c] = "exchanging" => \E o \in Operations : waitsFor[c] = {o} /\ kind[o] = "exchange"

LocksInv ==
  /\ WaitersCounted
  /\ FutureUntouched
  /\ LockIsLive
  /\ SingleLiveRefresh
  /\ WaitsForLive
  /\ WaitsForLogin

-----------------------------------------------------------------------------
(* Types.                                                                  *)

(* A caller inside waitForRefresh is counted.                              *)
LEMMA WaiterCounted ==
  ASSUME TypeOK, WaitersCounted, NEW o \in Operations, NEW c \in Callers,
         pc[c] \in {"waiting", "leaving"}, waitsFor[c] = {o}
  PROVE  activeWaiters[o] \in Nat \ {0}
<1>1. IsFiniteSet(WaitersOf(o))
  BY ConstantsAssumption, FS_Subset DEF WaitersOf
<1>2. c \in WaitersOf(o)
  BY DEF WaitersOf
<1> QED
  BY <1>1, <1>2, FS_EmptySet, FS_CardinalityType DEF WaitersCounted

LEMMA InitTypeInv == Init => TypeInv
<1> SUFFICES ASSUME Init PROVE TypeInv
  OBVIOUS
<1>1. TypeOK
  BY ConstantsAssumption, OutcomeFacts
     DEF Init, TypeOK, Store, Kinds, Phases, PCs
<1>2. SavingIsHead
  BY DEF Init, SavingIsHead
<1> QED
  BY <1>1, <1>2 DEF TypeInv

LEMMA TypeInvStep == TypeInv /\ LocksInv /\ [Next]_vars => TypeInv'
<1> SUFFICES ASSUME TypeInv, LocksInv, [Next]_vars PROVE TypeInv'
  OBVIOUS
<1> USE OperationParts
<1> USE DEF TypeInv, TypeOK, SavingIsHead, opVars, storeVars, lockVars, callVars, drainVars,
        Kinds, Phases, PCs
<1>1. ASSUME NEW c \in Callers, NEW p \in Providers, AwaitExchanges(c, p) PROVE TypeInv'
  BY <1>1, OperationOf DEF AwaitExchanges, Wait, PendingExchanges
<1>2. ASSUME NEW c \in Callers, NEW p \in Providers, ReturnCached(c, p) PROVE TypeInv'
  BY <1>2, OutcomeFacts DEF ReturnCached, Return, HandOut, Store
<1>3. ASSUME NEW c \in Callers, NEW p \in Providers, RequireLogin(c, p) PROVE TypeInv'
  BY <1>3 DEF RequireLogin, Return
<1>4. ASSUME NEW c \in Callers, NEW p \in Providers, JoinRefresh(c, p) PROVE TypeInv'
  <2> DEFINE o == <<p, refreshLocks[p]>>
  <2>1. o \in Operations
    BY <1>4, OperationOf, GenerationFacts DEF JoinRefresh
  <2>2. activeWaiters' = [activeWaiters EXCEPT ![o] = @ + 1] /\ Wait(c, "waiting", {o})
    BY <1>4 DEF JoinRefresh, JoinedWaiters
  <2> HIDE DEF o
  <2>3. activeWaiters' \in [Operations -> Nat]
    BY <2>1, <2>2
  <2>4. pc' \in [Callers -> PCs] /\ waitsFor' \in [Callers -> SUBSET Operations]
    BY <2>1, <2>2 DEF Wait
  <2> QED
    BY <1>4, <2>3, <2>4 DEF JoinRefresh
<1>5. ASSUME NEW c \in Callers, NEW p \in Providers, StartRefresh(c, p) PROVE TypeInv'
  <2> DEFINE o == NewOperation(p)
  <2>1. /\ o \in Operations /\ o[1] = p
        /\ o[2] \in Generation /\ o[2] \in 0 .. MaxGeneration
    BY <1>5, OperationOf, GenerationFacts DEF StartRefresh, BeginOperation, NewOperation, NewGeneration
  <2>2. /\ nextProviderGeneration' = [nextProviderGeneration EXCEPT ![p] = o[2]]
        /\ kind' = [kind EXCEPT ![o] = "refresh"]
        /\ phase' = [phase EXCEPT ![o] = "fetching"]
        /\ currentToken' = [currentToken EXCEPT ![o] = store[p]]
    BY <1>5, <2>1 DEF StartRefresh, BeginOperation, NewOperation
  <2>3. Wait(c, "waiting", {o})
    BY <1>5 DEF StartRefresh
  <2>4. store[p] \in Token
    BY DEF Store
  <2>5. /\ refreshLocks' = [refreshLocks EXCEPT ![p] = o[2]]
        /\ pendingRefreshOperations' = pendingRefreshOperations \cup {o}
        /\ activeWaiters' = [activeWaiters EXCEPT ![o] = 1]
        /\ UNCHANGED exchangeLocks
    BY <1>5 DEF StartRefresh
  <2>6. UNCHANGED <<handedOut, aborted, outcome, storeVars, drainVars, storeMutationQueue>>
    BY <1>5 DEF StartRefresh
  <2> HIDE DEF o
  <2> QED
    BY <2>1, <2>2, <2>3, <2>4, <2>5, <2>6 DEF Wait
<1>6. ASSUME NEW c \in Callers, NEW p \in Providers, ExchangeCode(c, p) PROVE TypeInv'
  <2> DEFINE o == NewOperation(p)
  <2>1. /\ o \in Operations /\ o[1] = p
        /\ o[2] \in Generation /\ o[2] \in 0 .. MaxGeneration
    BY <1>6, OperationOf, GenerationFacts DEF ExchangeCode, BeginOperation, NewOperation, NewGeneration
  <2>2. /\ nextProviderGeneration' = [nextProviderGeneration EXCEPT ![p] = o[2]]
        /\ kind' = [kind EXCEPT ![o] = "exchange"]
        /\ phase' = [phase EXCEPT ![o] = "fetching"]
        /\ currentToken' = [currentToken EXCEPT ![o] = store[p]]
    BY <1>6, <2>1 DEF ExchangeCode, BeginOperation, NewOperation
  <2>3. Wait(c, "exchanging", {o})
    BY <1>6 DEF ExchangeCode
  <2>4. store[p] \in Token
    BY DEF Store
  <2>5. /\ exchangeLocks' = [exchangeLocks EXCEPT ![p] = @ \cup {o[2]}]
        /\ UNCHANGED <<activeWaiters, refreshLocks, pendingRefreshOperations>>
    BY <1>6 DEF ExchangeCode
  <2>6. UNCHANGED <<handedOut, aborted, outcome, storeVars, drainVars, storeMutationQueue>>
    BY <1>6 DEF ExchangeCode
  <2> HIDE DEF o
  <2> QED
    BY <2>1, <2>2, <2>3, <2>4, <2>5, <2>6 DEF Wait
<1>7. ASSUME NEW c \in Callers, AbortWaiting(c) PROVE TypeInv'
  BY <1>7 DEF AbortWaiting
<1>8. ASSUME NEW c \in Callers, AbortAwaiting(c) PROVE TypeInv'
  BY <1>8 DEF AbortAwaiting, Return
<1>9. ASSUME NEW o \in Operations, NEW c \in Callers, AbortExchange(c, o) PROVE TypeInv'
  BY <1>9 DEF AbortExchange, Return
<1>10. ASSUME NEW o \in Operations, NEW c \in Callers, LeaveWait(c, o) PROVE TypeInv'
  <2>1. activeWaiters' \in [Operations -> Nat]
    <3>1. activeWaiters[o] \in Nat \ {0}
      BY <1>10, WaiterCounted DEF LeaveWait, LocksInv
    <3> QED
      BY <1>10, <3>1 DEF LeaveWait
  <2>2. refreshLocks' \in [Providers -> 0 .. MaxGeneration]
    BY <1>10, GenerationFacts DEF LeaveWait, Unlocked
  <2>3. aborted' \in [Operations -> BOOLEAN]
    BY <1>10 DEF LeaveWait
  <2> QED
    BY <1>10, <2>1, <2>2, <2>3 DEF LeaveWait, Return
<1>11. ASSUME NEW o \in Operations, FetchAnswered(o) PROVE TypeInv'
  <2>1. outcome' \in [Operations -> Outcome]
    <3>1. PICK carried \in BOOLEAN :
            outcome' = [outcome EXCEPT ![o] =
              [status |-> "pending",
               token |-> [generation |-> o[2], refresh |-> carried \/ KeepsRefreshToken(o)]]]
      BY <1>11 DEF FetchAnswered
    <3>2. (carried \/ KeepsRefreshToken(o)) \in BOOLEAN
      BY Zenon DEF KeepsRefreshToken
    <3>3. o[2] \in 0 .. MaxGeneration /\ "pending" \in Status
      BY GenerationFacts DEF Status
    <3>4. [generation |-> o[2], refresh |-> carried \/ KeepsRefreshToken(o)] \in Token
      BY <3>2, <3>3, Zenon, OutcomeFacts
    <3> QED
      BY <3>1, <3>3, <3>4, OutcomeFacts
  <2>2. storeMutationQueue' \in Seq(Operations)
    BY <1>11, AppendFacts DEF FetchAnswered
  <2>3. SavingIsHead'
    BY <1>11, AppendFacts DEF FetchAnswered
  <2> QED
    BY <1>11, <2>1, <2>2, <2>3 DEF FetchAnswered
<1>12. ASSUME NEW o \in Operations, FetchFailed(o) PROVE TypeInv'
  BY <1>12, OutcomeFacts DEF FetchFailed
<1>13. ASSUME NEW o \in Operations, SkipSave(o) PROVE TypeInv'
  BY <1>13, TailFacts, OutcomeFacts DEF SkipSave, IsNextMutation, SupersededOutcome, Store, Status
<1>14. ASSUME NEW o \in Operations, BeginSave(o) PROVE TypeInv'
  BY <1>14, OutcomeFacts DEF BeginSave, IsNextMutation, Store
<1>15. ASSUME NEW o \in Operations, SaveSucceeded(o) PROVE TypeInv'
  BY <1>15, TailFacts, OutcomeFacts, GenerationFacts DEF SaveSucceeded
<1>16. ASSUME NEW o \in Operations, SaveFailed(o) PROVE TypeInv'
  BY <1>16, TailFacts, OutcomeFacts DEF SaveFailed, SaveFailedOutcome
<1>17. ASSUME NEW o \in Operations, SettleRefresh(o) PROVE TypeInv'
  <2>1. handedOut' \in [Providers -> 0 .. MaxGeneration]
    BY <1>17, OutcomeFacts DEF SettleRefresh, Deliver, HandOut
  <2>2. refreshLocks' \in [Providers -> 0 .. MaxGeneration]
    BY <1>17, GenerationFacts DEF SettleRefresh, Unlocked
  <2> QED
    BY <1>17, <2>1, <2>2 DEF SettleRefresh
<1>18. ASSUME NEW o \in Operations, SettleExchange(o) PROVE TypeInv'
  BY <1>18, OutcomeFacts, GenerationFacts DEF SettleExchange, Deliver, HandOut
<1>19. CASE DrainPending
  BY <1>19 DEF DrainPending
<1>20. ASSUME NEW p \in Providers, Expire(p) PROVE TypeInv'
  BY <1>20, OutcomeFacts DEF Expire, Store
<1>21. CASE UNCHANGED vars
  BY <1>21 DEF vars
<1> QED
  BY <1>1, <1>2, <1>3, <1>4, <1>5, <1>6, <1>7, <1>8, <1>9, <1>10, <1>11, <1>12, <1>13,
     <1>14, <1>15, <1>16, <1>17, <1>18, <1>19, <1>20, <1>21
     DEF Next, EnsureValidToken, Settle, Mutate

-----------------------------------------------------------------------------
(* Locks and waiters.                                                      *)

LEMMA InitLocksInv == Init => LocksInv
<1> SUFFICES ASSUME Init PROVE LocksInv
  OBVIOUS
<1>1. \A o \in Operations : WaitersOf(o) = {}
  BY DEF Init, WaitersOf
<1>2. WaitersCounted
  BY <1>1, FS_EmptySet DEF WaitersCounted, Init
<1>3. FutureUntouched /\ LockIsLive /\ SingleLiveRefresh
  BY OperationParts, GenerationFacts
     DEF Init, FutureUntouched, LockIsLive, SingleLiveRefresh
<1>4. WaitsForLive /\ WaitsForLogin
  BY DEF Init, WaitsForLive, WaitsForLogin
<1> QED
  BY <1>2, <1>3, <1>4 DEF LocksInv

(* The part of the state the locks and the waiters depend on.              *)
LockState == <<kind, aborted, activeWaiters, nextProviderGeneration, refreshLocks>>

(* A step that starts and settles nothing, and moves no caller, keeps it.  *)
LEMMA OperationMoves ==
  ASSUME TypeInv, LocksInv, UNCHANGED <<LockState, pc, waitsFor>>,
         \A o \in Operations :
           \/ phase'[o] = phase[o]
           \/ phase[o] \notin {"none", "settled"} /\ phase'[o] \notin {"none", "settled"}
  PROVE  LocksInv'
<1> USE OperationParts DEF TypeInv, TypeOK, LocksInv, LockState
<1>1. WaitersCounted'
  BY DEF WaitersCounted, WaitersOf
<1>2. FutureUntouched'
  BY DEF FutureUntouched
<1>3. LockIsLive' /\ SingleLiveRefresh'
  BY DEF LockIsLive, SingleLiveRefresh
<1>4. WaitsForLive' /\ WaitsForLogin'
  BY DEF WaitsForLive, WaitsForLogin
<1> QED
  BY <1>1, <1>2, <1>3, <1>4

(* A step of a caller that enters and leaves no operation keeps it.        *)
LEMMA CallerMoves ==
  ASSUME TypeInv, LocksInv, UNCHANGED <<LockState, phase>>,
         NEW c \in Callers, pc[c] \notin {"waiting", "leaving"},
         NEW at \in {"idle", "awaitingExchange"}, NEW ops,
         Wait(c, at, ops)
  PROVE  LocksInv'
<1> USE DEF TypeInv, TypeOK, LocksInv, LockState
<1>1. WaitersCounted'
  <2>1. \A o \in Operations : WaitersOf(o)' = WaitersOf(o)
    BY DEF WaitersOf, Wait
  <2> QED
    BY <2>1 DEF WaitersCounted
<1>2. FutureUntouched' /\ LockIsLive' /\ SingleLiveRefresh'
  BY DEF FutureUntouched, LockIsLive, SingleLiveRefresh
<1>3. WaitsForLive' /\ WaitsForLogin'
  BY DEF WaitsForLive, WaitsForLogin, Wait
<1> QED
  BY <1>1, <1>2, <1>3

(* A caller that enters the wait for operation n is counted.               *)
LEMMA WaiterEnters ==
  ASSUME TypeInv, WaitersCounted, NEW c \in Callers, pc[c] \notin {"waiting", "leaving"},
         NEW n \in Operations, Wait(c, "waiting", {n}),
         activeWaiters' = [activeWaiters EXCEPT ![n] = activeWaiters[n] + 1]
  PROVE  WaitersCounted'
<1> USE DEF TypeInv, TypeOK
<1>1. \A o \in Operations : o # n => WaitersOf(o)' = WaitersOf(o)
  BY DEF WaitersOf, Wait
<1>2. WaitersOf(n)' = WaitersOf(n) \cup {c} /\ c \notin WaitersOf(n)
  BY DEF WaitersOf, Wait
<1>3. IsFiniteSet(WaitersOf(n))
  BY ConstantsAssumption, FS_Subset DEF WaitersOf
<1>4. Cardinality(WaitersOf(n) \cup {c}) = Cardinality(WaitersOf(n)) + 1
  BY <1>2, <1>3, FS_AddElement
<1> QED
  BY <1>1, <1>2, <1>4 DEF WaitersCounted

LEMMA JoinKeepsLocks ==
  ASSUME TypeInv, LocksInv, NEW c \in Callers, NEW p \in Providers, JoinRefresh(c, p)
  PROVE  LocksInv'
<1> DEFINE n == <<p, refreshLocks[p]>>
<1> USE DEF TypeInv, TypeOK, LocksInv
<1>1. n \in Operations /\ n[1] = p /\ n[2] = refreshLocks[p]
  BY OperationOf, GenerationFacts DEF JoinRefresh
<1>2. /\ pc[c] \notin {"waiting", "leaving"}
      /\ Wait(c, "waiting", {n})
      /\ activeWaiters' = [activeWaiters EXCEPT ![n] = activeWaiters[n] + 1]
      /\ UNCHANGED <<kind, phase, aborted, nextProviderGeneration, refreshLocks>>
  BY DEF JoinRefresh, JoinedWaiters, Enters, lockVars
<1> HIDE DEF n
<1>3. WaitersCounted'
  BY <1>1, <1>2, WaiterEnters
<1>4. n[2] <= nextProviderGeneration[p]
  BY <1>1 DEF FutureUntouched
<1>5. FutureUntouched'
  BY <1>1, <1>2, <1>4, OperationParts, GenerationFacts DEF FutureUntouched, Generation
<1>6. LockIsLive' /\ SingleLiveRefresh'
  BY <1>2 DEF LockIsLive, SingleLiveRefresh
<1>7. kind[n] = "refresh" /\ phase[n] # "settled" /\ ~aborted[n]
  BY <1>1 DEF LockIsLive
<1>8. WaitsForLive' /\ WaitsForLogin'
  BY <1>1, <1>2, <1>7 DEF WaitsForLive, WaitsForLogin, Wait
<1> QED
  BY <1>3, <1>5, <1>6, <1>8

(* A new operation is one nothing has happened to.                         *)
LEMMA NewIsUntouched ==
  ASSUME TypeInv, LocksInv, NEW p \in Providers, NewGeneration(p) <= MaxGeneration
  PROVE  LET n == NewOperation(p) IN
         /\ n \in Operations /\ n[1] = p /\ n[2] = NewGeneration(p)
         /\ kind[n] = "none" /\ phase[n] = "none" /\ ~aborted[n] /\ activeWaiters[n] = 0
         /\ refreshLocks[p] # n[2]
<1> DEFINE n == NewOperation(p)
<1>1. NewGeneration(p) \in Generation /\ NewGeneration(p) > nextProviderGeneration[p]
  BY GenerationFacts DEF NewGeneration, TypeInv, TypeOK
<1>2. n \in Operations /\ n[1] = p /\ n[2] = NewGeneration(p)
  BY <1>1, OperationOf DEF NewOperation
<1>3. kind[n] = "none" /\ phase[n] = "none" /\ ~aborted[n] /\ activeWaiters[n] = 0
  BY <1>1, <1>2 DEF LocksInv, FutureUntouched
<1>4. refreshLocks[p] # n[2]
  BY <1>1, <1>2 DEF LocksInv, FutureUntouched, TypeInv, TypeOK, NewGeneration
<1> QED
  BY <1>2, <1>3, <1>4

LEMMA StartKeepsLocks ==
  ASSUME TypeInv, LocksInv, NEW c \in Callers, NEW p \in Providers, StartRefresh(c, p)
  PROVE  LocksInv'
<1> DEFINE n == NewOperation(p)
<1> USE DEF TypeInv, TypeOK, LocksInv
<1>1. /\ n \in Operations /\ n[1] = p /\ n[2] = NewGeneration(p)
      /\ kind[n] = "none" /\ phase[n] = "none" /\ ~aborted[n] /\ activeWaiters[n] = 0
      /\ refreshLocks[p] # n[2]
  BY NewIsUntouched DEF StartRefresh, BeginOperation
<1>2. /\ pc[c] \notin {"waiting", "leaving"}
      /\ refreshLocks[p] = 0
      /\ Wait(c, "waiting", {n})
      /\ activeWaiters' = [activeWaiters EXCEPT ![n] = 1]
      /\ refreshLocks' = [refreshLocks EXCEPT ![p] = n[2]]
      /\ nextProviderGeneration' = [nextProviderGeneration EXCEPT ![p] = n[2]]
      /\ kind' = [kind EXCEPT ![n] = "refresh"]
      /\ phase' = [phase EXCEPT ![n] = "fetching"]
      /\ UNCHANGED aborted
  BY <1>1 DEF StartRefresh, BeginOperation, Enters
<1>3. n[2] = nextProviderGeneration[p] + 1
  BY <1>1 DEF NewGeneration
<1> HIDE DEF n
<1>4. activeWaiters' = [activeWaiters EXCEPT ![n] = activeWaiters[n] + 1]
  BY <1>1, <1>2
<1>5. WaitersCounted'
  BY <1>1, <1>2, <1>4, WaiterEnters
<1>6. FutureUntouched'
  BY <1>1, <1>2, <1>3, OperationParts, GenerationFacts DEF FutureUntouched, Generation
<1>7. LockIsLive'
  BY <1>1, <1>2, OperationParts DEF LockIsLive
<1>8. SingleLiveRefresh'
  BY <1>1, <1>2, OperationParts, GenerationFacts DEF SingleLiveRefresh
<1>9. WaitsForLive' /\ WaitsForLogin'
  BY <1>1, <1>2 DEF WaitsForLive, WaitsForLogin, Wait
<1> QED
  BY <1>5, <1>6, <1>7, <1>8, <1>9

LEMMA LoginKeepsLocks ==
  ASSUME TypeInv, LocksInv, NEW c \in Callers, NEW p \in Providers, ExchangeCode(c, p)
  PROVE  LocksInv'
<1> DEFINE n == NewOperation(p)
<1> USE DEF TypeInv, TypeOK, LocksInv
<1>1. /\ n \in Operations /\ n[1] = p /\ n[2] = NewGeneration(p)
      /\ kind[n] = "none" /\ phase[n] = "none" /\ ~aborted[n] /\ activeWaiters[n] = 0
      /\ refreshLocks[p] # n[2]
  BY NewIsUntouched DEF ExchangeCode, BeginOperation
<1>2. /\ pc[c] = "idle"
      /\ Wait(c, "exchanging", {n})
      /\ nextProviderGeneration' = [nextProviderGeneration EXCEPT ![p] = n[2]]
      /\ kind' = [kind EXCEPT ![n] = "exchange"]
      /\ phase' = [phase EXCEPT ![n] = "fetching"]
      /\ UNCHANGED <<aborted, activeWaiters, refreshLocks>>
  BY <1>1 DEF ExchangeCode, BeginOperation
<1>3. n[2] = nextProviderGeneration[p] + 1
  BY <1>1 DEF NewGeneration
<1> HIDE DEF n
<1>4. WaitersCounted'
  <2>1. \A o \in Operations : WaitersOf(o)' = WaitersOf(o)
    BY <1>2 DEF WaitersOf, Wait
  <2> QED
    BY <2>1, <1>2 DEF WaitersCounted
<1>5. FutureUntouched'
  BY <1>1, <1>2, <1>3, OperationParts, GenerationFacts DEF FutureUntouched, Generation
<1>6. LockIsLive' /\ SingleLiveRefresh'
  BY <1>1, <1>2, OperationParts DEF LockIsLive, SingleLiveRefresh
<1>7. WaitsForLive' /\ WaitsForLogin'
  BY <1>1, <1>2 DEF WaitsForLive, WaitsForLogin, Wait
<1> QED
  BY <1>4, <1>5, <1>6, <1>7

(* A caller's cancellation leaves it inside waitForRefresh, still counted. *)
LEMMA AbortKeepsLocks ==
  ASSUME TypeInv, LocksInv, NEW c \in Callers, AbortWaiting(c)
  PROVE  LocksInv'
<1> USE DEF TypeInv, TypeOK, LocksInv
<1>1. /\ pc[c] = "waiting" /\ pc' = [pc EXCEPT ![c] = "leaving"]
      /\ UNCHANGED <<waitsFor, LockState, phase>>
  BY DEF AbortWaiting, Interruptible, LockState, opVars, lockVars
<1>2. WaitersCounted'
  <2>1. \A o \in Operations : WaitersOf(o)' = WaitersOf(o)
    BY <1>1 DEF WaitersOf
  <2> QED
    BY <1>1, <2>1 DEF WaitersCounted, LockState
<1>3. FutureUntouched' /\ LockIsLive' /\ SingleLiveRefresh'
  BY <1>1 DEF FutureUntouched, LockIsLive, SingleLiveRefresh, LockState
<1>4. WaitsForLive' /\ WaitsForLogin'
  BY <1>1 DEF WaitsForLive, WaitsForLogin, LockState
<1> QED
  BY <1>2, <1>3, <1>4

LEMMA AbortLoginKeepsLocks ==
  ASSUME TypeInv, LocksInv, NEW c \in Callers, NEW n \in Operations, AbortExchange(c, n)
  PROVE  LocksInv'
<1> USE DEF TypeInv, TypeOK, LocksInv
<1>1. /\ pc[c] = "exchanging" /\ waitsFor[c] = {n}
      /\ aborted' = [aborted EXCEPT ![n] = TRUE]
      /\ Wait(c, "idle", {})
      /\ UNCHANGED <<kind, phase, activeWaiters, nextProviderGeneration, refreshLocks>>
  BY DEF AbortExchange, Return, Wait
<1>2. kind[n] = "exchange"
  BY <1>1 DEF WaitsForLogin
<1>3. WaitersCounted'
  <2>1. \A o \in Operations : WaitersOf(o)' = WaitersOf(o)
    BY <1>1 DEF WaitersOf, Wait
  <2> QED
    BY <1>1, <2>1 DEF WaitersCounted
<1>4. FutureUntouched' /\ LockIsLive' /\ SingleLiveRefresh'
  BY <1>1, <1>2 DEF FutureUntouched, LockIsLive, SingleLiveRefresh
<1>5. WaitsForLive' /\ WaitsForLogin'
  BY <1>1, <1>2 DEF WaitsForLive, WaitsForLogin, Wait
<1> QED
  BY <1>3, <1>4, <1>5

(* A caller that leaves while another is counted does not abandon.         *)
LEMMA LeaveKeepsLocks ==
  ASSUME TypeInv, LocksInv, NEW c \in Callers, NEW n \in Operations, LeaveWait(c, n)
  PROVE  LocksInv'
<1> USE DEF TypeInv, TypeOK, LocksInv
<1>1. /\ pc[c] = "leaving" /\ waitsFor[c] = {n}
      /\ Wait(c, "idle", {})
      /\ activeWaiters' = [activeWaiters EXCEPT ![n] = activeWaiters[n] - 1]
      /\ UNCHANGED <<kind, phase, nextProviderGeneration>>
  BY DEF LeaveWait, Return, Wait
<1>2. IsFiniteSet(WaitersOf(n)) /\ c \in WaitersOf(n)
  BY <1>1, ConstantsAssumption, FS_Subset DEF WaitersOf
<1>3. activeWaiters[n] = Cardinality(WaitersOf(n)) /\ activeWaiters[n] \in Nat \ {0}
  BY <1>1, WaiterCounted DEF WaitersCounted
<1>4. WaitersCounted'
  <2>1. \A o \in Operations : o # n => WaitersOf(o)' = WaitersOf(o)
    BY <1>1 DEF WaitersOf, Wait
  <2>2. WaitersOf(n)' = WaitersOf(n) \ {c}
    BY <1>1 DEF WaitersOf, Wait
  <2>3. Cardinality(WaitersOf(n) \ {c}) = Cardinality(WaitersOf(n)) - 1
    BY <1>2, FS_RemoveElement
  <2> QED
    BY <1>1, <1>3, <2>1, <2>2, <2>3 DEF WaitersCounted
<1>5. CASE Abandons(n)
  <2>1. /\ refreshLocks' = [refreshLocks EXCEPT ![n[1]] = IF @ = n[2] THEN 0 ELSE @]
        /\ aborted' = [aborted EXCEPT ![n] = TRUE]
        /\ phase[n] # "settled" /\ activeWaiters[n] = 1
    BY <1>5 DEF LeaveWait, Unlocked, Abandons
  <2>2. WaitersOf(n) = {c}
    <3>1. Cardinality(WaitersOf(n)) = 1
      BY <1>3, <2>1
    <3>2. PICK d : WaitersOf(n) = {d}
      BY <1>2, <3>1, FS_Singleton
    <3> QED
      BY <1>2, <3>2
  <2>3. FutureUntouched'
    BY <1>1, <1>3, <2>1, OperationParts, GenerationFacts DEF FutureUntouched
  <2>4. LockIsLive'
    BY <1>1, <2>1, OperationParts, GenerationFacts DEF LockIsLive
  <2>5. SingleLiveRefresh'
    BY <1>1, <2>1, OperationParts, GenerationFacts DEF SingleLiveRefresh
  <2>6. \A d \in Callers : pc'[d] = "waiting" => waitsFor[d] # {n}
    BY <1>1, <2>2 DEF WaitersOf, Wait
  <2>7. WaitsForLive'
    <3> SUFFICES ASSUME NEW d \in Callers, pc'[d] = "waiting"
                 PROVE  \E o \in Operations :
                          /\ waitsFor'[d] = {o} /\ kind'[o] = "refresh"
                          /\ phase'[o] # "settled" /\ ~aborted'[o]
      BY DEF WaitsForLive
    <3>1. pc[d] = "waiting" /\ waitsFor'[d] = waitsFor[d]
      BY <1>1 DEF Wait
    <3>2. PICK o \in Operations :
            waitsFor[d] = {o} /\ kind[o] = "refresh" /\ phase[o] # "settled" /\ ~aborted[o]
      BY <3>1 DEF WaitsForLive
    <3>3. o # n
      BY <2>6, <3>2
    <3> QED
      BY <1>1, <2>1, <3>1, <3>2, <3>3
  <2>8. WaitsForLogin'
    BY <1>1 DEF WaitsForLogin, Wait
  <2> QED
    BY <1>4, <2>3, <2>4, <2>5, <2>7, <2>8
<1>6. CASE ~Abandons(n)
  <2>1. UNCHANGED <<refreshLocks, aborted>>
    BY <1>6 DEF LeaveWait
  <2>2. FutureUntouched'
    BY <1>1, <1>3, <2>1 DEF FutureUntouched
  <2>3. LockIsLive' /\ SingleLiveRefresh'
    BY <1>1, <2>1 DEF LockIsLive, SingleLiveRefresh
  <2>4. WaitsForLive' /\ WaitsForLogin'
    BY <1>1, <2>1 DEF WaitsForLive, WaitsForLogin, Wait
  <2> QED
    BY <1>4, <2>2, <2>3, <2>4
<1> QED
  BY <1>5, <1>6

LEMMA SettleRefreshKeepsLocks ==
  ASSUME TypeInv, LocksInv, NEW n \in Operations, SettleRefresh(n)
  PROVE  LocksInv'
<1> USE DEF TypeInv, TypeOK, LocksInv
<1>1. /\ phase[n] = "returning"
      /\ phase' = [phase EXCEPT ![n] = "settled"]
      /\ refreshLocks' = [refreshLocks EXCEPT ![n[1]] = IF @ = n[2] THEN 0 ELSE @]
      /\ pc' = [c \in Callers |->
                  IF pc[c] = "waiting" /\ waitsFor[c] = {n} THEN "leaving" ELSE pc[c]]
      /\ UNCHANGED <<kind, aborted, activeWaiters, nextProviderGeneration, waitsFor>>
  BY DEF SettleRefresh, Waiters, Unlocked
<1>2. WaitersCounted'
  <2>1. \A o \in Operations : WaitersOf(o)' = WaitersOf(o)
    BY <1>1 DEF WaitersOf
  <2> QED
    BY <1>1, <2>1 DEF WaitersCounted
<1>3. FutureUntouched'
  BY <1>1, OperationParts, GenerationFacts DEF FutureUntouched
<1>4. LockIsLive'
  BY <1>1, OperationParts, GenerationFacts DEF LockIsLive
<1>5. SingleLiveRefresh'
  BY <1>1, OperationParts, GenerationFacts DEF SingleLiveRefresh
<1>6. WaitsForLive' /\ WaitsForLogin'
  BY <1>1 DEF WaitsForLive, WaitsForLogin
<1> QED
  BY <1>2, <1>3, <1>4, <1>5, <1>6

LEMMA SettleLoginKeepsLocks ==
  ASSUME TypeInv, LocksInv, NEW n \in Operations, SettleExchange(n)
  PROVE  LocksInv'
<1> USE DEF TypeInv, TypeOK, LocksInv
<1>1. /\ phase[n] = "returning" /\ kind[n] = "exchange"
      /\ phase' = [phase EXCEPT ![n] = "settled"]
      /\ pc' = [c \in Callers |->
                  IF pc[c] = "exchanging" /\ waitsFor[c] = {n} THEN "idle" ELSE pc[c]]
      /\ waitsFor' = [c \in Callers |->
                  IF pc[c] = "exchanging" /\ waitsFor[c] = {n} THEN {} ELSE waitsFor[c]]
      /\ UNCHANGED <<kind, aborted, activeWaiters, nextProviderGeneration, refreshLocks>>
  BY DEF SettleExchange, Waiters
<1>2. WaitersCounted'
  <2>1. \A o \in Operations : WaitersOf(o)' = WaitersOf(o)
    BY <1>1 DEF WaitersOf
  <2> QED
    BY <1>1, <2>1 DEF WaitersCounted
<1>3. FutureUntouched' /\ LockIsLive' /\ SingleLiveRefresh'
  BY <1>1 DEF FutureUntouched, LockIsLive, SingleLiveRefresh
<1>4. WaitsForLive' /\ WaitsForLogin'
  BY <1>1 DEF WaitsForLive, WaitsForLogin
<1> QED
  BY <1>2, <1>3, <1>4

LEMMA LocksInvStep == TypeInv /\ LocksInv /\ [Next]_vars => LocksInv'
<1> SUFFICES ASSUME TypeInv, LocksInv, [Next]_vars PROVE LocksInv'
  OBVIOUS
<1>1. ASSUME NEW c \in Callers, NEW p \in Providers, EnsureValidToken(c, p) PROVE LocksInv'
  <2>1. CASE AwaitExchanges(c, p)
    BY <2>1, CallerMoves
       DEF AwaitExchanges, Enters, LockState, opVars, lockVars
  <2>2. CASE ReturnCached(c, p)
    BY <2>2, CallerMoves
       DEF ReturnCached, Enters, Return, Wait, LockState, opVars, lockVars
  <2>3. CASE RequireLogin(c, p)
    BY <2>3, CallerMoves
       DEF RequireLogin, Enters, Return, Wait, LockState, opVars, lockVars
  <2> QED
    BY <1>1, <2>1, <2>2, <2>3, JoinKeepsLocks, StartKeepsLocks DEF EnsureValidToken
<1>2. ASSUME NEW c \in Callers, AbortAwaiting(c) PROVE LocksInv'
  BY <1>2, CallerMoves DEF AbortAwaiting, Return, Wait, LockState, opVars, lockVars
<1>3. ASSUME NEW o \in Operations, FetchAnswered(o) \/ FetchFailed(o) \/ Mutate(o)
      PROVE  LocksInv'
  <2>1. UNCHANGED <<LockState, pc, waitsFor>>
    BY <1>3 DEF FetchAnswered, FetchFailed, Mutate, SkipSave, BeginSave, SaveSucceeded,
       SaveFailed, LockState, lockVars, callVars
  <2>2. phase[o] \in {"fetching", "queued", "saving"}
    BY <1>3 DEF FetchAnswered, FetchFailed, Mutate, SkipSave, BeginSave, SaveSucceeded,
       SaveFailed, IsNextMutation
  <2>3. PICK ph \in {"queued", "saving", "returning"} : phase' = [phase EXCEPT ![o] = ph]
    BY <1>3 DEF FetchAnswered, FetchFailed, Mutate, SkipSave, BeginSave, SaveSucceeded,
       SaveFailed
  <2>4. \A u \in Operations :
          \/ phase'[u] = phase[u]
          \/ phase[u] \notin {"none", "settled"} /\ phase'[u] \notin {"none", "settled"}
    BY <2>2, <2>3 DEF TypeInv, TypeOK
  <2> QED
    BY <2>1, <2>4, OperationMoves
<1>4. ASSUME \/ DrainPending
             \/ \E p \in Providers : Expire(p)
             \/ UNCHANGED vars
      PROVE  LocksInv'
  <2>1. UNCHANGED <<LockState, pc, waitsFor, phase>>
    BY <1>4 DEF DrainPending, Expire, vars, LockState, opVars, lockVars, callVars
  <2> QED
    BY <2>1, OperationMoves
<1> QED
  BY <1>1, <1>2, <1>3, <1>4, LoginKeepsLocks, AbortKeepsLocks, AbortLoginKeepsLocks,
     LeaveKeepsLocks, SettleRefreshKeepsLocks, SettleLoginKeepsLocks
     DEF Next, Settle

LEMMA LocksCorrect == Spec => [](TypeInv /\ LocksInv)
BY InitTypeInv, InitLocksInv, TypeInvStep, LocksInvStep, PTL DEF Spec

-----------------------------------------------------------------------------
(* Every variable of the token manager keeps its type; in particular the   *)
(* number of active waiters never goes below zero.                         *)
THEOREM TypeCorrect == Spec => []TypeOK
<1>1. TypeInv => TypeOK
  BY DEF TypeInv
<1> QED
  BY LocksCorrect, <1>1, PTL

(* Single flight: later callers join every refresh that is neither settled *)
(* nor cancelled.                                                          *)
THEOREM SingleFlight == Spec => []SingleLiveRefresh
<1>1. LocksInv => SingleLiveRefresh
  BY DEF LocksInv
<1> QED
  BY LocksCorrect, <1>1, PTL

(* One caller's cancellation never cancels the refresh another waits for.  *)
THEOREM CancellationIsPrivate == Spec => []NoWaiterOnAborted
<1>1. LocksInv => NoWaiterOnAborted
  BY DEF LocksInv, WaitsForLive, NoWaiterOnAborted
<1> QED
  BY LocksCorrect, <1>1, PTL

-----------------------------------------------------------------------------
(* The inductive invariant, beyond the types.                              *)

(* What the running mutation will store: the operation's own token, that   *)
(* of a generation no older than the one stored, and no other change.      *)
SavesItsToken ==
  \A o \in Operations :
    /\ phase[o] \in {"queued", "saving"} => outcome[o].token.generation = o[2]
    /\ phase[o] = "saving" =>
         /\ store[o[1]].generation <= o[2]
         /\ nextStore = [store EXCEPT ![o[1]] = outcome[o].token]

(* An operation never promises a token newer than the one stored.          *)
OutcomesAreStored ==
  \A o \in Operations :
    outcome[o].status = "ok" => outcome[o].token.generation <= store[o[1]].generation

HandedOutIsStored == \A p \in Providers : handedOut[p] <= store[p].generation

(* A save that fails after its rename leaves auth.json ahead of the store, *)
(* never behind it.                                                        *)
DiskIsAhead == \A p \in Providers : store[p].generation <= disk[p].generation

StoreInv ==
  /\ SavesItsToken
  /\ StoreMatchesGeneration
  /\ OutcomesAreStored
  /\ YieldsOwnOrNewerToken
  /\ HandedOutIsStored
  /\ DiskIsAhead

(* The part of the state these depend on.                                  *)
StoreState == <<store, disk, nextStore, persistedProviderGeneration>>

-----------------------------------------------------------------------------
(* The generations these invariants compare are numbers.                   *)
Numbers ==
  /\ \A p \in Providers : store[p].generation \in Nat /\ disk[p].generation \in Nat
  /\ \A p \in Providers : handedOut[p] \in Nat /\ persistedProviderGeneration[p] \in Nat
  /\ \A o \in Operations : outcome[o].token.generation \in Nat /\ o[1] \in Providers /\ o[2] \in Nat

LEMMA GenerationsAreNumbers == (TypeInv => Numbers) /\ (TypeInv' => Numbers')
<1> USE ConstantsAssumption, OutcomeFacts, OperationParts
<1>1. TypeInv => Numbers
  BY DEF TypeInv, TypeOK, Store, Generation, Numbers
<1>2. TypeInv' => Numbers'
  BY DEF TypeInv, TypeOK, Store, Generation, Numbers
<1> QED
  BY <1>1, <1>2

(* One mutation runs at a time.                                            *)
LEMMA OneSaves ==
  ASSUME SavingIsHead, NEW o \in Operations, phase[o] = "saving"
  PROVE  \A u \in Operations : phase[u] = "saving" => u = o
BY DEF SavingIsHead

LEMMA InitStoreInv == Init => StoreInv
<1> SUFFICES ASSUME Init PROVE StoreInv
  OBVIOUS
<1>1. \A p \in Providers : store[p].generation = 0 /\ disk[p].generation = 0
  BY DEF Init
<1>2. \A o \in Operations : phase[o] = "none" /\ outcome[o].status = "pending"
  BY DEF Init, NoOutcome
<1>3. SavesItsToken /\ OutcomesAreStored /\ YieldsOwnOrNewerToken
  BY <1>2 DEF SavesItsToken, OutcomesAreStored, YieldsOwnOrNewerToken
<1>4. StoreMatchesGeneration /\ HandedOutIsStored /\ DiskIsAhead
  BY <1>1 DEF Init, StoreMatchesGeneration, HandedOutIsStored, DiskIsAhead
<1> QED
  BY <1>3, <1>4 DEF StoreInv

(* A caller is given what is stored, or what an operation that succeeded   *)
(* yields.                                                                 *)
LEMMA HandingOut ==
  ASSUME TypeInv, StoreInv, NEW p \in Providers, NEW g \in Nat, g <= store[p].generation,
         UNCHANGED store, handedOut' \in {handedOut, HandOut(p, g)}
  PROVE  HandedOutIsStored'
BY GenerationsAreNumbers DEF StoreInv, HandedOutIsStored, HandOut, TypeInv, TypeOK, Numbers

LEMMA DeliverHandsOut ==
  ASSUME TypeInv, StoreInv, NEW o \in Operations, NEW callers, Deliver(o, callers), UNCHANGED store
  PROVE  HandedOutIsStored'
<1>1. CASE outcome[o].status = "ok"
  <2>1. outcome[o].token.generation <= store[o[1]].generation
    BY <1>1 DEF StoreInv, OutcomesAreStored
  <2>2. handedOut' \in {handedOut, HandOut(o[1], outcome[o].token.generation)}
    BY DEF Deliver
  <2> QED
    BY <2>1, <2>2, HandingOut, GenerationsAreNumbers DEF Numbers
<1>2. CASE outcome[o].status # "ok"
  BY <1>2 DEF Deliver, StoreInv, HandedOutIsStored
<1> QED
  BY <1>1, <1>2

(* A step that changes no token and no outcome, and neither queues nor     *)
(* starts a mutation, keeps the invariant, if what it hands out is stored. *)
LEMMA TokensStay ==
  ASSUME TypeInv, StoreInv, UNCHANGED <<StoreState, outcome>>, HandedOutIsStored',
         \A o \in Operations :
           phase'[o] = phase[o] \/ phase'[o] \notin {"queued", "saving"}
  PROVE  StoreInv'
<1>1. SavesItsToken'
  BY DEF StoreInv, SavesItsToken, StoreState
<1>2. /\ StoreMatchesGeneration' /\ OutcomesAreStored' /\ YieldsOwnOrNewerToken'
      /\ DiskIsAhead'
  BY DEF StoreInv, StoreMatchesGeneration, OutcomesAreStored, YieldsOwnOrNewerToken,
     DiskIsAhead, StoreState
<1> QED
  BY <1>1, <1>2 DEF StoreInv

LEMMA AnswerKeepsTokens ==
  ASSUME TypeInv, TypeInv', StoreInv, NEW n \in Operations, FetchAnswered(n)
  PROVE  StoreInv'
<1>0. Numbers /\ Numbers'
  BY GenerationsAreNumbers
<1> USE DEF Numbers, TypeInv, TypeOK
<1>1. /\ phase[n] = "fetching" /\ phase' = [phase EXCEPT ![n] = "queued"]
      /\ UNCHANGED <<StoreState, handedOut>>
  BY DEF FetchAnswered, StoreState, storeVars, callVars
<1>2. /\ outcome' \in [Operations -> Outcome]
      /\ outcome'[n].status = "pending" /\ outcome'[n].token.generation = n[2]
      /\ \A o \in Operations : o # n => outcome'[o] = outcome[o]
  BY OutcomeFacts DEF FetchAnswered, TypeInv, TypeOK
<1>3. SavesItsToken'
  BY <1>1, <1>2 DEF StoreInv, SavesItsToken, StoreState
<1>4. StoreMatchesGeneration' /\ HandedOutIsStored' /\ DiskIsAhead'
  BY <1>1 DEF StoreInv, StoreMatchesGeneration, HandedOutIsStored, DiskIsAhead, StoreState
<1>5. OutcomesAreStored' /\ YieldsOwnOrNewerToken'
  BY <1>1, <1>2 DEF StoreInv, OutcomesAreStored, YieldsOwnOrNewerToken, StoreState
<1> QED
  BY <1>3, <1>4, <1>5 DEF StoreInv

LEMMA SkipKeepsTokens ==
  ASSUME TypeInv, TypeInv', StoreInv, NEW n \in Operations, SkipSave(n)
  PROVE  StoreInv'
<1>0. Numbers /\ Numbers'
  BY GenerationsAreNumbers
<1> USE DEF Numbers, TypeInv, TypeOK
<1>1. /\ phase[n] = "queued" /\ phase' = [phase EXCEPT ![n] = "returning"]
      /\ n[2] < persistedProviderGeneration[n[1]]
      /\ outcome' = [outcome EXCEPT ![n] = [status |-> "ok", token |-> store[n[1]]]]
      /\ UNCHANGED <<StoreState, handedOut>>
  BY DEF SkipSave, IsNextMutation, Superseded, SupersededOutcome, StoreState, storeVars, callVars
<1>2. store[n[1]].generation = persistedProviderGeneration[n[1]]
  BY OperationParts DEF StoreInv, StoreMatchesGeneration
<1>3. SavesItsToken'
  BY <1>1 DEF StoreInv, SavesItsToken, StoreState
<1>4. StoreMatchesGeneration' /\ HandedOutIsStored' /\ DiskIsAhead'
  BY <1>1 DEF StoreInv, StoreMatchesGeneration, HandedOutIsStored, DiskIsAhead, StoreState
<1>5. OutcomesAreStored'
  BY <1>0, <1>1 DEF StoreInv, OutcomesAreStored, StoreState, TypeInv, TypeOK
<1>6. YieldsOwnOrNewerToken'
  BY <1>0, <1>1, <1>2 DEF StoreInv, YieldsOwnOrNewerToken, StoreState, TypeInv, TypeOK
<1> QED
  BY <1>3, <1>4, <1>5, <1>6 DEF StoreInv

LEMMA BeginKeepsTokens ==
  ASSUME TypeInv, TypeInv', StoreInv, NEW n \in Operations, BeginSave(n)
  PROVE  StoreInv'
<1>0. Numbers /\ Numbers'
  BY GenerationsAreNumbers
<1> USE DEF Numbers, TypeInv, TypeOK
<1>1. /\ phase[n] = "queued" /\ phase' = [phase EXCEPT ![n] = "saving"]
      /\ Head(storeMutationQueue) = n
      /\ ~(n[2] < persistedProviderGeneration[n[1]])
      /\ nextStore' = [store EXCEPT ![n[1]] = outcome[n].token]
      /\ UNCHANGED <<store, disk, persistedProviderGeneration, outcome, handedOut>>
  BY DEF BeginSave, IsNextMutation, Superseded, callVars
<1>2. store[n[1]].generation = persistedProviderGeneration[n[1]]
  BY OperationParts DEF StoreInv, StoreMatchesGeneration
<1>3. store[n[1]].generation <= n[2]
  BY <1>0, <1>1, <1>2
<1>4. \A o \in Operations : phase[o] # "saving"
  BY <1>1 DEF SavingIsHead
<1>5. SavesItsToken'
  BY <1>1, <1>3, <1>4 DEF StoreInv, SavesItsToken
<1>6. /\ StoreMatchesGeneration' /\ HandedOutIsStored' /\ DiskIsAhead'
      /\ OutcomesAreStored' /\ YieldsOwnOrNewerToken'
  BY <1>1 DEF StoreInv, StoreMatchesGeneration, HandedOutIsStored, DiskIsAhead,
     OutcomesAreStored, YieldsOwnOrNewerToken
<1> QED
  BY <1>5, <1>6 DEF StoreInv

(* What a mutation stores is at least as new as what was stored.           *)
LEMMA NextStoreIsNewer ==
  ASSUME TypeInv, StoreInv, NEW n \in Operations, phase[n] = "saving"
  PROVE  /\ nextStore[n[1]].generation = n[2] /\ store[n[1]].generation <= n[2]
         /\ outcome[n].token.generation = n[2]
         /\ \A p \in Providers : p # n[1] => nextStore[p] = store[p]
         /\ \A p \in Providers : store[p].generation <= nextStore[p].generation
<1>0. Numbers
  BY GenerationsAreNumbers
<1>1. /\ outcome[n].token.generation = n[2] /\ store[n[1]].generation <= n[2]
      /\ nextStore = [store EXCEPT ![n[1]] = outcome[n].token]
  BY DEF StoreInv, SavesItsToken
<1>2. store \in [Providers -> Token] /\ n[1] \in Providers
  BY OperationParts DEF TypeInv, TypeOK, Store
<1> QED
  BY <1>0, <1>1, <1>2 DEF Numbers

LEMMA SavedKeepsTokens ==
  ASSUME TypeInv, TypeInv', StoreInv, NEW n \in Operations, SaveSucceeded(n)
  PROVE  StoreInv'
<1>0. Numbers /\ Numbers'
  BY GenerationsAreNumbers
<1>n. /\ nextStore[n[1]].generation = n[2] /\ store[n[1]].generation <= n[2]
      /\ outcome[n].token.generation = n[2]
      /\ \A p \in Providers : p # n[1] => nextStore[p] = store[p]
      /\ \A p \in Providers : store[p].generation <= nextStore[p].generation
  BY NextStoreIsNewer DEF SaveSucceeded
<1> USE DEF Numbers, TypeInv, TypeOK
<1>1. /\ phase[n] = "saving" /\ phase' = [phase EXCEPT ![n] = "returning"]
      /\ disk' = nextStore /\ store' = nextStore
      /\ persistedProviderGeneration' = [persistedProviderGeneration EXCEPT ![n[1]] = n[2]]
      /\ outcome' = [outcome EXCEPT ![n].status = "ok"]
      /\ UNCHANGED handedOut
  BY DEF SaveSucceeded, callVars
<1>2. \A o \in Operations : phase'[o] # "saving"
  BY <1>1, OneSaves
<1>3. \A o \in Operations : outcome'[o].token = outcome[o].token
  BY <1>1 DEF Outcome
<1>4. \A p \in Providers : store[p].generation <= store'[p].generation
  BY <1>1, <1>n
<1>p. \A p \in Providers :
        handedOut[p] \in Nat /\ store[p].generation \in Nat /\ store'[p].generation \in Nat
  BY <1>0
<1>o. \A o \in Operations :
        o[1] \in Providers /\ o[2] \in Nat /\ outcome[o].token.generation \in Nat
  BY <1>0
<1> HIDE DEF Numbers, TypeInv, TypeOK
<1>5. SavesItsToken'
  BY <1>1, <1>2, <1>3 DEF StoreInv, SavesItsToken
<1>6. StoreMatchesGeneration'
  BY <1>1, <1>n, <1>o DEF StoreInv, StoreMatchesGeneration, TypeInv, TypeOK
<1>8. OutcomesAreStored' /\ YieldsOwnOrNewerToken'
  <2> SUFFICES ASSUME NEW o \in Operations, outcome'[o].status = "ok"
               PROVE  /\ outcome'[o].token.generation <= store'[o[1]].generation
                      /\ outcome'[o].token.generation >= o[2]
    BY DEF OutcomesAreStored, YieldsOwnOrNewerToken
  <2>1. CASE o = n
    BY <1>1, <1>3, <2>1, <1>n, <1>o
  <2>2. CASE o # n
    <3>1. outcome[o].status = "ok"
      BY <1>1, <2>2
    <3>2. /\ outcome[o].token.generation <= store[o[1]].generation
          /\ outcome[o].token.generation >= o[2]
      BY <3>1 DEF StoreInv, OutcomesAreStored, YieldsOwnOrNewerToken
    <3> QED
      BY <1>3, <1>4, <1>o, <1>p, <3>2
  <2> QED
    BY <2>1, <2>2
<1>9. HandedOutIsStored'
  BY <1>1, <1>4, <1>p DEF StoreInv, HandedOutIsStored
<1>10. DiskIsAhead'
  BY <1>1, <1>p DEF DiskIsAhead
<1> QED
  BY <1>5, <1>6, <1>8, <1>9, <1>10 DEF StoreInv

LEMMA FailedKeepsTokens ==
  ASSUME TypeInv, TypeInv', StoreInv, NEW n \in Operations, SaveFailed(n)
  PROVE  StoreInv'
<1>1. /\ phase[n] = "saving" /\ phase' = [phase EXCEPT ![n] = "returning"]
      /\ disk' \in {disk, nextStore} /\ nextStore' = store
      /\ outcome' = [outcome EXCEPT ![n] = FailedOutcome]
      /\ UNCHANGED <<store, persistedProviderGeneration, handedOut>>
  BY DEF SaveFailed, SaveFailedOutcome, callVars
<1>2. \A p \in Providers : store[p].generation <= nextStore[p].generation
  BY <1>1, NextStoreIsNewer
<1>3. \A o \in Operations : phase'[o] # "saving" /\ (phase'[o] = "queued" => phase[o] = "queued")
  BY <1>1, OneSaves DEF TypeInv, TypeOK
<1>4. \A o \in Operations : o # n => outcome'[o] = outcome[o]
  BY <1>1 DEF TypeInv, TypeOK
<1>5. phase'[n] # "queued" /\ outcome'[n].status # "ok"
  BY <1>1 DEF TypeInv, TypeOK, FailedOutcome
<1>6. SavesItsToken'
  BY <1>3, <1>4, <1>5 DEF StoreInv, SavesItsToken
<1>7. OutcomesAreStored' /\ YieldsOwnOrNewerToken'
  BY <1>1, <1>4, <1>5 DEF StoreInv, OutcomesAreStored, YieldsOwnOrNewerToken
<1>8. StoreMatchesGeneration' /\ HandedOutIsStored' /\ DiskIsAhead'
  BY <1>1, <1>2 DEF StoreInv, StoreMatchesGeneration, HandedOutIsStored, DiskIsAhead
<1> QED
  BY <1>6, <1>7, <1>8 DEF StoreInv

LEMMA StoreInvStep == TypeInv /\ TypeInv' /\ StoreInv /\ [Next]_vars => StoreInv'
<1> SUFFICES ASSUME TypeInv, TypeInv', StoreInv, [Next]_vars PROVE StoreInv'
  OBVIOUS
<1> USE DEF StoreState, storeVars, callVars
<1>1. ASSUME NEW c \in Callers, NEW p \in Providers, EnsureValidToken(c, p) PROVE StoreInv'
  <2>1. UNCHANGED <<StoreState, outcome>>
    BY <1>1 DEF EnsureValidToken, AwaitExchanges, ReturnCached, RequireLogin, JoinRefresh,
       StartRefresh, opVars
  <2>2. handedOut' \in {handedOut, HandOut(p, store[p].generation)}
    BY <1>1 DEF EnsureValidToken, AwaitExchanges, ReturnCached, RequireLogin, JoinRefresh,
       StartRefresh
  <2>3. HandedOutIsStored'
    BY <2>1, <2>2, HandingOut, GenerationsAreNumbers DEF Numbers
  <2>4. \A o \in Operations : phase'[o] = phase[o] \/ phase'[o] \notin {"queued", "saving"}
    BY <1>1 DEF EnsureValidToken, AwaitExchanges, ReturnCached, RequireLogin, JoinRefresh,
       StartRefresh, BeginOperation, opVars, TypeInv, TypeOK
  <2> QED
    BY <2>1, <2>3, <2>4, TokensStay
<1>2. ASSUME NEW c \in Callers, NEW p \in Providers, ExchangeCode(c, p) PROVE StoreInv'
  <2>1. UNCHANGED <<StoreState, outcome, handedOut, store>>
    BY <1>2 DEF ExchangeCode
  <2>2. \A o \in Operations : phase'[o] = phase[o] \/ phase'[o] \notin {"queued", "saving"}
    BY <1>2 DEF ExchangeCode, BeginOperation, TypeInv, TypeOK
  <2>3. HandedOutIsStored'
    BY <2>1 DEF StoreInv, HandedOutIsStored
  <2> QED
    BY <2>1, <2>2, <2>3, TokensStay
<1>3. ASSUME \/ \E c \in Callers : AbortWaiting(c) \/ AbortAwaiting(c)
             \/ \E c \in Callers, o \in Operations : AbortExchange(c, o) \/ LeaveWait(c, o)
             \/ DrainPending
             \/ \E p \in Providers : Expire(p)
             \/ UNCHANGED vars
      PROVE  StoreInv'
  <2>1. UNCHANGED <<StoreState, outcome, handedOut, store, phase>>
    BY <1>3 DEF AbortWaiting, AbortAwaiting, AbortExchange, LeaveWait, DrainPending, Expire,
       vars, opVars
  <2>2. HandedOutIsStored'
    BY <2>1 DEF StoreInv, HandedOutIsStored
  <2> QED
    BY <2>1, <2>2, TokensStay
<1>4. ASSUME NEW o \in Operations, FetchFailed(o) PROVE StoreInv'
  <2>1. /\ phase[o] = "fetching" /\ phase' = [phase EXCEPT ![o] = "returning"]
        /\ outcome' = [outcome EXCEPT ![o] = FailedOutcome]
        /\ UNCHANGED <<StoreState, handedOut>>
    BY <1>4 DEF FetchFailed
  <2>2. /\ phase'[o] = "returning" /\ outcome'[o].status # "ok"
        /\ \A u \in Operations : u # o => phase'[u] = phase[u] /\ outcome'[u] = outcome[u]
    BY <2>1 DEF TypeInv, TypeOK, FailedOutcome
  <2>3. SavesItsToken' /\ OutcomesAreStored' /\ YieldsOwnOrNewerToken'
    BY <2>1, <2>2 DEF StoreInv, SavesItsToken, OutcomesAreStored, YieldsOwnOrNewerToken
  <2>4. StoreMatchesGeneration' /\ HandedOutIsStored' /\ DiskIsAhead'
    BY <2>1 DEF StoreInv, StoreMatchesGeneration, HandedOutIsStored, DiskIsAhead
  <2> QED
    BY <2>3, <2>4 DEF StoreInv
<1>5. ASSUME NEW o \in Operations, Settle(o) PROVE StoreInv'
  <2>1. UNCHANGED <<StoreState, outcome>>
    BY <1>5 DEF Settle, SettleRefresh, SettleExchange
  <2>2. HandedOutIsStored'
    BY <1>5, <2>1, DeliverHandsOut DEF Settle, SettleRefresh, SettleExchange
  <2>3. \A u \in Operations : phase'[u] = phase[u] \/ phase'[u] \notin {"queued", "saving"}
    BY <1>5 DEF Settle, SettleRefresh, SettleExchange, TypeInv, TypeOK
  <2> QED
    BY <2>1, <2>2, <2>3, TokensStay
<1> QED
  BY <1>1, <1>2, <1>3, <1>4, <1>5, AnswerKeepsTokens, SkipKeepsTokens, BeginKeepsTokens,
     SavedKeepsTokens, FailedKeepsTokens
     DEF Next, Mutate

LEMMA StoreCorrect == Spec => [](TypeInv /\ StoreInv)
<1>1. TypeInv /\ LocksInv /\ StoreInv /\ [Next]_vars => StoreInv'
  BY TypeInvStep, StoreInvStep
<1> QED
  BY InitTypeInv, InitLocksInv, InitStoreInv, TypeInvStep, LocksInvStep, <1>1, PTL DEF Spec

-----------------------------------------------------------------------------
(* The store mutations of different providers never lose one another's     *)
(* token.                                                                  *)
THEOREM NoLostToken == Spec => []StoreMatchesGeneration
<1>1. StoreInv => StoreMatchesGeneration
  BY DEF StoreInv
<1> QED
  BY StoreCorrect, <1>1, PTL

(* A late answer never replaces the token of a later operation.            *)
THEOREM NewestTokenWins == Spec => NewestWins
<1>1. TypeInv /\ StoreInv /\ [Next]_vars
      => [\A p \in Providers : store'[p].generation >= store[p].generation]_vars
  <2> SUFFICES ASSUME TypeInv, StoreInv, Next, NEW p \in Providers
               PROVE  store'[p].generation >= store[p].generation
    OBVIOUS
  <2>1. store[p].generation \in Nat
    BY GenerationsAreNumbers DEF Numbers
  <2>2. ASSUME NEW o \in Operations, SaveSucceeded(o)
        PROVE  store'[p].generation >= store[p].generation
    <3>1. phase[o] = "saving" /\ store' = nextStore
      BY <2>2 DEF SaveSucceeded
    <3>2. store[p].generation <= nextStore[p].generation
      BY <3>1, NextStoreIsNewer
    <3>3. nextStore[p].generation \in Nat
      BY ConstantsAssumption DEF TypeInv, TypeOK, Store, Token
    <3> QED
      BY <2>1, <3>1, <3>2, <3>3
  <2>3. CASE \A o \in Operations : ~SaveSucceeded(o)
    <3>1. UNCHANGED store
      BY <2>3 DEF Next, EnsureValidToken, AwaitExchanges, ReturnCached, RequireLogin,
         JoinRefresh, StartRefresh, ExchangeCode, AbortWaiting, AbortAwaiting, AbortExchange,
         LeaveWait, FetchAnswered, FetchFailed, Mutate, SkipSave, BeginSave, SaveFailed,
         Settle, SettleRefresh, SettleExchange, DrainPending, Expire, storeVars
    <3> QED
      BY <2>1, <3>1
  <2> QED
    BY <2>2, <2>3
<1> QED
  BY StoreCorrect, <1>1, PTL DEF Spec, NewestWins

(* A caller that waited for an operation never gets an older token.        *)
THEOREM NoOlderToken == Spec => []YieldsOwnOrNewerToken
<1>1. StoreInv => YieldsOwnOrNewerToken
  BY DEF StoreInv
<1> QED
  BY StoreCorrect, <1>1, PTL

(* A token in use is never ahead of auth.json.                             *)
THEOREM TokensInUseAreDurable == Spec => []HandedOutIsDurable
<1>1. TypeInv /\ StoreInv => HandedOutIsDurable
  BY GenerationsAreNumbers DEF Numbers, StoreInv, HandedOutIsStored, DiskIsAhead, HandedOutIsDurable
<1> QED
  BY StoreCorrect, <1>1, PTL

-----------------------------------------------------------------------------
(* Logins and refreshes.                                                   *)

(* A login that is neither settled nor cancelled holds its provider.       *)
LoginsAreLocked ==
  \A e \in Operations :
    kind[e] = "exchange" /\ phase[e] # "settled" /\ ~aborted[e] => e[2] \in exchangeLocks[e[1]]

(* A refresh begins once the logins before it have settled, or were        *)
(* cancelled.                                                              *)
RefreshFollowsLogins ==
  \A r, e \in Operations :
    /\ kind[r] = "refresh" /\ kind[e] = "exchange" /\ e[1] = r[1] /\ e[2] < r[2] /\ ~aborted[e]
    => phase[e] = "settled"

RefreshesArePending ==
  \A r \in Operations :
    kind[r] = "refresh" /\ phase[r] # "settled" => r \in pendingRefreshOperations

LoginInv ==
  LoginsAreLocked /\ RefreshFollowsLogins /\ RefreshStartsFromLogin /\ RefreshesArePending

LEMMA InitLoginInv == Init => LoginInv
BY DEF Init, LoginInv, LoginsAreLocked, RefreshFollowsLogins, RefreshStartsFromLogin,
   RefreshesArePending

(* A step that begins and settles no operation.                            *)
LEMMA LoginsStay ==
  ASSUME LoginInv, UNCHANGED <<kind, currentToken, exchangeLocks, pendingRefreshOperations>>,
         \A o \in Operations : aborted[o] => aborted'[o],
         \A o \in Operations :
           \/ phase'[o] = phase[o] /\ outcome'[o] = outcome[o]
           \/ phase[o] # "settled" /\ phase'[o] # "settled"
  PROVE  LoginInv'
<1>1. LoginsAreLocked' /\ RefreshesArePending'
  BY DEF LoginInv, LoginsAreLocked, RefreshesArePending
<1>2. RefreshFollowsLogins'
  BY DEF LoginInv, RefreshFollowsLogins
<1>3. RefreshStartsFromLogin'
  BY DEF LoginInv, RefreshStartsFromLogin
<1> QED
  BY <1>1, <1>2, <1>3 DEF LoginInv

(* An operation that begins is the newest of its provider.                 *)
LEMMA Begun ==
  ASSUME TypeInv, LocksInv, NEW p \in Providers, NEW k \in {"refresh", "exchange"},
         BeginOperation(p, k)
  PROVE  LET n == NewOperation(p) IN
           /\ n \in Operations /\ n[1] = p
           /\ kind'[n] = k /\ phase'[n] = "fetching" /\ currentToken'[n] = store[p]
           /\ kind[n] = "none" /\ ~aborted[n]
           /\ \A o \in Operations : o # n =>
                kind'[o] = kind[o] /\ phase'[o] = phase[o] /\ currentToken'[o] = currentToken[o]
           /\ \A o \in Operations : o # n /\ o[1] = p /\ kind[o] # "none" => o[2] < n[2]
<1> DEFINE n == NewOperation(p) g == nextProviderGeneration[p] + 1
<1>1. n = <<p, g>> /\ g <= MaxGeneration /\ nextProviderGeneration[p] \in 0..MaxGeneration
  BY DEF BeginOperation, NewOperation, NewGeneration, TypeInv, TypeOK
<1>2. g \in Generation /\ n \in Operations
  BY <1>1, GenerationFacts, OperationOf
<1>3. kind[n] = "none" /\ ~aborted[n]
  BY <1>1, <1>2, GenerationFacts, ConstantsAssumption DEF LocksInv, FutureUntouched
<1>4. ASSUME NEW o \in Operations, o # n, o[1] = p, kind[o] # "none" PROVE o[2] < n[2]
  <2>1. o[2] \in Nat /\ ~(o[2] > nextProviderGeneration[p])
    BY <1>4, OperationParts, ConstantsAssumption DEF LocksInv, FutureUntouched, Generation
  <2> QED
    BY <1>1, <2>1, ConstantsAssumption
<1>5. /\ kind' = [kind EXCEPT ![n] = k] /\ phase' = [phase EXCEPT ![n] = "fetching"]
      /\ currentToken' = [currentToken EXCEPT ![n] = store[p]]
  BY DEF BeginOperation
<1> HIDE DEF n
<1>6. n[1] = p
  BY <1>1
<1> QED
  BY <1>2, <1>3, <1>4, <1>5, <1>6 DEF TypeInv, TypeOK, n

LEMMA StartKeepsLogins ==
  ASSUME TypeInv, LocksInv, StoreInv, LoginInv, NEW c \in Callers, NEW p \in Providers,
         StartRefresh(c, p)
  PROVE  LoginInv'
<1> DEFINE n == NewOperation(p)
<1>1. /\ n \in Operations /\ n[1] = p
      /\ kind'[n] = "refresh" /\ phase'[n] = "fetching" /\ currentToken'[n] = store[p]
      /\ kind[n] = "none"
      /\ \A o \in Operations : o # n =>
           kind'[o] = kind[o] /\ phase'[o] = phase[o] /\ currentToken'[o] = currentToken[o]
      /\ \A o \in Operations : o # n /\ o[1] = p /\ kind[o] # "none" => o[2] < n[2]
  BY Begun DEF StartRefresh
<1>2. /\ exchangeLocks[p] = {} /\ UNCHANGED <<aborted, outcome, exchangeLocks>>
      /\ pendingRefreshOperations' = pendingRefreshOperations \cup {n}
  BY DEF StartRefresh, LoginPending
<1> HIDE DEF n
<1>3. \A e \in Operations : kind[e] = "exchange" /\ e[1] = p /\ ~aborted[e] => phase[e] = "settled"
  BY <1>2 DEF LoginInv, LoginsAreLocked
<1>4. LoginsAreLocked'
  BY <1>1, <1>2 DEF LoginInv, LoginsAreLocked
<1>5. RefreshFollowsLogins'
  BY <1>1, <1>2, <1>3 DEF LoginInv, RefreshFollowsLogins
<1>6. RefreshStartsFromLogin'
  <2> SUFFICES ASSUME NEW r \in Operations, NEW e \in Operations,
                      kind'[r] = "refresh", kind'[e] = "exchange", e[1] = r[1], e[2] < r[2],
                      phase'[e] = "settled", outcome'[e].status = "ok", ~aborted'[e]
               PROVE  currentToken'[r].generation >= e[2]
    BY DEF RefreshStartsFromLogin
  <2>1. e # n /\ kind[e] = "exchange" /\ phase[e] = "settled" /\ outcome[e].status = "ok" /\ ~aborted[e]
    BY <1>1, <1>2
  <2>2. CASE r = n
    <3>1. /\ outcome[e].token.generation <= store[p].generation
          /\ outcome[e].token.generation >= e[2]
      BY <1>1, <2>1, <2>2 DEF StoreInv, OutcomesAreStored, YieldsOwnOrNewerToken
    <3>2. /\ outcome[e].token.generation \in Nat /\ store[p].generation \in Nat /\ e[2] \in Nat
      BY GenerationsAreNumbers DEF Numbers
    <3> QED
      BY <1>1, <2>2, <3>1, <3>2
  <2>3. CASE r # n
    BY <1>1, <2>1, <2>3 DEF LoginInv, RefreshStartsFromLogin
  <2> QED
    BY <2>2, <2>3
<1>7. RefreshesArePending'
  BY <1>1, <1>2 DEF LoginInv, RefreshesArePending
<1> QED
  BY <1>4, <1>5, <1>6, <1>7 DEF LoginInv

LEMMA LoginKeepsLogins ==
  ASSUME TypeInv, LocksInv, LoginInv, NEW c \in Callers, NEW p \in Providers, ExchangeCode(c, p)
  PROVE  LoginInv'
<1> DEFINE n == NewOperation(p)
<1>1. /\ n \in Operations /\ n[1] = p
      /\ kind'[n] = "exchange" /\ phase'[n] = "fetching"
      /\ kind[n] = "none"
      /\ \A o \in Operations : o # n =>
           kind'[o] = kind[o] /\ phase'[o] = phase[o] /\ currentToken'[o] = currentToken[o]
      /\ \A o \in Operations : o # n /\ o[1] = p /\ kind[o] # "none" => o[2] < n[2]
  BY Begun DEF ExchangeCode
<1>2. /\ UNCHANGED <<aborted, outcome, pendingRefreshOperations>>
      /\ exchangeLocks' = [exchangeLocks EXCEPT ![p] = @ \cup {n[2]}]
  BY DEF ExchangeCode
<1> HIDE DEF n
<1>3. \A e \in Operations : e[2] \in Nat /\ e[1] \in Providers
  BY GenerationsAreNumbers DEF Numbers
<1>4. LoginsAreLocked'
  BY <1>1, <1>2, <1>3 DEF LoginInv, LoginsAreLocked, TypeInv, TypeOK
<1>5. RefreshFollowsLogins'
  BY <1>1, <1>2, <1>3 DEF LoginInv, RefreshFollowsLogins
<1>6. RefreshStartsFromLogin'
  BY <1>1, <1>2 DEF LoginInv, RefreshStartsFromLogin
<1>7. RefreshesArePending'
  BY <1>1, <1>2 DEF LoginInv, RefreshesArePending
<1> QED
  BY <1>4, <1>5, <1>6, <1>7 DEF LoginInv

LEMMA AbortKeepsLogins ==
  ASSUME TypeInv, LoginInv, NEW c \in Callers, NEW o \in Operations, AbortExchange(c, o)
  PROVE  LoginInv'
<1>1. /\ aborted' = [aborted EXCEPT ![o] = TRUE]
      /\ exchangeLocks' = [exchangeLocks EXCEPT ![o[1]] = @ \ {o[2]}]
      /\ UNCHANGED <<kind, phase, currentToken, outcome, pendingRefreshOperations>>
  BY DEF AbortExchange
<1>2. /\ \A e \in Operations : e # o => aborted'[e] = aborted[e]
      /\ aborted'[o]
  BY <1>1 DEF TypeInv, TypeOK
<1>3. \A e \in Operations : e # o /\ e[2] \in exchangeLocks[e[1]] => e[2] \in exchangeLocks'[e[1]]
  BY <1>1, OperationParts DEF TypeInv, TypeOK
<1>4. LoginsAreLocked'
  BY <1>1, <1>2, <1>3 DEF LoginInv, LoginsAreLocked
<1>5. RefreshFollowsLogins' /\ RefreshStartsFromLogin' /\ RefreshesArePending'
  BY <1>1, <1>2 DEF LoginInv, RefreshFollowsLogins, RefreshStartsFromLogin, RefreshesArePending
<1> QED
  BY <1>4, <1>5 DEF LoginInv

(* A login that settles only now has no refresh after it.                  *)
LEMMA SettleKeepsLogins ==
  ASSUME TypeInv, LoginInv, NEW o \in Operations, Settle(o)
  PROVE  LoginInv'
<1>1. /\ phase[o] = "returning" /\ phase'[o] = "settled"
      /\ \A e \in Operations : e # o => phase'[e] = phase[e]
      /\ UNCHANGED <<kind, aborted, currentToken, outcome>>
  BY DEF Settle, SettleRefresh, SettleExchange, TypeInv, TypeOK
<1>2. /\ \/ exchangeLocks' = exchangeLocks
         \/ exchangeLocks' = [exchangeLocks EXCEPT ![o[1]] = @ \ {o[2]}]
      /\ \/ pendingRefreshOperations' = pendingRefreshOperations
         \/ pendingRefreshOperations' = pendingRefreshOperations \ {o}
  BY DEF Settle, SettleRefresh, SettleExchange
<1>3. \A e \in Operations :
        e # o /\ e[2] \in exchangeLocks[e[1]] => e[2] \in exchangeLocks'[e[1]]
  BY <1>2, OperationParts DEF TypeInv, TypeOK
<1>4. \A e \in Operations :
        e # o /\ e \in pendingRefreshOperations => e \in pendingRefreshOperations'
  BY <1>2
<1>5. LoginsAreLocked' /\ RefreshesArePending'
  BY <1>1, <1>3, <1>4 DEF LoginInv, LoginsAreLocked, RefreshesArePending
<1>6. RefreshFollowsLogins'
  BY <1>1 DEF LoginInv, RefreshFollowsLogins
<1>7. RefreshStartsFromLogin'
  BY <1>1 DEF LoginInv, RefreshFollowsLogins, RefreshStartsFromLogin
<1> QED
  BY <1>5, <1>6, <1>7 DEF LoginInv

LEMMA LoginInvStep ==
  TypeInv /\ LocksInv /\ StoreInv /\ LoginInv /\ [Next]_vars => LoginInv'
<1> SUFFICES ASSUME TypeInv, LocksInv, StoreInv, LoginInv, [Next]_vars PROVE LoginInv'
  OBVIOUS
<1> USE DEF opVars, storeVars, lockVars
<1>1. ASSUME \/ \E c \in Callers, p \in Providers :
                  AwaitExchanges(c, p) \/ ReturnCached(c, p) \/ RequireLogin(c, p) \/ JoinRefresh(c, p)
             \/ \E c \in Callers : AbortWaiting(c) \/ AbortAwaiting(c)
             \/ DrainPending
             \/ \E p \in Providers : Expire(p)
             \/ UNCHANGED vars
      PROVE  LoginInv'
  <2>1. UNCHANGED <<kind, phase, aborted, currentToken, outcome, exchangeLocks, pendingRefreshOperations>>
    BY <1>1 DEF AwaitExchanges, ReturnCached, RequireLogin, JoinRefresh, AbortWaiting,
       AbortAwaiting, DrainPending, Expire, vars
  <2> QED
    BY <2>1, LoginsStay
<1>2. ASSUME NEW c \in Callers, NEW o \in Operations, LeaveWait(c, o) PROVE LoginInv'
  <2>1. UNCHANGED <<kind, phase, currentToken, outcome, exchangeLocks, pendingRefreshOperations>>
    BY <1>2 DEF LeaveWait
  <2>2. \A u \in Operations : aborted[u] => aborted'[u]
    BY <1>2 DEF LeaveWait, TypeInv, TypeOK
  <2> QED
    BY <2>1, <2>2, LoginsStay
<1>3. ASSUME NEW o \in Operations, FetchAnswered(o) \/ FetchFailed(o) \/ Mutate(o) PROVE LoginInv'
  <2>1. UNCHANGED <<kind, aborted, currentToken, exchangeLocks, pendingRefreshOperations>>
    BY <1>3 DEF FetchAnswered, FetchFailed, Mutate, SkipSave, BeginSave, SaveSucceeded, SaveFailed
  <2>2. phase[o] # "settled"
    BY <1>3 DEF FetchAnswered, FetchFailed, Mutate, SkipSave, BeginSave, SaveSucceeded,
       SaveFailed, IsNextMutation
  <2>3. \E ph \in {"queued", "returning", "saving"} : phase' = [phase EXCEPT ![o] = ph]
    BY <1>3 DEF FetchAnswered, FetchFailed, Mutate, SkipSave, BeginSave, SaveSucceeded, SaveFailed
  <2>4. \A u \in Operations : u # o => outcome'[u] = outcome[u]
    BY <1>3 DEF FetchAnswered, FetchFailed, Mutate, SkipSave, BeginSave, SaveSucceeded,
       SaveFailed, TypeInv, TypeOK
  <2>5. \A u \in Operations :
          \/ phase'[u] = phase[u] /\ outcome'[u] = outcome[u]
          \/ phase[u] # "settled" /\ phase'[u] # "settled"
    BY <2>2, <2>3, <2>4 DEF TypeInv, TypeOK
  <2> QED
    BY <2>1, <2>5, LoginsStay
<1> QED
  BY <1>1, <1>2, <1>3, StartKeepsLogins, LoginKeepsLogins, AbortKeepsLogins, SettleKeepsLogins
     DEF Next, EnsureValidToken

LEMMA LoginsCorrect == Spec => [](TypeInv /\ LoginInv)
<1>1. TypeInv /\ LocksInv /\ StoreInv /\ [Next]_vars => StoreInv'
  BY TypeInvStep, StoreInvStep
<1> QED
  BY InitTypeInv, InitLocksInv, InitStoreInv, InitLoginInv, TypeInvStep, LocksInvStep, <1>1,
     LoginInvStep, PTL DEF Spec

(* A refresh starts from the token of every login that succeeded before    *)
(* it, or from a newer one.                                                *)
THEOREM RefreshUsesLogin == Spec => []RefreshStartsFromLogin
<1>1. LoginInv => RefreshStartsFromLogin
  BY DEF LoginInv
<1> QED
  BY LoginsCorrect, <1>1, PTL

(* The drain ends with no refresh under way, cancelled ones included.      *)
THEOREM NoRefreshLeft == Spec => DrainLeavesNoRefresh
<1>1. TypeInv /\ LoginInv /\ [Next]_vars
      => [drain # "done" /\ drain' = "done" =>
            \A o \in Operations : kind[o] = "refresh" => phase[o] = "settled"]_vars
  <2> SUFFICES ASSUME LoginInv, Next, drain # "done", drain' = "done"
               PROVE  \A o \in Operations : kind[o] = "refresh" => phase[o] = "settled"
    OBVIOUS
  <2>1. DrainPending
    BY DEF Next, EnsureValidToken, AwaitExchanges, ReturnCached, RequireLogin,
       JoinRefresh, StartRefresh, ExchangeCode, AbortWaiting, AbortAwaiting, AbortExchange,
       LeaveWait, FetchAnswered, FetchFailed, Mutate, SkipSave, BeginSave, SaveSucceeded,
       SaveFailed, Settle, SettleRefresh, SettleExchange, Expire, drainVars
  <2>2. pendingRefreshOperations = {}
    BY <2>1 DEF DrainPending, NothingPending
  <2> QED
    BY <2>2 DEF LoginInv, RefreshesArePending
<1> QED
  BY LoginsCorrect, <1>1, PTL DEF Spec, DrainLeavesNoRefresh
=============================================================================
