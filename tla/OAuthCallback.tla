----------------------------- MODULE OAuthCallback -----------------------------
(***************************************************************************)
(* The login of a provider (src/server/oauth/callback.ts): /oauth/login    *)
(* sends the user to the provider with a new state, and the callback with  *)
(* that state exchanges the code it brings.  A state is good for one       *)
(* callback and for Ttl; when there are too many the oldest goes.          *)
(* Callbacks come in any order, more than once, late, and with states that *)
(* were never given out.                                                   *)
(***************************************************************************)
EXTENDS Naturals, Sequences, FiniteSets

CONSTANTS
  Providers, Unknown,         \* with a login; without one
  MaxLogins,                  \* bound: of the states given out, numbered from 1
  MaxPendingStates,
  Ttl, MaxTime                \* STATE_TTL_MS in units of time; bound: of the run

VARIABLES
  now,
  pendingStates,              \* inserted in the order of their numbers
  logins,                     \* all the states given out, in order
  consumed,                   \* the states whose callback came and was accepted
  exchanges                   \* the calls of exchangeCode

vars == <<now, pendingStates, logins, consumed, exchanges>>

Init ==
  /\ now = 0
  /\ pendingStates = {} /\ logins = <<>>
  /\ consumed = {} /\ exchanges = <<>>

Tick ==
  /\ now < MaxTime /\ now' = now + 1
  /\ UNCHANGED <<pendingStates, logins, consumed, exchanges>>

(* removeExpiredPendingStates                                              *)
Unexpired == {s \in pendingStates : s.expiresAt > now}

(* Faulty: the newest state goes when there are too many.                  *)
MadeRoom_Faulty(pending) ==
  IF Cardinality(pending) >= MaxPendingStates
  THEN {s \in pending : \E t \in pending : s.state < t.state} ELSE pending

\* the first key of the Map is deleted
MadeRoom(pending) ==
  IF Cardinality(pending) >= MaxPendingStates
  THEN {s \in pending : \E t \in pending : t.state < s.state} ELSE pending

(* createPendingState: a new state is not one that was there.              *)
CreatePendingState(provider) ==
  LET new == [state |-> Len(logins) + 1, provider |-> provider, expiresAt |-> now + Ttl] IN
    /\ pendingStates' = MadeRoom(Unexpired) \cup {new}
    /\ logins' = Append(logins, new)

(* Another provider, another flow or no authorizationUrl: an error.        *)
Login(provider) ==
  /\ provider \in Providers
  /\ Len(logins) < MaxLogins
  /\ CreatePendingState(provider)
  /\ UNCHANGED <<now, consumed, exchanges>>

(* The state is gone whatever comes of its callback.                       *)
ConsumePendingState(state) == pendingStates' = {s \in Unexpired : s.state # state}

(* The provider rejects the login, the code is missing, or it is           *)
(* exchanged.                                                              *)
Callback(state, brings) ==
  /\ ConsumePendingState(state)
  /\ \/ /\ \A pending \in Unexpired : pending.state # state
        /\ UNCHANGED <<consumed, exchanges>>
     \/ \E pending \in Unexpired :
          /\ pending.state = state
          /\ consumed' = consumed \cup {state}
          /\ exchanges' = IF brings = "code" THEN
                            Append(exchanges, [state |-> state, provider |-> pending.provider, at |-> now])
                          ELSE exchanges
  /\ UNCHANGED <<now, logins>>

Next ==
  \/ Tick
  \/ \E provider \in Providers \cup {Unknown} : Login(provider)
  \/ \E state \in 0..MaxLogins, brings \in {"code", "error", "nothing"} : Callback(state, brings)

Spec == Init /\ [][Next]_vars

-----------------------------------------------------------------------------
(* A login that was started is good for one exchange: of its provider,     *)
(* before it expires, whatever callbacks come how often; and no other      *)
(* state is good for any.                                                  *)
ExchangedOnce ==
  /\ \A i \in DOMAIN exchanges : \E j \in DOMAIN logins :
       /\ logins[j].state = exchanges[i].state
       /\ logins[j].provider = exchanges[i].provider
       /\ exchanges[i].at < logins[j].expiresAt
  /\ \A i, j \in DOMAIN exchanges : exchanges[i].state = exchanges[j].state => i = j

(* A login is not forgotten before it has expired unless MaxPendingStates  *)
(* logins were started after it, however many callbacks come.              *)
LoginRemembered ==
  /\ Cardinality(pendingStates) <= MaxPendingStates
  /\ \A j \in DOMAIN logins :
       (Len(logins) - j < MaxPendingStates /\ now < logins[j].expiresAt /\ logins[j].state \notin consumed)
         => logins[j] \in pendingStates

LoginsHonoured == ExchangedOnce /\ LoginRemembered
=============================================================================
