--------------------------- MODULE KeyFailoverProofs ---------------------------
(***************************************************************************)
(* What TLAPS proves of MCKeyFailover.  KeyFailover, for any number of     *)
(* requests, keys, retries and parts: a consumer hears one call's stream,  *)
(* a request leaves no upstream stream open, and the keys take turns.  Of  *)
(* what stands beside it, for any numbers of commands, edits, requests,    *)
(* fetches, logins, models and plugins: a change to the settings that was  *)
(* saved is not lost, the catalog is fetched once at a time, a login is    *)
(* good for one exchange and remembered, a sync's plan is what was chosen, *)
(* requests are routed as /v1/models lists, and a route has the plugins    *)
(* and tools that the settings configure.                                  *)
(***************************************************************************)
EXTENDS MCKeyFailover, DataProofs
-----------------------------------------------------------------------------
(* The key failover (KeyFailover).                                         *)

(* Before it is committed nothing of a stream has got out, and what was    *)
(* read is in the buffer; from then on the consumer has got what is not in *)
(* the buffer any more.                                                    *)
BufferIsTheRest(r) ==
  /\ phase[r] \notin {"replaying", "done", "broken"} => delivered[r] = <<>>
  /\ phase[r] \in {"calling", "buffering", "replaying"} =>
       /\ read[r] = Len(delivered[r]) + Len(buffered[r])
       /\ \A n \in 1..Len(buffered[r]) :
            buffered[r][n] = <<ThisCall(r), Len(delivered[r]) + n>>

HeardInOrder(r) == \A n \in 1..Len(delivered[r]) : delivered[r][n] = <<ThisCall(r), n>>

(* Only the last call's stream is open, and only while it is read.         *)
OpenWhileRead(r) ==
  /\ open[r] \subseteq {ThisCall(r)}
  /\ phase[r] \notin {"buffering", "cancelling", "replaying"} => open[r] = {}

RequestInv(r) == BufferIsTheRest(r) /\ HeardInOrder(r) /\ OpenWhileRead(r)

FailoverInv == TypeOK /\ \A r \in Requests : RequestInv(r)

-----------------------------------------------------------------------------
(* Types.                                                                  *)

LEMMA KeyOfIndex ==
  ASSUME NEW n \in Nat
  PROVE  n % KeyCount \in Keys
BY FailoverAssumption DEF Keys

LEMMA PartType ==
  ASSUME TypeOK, NEW r \in Requests
  PROVE  ThisCall(r) \in Nat /\ Part(r) \in Nat \X Nat
BY DEF TypeOK, ThisCall, Part

LEMMA InitTypes == Init => TypeOK
<1> SUFFICES ASSUME Init PROVE TypeOK
  OBVIOUS
<1>1. 0 \in Keys
  BY FailoverAssumption DEF Keys
<1>2. /\ <<>> \in Seq(Keys) /\ <<>> \in Seq(Nat \X Nat)
  OBVIOUS
<1> QED  BY <1>1, <1>2 DEF Init, TypeOK, Phases

LEMMA FailTypes ==
  ASSUME TypeOK, NEW r \in Requests, NEW may \in BOOLEAN, Fail(r, may),
         open' \in [Requests -> SUBSET Nat]
  PROVE  TypeOK'
<1>1. current[r] \in Keys /\ current[r] + 1 \in Nat
  BY DEF TypeOK, Keys
<1>2. (current[r] + 1) % KeyCount \in Keys
  BY <1>1, KeyOfIndex
<1>3. current' \in [Requests -> Keys]
  BY <1>2 DEF TypeOK, Fail
<1>4. phase' \in [Requests -> Phases] /\ retryable' \in [Requests -> BOOLEAN]
  BY DEF TypeOK, Fail, Phases
<1> QED  BY <1>3, <1>4 DEF TypeOK, Fail

LEMMA ClosedType ==
  ASSUME TypeOK, NEW r \in Requests, Closed(r)
  PROVE  open' \in [Requests -> SUBSET Nat]
BY DEF TypeOK, Closed

(* Every step keeps the types.                                             *)
LEMMA StepTypes == TypeOK /\ [Next]_vars => TypeOK'
<1> SUFFICES ASSUME TypeOK, [Next]_vars PROVE TypeOK'
  OBVIOUS
<1>1. CASE UNCHANGED vars
  BY <1>1 DEF vars, TypeOK
<1>2. ASSUME NEW r \in Requests, Resolve(r) PROVE TypeOK'
  <2>1. nextIndex % KeyCount \in Keys
    BY KeyOfIndex DEF TypeOK
  <2> QED  BY <1>2, <2>1 DEF Resolve, Advanced, TypeOK, Phases
<1>3. ASSUME NEW r \in Requests, Call(r) PROVE TypeOK'
  <2>1. first[r] + current[r] \in Nat
    BY DEF TypeOK, Keys
  <2>2. Select(r) \in Keys
    BY <2>1, KeyOfIndex DEF Select
  <2>3. calls' \in [Requests -> Seq(Keys)]
    BY <1>3, <2>2 DEF Call, TypeOK
  <2>4. /\ phase' \in [Requests -> Phases] /\ read' \in [Requests -> Nat]
        /\ buffered' \in [Requests -> Seq(Nat \X Nat)] /\ retryable' \in [Requests -> BOOLEAN]
    BY <1>3 DEF Call, TypeOK, Phases
  <2> QED  BY <1>3, <2>3, <2>4 DEF Call, TypeOK
<1>4. ASSUME NEW r \in Requests, Generated(r) PROVE TypeOK'
  BY <1>4 DEF Generated, TypeOK, Phases
<1>5. ASSUME NEW r \in Requests, Opened(r) PROVE TypeOK'
  <2>1. open' \in [Requests -> SUBSET Nat]
    BY <1>5, PartType DEF Opened, TypeOK
  <2> QED  BY <1>5, <2>1 DEF Opened, TypeOK, Phases
<1>6. ASSUME NEW r \in Requests, EndsUncommitted(r) PROVE TypeOK'
  BY <1>6, ClosedType DEF EndsUncommitted, TypeOK, Phases
<1>7. ASSUME NEW r \in Requests, CancelSettles(r) PROVE TypeOK'
  <2>1. retryable[r] \in BOOLEAN
    BY DEF TypeOK
  <2> QED  BY <1>7, <2>1, ClosedType, FailTypes DEF CancelSettles
<1>8. ASSUME NEW r \in Requests, Replay(r) PROVE TypeOK'
  <2>1. buffered[r] \in Seq(Nat \X Nat) /\ buffered[r] # <<>>
    BY <1>8 DEF Replay, TypeOK
  <2>2. Head(buffered[r]) \in Nat \X Nat /\ Tail(buffered[r]) \in Seq(Nat \X Nat)
    BY <2>1
  <2>3. /\ delivered' \in [Requests -> Seq(Nat \X Nat)]
        /\ buffered' \in [Requests -> Seq(Nat \X Nat)]
    BY <1>8, <2>2 DEF Replay, TypeOK
  <2> QED  BY <1>8, <2>3 DEF Replay, TypeOK
<1>9. ASSUME NEW r \in Requests, PassPart(r) PROVE TypeOK'
  <2>1. /\ delivered[r] \in Seq(Nat \X Nat) /\ Part(r) \in Nat \X Nat
        /\ read[r] + 1 \in Nat
    BY PartType DEF TypeOK
  <2>2. Append(delivered[r], Part(r)) \in Seq(Nat \X Nat)
    BY <2>1
  <2>3. delivered' \in [Requests -> Seq(Nat \X Nat)] /\ read' \in [Requests -> Nat]
    BY <1>9, <2>1, <2>2 DEF PassPart, TypeOK
  <2> QED  BY <1>9, <2>3 DEF PassPart, TypeOK
<1>10. ASSUME NEW r \in Requests, PassEnd(r) PROVE TypeOK'
  <2>1. phase' \in [Requests -> Phases]
    BY <1>10 DEF PassEnd, TypeOK, Phases
  <2> QED  BY <1>10, <2>1, ClosedType DEF PassEnd, TypeOK
<1>11. ASSUME NEW r \in Requests, Cancel(r) PROVE TypeOK'
  BY <1>11, ClosedType DEF Cancel, TypeOK, Phases
<1>12. ASSUME NEW r \in Requests, NEW may \in BOOLEAN, CallFails(r, may) PROVE TypeOK'
  <2>1. open' \in [Requests -> SUBSET Nat]
    BY <1>12 DEF CallFails, TypeOK
  <2> QED  BY <1>12, <2>1, FailTypes DEF CallFails
<1>13. ASSUME NEW r \in Requests, NEW may \in BOOLEAN, ErrorPart(r, may) PROVE TypeOK'
  BY <1>13 DEF ErrorPart, Refused, TypeOK, Phases
<1>14. ASSUME NEW r \in Requests, NEW may \in BOOLEAN, ReadFails(r, may) PROVE TypeOK'
  BY <1>14, ClosedType, FailTypes DEF ReadFails
<1>15. ASSUME NEW r \in Requests, NEW commits \in BOOLEAN, Buffer(r, commits) PROVE TypeOK'
  <2>1. buffered' \in [Requests -> Seq(Nat \X Nat)]
    BY <1>15, PartType DEF Buffer, Keep, TypeOK
  <2>2. phase' \in [Requests -> Phases] /\ read' \in [Requests -> Nat]
    BY <1>15 DEF Buffer, TypeOK, Phases
  <2> QED  BY <1>15, <2>1, <2>2 DEF Buffer, TypeOK
<1> QED
  BY <1>1, <1>2, <1>3, <1>4, <1>5, <1>6, <1>7, <1>8, <1>9, <1>10, <1>11, <1>12, <1>13,
     <1>14, <1>15 DEF Next, Step, Retryability

(* The failover model keeps its types, whatever its calls answer.          *)
THEOREM FailoverTypeCorrect == Spec => []TypeOK
<1>1. Init => TypeOK
  BY InitTypes
<1>2. TypeOK /\ [Next]_vars => TypeOK'
  BY StepTypes
<1> QED  BY <1>1, <1>2, PTL DEF Spec

-----------------------------------------------------------------------------
(* The invariant.                                                          *)

(* A step of one request leaves the others alone.                          *)
LEMMA OthersUntouched ==
  ASSUME TypeOK, NEW r \in Requests, Step(r), NEW q \in Requests, q # r
  PROVE  /\ phase'[q] = phase[q] /\ calls'[q] = calls[q] /\ read'[q] = read[q]
         /\ buffered'[q] = buffered[q] /\ delivered'[q] = delivered[q] /\ open'[q] = open[q]
<1>1. CASE Resolve(r)
  BY <1>1 DEF Resolve, TypeOK
<1>2. CASE Call(r)
  BY <1>2 DEF Call, TypeOK
<1>3. CASE Generated(r) \/ Opened(r) \/ EndsUncommitted(r)
  BY <1>3 DEF Generated, Opened, EndsUncommitted, Closed, TypeOK
<1>4. CASE CancelSettles(r)
  BY <1>4 DEF CancelSettles, Closed, Fail, TypeOK
<1>5. CASE Replay(r) \/ PassPart(r)
  BY <1>5 DEF Replay, PassPart, TypeOK
<1>6. CASE PassEnd(r) \/ Cancel(r)
  BY <1>6 DEF PassEnd, Cancel, Closed, TypeOK
<1>7. ASSUME NEW may \in BOOLEAN, CallFails(r, may) \/ ErrorPart(r, may) \/ ReadFails(r, may)
      PROVE  /\ phase'[q] = phase[q] /\ calls'[q] = calls[q] /\ read'[q] = read[q]
             /\ buffered'[q] = buffered[q] /\ delivered'[q] = delivered[q] /\ open'[q] = open[q]
  BY <1>7 DEF CallFails, ErrorPart, ReadFails, Refused, Closed, Fail, TypeOK
<1>8. ASSUME NEW commits \in BOOLEAN, Buffer(r, commits)
      PROVE  /\ phase'[q] = phase[q] /\ calls'[q] = calls[q] /\ read'[q] = read[q]
             /\ buffered'[q] = buffered[q] /\ delivered'[q] = delivered[q] /\ open'[q] = open[q]
  BY <1>8 DEF Buffer, TypeOK
<1> QED
  BY <1>1, <1>2, <1>3, <1>4, <1>5, <1>6, <1>7, <1>8 DEF Step, Retryability

(* A step of a request keeps what the invariant says of it.                *)
LEMMA StepOfRequest ==
  ASSUME TypeOK, TypeOK', NEW r \in Requests, Step(r), RequestInv(r)
  PROVE  RequestInv(r)'
<1> USE DEF RequestInv, BufferIsTheRest, HeardInOrder, OpenWhileRead, ThisCall
<1>1. CASE Resolve(r)
  BY <1>1 DEF Resolve, TypeOK
<1>2. CASE Call(r)
  <2>1. delivered[r] = <<>> /\ open[r] = {}
    BY <1>2 DEF Call
  <2>2. /\ delivered'[r] = <<>> /\ open'[r] = {} /\ phase'[r] = "calling"
        /\ read'[r] = 0 /\ buffered'[r] = <<>>
    BY <1>2, <2>1 DEF Call, TypeOK
  <2> QED  BY <2>2
<1>3. CASE Generated(r)
  BY <1>3 DEF Generated, TypeOK
<1>4. CASE Opened(r)
  <2>1. /\ open[r] = {} /\ open'[r] = {ThisCall(r)} /\ phase'[r] = "buffering"
        /\ delivered'[r] = delivered[r] /\ read'[r] = read[r] /\ buffered'[r] = buffered[r]
        /\ calls'[r] = calls[r] /\ phase[r] = "calling"
    BY <1>4 DEF Opened, TypeOK
  <2> QED  BY <2>1
<1>5. CASE EndsUncommitted(r)
  BY <1>5 DEF EndsUncommitted, Closed, TypeOK
<1>6. CASE CancelSettles(r)
  BY <1>6 DEF CancelSettles, Closed, Fail, TypeOK
<1>7. CASE Replay(r)
  <2> DEFINE d == delivered[r]  b == buffered[r]
  <2>1. /\ d \in Seq(Nat \X Nat) /\ b \in Seq(Nat \X Nat) /\ b # <<>>
        /\ read[r] = Len(d) + Len(b)
        /\ \A n \in 1..Len(b) : b[n] = <<Len(calls[r]), Len(d) + n>>
        /\ \A n \in 1..Len(d) : d[n] = <<Len(calls[r]), n>>
    BY <1>7 DEF Replay, TypeOK
  <2>2. /\ delivered'[r] = Append(d, Head(b)) /\ buffered'[r] = Tail(b)
        /\ read'[r] = read[r] /\ phase'[r] = phase[r] /\ calls'[r] = calls[r]
        /\ open'[r] = open[r] /\ phase[r] = "replaying"
    BY <1>7 DEF Replay, TypeOK
  <2> HIDE DEF d, b
  <2>3. Head(b) = <<Len(calls[r]), Len(d) + 1>>
    BY <2>1
  <2>4. /\ Len(Tail(b)) = Len(b) - 1
        /\ \A n \in 1..Len(Tail(b)) : Tail(b)[n] = <<Len(calls[r]), Len(d) + 1 + n>>
    BY <2>1
  <2>5. /\ Len(Append(d, Head(b))) = Len(d) + 1
        /\ \A n \in 1..(Len(d) + 1) : Append(d, Head(b))[n] = <<Len(calls[r]), n>>
    BY <2>1, <2>3
  <2>6. BufferIsTheRest(r)'
    BY <2>1, <2>2, <2>4, <2>5
  <2>7. HeardInOrder(r)'
    BY <2>2, <2>5
  <2> QED  BY <2>2, <2>6, <2>7
<1>8. CASE PassPart(r)
  <2> DEFINE d == delivered[r]
  <2>1. /\ d \in Seq(Nat \X Nat) /\ buffered[r] = <<>> /\ read[r] = Len(d)
        /\ \A n \in 1..Len(d) : d[n] = <<Len(calls[r]), n>>
    BY <1>8 DEF PassPart, TypeOK
  <2>2. /\ delivered'[r] = Append(d, <<Len(calls[r]), Len(d) + 1>>)
        /\ buffered'[r] = <<>> /\ read'[r] = Len(d) + 1
        /\ phase'[r] = "replaying" /\ calls'[r] = calls[r] /\ open'[r] = open[r]
        /\ phase[r] = "replaying"
    BY <1>8, <2>1 DEF PassPart, Part, TypeOK
  <2> HIDE DEF d
  <2>3. /\ Len(delivered'[r]) = Len(d) + 1
        /\ \A n \in 1..(Len(d) + 1) : delivered'[r][n] = <<Len(calls[r]), n>>
    BY <2>1, <2>2
  <2> QED  BY <2>2, <2>3
<1>9. CASE PassEnd(r) \/ Cancel(r)
  <2>1. /\ open'[r] = open[r] \ {ThisCall(r)} /\ phase'[r] \in {"done", "broken"}
        /\ delivered'[r] = delivered[r] /\ calls'[r] = calls[r]
    BY <1>9 DEF PassEnd, Cancel, Closed, TypeOK
  <2> QED  BY <2>1
<1>10. ASSUME NEW may \in BOOLEAN, CallFails(r, may) \/ ErrorPart(r, may) \/ ReadFails(r, may)
       PROVE  RequestInv(r)'
  <2>1. /\ phase'[r] \in {"failed", "cancelling"}
        /\ phase'[r] = "failed" => open'[r] \subseteq open[r] \ {ThisCall(r)}
        /\ phase'[r] = "cancelling" => open'[r] = open[r]
        /\ delivered[r] = <<>> /\ delivered'[r] = <<>> /\ calls'[r] = calls[r]
    <3>1. CASE CallFails(r, may)
      BY <3>1 DEF CallFails, Fail, TypeOK
    <3>2. CASE ErrorPart(r, may)
      BY <3>2 DEF ErrorPart, Refused, TypeOK
    <3>3. CASE ReadFails(r, may)
      BY <3>3 DEF ReadFails, Closed, Fail, TypeOK
    <3> QED  BY <1>10, <3>1, <3>2, <3>3
  <2> QED  BY <2>1
<1>11. ASSUME NEW commits \in BOOLEAN, Buffer(r, commits)
       PROVE  RequestInv(r)'
  <2> DEFINE b == buffered[r]
  <2>1. /\ delivered[r] = <<>> /\ b \in Seq(Nat \X Nat) /\ read[r] = Len(b)
        /\ Len(calls[r]) \in Nat
        /\ \A n \in 1..Len(b) : b[n] = <<Len(calls[r]), n>>
    BY <1>11 DEF Buffer, TypeOK
  <2>2. /\ buffered'[r] = Append(b, <<Len(calls[r]), Len(b) + 1>>) /\ delivered'[r] = <<>>
        /\ read'[r] = Len(b) + 1 /\ phase'[r] \in {"buffering", "replaying"}
        /\ calls'[r] = calls[r] /\ open'[r] = open[r]
    BY <1>11, <2>1 DEF Buffer, Keep, Part, TypeOK
  <2> HIDE DEF b
  <2>3. <<Len(calls[r]), Len(b) + 1>> \in Nat \X Nat
    BY <2>1
  <2>4. /\ Len(buffered'[r]) = Len(b) + 1
        /\ \A n \in 1..(Len(b) + 1) : buffered'[r][n] = <<Len(calls[r]), n>>
    BY <2>1, <2>2, <2>3
  <2> QED  BY <2>2, <2>4
<1> QED
  BY <1>1, <1>2, <1>3, <1>4, <1>5, <1>6, <1>7, <1>8, <1>9, <1>10, <1>11
  DEF Step, Retryability

LEMMA InitInv == Init => FailoverInv
BY InitTypes DEF Init, FailoverInv, RequestInv, BufferIsTheRest, HeardInOrder, OpenWhileRead

LEMMA NextInv == FailoverInv /\ [Next]_vars => FailoverInv'
<1> SUFFICES ASSUME FailoverInv, [Next]_vars PROVE FailoverInv'
  OBVIOUS
<1>1. TypeOK /\ TypeOK'
  BY StepTypes DEF FailoverInv
<1>2. CASE UNCHANGED vars
  BY <1>1, <1>2
  DEF vars, FailoverInv, RequestInv, BufferIsTheRest, HeardInOrder, OpenWhileRead, ThisCall
<1>3. ASSUME NEW r \in Requests, Step(r), NEW q \in Requests
      PROVE  RequestInv(q)'
  <2>1. CASE q = r
    BY <1>1, <1>3, <2>1, StepOfRequest DEF FailoverInv
  <2>2. CASE q # r
    <3>1. /\ phase'[q] = phase[q] /\ calls'[q] = calls[q] /\ read'[q] = read[q]
          /\ buffered'[q] = buffered[q] /\ delivered'[q] = delivered[q] /\ open'[q] = open[q]
      BY <1>1, <1>3, <2>2, OthersUntouched
    <3>2. RequestInv(q)
      BY DEF FailoverInv
    <3>3. BufferIsTheRest(q)' /\ HeardInOrder(q)'
      BY <3>1, <3>2 DEF RequestInv, BufferIsTheRest, HeardInOrder, ThisCall
    <3>4. OpenWhileRead(q)'
      BY <3>1, <3>2 DEF RequestInv, OpenWhileRead, ThisCall
    <3> QED  BY <3>3, <3>4 DEF RequestInv
  <2> QED  BY <2>1, <2>2
<1>4. CASE Next
  BY <1>1, <1>3, <1>4 DEF Next, FailoverInv
<1> QED  BY <1>2, <1>4

LEMMA InvIsEnough == FailoverInv => OneCallHeard /\ OneStreamOpen
BY DEF FailoverInv, RequestInv, HeardInOrder, OpenWhileRead, OneCallHeard, OneStreamOpen

(* A consumer gets one call's stream from its first part on and nothing of *)
(* the calls before it, for any number of keys, retries and parts.         *)
THEOREM NoMixedAnswers == Spec => []OneCallHeard
<1>1. Init => FailoverInv
  BY InitInv
<1>2. FailoverInv /\ [Next]_vars => FailoverInv'
  BY NextInv
<1>3. FailoverInv => OneCallHeard
  BY InvIsEnough
<1> QED  BY <1>1, <1>2, <1>3, PTL DEF Spec

(* A request leaves no upstream stream open when it fails over or ends.    *)
THEOREM NoStreamLeftOpen == Spec => []OneStreamOpen
<1>1. Init => FailoverInv
  BY InitInv
<1>2. FailoverInv /\ [Next]_vars => FailoverInv'
  BY NextInv
<1>3. FailoverInv => OneStreamOpen
  BY InvIsEnough
<1> QED  BY <1>1, <1>2, <1>3, PTL DEF Spec

-----------------------------------------------------------------------------
(* Arithmetic modulo the number of keys.                                   *)

LEMMA DivMod ==
  ASSUME NEW n \in Nat
  PROVE  /\ n \div KeyCount \in Nat
         /\ n % KeyCount \in Nat /\ n % KeyCount < KeyCount
         /\ n = KeyCount * (n \div KeyCount) + (n % KeyCount)
<1>1. KeyCount \in Nat /\ KeyCount > 0
  BY FailoverAssumption
<1>2. n % KeyCount \in 0..(KeyCount - 1)
  BY <1>1
<1>3. n = KeyCount * (n \div KeyCount) + (n % KeyCount)
  BY <1>1
<1>4. n \div KeyCount \in Nat
  BY <1>1
<1> QED
  BY <1>1, <1>2, <1>3, <1>4

LEMMA DivModUnique ==
  ASSUME NEW q \in Nat, NEW m \in Nat, NEW p \in Nat, NEW l \in Nat, m < KeyCount, l < KeyCount,
         KeyCount * q + m = KeyCount * p + l
  PROVE  q = p /\ m = l
<1>1. KeyCount \in Nat
  BY FailoverAssumption
<1>2. CASE q < p
  <2>1. KeyCount * p >= KeyCount * (q + 1)
    BY <1>1, <1>2
  <2> QED
    BY <1>1, <1>2, <2>1
<1>3. CASE p < q
  <2>1. KeyCount * q >= KeyCount * (p + 1)
    BY <1>1, <1>3
  <2> QED
    BY <1>1, <1>3, <2>1
<1> QED
  BY <1>1, <1>2, <1>3

(* What a number written as a multiple and a rest is divided into.         *)
LEMMA DivModOf ==
  ASSUME NEW q \in Nat, NEW m \in Nat, m < KeyCount
  PROVE  (KeyCount * q + m) \div KeyCount = q /\ (KeyCount * q + m) % KeyCount = m
<1> DEFINE n == KeyCount * q + m
           p == n \div KeyCount
           l == n % KeyCount
<1>1. n \in Nat
  BY FailoverAssumption
<1> HIDE DEF n
<1>2. p \in Nat /\ l \in Nat /\ l < KeyCount /\ n = KeyCount * p + l
  BY <1>1, DivMod
<1> HIDE DEF p, l
<1>3. KeyCount * q + m = KeyCount * p + l
  BY <1>2 DEF n
<1>4. q = p /\ m = l
  BY <1>2, <1>3, DivModUnique
<1> QED
  BY <1>4 DEF n, p, l

LEMMA NextDivMod ==
  ASSUME NEW n \in Nat
  PROVE  IF (n % KeyCount) + 1 = KeyCount
         THEN (n + 1) \div KeyCount = (n \div KeyCount) + 1 /\ (n + 1) % KeyCount = 0
         ELSE (n + 1) \div KeyCount = n \div KeyCount /\ (n + 1) % KeyCount = (n % KeyCount) + 1
<1> DEFINE q == n \div KeyCount
           m == n % KeyCount
<1>1. /\ q \in Nat /\ m \in Nat /\ m < KeyCount /\ n = KeyCount * q + m
      /\ KeyCount \in Nat /\ KeyCount > 1
  BY DivMod, FailoverAssumption
<1> HIDE DEF q, m
<1>2. CASE m + 1 = KeyCount
  <2>1. n + 1 = KeyCount * (q + 1) + 0
    BY <1>1, <1>2
  <2>2. /\ (KeyCount * (q + 1) + 0) \div KeyCount = q + 1
        /\ (KeyCount * (q + 1) + 0) % KeyCount = 0
    BY <1>1, DivModOf
  <2>3. (n + 1) \div KeyCount = q + 1 /\ (n + 1) % KeyCount = 0
    BY <2>1, <2>2
  <2> QED
    BY <1>2, <2>3 DEF q, m
<1>3. CASE m + 1 # KeyCount
  <2>1. m + 1 \in Nat /\ m + 1 < KeyCount /\ n + 1 = KeyCount * q + (m + 1)
    BY <1>1, <1>3
  <2>2. (KeyCount * q + (m + 1)) \div KeyCount = q /\ (KeyCount * q + (m + 1)) % KeyCount = m + 1
    BY <1>1, <2>1, DivModOf
  <2>3. (n + 1) \div KeyCount = q /\ (n + 1) % KeyCount = m + 1
    BY <2>1, <2>2
  <2> QED
    BY <1>3, <2>3 DEF q, m
<1> QED
  BY <1>2, <1>3

LEMMA ModOfSum ==
  ASSUME NEW f \in Nat, NEW n \in Nat
  PROVE  (f + (n % KeyCount)) % KeyCount = (f + n) % KeyCount
<1> DEFINE q == n \div KeyCount
           m == n % KeyCount
           p == (f + m) \div KeyCount
           l == (f + m) % KeyCount
<1>1. q \in Nat /\ m \in Nat /\ n = KeyCount * q + m /\ KeyCount \in Nat
  BY DivMod, FailoverAssumption
<1> HIDE DEF q, m
<1>2. f + m \in Nat
  BY <1>1
<1>3. p \in Nat /\ l \in Nat /\ l < KeyCount /\ f + m = KeyCount * p + l
  BY <1>2, DivMod
<1> HIDE DEF p, l
<1>4. f + n = KeyCount * (q + p) + l
  BY <1>1, <1>3
<1>5. (KeyCount * (q + p) + l) % KeyCount = l
  <2>1. q + p \in Nat
    BY <1>1, <1>3
  <2> QED
    BY <1>3, <2>1, DivModOf
<1>6. (f + n) % KeyCount = l
  BY <1>4, <1>5
<1> QED
  BY <1>6 DEF l, m

(* Places less than a round apart have different keys.                     *)
LEMMA KeysOfARound ==
  ASSUME NEW a \in Nat, NEW b \in Nat, a < b, b - a < KeyCount
  PROVE  a % KeyCount # b % KeyCount
<1> DEFINE q == a \div KeyCount
           p == b \div KeyCount
           m == a % KeyCount
           l == b % KeyCount
<1>1. /\ q \in Nat /\ m \in Nat /\ a = KeyCount * q + m
      /\ p \in Nat /\ l \in Nat /\ b = KeyCount * p + l
      /\ KeyCount \in Nat
  BY DivMod, FailoverAssumption
<1> HIDE DEF q, p, m, l
<1> SUFFICES ASSUME m = l PROVE FALSE
  BY DEF m, l
<1>2. b - a = KeyCount * p - KeyCount * q
  BY <1>1
<1>3. CASE p <= q
  <2>1. KeyCount * p <= KeyCount * q
    BY <1>1, <1>3
  <2> QED
    BY <1>1, <1>2, <2>1
<1>4. CASE p > q
  <2>1. KeyCount * p >= KeyCount * (q + 1)
    BY <1>1, <1>4
  <2>2. KeyCount * (q + 1) = KeyCount * q + KeyCount
    BY <1>1
  <2> QED
    BY <1>1, <1>2, <2>1, <2>2
<1> QED
  BY <1>1, <1>3, <1>4

-----------------------------------------------------------------------------
(* Turns.                                                                  *)

(* Whether the model's delegate is still that of its last call.            *)
InCall == {"calling", "buffering", "cancelling"}

(* A request's calls use the keys one after the other from its first on,   *)
(* and its model is at the next one when a call has failed.                *)
CallsInTurn(r) ==
  /\ \A i \in 1..Len(calls[r]) : calls[r][i] = (first[r] + (i - 1)) % KeyCount
  /\ phase[r] \in {"idle", "ready"} => Len(calls[r]) = 0 /\ current[r] = 0
  /\ phase[r] \in InCall => Len(calls[r]) > 0 /\ current[r] = (Len(calls[r]) - 1) % KeyCount
  /\ phase[r] = "failed" => current[r] = Len(calls[r]) % KeyCount

(* As many requests as rounds were begun have started with a key, and one  *)
(* more with those that the round has passed.                              *)
StartsInTurn ==
  \A k \in Keys :
    /\ IsFiniteSet(Starting(k))
    /\ Cardinality(Starting(k)) =
         (nextIndex \div KeyCount) + (IF k < nextIndex % KeyCount THEN 1 ELSE 0)

TurnsInv == TypeOK /\ StartsInTurn /\ \A r \in Requests : CallsInTurn(r)

LEMMA InitTurns == Init => TurnsInv
<1> SUFFICES ASSUME Init PROVE TurnsInv
  OBVIOUS
<1>1. \A r \in Requests : CallsInTurn(r)
  BY DEF Init, CallsInTurn, InCall
<1>2. 0 \div KeyCount = 0 /\ 0 % KeyCount = 0
  <2>1. KeyCount \in Nat /\ 0 < KeyCount /\ KeyCount * 0 + 0 = 0
    BY FailoverAssumption
  <2> QED
    BY <2>1, DivModOf
<1>3. ASSUME NEW k \in Keys
      PROVE  /\ IsFiniteSet(Starting(k))
             /\ Cardinality(Starting(k)) =
                  (nextIndex \div KeyCount) + (IF k < nextIndex % KeyCount THEN 1 ELSE 0)
  <2>1. Starting(k) = {}
    BY DEF Init, Starting
  <2>2. nextIndex \div KeyCount = 0 /\ nextIndex % KeyCount = 0
    BY <1>2 DEF Init
  <2>3. k \in Int /\ ~(k < 0)
    BY FailoverAssumption DEF Keys
  <2>4. IsFiniteSet({}) /\ Cardinality({}) = 0
    BY FS_EmptySet
  <2> QED
    BY <2>1, <2>2, <2>3, <2>4
<1> QED
  BY <1>1, <1>3, InitTypes DEF TurnsInv, StartsInTurn

(* The delegate that follows the one of the last call.                     *)
LEMMA NextDelegate ==
  ASSUME NEW n \in Nat, n > 0
  PROVE  (((n - 1) % KeyCount) + 1) % KeyCount = n % KeyCount
<1>1. n - 1 \in Nat /\ 1 \in Nat /\ 1 + (n - 1) = n
  OBVIOUS
<1>2. (1 + ((n - 1) % KeyCount)) % KeyCount = (1 + (n - 1)) % KeyCount
  BY <1>1, ModOfSum
<1>3. (n - 1) % KeyCount \in Nat
  BY <1>1, DivMod
<1>4. 1 + ((n - 1) % KeyCount) = ((n - 1) % KeyCount) + 1
  BY <1>3
<1> QED
  BY <1>1, <1>2, <1>4

LEMMA FailKeepsTurn ==
  ASSUME TypeOK, NEW r \in Requests, NEW may \in BOOLEAN, phase[r] \in InCall,
         Fail(r, may), CallsInTurn(r)
  PROVE  CallsInTurn(r)'
<1>1. /\ phase'[r] = "failed" /\ current'[r] = (current[r] + 1) % KeyCount
      /\ UNCHANGED <<first, calls>>
  BY DEF Fail, TypeOK
<1>2. Len(calls[r]) \in Nat /\ Len(calls[r]) > 0 /\ current[r] = (Len(calls[r]) - 1) % KeyCount
  BY DEF CallsInTurn, TypeOK
<1>3. current'[r] = Len(calls[r]) % KeyCount
  BY <1>1, <1>2, NextDelegate
<1> QED
  BY <1>1, <1>3 DEF CallsInTurn, InCall

LEMMA CallKeepsTurn ==
  ASSUME TypeOK, NEW r \in Requests, Call(r), CallsInTurn(r)
  PROVE  CallsInTurn(r)'
<1> DEFINE n == Len(calls[r])
<1>1. /\ calls'[r] = Append(calls[r], Select(r)) /\ phase'[r] = "calling"
      /\ UNCHANGED <<first, current>>
  BY DEF Call, TypeOK
<1>2. calls[r] \in Seq(Keys) /\ n \in Nat /\ first[r] \in Nat
  BY DEF TypeOK, Keys
<1>3. 0 % KeyCount = 0
  <2>1. KeyCount \in Nat /\ 0 < KeyCount /\ KeyCount * 0 + 0 = 0
    BY FailoverAssumption
  <2> QED
    BY <2>1, DivModOf
<1>4. current[r] = n % KeyCount
  BY <1>3 DEF Call, CallsInTurn
<1>5. Select(r) = (first[r] + n) % KeyCount
  BY <1>2, <1>4, ModOfSum DEF Select
<1>6. Len(calls'[r]) = n + 1 /\ calls'[r][n + 1] = Select(r)
  BY <1>1, <1>2
<1>7. \A i \in 1..n : calls'[r][i] = calls[r][i]
  BY <1>1, <1>2
<1>8. \A i \in 1..(n + 1) : calls'[r][i] = (first[r] + (i - 1)) % KeyCount
  <2> SUFFICES ASSUME NEW i \in 1..(n + 1) PROVE calls'[r][i] = (first[r] + (i - 1)) % KeyCount
    OBVIOUS
  <2>1. CASE i = n + 1
    <3>1. i - 1 = n
      BY <1>2, <2>1
    <3> QED
      BY <1>5, <1>6, <2>1, <3>1
  <2>2. CASE i \in 1..n
    BY <1>7, <2>2 DEF CallsInTurn
  <2> QED
    BY <1>2, <2>1, <2>2
<1>9. (n + 1) - 1 = n /\ n + 1 > 0
  BY <1>2
<1> QED
  BY <1>1, <1>4, <1>6, <1>8, <1>9 DEF CallsInTurn, InCall

LEMMA StepKeepsTurn ==
  ASSUME TypeOK, NEW r \in Requests, Step(r), CallsInTurn(r)
  PROVE  CallsInTurn(r)'
<1>1. CASE Call(r)
  BY <1>1, CallKeepsTurn
<1>2. ASSUME NEW may \in BOOLEAN, CallFails(r, may) \/ ReadFails(r, may) PROVE CallsInTurn(r)'
  BY <1>2, FailKeepsTurn DEF CallFails, ReadFails, InCall
<1>3. CASE CancelSettles(r)
  BY <1>3, FailKeepsTurn DEF CancelSettles, InCall, TypeOK
<1>4. CASE Resolve(r)
  <2>1. phase'[r] = "ready" /\ calls'[r] = calls[r] /\ current'[r] = current[r] /\ phase[r] = "idle"
    BY <1>4 DEF Resolve, TypeOK
  <2>2. Len(calls[r]) = 0 /\ current[r] = 0
    BY <2>1 DEF CallsInTurn
  <2> QED
    BY <2>1, <2>2 DEF CallsInTurn, InCall
<1>5. ASSUME UNCHANGED <<first, current, calls>>,
             \/ phase'[r] = phase[r]
             \/ phase[r] \in InCall /\ phase'[r] \in InCall
             \/ phase'[r] \in {"done", "replaying", "broken"}
      PROVE  CallsInTurn(r)'
  BY <1>5 DEF CallsInTurn, InCall
<1>6. CASE Generated(r) \/ Opened(r) \/ EndsUncommitted(r)
  BY <1>5, <1>6 DEF Generated, Opened, EndsUncommitted, InCall, TypeOK
<1>7. CASE Replay(r) \/ PassPart(r) \/ PassEnd(r) \/ Cancel(r)
  BY <1>5, <1>7 DEF Replay, PassPart, PassEnd, Cancel, TypeOK
<1>8. ASSUME NEW may \in BOOLEAN, ErrorPart(r, may) PROVE CallsInTurn(r)'
  BY <1>5, <1>8 DEF ErrorPart, Refused, InCall, TypeOK
<1>9. ASSUME NEW commits \in BOOLEAN, Buffer(r, commits) PROVE CallsInTurn(r)'
  BY <1>5, <1>9 DEF Buffer, TypeOK
<1> QED
  BY <1>1, <1>2, <1>3, <1>4, <1>6, <1>7, <1>8, <1>9 DEF Step, Retryability

(* Another request's calls stay as they are.                               *)
LEMMA OthersKeepTurn ==
  ASSUME TypeOK, NEW r \in Requests, Step(r), NEW q \in Requests, q # r, CallsInTurn(q)
  PROVE  CallsInTurn(q)'
<1>1. phase'[q] = phase[q] /\ calls'[q] = calls[q]
  BY OthersUntouched
<1>2. first'[q] = first[q]
  BY DEF Step, Retryability, Resolve, Call, Generated, Opened, EndsUncommitted, CancelSettles,
     Replay, PassPart, PassEnd, Cancel, CallFails, ErrorPart, ReadFails, Refused, Fail, Buffer, TypeOK
<1>3. current'[q] = current[q]
  BY DEF Step, Retryability, Resolve, Call, Generated, Opened, EndsUncommitted, CancelSettles,
     Replay, PassPart, PassEnd, Cancel, CallFails, ErrorPart, ReadFails, Refused, Fail, Buffer, TypeOK
<1> QED
  BY <1>1, <1>2, <1>3 DEF CallsInTurn, InCall

(* Only Resolve gives keys out, and no request becomes idle again.         *)
LEMMA StartsStay ==
  ASSUME TypeOK, NEW r \in Requests, Step(r), ~Resolve(r)
  PROVE  /\ UNCHANGED <<nextIndex, first>>
         /\ \A k \in Keys : Starting(k)' = Starting(k)
<1>1. UNCHANGED <<nextIndex, first>>
  BY DEF Step, Retryability, Call, Generated, Opened, EndsUncommitted, CancelSettles,
     Replay, PassPart, PassEnd, Cancel, CallFails, ErrorPart, ReadFails, Refused, Fail, Buffer
<1>2. phase[r] # "idle"
  BY DEF Step, Retryability, Call, Generated, Opened, EndsUncommitted, CancelSettles,
     Replay, PassPart, PassEnd, Cancel, CallFails, ErrorPart, ReadFails, Buffer
<1>3. \E ph \in Phases \ {"idle"} : phase' = [phase EXCEPT ![r] = ph]
  <2>1. CASE Call(r) \/ Generated(r) \/ Opened(r) \/ EndsUncommitted(r) \/ CancelSettles(r)
    BY <2>1 DEF Call, Generated, Opened, EndsUncommitted, CancelSettles, Fail, Phases
  <2>2. CASE Replay(r) \/ PassPart(r)
    BY <1>2, <2>2 DEF Replay, PassPart, TypeOK
  <2>3. CASE PassEnd(r) \/ Cancel(r)
    BY <2>3 DEF PassEnd, Cancel, Phases
  <2>4. ASSUME NEW may \in BOOLEAN, CallFails(r, may) \/ ErrorPart(r, may) \/ ReadFails(r, may)
        PROVE  \E ph \in Phases \ {"idle"} : phase' = [phase EXCEPT ![r] = ph]
    BY <2>4 DEF CallFails, ErrorPart, ReadFails, Refused, Fail, Phases
  <2>5. ASSUME NEW commits \in BOOLEAN, Buffer(r, commits)
        PROVE  \E ph \in Phases \ {"idle"} : phase' = [phase EXCEPT ![r] = ph]
    <3>1. phase' = [phase EXCEPT ![r] = IF commits THEN "replaying" ELSE "buffering"]
      BY <2>5 DEF Buffer
    <3> QED
      BY <3>1 DEF Phases
  <2> QED
    BY <2>1, <2>2, <2>3, <2>4, <2>5 DEF Step, Retryability
<1>4. \A q \in Requests : phase'[q] # "idle" <=> phase[q] # "idle"
  BY <1>2, <1>3 DEF TypeOK
<1>5. \A k \in Keys : Starting(k)' = Starting(k)
  BY <1>1, <1>4 DEF Starting
<1> QED
  BY <1>1, <1>5

LEMMA ResolveKeepsTurns ==
  ASSUME TypeOK, StartsInTurn, NEW r \in Requests, Resolve(r)
  PROVE  StartsInTurn'
<1> DEFINE m == nextIndex % KeyCount
           q == nextIndex \div KeyCount
           Times(k) == q + (IF k < m THEN 1 ELSE 0)
           Times2(k) == (nextIndex' \div KeyCount) + (IF k < nextIndex' % KeyCount THEN 1 ELSE 0)
<1>1. /\ phase[r] = "idle" /\ phase' = [phase EXCEPT ![r] = "ready"]
      /\ first' = [first EXCEPT ![r] = m] /\ nextIndex' = nextIndex + 1
  BY DEF Resolve, Advanced
<1>2. nextIndex \in Nat /\ q \in Nat /\ m \in Nat /\ m < KeyCount /\ KeyCount \in Nat
  BY DivMod, FailoverAssumption DEF TypeOK
<1>3. IF m + 1 = KeyCount
      THEN (nextIndex' \div KeyCount) = q + 1 /\ (nextIndex' % KeyCount) = 0
      ELSE (nextIndex' \div KeyCount) = q /\ (nextIndex' % KeyCount) = m + 1
  BY <1>1, <1>2, NextDivMod
<1> SUFFICES ASSUME NEW k \in Keys
             PROVE  IsFiniteSet(Starting(k)') /\ Cardinality(Starting(k)') = Times2(k)
  BY DEF StartsInTurn
<1>4. IsFiniteSet(Starting(k)) /\ Cardinality(Starting(k)) = Times(k)
  BY DEF StartsInTurn
<1>5. k \in Nat /\ k < KeyCount
  BY FailoverAssumption DEF Keys
<1> HIDE DEF q, m
<1>6. CASE k = m
  <2>1. Starting(k)' = Starting(k) \cup {r} /\ r \notin Starting(k)
    BY <1>1, <1>6 DEF Starting, TypeOK
  <2>2. IsFiniteSet(Starting(k)') /\ Cardinality(Starting(k)') = Cardinality(Starting(k)) + 1
    BY <1>4, <2>1, FS_AddElement
  <2>3. Times(k) + 1 = Times2(k)
    BY <1>2, <1>3, <1>5, <1>6
  <2> QED
    BY <1>4, <2>2, <2>3
<1>7. CASE k # m
  <2>1. Starting(k)' = Starting(k)
    BY <1>1, <1>7 DEF Starting, TypeOK
  <2>2. Times(k) = Times2(k)
    BY <1>2, <1>3, <1>5, <1>7
  <2> QED
    BY <1>4, <2>1, <2>2
<1> QED
  BY <1>6, <1>7

LEMMA TurnsStep == TurnsInv /\ [Next]_vars => TurnsInv'
<1> SUFFICES ASSUME TurnsInv, [Next]_vars PROVE TurnsInv'
  OBVIOUS
<1>1. TypeOK /\ TypeOK'
  BY StepTypes DEF TurnsInv
<1>2. CASE UNCHANGED vars
  <2>1. UNCHANGED <<nextIndex, phase, first, current, calls>>
    BY <1>2 DEF vars
  <2>2. \A k \in Keys : Starting(k)' = Starting(k)
    BY <2>1 DEF Starting
  <2>3. StartsInTurn'
    BY <2>1, <2>2 DEF TurnsInv, StartsInTurn
  <2>4. \A r \in Requests : CallsInTurn(r)'
    BY <2>1 DEF TurnsInv, CallsInTurn, InCall
  <2> QED
    BY <1>1, <2>3, <2>4 DEF TurnsInv
<1>3. ASSUME NEW r \in Requests, Step(r) PROVE TurnsInv'
  <2>1. \A q \in Requests : CallsInTurn(q)'
    BY <1>1, <1>3, StepKeepsTurn, OthersKeepTurn DEF TurnsInv
  <2>2. ASSUME Resolve(r) PROVE StartsInTurn'
    BY <1>1, <2>2, ResolveKeepsTurns DEF TurnsInv
  <2>3. ASSUME ~Resolve(r) PROVE StartsInTurn'
    BY <1>1, <1>3, <2>3, StartsStay DEF TurnsInv, StartsInTurn
  <2>4. StartsInTurn'
    BY <2>2, <2>3 DEF TurnsInv
  <2> QED
    BY <1>1, <2>1, <2>4 DEF TurnsInv
<1> QED
  BY <1>2, <1>3 DEF Next

LEMMA TurnsAreTaken == TurnsInv => KeysTakeTurns
<1> SUFFICES ASSUME TurnsInv PROVE KeysTakeTurns
  OBVIOUS
<1>1. CallsTakeTurns
  <2> SUFFICES ASSUME NEW r \in Requests, NEW i \in 1..Len(calls[r]), NEW j \in 1..Len(calls[r]),
                      i < j, j - i < KeyCount
               PROVE  calls[r][i] # calls[r][j]
    BY DEF CallsTakeTurns
  <2> DEFINE a == first[r] + (i - 1)
             b == first[r] + (j - 1)
  <2>1. calls[r][i] = a % KeyCount /\ calls[r][j] = b % KeyCount
    BY DEF TurnsInv, CallsInTurn
  <2>2. first[r] \in Nat /\ Len(calls[r]) \in Nat
    BY DEF TurnsInv, TypeOK, Keys
  <2>3. i \in Nat /\ j \in Nat /\ i > 0 /\ KeyCount \in Nat
    BY <2>2, FailoverAssumption
  <2>4. a \in Nat /\ b \in Nat /\ a < b /\ b - a < KeyCount
    BY <2>2, <2>3
  <2>5. a % KeyCount # b % KeyCount
    <3> HIDE DEF a, b
    <3> QED
      BY <2>4, KeysOfARound
  <2> QED
    BY <2>1, <2>5
<1>2. StartsTakeTurns
  <2> SUFFICES ASSUME NEW k \in Keys, NEW l \in Keys
               PROVE  Cardinality(Starting(k)) <= Cardinality(Starting(l)) + 1
    BY DEF StartsTakeTurns
  <2>1. nextIndex \div KeyCount \in Nat
    BY DivMod DEF TurnsInv, TypeOK
  <2>2. /\ Cardinality(Starting(k)) \in {nextIndex \div KeyCount, (nextIndex \div KeyCount) + 1}
        /\ Cardinality(Starting(l)) \in {nextIndex \div KeyCount, (nextIndex \div KeyCount) + 1}
    BY <2>1 DEF TurnsInv, StartsInTurn
  <2> QED
    BY <2>1, <2>2
<1> QED
  BY <1>1, <1>2 DEF KeysTakeTurns

(* No key is tried again before all the others were, and none starts two   *)
(* more requests than another, for any number of keys, requests and calls. *)
THEOREM TurnsAreKept == Spec => []KeysTakeTurns
<1> QED
  BY InitTurns, TurnsStep, TurnsAreTaken, PTL DEF Spec

-----------------------------------------------------------------------------
(* The settings file (SettingsWriter).                                     *)

Authors == Commands \cup Edits

Inodes == {firstFile} \cup Authors

Locks == [owner : Commands \cup {dead}, written : BOOLEAN]

Reading == {"acquire", "write lock", "read lock", "probe", "recheck lock", "unlink",
            "link", "stat", "compare", "write temporary", "compare again", "check"}

Unsaved == {"load", "read raw text", "rename"} \cup Reading

Points == Unsaved \cup {"clean up", "release", "ended", "dead"}

Procs == [pc : Points, loaded : SUBSET Authors, rawText : SUBSET Authors,
          snapshot : Inodes \cup {None}, stats : Nat, seen : Locks \cup {None},
          recoveryAttempted : BOOLEAN]

SettingsTypeOK ==
  /\ target \in Inodes
  /\ inode \in [Inodes -> [text : SUBSET Authors, changes : Nat]]
  /\ lock \in Locks \cup {None}
  /\ proc \in [Commands -> Procs]
  /\ saved \in SUBSET Authors
  /\ late \in SUBSET Authors

(* The files that have been the settings file: no command writes another   *)
(* text into one of them.                                                  *)
Published == {firstFile} \cup saved

(* What a command knows.  Between its first reading and its second, and    *)
(* after its last comparison, whatever is saved is late, so that what it   *)
(* loaded has all the changes that are not; its comparisons show that the  *)
(* text it compares is the text that it read, unless the metadata of the   *)
(* file have changed since.                                                *)
CommandKnows(c) ==
  /\ proc[c].pc \in Unsaved => c \notin saved
  /\ proc[c].loaded \subseteq saved
  /\ proc[c].pc \in {"read raw text", "rename"} => saved \ late \subseteq proc[c].loaded
  /\ proc[c].pc \in Reading => proc[c].rawText \ late \subseteq proc[c].loaded
  /\ proc[c].pc \in {"stat", "compare", "write temporary", "compare again", "check"} =>
       proc[c].snapshot # None
  /\ proc[c].snapshot # None => proc[c].snapshot \in Published
  /\ proc[c].pc \in {"compare", "write temporary", "compare again", "check"} =>
       inode[proc[c].snapshot].changes >= proc[c].stats
  /\ proc[c].pc = "check" =>
       \/ inode[proc[c].snapshot].text = proc[c].rawText
       \/ inode[proc[c].snapshot].changes > proc[c].stats
  /\ proc[c].pc \in {"compare again", "check", "rename"} =>
       inode[c].text = proc[c].loaded \cup {c}

SettingsInv ==
  /\ SettingsTypeOK
  /\ target \in Published
  /\ inode[target].text \subseteq saved
  /\ saved \ late \subseteq inode[target].text
  /\ \A c \in Commands : CommandKnows(c)

-----------------------------------------------------------------------------
LEMMA RelinkedKeeps ==
  ASSUME inode \in [Inodes -> [text : SUBSET Authors, changes : Nat]], NEW i \in Inodes
  PROVE  LET relinked == [inode EXCEPT ![i].changes = @ + 1] IN
         /\ relinked \in [Inodes -> [text : SUBSET Authors, changes : Nat]]
         /\ \A j \in Inodes : relinked[j].text = inode[j].text /\ relinked[j].changes >= inode[j].changes
         /\ relinked[i].changes > inode[i].changes
OBVIOUS

LEMMA AtLeastTransitive == \A a, b, c \in Nat : a >= b /\ b >= c => a >= c
OBVIOUS

LEMMA MoreThanTransitive ==
  \A a, b, c \in Nat : (a > b /\ b >= c) \/ (a >= b /\ b > c) => a > c
OBVIOUS

LEMMA SettingsInitially == ASSUME Settings!Init PROVE SettingsInv
<1>1. /\ target = firstFile /\ saved = {} /\ late = {}
      /\ inode = [i \in Inodes |-> [text |-> {}, changes |-> 0]]
      /\ lock \in {None} \cup [owner : {dead}, written : BOOLEAN]
      /\ proc = [c \in Commands |-> [pc |-> "load", loaded |-> {}, rawText |-> {}, snapshot |-> None,
                                    stats |-> 0, seen |-> None, recoveryAttempted |-> FALSE]]
  BY DEF Settings!Init, Settings!Idle, Inodes, Authors
<1>2. SettingsTypeOK
  BY <1>1 DEF SettingsTypeOK, Procs, Points, Unsaved, Locks, Inodes
<1>3. \A c \in Commands : CommandKnows(c)
  BY <1>1 DEF CommandKnows, Reading
<1> QED
  BY <1>1, <1>2, <1>3 DEF SettingsInv, Published, Inodes

(* A step of a command that saves nothing: the texts of the files that     *)
(* have been the settings file stay, and so does what others have written. *)
LEMMA CommandStep ==
  ASSUME SettingsInv, SettingsTypeOK', NEW c \in Commands, CommandKnows(c)',
         UNCHANGED <<target, saved, late>>,
         \A d \in Commands \ {c} : proc'[d] = proc[d] /\ inode'[d].text = inode[d].text,
         \A i \in Published : inode'[i].text = inode[i].text /\ inode'[i].changes >= inode[i].changes
  PROVE  SettingsInv'
<1>1. ASSUME NEW d \in Commands \ {c} PROVE CommandKnows(d)'
  <2>1. CommandKnows(d) /\ proc'[d] = proc[d] /\ inode'[d].text = inode[d].text
    BY <1>1 DEF SettingsInv
  <2>2. Published' = Published /\ saved' = saved /\ late' = late
    BY DEF Published
  <2>3. CASE proc[d].snapshot = None
    BY <2>1, <2>2, <2>3 DEF CommandKnows
  <2>4. CASE proc[d].snapshot # None
    <3>1. proc[d].snapshot \in Published /\ proc[d].snapshot \in Inodes
      BY <2>1, <2>4 DEF CommandKnows, SettingsInv, SettingsTypeOK, Procs, Published, Inodes
    <3>2. /\ inode'[proc[d].snapshot].text = inode[proc[d].snapshot].text
          /\ inode'[proc[d].snapshot].changes >= inode[proc[d].snapshot].changes
      BY <3>1
    <3>3. /\ inode'[proc[d].snapshot].changes \in Nat /\ inode[proc[d].snapshot].changes \in Nat
          /\ proc[d].stats \in Nat
      BY <3>1, <1>1 DEF SettingsInv, SettingsTypeOK, Procs
    <3>4. /\ proc'[d].snapshot = proc[d].snapshot /\ proc'[d].stats = proc[d].stats
          /\ proc'[d].pc = proc[d].pc /\ proc'[d].loaded = proc[d].loaded
          /\ proc'[d].rawText = proc[d].rawText
      BY <2>1
    <3>5. proc[d].pc \in {"compare", "write temporary", "compare again", "check"} =>
            inode'[proc[d].snapshot].changes >= proc[d].stats
      <4>1. SUFFICES ASSUME proc[d].pc \in {"compare", "write temporary", "compare again", "check"}
                     PROVE  inode'[proc[d].snapshot].changes >= proc[d].stats
        OBVIOUS
      <4>2. inode[proc[d].snapshot].changes >= proc[d].stats
        BY <2>1, <4>1 DEF CommandKnows
      <4> QED
        BY <4>2, <3>2, <3>3, AtLeastTransitive
    <3>6. proc[d].pc = "check" =>
            \/ inode'[proc[d].snapshot].text = proc[d].rawText
            \/ inode'[proc[d].snapshot].changes > proc[d].stats
      <4>1. proc[d].pc = "check" =>
              \/ inode[proc[d].snapshot].text = proc[d].rawText
              \/ inode[proc[d].snapshot].changes > proc[d].stats
        BY <2>1 DEF CommandKnows
      <4> QED
        BY <4>1, <3>2, <3>3
    <3>7. /\ proc'[d].pc \in Unsaved => d \notin saved'
          /\ proc'[d].loaded \subseteq saved'
          /\ proc'[d].pc \in {"read raw text", "rename"} => saved' \ late' \subseteq proc'[d].loaded
          /\ proc'[d].pc \in Reading => proc'[d].rawText \ late' \subseteq proc'[d].loaded
      BY <2>1, <2>2, <3>4 DEF CommandKnows
    <3>8. /\ proc'[d].pc \in {"stat", "compare", "write temporary", "compare again", "check"} =>
               proc'[d].snapshot # None
          /\ proc'[d].snapshot # None => proc'[d].snapshot \in Published'
          /\ proc'[d].pc \in {"compare again", "check", "rename"} =>
               inode'[d].text = proc'[d].loaded \cup {d}
      BY <2>1, <2>2, <3>4 DEF CommandKnows
    <3>9. /\ proc'[d].pc \in {"compare", "write temporary", "compare again", "check"} =>
               inode'[proc'[d].snapshot].changes >= proc'[d].stats
          /\ proc'[d].pc = "check" =>
               \/ inode'[proc'[d].snapshot].text = proc'[d].rawText
               \/ inode'[proc'[d].snapshot].changes > proc'[d].stats
      BY <3>4, <3>5, <3>6
    <3> QED
      BY <3>7, <3>8, <3>9, Zenon DEF CommandKnows
  <2> QED
    BY <2>3, <2>4
<1>2. Published' = Published /\ target' \in Published'
  BY DEF SettingsInv, Published
<1> QED
  BY <1>1, <1>2 DEF SettingsInv

(* Most steps touch no file.                                               *)
LEMMA ProcStep ==
  ASSUME SettingsInv, NEW c \in Commands, UNCHANGED <<target, inode, saved, late>>,
         lock' \in Locks \cup {None}, proc' \in [Commands -> Procs],
         \A d \in Commands \ {c} : proc'[d] = proc[d],
         CommandKnows(c)'
  PROVE  SettingsInv'
<1>1. SettingsTypeOK'
  BY DEF SettingsInv, SettingsTypeOK
<1>2. \A i \in Published : inode'[i].text = inode[i].text /\ inode'[i].changes >= inode[i].changes
  BY DEF SettingsInv, SettingsTypeOK, Published, Inodes, Authors
<1> QED
  BY <1>1, <1>2, CommandStep

(* A step that only takes a command to another point keeps what it knows,  *)
(* if it is no point where it knows more.                                  *)
LEMMA GoesKeeps ==
  ASSUME SettingsInv, NEW c \in Commands, NEW pc \in Points, Settings!Goes(c, pc),
         UNCHANGED <<target, inode, saved, late>>, lock' \in Locks \cup {None},
         \/ pc \in {"clean up", "release", "ended", "dead"}
         \/ proc[c].pc \in Reading /\ pc \in Reading \ {"stat", "compare", "write temporary", "compare again", "check"}
         \/ proc[c].pc = "compare" /\ pc = "write temporary"
  PROVE  SettingsInv'
<1>1. /\ proc' \in [Commands -> Procs]
      /\ \A d \in Commands \ {c} : proc'[d] = proc[d]
  BY DEF SettingsInv, SettingsTypeOK, Settings!Goes, Procs
<1>2. /\ proc'[c].pc = pc /\ proc'[c].loaded = proc[c].loaded /\ proc'[c].rawText = proc[c].rawText
      /\ proc'[c].snapshot = proc[c].snapshot /\ proc'[c].stats = proc[c].stats
  BY DEF SettingsInv, SettingsTypeOK, Settings!Goes, Procs
<1>3. CommandKnows(c)
  BY DEF SettingsInv
<1>4. CommandKnows(c)'
  BY <1>2, <1>3 DEF CommandKnows, Reading, Unsaved, Published, Points
<1> QED
  BY <1>1, <1>4, ProcStep

LEMMA LoadKeeps ==
  ASSUME SettingsInv, NEW c \in Commands, Settings!Load(c) PROVE SettingsInv'
<1>1. /\ proc' = [proc EXCEPT ![c].pc = "read raw text", ![c].loaded = inode[target].text]
      /\ proc[c].pc = "load" /\ UNCHANGED <<target, inode, saved, late>>
      /\ lock' \in Locks \cup {None}
  BY DEF Settings!Load, Settings!At, Settings!Files, Settings!Text, SettingsInv, SettingsTypeOK
<1>2. inode[target].text \in SUBSET Authors
  BY DEF SettingsInv, SettingsTypeOK
<1>3. /\ proc' \in [Commands -> Procs]
      /\ \A d \in Commands \ {c} : proc'[d] = proc[d]
  <2>1. "read raw text" \in Points
    BY DEF Points, Unsaved
  <2> QED
    BY <1>1, <1>2, <2>1 DEF SettingsInv, SettingsTypeOK, Procs
<1>4. /\ proc'[c].pc = "read raw text" /\ proc'[c].loaded = inode[target].text
      /\ proc'[c].snapshot = proc[c].snapshot
  BY <1>1 DEF SettingsInv, SettingsTypeOK, Procs
<1>5. CommandKnows(c)'
  BY <1>1, <1>4 DEF SettingsInv, CommandKnows, Reading, Unsaved, Published
<1> QED
  BY <1>1, <1>3, <1>5, ProcStep

(* What was read and not loaded came in between, and is late.              *)
LEMMA ReadRawTextKeeps ==
  ASSUME SettingsInv, NEW c \in Commands, Settings!ReadRawText(c) PROVE SettingsInv'
<1>1. /\ proc' = [proc EXCEPT ![c].pc = "acquire", ![c].rawText = inode[target].text]
      /\ proc[c].pc = "read raw text" /\ UNCHANGED <<target, inode, saved, late>>
      /\ lock' \in Locks \cup {None}
  BY DEF Settings!ReadRawText, Settings!At, Settings!Files, Settings!Text, SettingsInv, SettingsTypeOK
<1>2. inode[target].text \in SUBSET Authors
  BY DEF SettingsInv, SettingsTypeOK
<1>3. /\ proc' \in [Commands -> Procs]
      /\ \A d \in Commands \ {c} : proc'[d] = proc[d]
  <2>1. "acquire" \in Points
    BY DEF Points, Unsaved, Reading
  <2> QED
    BY <1>1, <1>2, <2>1 DEF SettingsInv, SettingsTypeOK, Procs
<1>4. /\ proc'[c].pc = "acquire" /\ proc'[c].rawText = inode[target].text
      /\ proc'[c].snapshot = proc[c].snapshot /\ proc'[c].loaded = proc[c].loaded
  BY <1>1 DEF SettingsInv, SettingsTypeOK, Procs
<1>5. /\ inode[target].text \subseteq saved
      /\ saved \ late \subseteq proc[c].loaded
  BY <1>1 DEF SettingsInv, CommandKnows
<1>6. CommandKnows(c)'
  BY <1>1, <1>4, <1>5 DEF SettingsInv, CommandKnows, Reading, Unsaved, Published
<1> QED
  BY <1>1, <1>3, <1>6, ProcStep

(* Taking the lock, or giving up.                                          *)
LEMMA LockStepKeeps ==
  ASSUME SettingsInv, NEW c \in Commands,
         \/ Settings!Stop(c) \/ Settings!Acquire(c) \/ Settings!WriteLock(c) \/ Settings!ReadLock(c)
         \/ Settings!Probe(c) \/ Settings!RecheckLock(c) \/ Settings!Unlink(c)
  PROVE  SettingsInv'
<1> DEFINE Taking == {"acquire", "write lock", "read lock", "recheck lock", "unlink", "link"}
<1>1. Taking \cup {"probe"} \subseteq Reading \ {"stat", "compare", "write temporary", "compare again", "check"}
  BY DEF Reading
<1>2. Taking \cup {"ended", "probe"} \subseteq Points
  BY DEF Points, Unsaved, Reading
<1>3. UNCHANGED <<target, inode, saved, late>> /\ lock' \in Locks \cup {None}
  <2>1. lock \in Locks \cup {None}
    BY DEF SettingsInv, SettingsTypeOK
  <2>2. CASE Settings!Stop(c) \/ Settings!ReadLock(c) \/ Settings!Probe(c) \/ Settings!RecheckLock(c)
    BY <2>1, <2>2 DEF Settings!Stop, Settings!ReadLock, Settings!Probe, Settings!RecheckLock, Settings!Files
  <2>3. CASE Settings!Acquire(c)
    <3>1. lock' = [owner |-> c, written |-> FALSE] \/ lock' = lock
      BY <2>3 DEF Settings!Acquire
    <3>2. [owner |-> c, written |-> FALSE] \in Locks
      BY DEF Locks
    <3> QED
      BY <2>1, <2>3, <3>1, <3>2 DEF Settings!Acquire, Settings!Files
  <2>4. CASE Settings!WriteLock(c)
    BY <2>1, <2>4 DEF Settings!WriteLock, Settings!Files, Locks
  <2>5. CASE Settings!Unlink(c)
    BY <2>5 DEF Settings!Unlink, Settings!Files
  <2> QED
    BY <2>2, <2>3, <2>4, <2>5
<1>4. ASSUME NEW pc \in Taking \cup {"ended"}, proc[c].pc \in Taking \cup {"probe"} \/ pc = "ended",
             Settings!Goes(c, pc)
      PROVE  SettingsInv'
  BY <1>1, <1>2, <1>3, <1>4, GoesKeeps
<1>5. CASE /\ proc[c].pc = "read lock" /\ lock # None
           /\ proc' = [proc EXCEPT ![c].pc = "probe", ![c].seen = lock]
  <2>1. /\ proc' \in [Commands -> Procs]
        /\ \A d \in Commands \ {c} : proc'[d] = proc[d]
    BY <1>5, <1>2 DEF SettingsInv, SettingsTypeOK, Procs
  <2>2. /\ proc'[c].pc = "probe" /\ proc'[c].rawText = proc[c].rawText
        /\ proc'[c].snapshot = proc[c].snapshot /\ proc'[c].loaded = proc[c].loaded
    BY <1>5 DEF SettingsInv, SettingsTypeOK, Procs
  <2>3. CommandKnows(c)'
    BY <1>3, <1>5, <2>2 DEF SettingsInv, CommandKnows, Reading, Unsaved, Published
  <2> QED
    BY <1>3, <2>1, <2>3, ProcStep
<1>6. CASE /\ proc[c].pc = "unlink"
           /\ proc' = [proc EXCEPT ![c].pc = "acquire", ![c].recoveryAttempted = TRUE]
  <2>1. /\ proc' \in [Commands -> Procs]
        /\ \A d \in Commands \ {c} : proc'[d] = proc[d]
    BY <1>6, <1>2 DEF SettingsInv, SettingsTypeOK, Procs
  <2>2. /\ proc'[c].pc = "acquire" /\ proc'[c].rawText = proc[c].rawText
        /\ proc'[c].snapshot = proc[c].snapshot /\ proc'[c].loaded = proc[c].loaded
    BY <1>6 DEF SettingsInv, SettingsTypeOK, Procs
  <2>3. CommandKnows(c)'
    BY <1>3, <1>6, <2>2 DEF SettingsInv, CommandKnows, Reading, Unsaved, Published
  <2> QED
    BY <1>3, <2>1, <2>3, ProcStep
<1>7. \/ \E pc \in Taking \cup {"ended"} :
             (proc[c].pc \in Taking \cup {"probe"} \/ pc = "ended") /\ Settings!Goes(c, pc)
      \/ /\ proc[c].pc = "read lock" /\ lock # None
         /\ proc' = [proc EXCEPT ![c].pc = "probe", ![c].seen = lock]
      \/ /\ proc[c].pc = "unlink"
         /\ proc' = [proc EXCEPT ![c].pc = "acquire", ![c].recoveryAttempted = TRUE]
  <2>1. CASE Settings!Stop(c) \/ Settings!WriteLock(c) \/ Settings!Probe(c)
    BY <2>1 DEF Settings!Stop, Settings!WriteLock, Settings!Probe, Settings!At
  <2>2. CASE Settings!Acquire(c)
    BY <2>2 DEF Settings!Acquire, Settings!At
  <2>3. CASE Settings!ReadLock(c) \/ Settings!RecheckLock(c) \/ Settings!Unlink(c)
    BY <2>3 DEF Settings!ReadLock, Settings!RecheckLock, Settings!Unlink, Settings!At
  <2> QED
    BY <2>1, <2>2, <2>3
<1> QED
  BY <1>4, <1>5, <1>6, <1>7

(* The snapshot is another link of the settings file of that moment.       *)
LEMMA LinkKeeps ==
  ASSUME SettingsInv, NEW c \in Commands, Settings!Link(c) PROVE SettingsInv'
<1>1. /\ proc' = [proc EXCEPT ![c].pc = "stat", ![c].snapshot = target]
      /\ inode' = [inode EXCEPT ![target].changes = @ + 1]
      /\ proc[c].pc = "link" /\ UNCHANGED <<lock, target, saved, late>>
  BY DEF Settings!Link, Settings!At, Settings!Relinked
<1>2. proc' \in [Commands -> Procs] /\ \A d \in Commands \ {c} : proc'[d] = proc[d]
  <2>1. "stat" \in Points /\ target \in Inodes
    BY DEF Points, Unsaved, Reading, SettingsInv, SettingsTypeOK
  <2> QED
    BY <1>1, <2>1 DEF SettingsInv, SettingsTypeOK, Procs
<1>3. /\ inode' \in [Inodes -> [text : SUBSET Authors, changes : Nat]]
      /\ \A i \in Inodes : inode'[i].text = inode[i].text /\ inode'[i].changes >= inode[i].changes
  BY <1>1, RelinkedKeeps DEF SettingsInv, SettingsTypeOK
<1>4. SettingsTypeOK' /\ Published \subseteq Inodes /\ Commands \subseteq Inodes
  BY <1>1, <1>2, <1>3 DEF SettingsInv, SettingsTypeOK, Published, Inodes, Authors
<1>5. /\ proc'[c].pc = "stat" /\ proc'[c].rawText = proc[c].rawText
      /\ proc'[c].snapshot = target /\ proc'[c].loaded = proc[c].loaded
  BY <1>1 DEF SettingsInv, SettingsTypeOK, Procs
<1>6. CommandKnows(c)'
  <2>1. target \in Published /\ target # None
    BY SettingsAssumption DEF SettingsInv, SettingsTypeOK, Inodes, Authors
  <2> QED
    BY <1>1, <1>5, <2>1 DEF SettingsInv, CommandKnows, Reading, Unsaved, Published
<1> QED
  BY <1>1, <1>3, <1>4, <1>6, <1>2, CommandStep

LEMMA StatKeeps ==
  ASSUME SettingsInv, NEW c \in Commands, Settings!Stat(c) PROVE SettingsInv'
<1>1. /\ proc' = [proc EXCEPT ![c].pc = "compare", ![c].stats = inode[proc[c].snapshot].changes]
      /\ proc[c].pc = "stat" /\ UNCHANGED <<target, inode, saved, late>>
      /\ lock' \in Locks \cup {None}
  BY DEF Settings!Stat, Settings!At, Settings!Files, SettingsInv, SettingsTypeOK
<1>2. proc[c].snapshot \in Published /\ proc[c].snapshot \in Inodes /\ proc[c].snapshot # None
  BY <1>1 DEF SettingsInv, SettingsTypeOK, CommandKnows, Published, Inodes
<1>3. inode[proc[c].snapshot].changes \in Nat
  BY <1>2 DEF SettingsInv, SettingsTypeOK
<1>4. proc' \in [Commands -> Procs] /\ \A d \in Commands \ {c} : proc'[d] = proc[d]
  <2>1. "compare" \in Points
    BY DEF Points, Unsaved, Reading
  <2> QED
    BY <1>1, <1>3, <2>1 DEF SettingsInv, SettingsTypeOK, Procs
<1>5. /\ proc'[c].pc = "compare" /\ proc'[c].rawText = proc[c].rawText
      /\ proc'[c].snapshot = proc[c].snapshot /\ proc'[c].loaded = proc[c].loaded
      /\ proc'[c].stats = inode[proc[c].snapshot].changes
  BY <1>1 DEF SettingsInv, SettingsTypeOK, Procs
<1>6. inode'[proc'[c].snapshot].changes >= proc'[c].stats
  BY <1>1, <1>3, <1>5
<1>7. CommandKnows(c)'
  BY <1>1, <1>2, <1>5, <1>6 DEF SettingsInv, CommandKnows, Reading, Unsaved, Published
<1> QED
  BY <1>1, <1>4, <1>7, ProcStep

LEMMA CompareKeeps ==
  ASSUME SettingsInv, NEW c \in Commands, Settings!Compare(c) PROVE SettingsInv'
<1>1. /\ \/ proc[c].pc = "compare" /\ Settings!Goes(c, "write temporary")
         \/ Settings!Goes(c, "clean up")
      /\ UNCHANGED <<target, inode, saved, late>> /\ lock' \in Locks \cup {None}
  BY DEF Settings!Compare, Settings!At, Settings!Files, SettingsInv, SettingsTypeOK
<1>2. {"write temporary", "clean up"} \subseteq Points
  BY DEF Points, Unsaved, Reading
<1> QED
  BY <1>1, <1>2, GoesKeeps

(* No other command has a temporary file of that name, and it never was    *)
(* the settings file.                                                      *)
LEMMA WriteTemporaryKeeps ==
  ASSUME SettingsInv, NEW c \in Commands, Settings!WriteTemporary(c) PROVE SettingsInv'
<1>1. /\ proc' = [proc EXCEPT ![c].pc = "compare again"]
      /\ inode' = [inode EXCEPT ![c].text = proc[c].loaded \cup {c}]
      /\ proc[c].pc = "write temporary" /\ UNCHANGED <<lock, target, saved, late>>
  BY DEF Settings!WriteTemporary, Settings!At, Settings!Goes
<1>2. proc' \in [Commands -> Procs] /\ \A d \in Commands \ {c} : proc'[d] = proc[d]
  <2>1. "compare again" \in Points
    BY DEF Points, Unsaved, Reading
  <2> QED
    BY <1>1, <2>1 DEF SettingsInv, SettingsTypeOK, Procs
<1>3. c \in Inodes /\ proc[c].loaded \cup {c} \in SUBSET Authors
  BY DEF SettingsInv, SettingsTypeOK, Inodes, Authors, Procs
<1>4. /\ inode' \in [Inodes -> [text : SUBSET Authors, changes : Nat]]
      /\ \A i \in Inodes \ {c} : inode'[i] = inode[i]
      /\ inode'[c].text = proc[c].loaded \cup {c} /\ inode'[c].changes = inode[c].changes
  BY <1>1, <1>3 DEF SettingsInv, SettingsTypeOK
<1>5. c \notin Published
  BY <1>1, SettingsAssumption DEF SettingsInv, CommandKnows, Unsaved, Reading, Published
<1>6. SettingsTypeOK' /\ Published \subseteq Inodes /\ Commands \subseteq Inodes
  BY <1>1, <1>2, <1>4 DEF SettingsInv, SettingsTypeOK, Published, Inodes, Authors
<1>7. /\ proc'[c].pc = "compare again" /\ proc'[c].rawText = proc[c].rawText
      /\ proc'[c].snapshot = proc[c].snapshot /\ proc'[c].loaded = proc[c].loaded
      /\ proc'[c].stats = proc[c].stats
  BY <1>1 DEF SettingsInv, SettingsTypeOK, Procs
<1>8. CommandKnows(c)'
  <2>0. CommandKnows(c)
    BY DEF SettingsInv
  <2>1. /\ proc[c].snapshot \in Published \ {c} /\ proc[c].snapshot # None
        /\ inode[proc[c].snapshot].changes >= proc[c].stats
    BY <1>1, <1>5, <2>0 DEF CommandKnows
  <2>2. inode'[proc[c].snapshot] = inode[proc[c].snapshot]
    BY <2>1, <1>4, <1>6
  <2> QED
    BY <1>1, <1>4, <1>7, <2>1, <2>2 DEF SettingsInv, CommandKnows, Reading, Unsaved, Published
<1>9. \A i \in Published : inode'[i].text = inode[i].text /\ inode'[i].changes >= inode[i].changes
  <2>1. ASSUME NEW i \in Published PROVE inode'[i] = inode[i] /\ inode[i].changes \in Nat
    BY <1>4, <1>5, <1>6 DEF SettingsInv, SettingsTypeOK
  <2> QED
    BY <2>1
<1> QED
  BY <1>1, <1>2, <1>4, <1>6, <1>8, <1>9, CommandStep

(* The text of the snapshot is the one that was read.                      *)
LEMMA CompareAgainKeeps ==
  ASSUME SettingsInv, NEW c \in Commands, Settings!CompareAgain(c) PROVE SettingsInv'
<1>1. /\ proc[c].pc = "compare again" /\ UNCHANGED <<target, inode, saved, late>>
      /\ lock' \in Locks \cup {None}
  BY DEF Settings!CompareAgain, Settings!At, Settings!Files, SettingsInv, SettingsTypeOK
<1>2. {"check", "clean up"} \subseteq Points
  BY DEF Points, Unsaved, Reading
<1>3. CASE Settings!Goes(c, "clean up")
  BY <1>1, <1>2, <1>3, GoesKeeps
<1>4. CASE Settings!SameText(c) /\ Settings!Goes(c, "check")
  <2>1. proc' \in [Commands -> Procs] /\ \A d \in Commands \ {c} : proc'[d] = proc[d]
    BY <1>2, <1>4 DEF SettingsInv, SettingsTypeOK, Procs, Settings!Goes
  <2>2. /\ proc'[c].pc = "check" /\ proc'[c].rawText = proc[c].rawText
        /\ proc'[c].snapshot = proc[c].snapshot /\ proc'[c].loaded = proc[c].loaded
        /\ proc'[c].stats = proc[c].stats
    BY <1>4 DEF SettingsInv, SettingsTypeOK, Procs, Settings!Goes
  <2>3. inode[proc[c].snapshot].text = proc[c].rawText
    BY <1>4 DEF Settings!SameText, Settings!Text
  <2>4. CommandKnows(c)'
    <3>1. CommandKnows(c)
      BY DEF SettingsInv
    <3> QED
      BY <1>1, <2>2, <2>3, <3>1 DEF CommandKnows, Reading, Unsaved, Published
  <2> QED
    BY <1>1, <2>1, <2>4, ProcStep
<1> QED
  BY <1>3, <1>4 DEF Settings!CompareAgain

(* The file that is the settings file is the snapshot, and has the text    *)
(* that was read: all that is in it and not late was loaded.               *)
LEMMA CheckKeeps ==
  ASSUME SettingsInv, NEW c \in Commands, Settings!Check(c) PROVE SettingsInv'
<1>1. /\ proc[c].pc = "check" /\ UNCHANGED <<target, inode, saved, late>>
      /\ lock' \in Locks \cup {None}
  BY DEF Settings!Check, Settings!At, Settings!Files, SettingsInv, SettingsTypeOK
<1>2. {"rename", "clean up"} \subseteq Points
  BY DEF Points, Unsaved, Reading
<1>3. CASE Settings!Goes(c, "clean up")
  BY <1>1, <1>2, <1>3, GoesKeeps
<1>4. CASE Settings!Unchanged(c) /\ Settings!Goes(c, "rename")
  <2>1. proc' \in [Commands -> Procs] /\ \A d \in Commands \ {c} : proc'[d] = proc[d]
    BY <1>2, <1>4 DEF SettingsInv, SettingsTypeOK, Procs, Settings!Goes
  <2>2. /\ proc'[c].pc = "rename" /\ proc'[c].rawText = proc[c].rawText
        /\ proc'[c].snapshot = proc[c].snapshot /\ proc'[c].loaded = proc[c].loaded
    BY <1>4 DEF SettingsInv, SettingsTypeOK, Procs, Settings!Goes
  <2>3. CommandKnows(c)
    BY DEF SettingsInv
  <2>4. target = proc[c].snapshot /\ inode[target].changes = proc[c].stats
    BY <1>4 DEF Settings!Unchanged
  <2>5. inode[target].changes \in Nat
    BY DEF SettingsInv, SettingsTypeOK
  <2>6. ~(inode[target].changes > proc[c].stats)
    BY <2>4, <2>5
  <2>7. inode[target].text = proc[c].rawText
    BY <1>1, <2>3, <2>4, <2>6 DEF CommandKnows
  <2>8. proc[c].rawText \ late \subseteq proc[c].loaded
    BY <1>1, <2>3 DEF CommandKnows, Reading
  <2>9. saved \ late \subseteq proc[c].loaded
    BY <2>7, <2>8 DEF SettingsInv
  <2>10. CommandKnows(c)'
    BY <1>1, <2>2, <2>3, <2>9 DEF CommandKnows, Reading, Unsaved, Published
  <2> QED
    BY <1>1, <2>1, <2>10, ProcStep
<1> QED
  BY <1>3, <1>4 DEF Settings!Check

(* Failing, releasing the lock and being killed touch no file; the cleanup *)
(* removes a link.                                                         *)
LEMMA CleanUpKeeps ==
  ASSUME SettingsInv, NEW c \in Commands,
         Settings!Fails(c) \/ Settings!CleanUp(c) \/ Settings!Release(c) \/ Settings!Crash(c)
  PROVE  SettingsInv'
<1>1. {"clean up", "release", "ended", "dead"} \subseteq Points
  BY DEF Points
<1>2. CASE Settings!Fails(c) \/ Settings!Release(c) \/ Settings!Crash(c)
  <2>1. \E pc \in {"clean up", "release", "ended", "dead"} : Settings!Goes(c, pc)
    BY <1>2 DEF Settings!Fails, Settings!Release, Settings!Crash
  <2>2. UNCHANGED <<target, inode, saved, late>> /\ lock' \in Locks \cup {None}
    BY <1>2 DEF Settings!Fails, Settings!Release, Settings!Crash, Settings!Files, SettingsInv, SettingsTypeOK
  <2> QED
    BY <1>1, <2>1, <2>2, GoesKeeps
<1>3. CASE Settings!CleanUp(c)
  <2>1. /\ proc' = [proc EXCEPT ![c].pc = "release"]
        /\ inode' = inode \/ (proc[c].snapshot # None
                              /\ inode' = [inode EXCEPT ![proc[c].snapshot].changes = @ + 1])
        /\ UNCHANGED <<lock, target, saved, late>>
    BY <1>3 DEF Settings!CleanUp, Settings!Goes, Settings!Relinked
  <2>2. proc' \in [Commands -> Procs] /\ \A d \in Commands \ {c} : proc'[d] = proc[d]
    <3>1. "release" \in Points
      BY <1>1
    <3> QED
      BY <2>1, <3>1 DEF SettingsInv, SettingsTypeOK, Procs
  <2>3. /\ inode' \in [Inodes -> [text : SUBSET Authors, changes : Nat]]
        /\ \A i \in Inodes : inode'[i].text = inode[i].text /\ inode'[i].changes >= inode[i].changes
    <3>1. proc[c].snapshot \in Inodes \cup {None}
      BY DEF SettingsInv, SettingsTypeOK, Procs
    <3>2. CASE inode' = inode
      BY <3>2 DEF SettingsInv, SettingsTypeOK
    <3> QED
      BY <2>1, <3>1, <3>2, RelinkedKeeps DEF SettingsInv, SettingsTypeOK
  <2>4. SettingsTypeOK' /\ Published \subseteq Inodes /\ Commands \subseteq Inodes
    BY <2>1, <2>2, <2>3 DEF SettingsInv, SettingsTypeOK, Published, Inodes, Authors
  <2>5. /\ proc'[c].pc = "release" /\ proc'[c].rawText = proc[c].rawText
        /\ proc'[c].snapshot = proc[c].snapshot /\ proc'[c].loaded = proc[c].loaded
    BY <2>1 DEF SettingsInv, SettingsTypeOK, Procs
  <2>6. CommandKnows(c)'
    BY <2>1, <2>5 DEF SettingsInv, CommandKnows, Reading, Unsaved, Published
  <2> QED
    BY <2>1, <2>2, <2>3, <2>4, <2>6, CommandStep
<1> QED
  BY <1>2, <1>3

-----------------------------------------------------------------------------
(* Who else is not looking when a change is saved makes it late; who is    *)
(* between two comparisons sees that the file is another, or its metadata. *)
LEMMA OthersKnow ==
  ASSUME SettingsInv, SettingsTypeOK', NEW author \in Authors, NEW d \in Commands, d # author,
         saved' = saved \cup {author},
         late' = IF \E c \in Commands \ {author} : Settings!Inattentive(c) THEN late \cup {author} ELSE late,
         proc'[d] = proc[d],
         d \notin saved => inode'[d].text = inode[d].text,
         \A i \in Published : /\ inode'[i].changes >= inode[i].changes
                              /\ inode'[i].text = inode[i].text \/ inode'[i].changes > inode[i].changes
  PROVE  CommandKnows(d)'
<1>1. CommandKnows(d) /\ proc[d] \in Procs /\ Published \subseteq Published'
  BY DEF SettingsInv, SettingsTypeOK, Published
<1>2. /\ late \subseteq late'
      /\ proc[d].pc \in {"read raw text", "rename"} => saved' \ late' = saved \ late'
  BY DEF Settings!Inattentive, Settings!At
<1>3. /\ proc[d].pc \in Unsaved => d \notin saved'
      /\ proc[d].loaded \subseteq saved'
      /\ proc[d].pc \in {"read raw text", "rename"} => saved' \ late' \subseteq proc[d].loaded
      /\ proc[d].pc \in Reading => proc[d].rawText \ late' \subseteq proc[d].loaded
  BY <1>1, <1>2 DEF CommandKnows
<1>4. /\ proc[d].pc \in {"stat", "compare", "write temporary", "compare again", "check"} =>
           proc[d].snapshot # None
      /\ proc[d].snapshot # None => proc[d].snapshot \in Published'
      /\ proc[d].pc \in {"compare again", "check", "rename"} =>
           inode'[d].text = proc[d].loaded \cup {d}
  <2>1. proc[d].pc \in {"compare again", "check", "rename"} => proc[d].pc \in Unsaved
    BY DEF Unsaved, Reading
  <2> QED
    BY <1>1, <2>1 DEF CommandKnows
<1>5. ASSUME proc[d].pc \in {"compare", "write temporary", "compare again", "check"}
      PROVE  /\ inode'[proc[d].snapshot].changes >= proc[d].stats
             /\ proc[d].pc = "check" =>
                  \/ inode'[proc[d].snapshot].text = proc[d].rawText
                  \/ inode'[proc[d].snapshot].changes > proc[d].stats
  <2>1. proc[d].snapshot \in Published
    BY <1>1, <1>5 DEF CommandKnows
  <2>2. proc[d].snapshot \in Inodes /\ proc[d].stats \in Nat
    BY <1>1, <2>1 DEF SettingsInv, SettingsTypeOK, Published, Inodes, Procs
  <2> DEFINE old == inode[proc[d].snapshot]
             new == inode'[proc[d].snapshot]
  <2>3. old.changes \in Nat /\ new.changes \in Nat
    BY <2>2 DEF SettingsInv, SettingsTypeOK
  <2>4. new.changes >= old.changes /\ (new.text = old.text \/ new.changes > old.changes)
    BY <2>1
  <2>5. /\ old.changes >= proc[d].stats
        /\ proc[d].pc = "check" => old.text = proc[d].rawText \/ old.changes > proc[d].stats
    BY <1>1, <1>5 DEF CommandKnows
  <2> HIDE DEF old, new
  <2>6. new.changes >= proc[d].stats
    BY <2>2, <2>3, <2>4, <2>5, AtLeastTransitive
  <2>7. proc[d].pc = "check" => new.text = proc[d].rawText \/ new.changes > proc[d].stats
    <3>1. old.changes > proc[d].stats => new.changes > proc[d].stats
      BY <2>2, <2>3, <2>4, MoreThanTransitive
    <3>2. new.changes > old.changes => new.changes > proc[d].stats
      BY <2>2, <2>3, <2>5, MoreThanTransitive
    <3> QED
      BY <2>4, <2>5, <3>1, <3>2
  <2> QED
    BY <2>6, <2>7 DEF new
<1> QED
  BY <1>3, <1>4, <1>5 DEF CommandKnows

(* The file that takes the place of the settings file has all that was in  *)
(* it and is not late.                                                     *)
LEMMA RenameKeeps ==
  ASSUME SettingsInv, NEW c \in Commands, Settings!Rename(c) PROVE SettingsInv'
<1>1. /\ proc' = [proc EXCEPT ![c].pc = "clean up"]
      /\ inode' = [inode EXCEPT ![target].changes = @ + 1]
      /\ proc[c].pc = "rename" /\ target' = c /\ saved' = saved \cup {c} /\ lock' = lock
      /\ late' = IF \E d \in Commands \ {c} : Settings!Inattentive(d) THEN late \cup {c} ELSE late
  BY DEF Settings!Rename, Settings!At, Settings!Goes, Settings!Save, Settings!Relinked
<1>2. proc' \in [Commands -> Procs] /\ \A d \in Commands \ {c} : proc'[d] = proc[d]
  <2>1. "clean up" \in Points
    BY DEF Points
  <2> QED
    BY <1>1, <2>1 DEF SettingsInv, SettingsTypeOK, Procs
<1>3. /\ inode' \in [Inodes -> [text : SUBSET Authors, changes : Nat]]
      /\ \A i \in Inodes : inode'[i].text = inode[i].text /\ inode'[i].changes >= inode[i].changes
  BY <1>1, RelinkedKeeps DEF SettingsInv, SettingsTypeOK
<1>4. c \in Authors /\ c \in Inodes /\ Commands \subseteq Inodes /\ Published \subseteq Inodes
  BY DEF Authors, Inodes, Published, SettingsInv, SettingsTypeOK
<1>5. SettingsTypeOK'
  BY <1>1, <1>2, <1>3, <1>4 DEF SettingsInv, SettingsTypeOK
<1>6. /\ c \notin saved /\ inode[c].text = proc[c].loaded \cup {c}
      /\ saved \ late \subseteq proc[c].loaded /\ proc[c].loaded \subseteq saved
      /\ proc[c].snapshot # None => proc[c].snapshot \in Published
  BY <1>1 DEF SettingsInv, CommandKnows, Unsaved
<1>7. inode'[c].text = proc[c].loaded \cup {c} /\ late \subseteq late'
  BY <1>1, <1>3, <1>4, <1>6
<1>8. ASSUME NEW d \in Commands \ {c} PROVE CommandKnows(d)'
  BY <1>1, <1>2, <1>3, <1>4, <1>5, OthersKnow
<1>9. CommandKnows(c)'
  <2>1. /\ proc'[c].pc = "clean up" /\ proc'[c].snapshot = proc[c].snapshot
        /\ proc'[c].loaded = proc[c].loaded
    BY <1>1 DEF SettingsInv, SettingsTypeOK, Procs
  <2>2. /\ proc'[c].pc \notin Unsaved
        /\ proc'[c].pc \notin Reading
        /\ proc'[c].pc \notin {"stat", "compare", "write temporary", "compare again", "check", "read raw text", "rename"}
    BY <2>1 DEF Unsaved, Reading
  <2>3. /\ proc'[c].loaded \subseteq saved'
        /\ proc'[c].snapshot # None => proc'[c].snapshot \in Published'
    <3>1. Published' = Published \cup {c}
      BY <1>1 DEF Published
    <3>2. proc[c].loaded \subseteq saved \cup {c}
      BY <1>6
    <3>3. proc[c].snapshot # None => proc[c].snapshot \in Published \cup {c}
      BY <1>6
    <3>4. saved' = saved \cup {c}
      BY <1>1
    <3> QED
      BY <2>1, <3>1, <3>2, <3>3, <3>4
  <2> QED
    BY <2>2, <2>3 DEF CommandKnows
<1> QED
  BY <1>1, <1>5, <1>6, <1>7, <1>8, <1>9 DEF SettingsInv, Published

LEMMA EditKeeps ==
  ASSUME SettingsInv, NEW e \in Edits, Settings!Edit(e) PROVE SettingsInv'
<1>1. /\ e \notin saved /\ lock' = lock /\ proc' = proc /\ saved' = saved \cup {e}
      /\ late' = IF \E d \in Commands \ {e} : Settings!Inattentive(d) THEN late \cup {e} ELSE late
  BY DEF Settings!Edit, Settings!Save
<1>2. /\ e \in Authors /\ e \in Inodes /\ e \notin Published /\ e \notin Commands
      /\ Published \subseteq Inodes /\ target \in Inodes /\ target \in Published
  BY <1>1, SettingsAssumption DEF Authors, Inodes, Published, SettingsInv, SettingsTypeOK
<1>3. inode \in [Inodes -> [text : SUBSET Authors, changes : Nat]]
  BY DEF SettingsInv, SettingsTypeOK
<1>4. /\ inode' \in [Inodes -> [text : SUBSET Authors, changes : Nat]]
      /\ target' \in {target, e} /\ inode'[target'].text = inode[target].text \cup {e}
      /\ \A i \in Inodes : i \notin {target, e} => inode'[i] = inode[i]
      /\ inode'[target].changes > inode[target].changes
  <2>1. CASE /\ target' = target
             /\ inode' = [inode EXCEPT ![target] = [text |-> @.text \cup {e}, changes |-> @.changes + 1]]
    <3>1. /\ inode[target].text \cup {e} \in SUBSET Authors /\ inode[target].changes + 1 \in Nat
          /\ inode[target].changes + 1 > inode[target].changes
      BY <1>2, <1>3
    <3> QED
      BY <1>2, <1>3, <2>1, <3>1
  <2>2. CASE /\ target' = e
             /\ inode' = [Settings!Relinked(target) EXCEPT ![e].text = Settings!Text(target) \cup {e}]
    <3> DEFINE relinked == [inode EXCEPT ![target].changes = @ + 1]
    <3>1. /\ relinked \in [Inodes -> [text : SUBSET Authors, changes : Nat]]
          /\ relinked[target].changes > inode[target].changes
          /\ \A i \in Inodes : i # target => relinked[i] = inode[i]
      BY <1>2, <1>3, RelinkedKeeps
    <3>2. inode' = [relinked EXCEPT ![e].text = inode[target].text \cup {e}]
      BY <2>2 DEF Settings!Relinked, Settings!Text
    <3>3. inode[target].text \cup {e} \in SUBSET Authors /\ e # target
      BY <1>2, <1>3
    <3> HIDE DEF relinked
    <3> QED
      BY <1>2, <2>2, <3>1, <3>2, <3>3
  <2> QED
    BY <2>1, <2>2 DEF Settings!Edit, Settings!Save
<1>5. SettingsTypeOK'
  BY <1>1, <1>2, <1>4 DEF SettingsInv, SettingsTypeOK
<1>6. \A i \in Published : /\ inode'[i].changes >= inode[i].changes
                           /\ inode'[i].text = inode[i].text \/ inode'[i].changes > inode[i].changes
  <2>1. ASSUME NEW i \in Published
        PROVE  /\ inode'[i].changes >= inode[i].changes
               /\ inode'[i].text = inode[i].text \/ inode'[i].changes > inode[i].changes
    <3>1. i \in Inodes /\ i # e
      BY <1>2, <2>1
    <3>2. inode[i].changes \in Nat /\ inode'[i].changes \in Nat
      BY <1>3, <1>4, <3>1
    <3> QED
      BY <1>4, <3>1, <3>2
  <2> QED
    BY <2>1
<1>7. ASSUME NEW d \in Commands PROVE CommandKnows(d)'
  <2>1. d \notin saved => inode'[d].text = inode[d].text
    BY <1>2, <1>4, SettingsAssumption DEF Published, Inodes, Authors
  <2> QED
    BY <1>1, <1>2, <1>5, <1>6, <2>1, OthersKnow
<1> QED
  BY <1>1, <1>2, <1>4, <1>5, <1>7 DEF SettingsInv, Published

LEMMA SettingsPreserved ==
  ASSUME SettingsInv, [Settings!Next]_(Settings!vars) PROVE SettingsInv'
<1>1. CASE UNCHANGED Settings!vars
  BY <1>1 DEF Settings!vars, SettingsInv, SettingsTypeOK, CommandKnows, Published
<1>2. ASSUME NEW e \in Edits, Settings!Edit(e) PROVE SettingsInv'
  BY <1>2, EditKeeps
<1>3. ASSUME NEW c \in Commands,
             \/ Settings!Load(c) \/ Settings!ReadRawText(c) \/ Settings!Stop(c)
             \/ Settings!Acquire(c) \/ Settings!WriteLock(c) \/ Settings!ReadLock(c)
             \/ Settings!Probe(c) \/ Settings!RecheckLock(c) \/ Settings!Unlink(c)
      PROVE  SettingsInv'
  BY <1>3, LoadKeeps, ReadRawTextKeeps, LockStepKeeps
<1>4. ASSUME NEW c \in Commands,
             \/ Settings!Link(c) \/ Settings!Stat(c) \/ Settings!Compare(c) \/ Settings!WriteTemporary(c)
             \/ Settings!CompareAgain(c) \/ Settings!Check(c) \/ Settings!Rename(c)
      PROVE  SettingsInv'
  BY <1>4, LinkKeeps, StatKeeps, CompareKeeps, WriteTemporaryKeeps, CompareAgainKeeps, CheckKeeps, RenameKeeps
<1>5. ASSUME NEW c \in Commands,
             Settings!Fails(c) \/ Settings!CleanUp(c) \/ Settings!Release(c) \/ Settings!Crash(c)
      PROVE  SettingsInv'
  BY <1>5, CleanUpKeeps
<1> QED
  BY <1>1, <1>2, <1>3, <1>4, <1>5 DEF Settings!Next

(* A change that was saved is in the settings file, but for those that     *)
(* came between the load of a command and its reading of the raw text, or  *)
(* between its last check and its rename: with any number of commands and  *)
(* saves of the editor, wherever a command fails or is killed, and         *)
(* whatever becomes of the lock file.                                      *)
THEOREM SavedIsThere == Settings!Spec => []Settings!NoLostUpdate
<1>1. Settings!Init => SettingsInv
  BY SettingsInitially
<1>2. SettingsInv /\ [Settings!Next]_(Settings!vars) => SettingsInv'
  BY SettingsPreserved
<1>3. SettingsInv => Settings!NoLostUpdate
  BY DEF SettingsInv, Settings!NoLostUpdate, Settings!Text
<1> QED
  BY <1>1, <1>2, <1>3, PTL DEF Settings!Spec

-----------------------------------------------------------------------------
(* The catalog (CodexCatalog).                                             *)

Outcomes == {"none", "running", "done", "failed"}

CatalogTypeOK ==
  /\ fetches \in [Catalog!Fetches -> Outcomes]
  /\ inflight \in 0..MaxFetches
  /\ cached \in BOOLEAN /\ cachedModels \in BOOLEAN /\ buildable \in BOOLEAN
  /\ request \in [Requests -> {"none", "waiting", "models", "failed"}]
  /\ awaits \in [Requests -> 0..MaxFetches]

(* All fetches before the last one have failed; the one that runs is       *)
(* shared, and the catalog is kept if one has brought it.                  *)
FetchesInOrder ==
  /\ \A f, g \in Catalog!Fetches : f < g => fetches[f] = "failed" \/ fetches[g] = "none"
  /\ \A f \in Catalog!Fetches : fetches[f] = "running" <=> f = inflight
  /\ cached <=> \E f \in Catalog!Fetches : fetches[f] = "done"
  /\ cachedModels => cached /\ buildable
  /\ \E n \in 0..MaxFetches : Catalog!Started = 1..n

(* A request has the answer of the fetch that it waited for, or of what is *)
(* kept.                                                                   *)
Answered(r) ==
  /\ request[r] = "waiting" => awaits[r] \in Catalog!Fetches /\ fetches[awaits[r]] # "none"
  /\ request[r] = "failed" => ~buildable \/ (awaits[r] \in Catalog!Fetches /\ fetches[awaits[r]] = "failed")
  /\ request[r] = "models" => buildable /\ cached

CatalogInv == CatalogTypeOK /\ FetchesInOrder /\ \A r \in Requests : Answered(r)

-----------------------------------------------------------------------------
(* The instance's operator is the library's.                               *)
LEMMA CatalogCardinality == \A S : Catalog!Cardinality(S) = Cardinality(S)
BY DEF Catalog!Cardinality, Cardinality

LEMMA CatalogInitially == ASSUME MaxFetches \in Nat, Catalog!Init PROVE CatalogInv
<1>1. Catalog!Started = 1..0
  BY DEF Catalog!Init, Catalog!Started
<1>2. buildable \in BOOLEAN
  BY DEF Catalog!Init
<1>3. CatalogTypeOK
  <2>1. fetches \in [Catalog!Fetches -> Outcomes] /\ inflight \in 0..MaxFetches
    BY DEF Catalog!Init, Outcomes
  <2>2. cached \in BOOLEAN /\ cachedModels \in BOOLEAN
    BY DEF Catalog!Init
  <2>3. /\ request \in [Requests -> {"none", "waiting", "models", "failed"}]
        /\ awaits \in [Requests -> 0..MaxFetches]
    BY DEF Catalog!Init
  <2> QED
    BY <1>2, <2>1, <2>2, <2>3, Zenon DEF CatalogTypeOK
<1>4. \A f, g \in Catalog!Fetches : f < g => fetches[f] = "failed" \/ fetches[g] = "none"
  BY DEF Catalog!Init
<1>5. ~cached /\ ~cachedModels /\ \A f \in Catalog!Fetches : fetches[f] = "none" /\ f # inflight
  BY DEF Catalog!Init, Catalog!Fetches
<1>6. FetchesInOrder
  BY <1>1, <1>4, <1>5 DEF FetchesInOrder
<1>7. \A r \in Requests : Answered(r)
  BY DEF Catalog!Init, Answered
<1> QED
  BY <1>3, <1>6, <1>7 DEF CatalogInv

(* The next fetch is a new one.                                            *)
LEMMA NextIsNew ==
  ASSUME MaxFetches \in Nat, CatalogInv, Catalog!Started # Catalog!Fetches
  PROVE  /\ Cardinality(Catalog!Started) + 1 \in Catalog!Fetches
         /\ Catalog!Started = 1..Cardinality(Catalog!Started)
<1>1. PICK n \in 0..MaxFetches : Catalog!Started = 1..n
  BY DEF CatalogInv, FetchesInOrder
<1>2. Cardinality(Catalog!Started) = n
  BY <1>1, FS_Interval
<1> QED
  BY <1>1, <1>2 DEF Catalog!Fetches

(* A request starts a fetch only when none runs and none has brought the   *)
(* catalog: all that there were have failed.                               *)
LEMMA GetKeeps ==
  ASSUME MaxFetches \in Nat, CatalogInv, NEW r \in Requests, Catalog!Get(r)
  PROVE  CatalogInv'
<1>0. Catalog!Started # Catalog!Fetches => /\ Cardinality(Catalog!Started) + 1 \in Catalog!Fetches
                            /\ Catalog!Started = 1..Cardinality(Catalog!Started)
  BY NextIsNew
<1> USE DEF CatalogInv, CatalogTypeOK, FetchesInOrder, Answered, Catalog!Fetches, Outcomes
<1>1. CASE cachedModels /\ request' = [request EXCEPT ![r] = "models"]
           /\ UNCHANGED <<fetches, inflight, cachedModels, awaits>>
  BY <1>1 DEF Catalog!Get, Catalog!Started
<1>2. CASE ~cachedModels /\ cached /\ Catalog!Builds(r) /\ UNCHANGED <<fetches, inflight, awaits>>
  BY <1>2 DEF Catalog!Get, Catalog!Builds, Catalog!Started
<1>3. CASE ~cached /\ inflight # 0 /\ Catalog!Waits(r, inflight) /\ UNCHANGED <<fetches, inflight, cachedModels>>
  BY <1>3 DEF Catalog!Get, Catalog!Waits, Catalog!Started
<1>4. CASE /\ ~cached /\ inflight = 0 /\ Catalog!Started # Catalog!Fetches
           /\ inflight' = Cardinality(Catalog!Started) + 1
           /\ fetches' = [fetches EXCEPT ![inflight'] = "running"]
           /\ Catalog!Waits(r, inflight') /\ UNCHANGED cachedModels
  <2>1. inflight' \in Catalog!Fetches /\ Catalog!Started = 1..(inflight' - 1)
    <3>1. PICK n \in 0..MaxFetches : Catalog!Started = 1..n
      BY Zenon
    <3>2. Cardinality(Catalog!Started) = n
      BY <3>1, FS_Interval
    <3> QED
      BY <1>4, <1>0, <3>1, <3>2
  <2>2. \A f \in Catalog!Fetches : fetches[f] # "done"
    BY <1>4
  <2>3. \A f \in Catalog!Fetches : fetches[f] # "running"
    BY <1>4
  <2>4. \A f \in Catalog!Fetches : f \in Catalog!Started => fetches[f] = "failed"
    BY <2>2, <2>3 DEF Catalog!Started
  <2>5. fetches' = [fetches EXCEPT ![inflight'] = "running"]
    BY <1>4
  <2>6. Catalog!Started' = 1..inflight'
    BY <2>1, <2>5 DEF Catalog!Started
  <2>7. /\ request' = [request EXCEPT ![r] = "waiting"]
        /\ awaits' = [awaits EXCEPT ![r] = inflight']
        /\ cached' = cached /\ buildable' = buildable /\ cachedModels' = cachedModels
    BY <1>4 DEF Catalog!Get, Catalog!Waits
  <2>8. \A f \in Catalog!Fetches : fetches'[f] # "done"
    BY <2>2, <2>5
  <2>9. FetchesInOrder'
    <3>1. \A f, g \in Catalog!Fetches : f < g => fetches'[f] = "failed" \/ fetches'[g] = "none"
      BY <2>1, <2>4, <2>5 DEF Catalog!Started
    <3>2. \A f \in Catalog!Fetches : fetches'[f] = "running" <=> f = inflight'
      BY <2>1, <2>3, <2>5
    <3>3. cached' <=> \E f \in Catalog!Fetches : fetches'[f] = "done"
      BY <1>4, <2>7, <2>8
    <3>4. cachedModels' => cached' /\ buildable'
      BY <2>7
    <3> QED
      BY <2>1, <2>6, <3>1, <3>2, <3>3, <3>4
  <2>10. CatalogTypeOK'
    BY <2>1, <2>5, <2>7
  <2>11. \A s \in Requests : Answered(s)'
    BY <2>1, <2>4, <2>5, <2>7 DEF Catalog!Started
  <2> QED
    BY <2>9, <2>10, <2>11
<1> HIDE DEF CatalogInv, CatalogTypeOK, FetchesInOrder, Answered, Catalog!Fetches, Outcomes
<1> QED
  BY <1>1, <1>2, <1>3, <1>4, CatalogCardinality DEF Catalog!Get

(* The fetch that runs is the last, and none before it has brought it.     *)
LEMMA SettlesKeeps ==
  ASSUME MaxFetches \in Nat, CatalogInv, Catalog!FetchSettles
  PROVE  CatalogInv'
<1> USE DEF CatalogInv, CatalogTypeOK, FetchesInOrder, Answered, Catalog!Fetches, Outcomes
<1>1. PICK outcome \in {"done", "failed"} :
        /\ fetches' = [fetches EXCEPT ![inflight] = outcome]
        /\ cached' = (outcome = "done")
        /\ inflight' = 0
  BY DEF Catalog!FetchSettles, Catalog!Left
<1>2. inflight \in Catalog!Fetches /\ fetches[inflight] = "running"
  BY DEF Catalog!FetchSettles
<1>3. \A f \in Catalog!Fetches : fetches[f] # "done"
  BY <1>2
<1>4. Catalog!Started' = Catalog!Started
  BY <1>1, <1>2 DEF Catalog!Started
<1>5. cached' \in BOOLEAN /\ (cached' <=> outcome = "done") /\ ~cached
  BY <1>1, <1>3
<1>6. FetchesInOrder'
  BY <1>1, <1>2, <1>3, <1>4, <1>5 DEF Catalog!FetchSettles
<1>7. CatalogTypeOK'
  BY <1>1, <1>2, <1>5 DEF Catalog!FetchSettles
<1>8. \A s \in Requests : Answered(s)'
  BY <1>1, <1>2, <1>5 DEF Catalog!FetchSettles
<1> QED
  BY <1>6, <1>7, <1>8

LEMMA ResumeKeeps ==
  ASSUME MaxFetches \in Nat, CatalogInv, NEW r \in Requests, Catalog!Resume(r)
  PROVE  CatalogInv'
BY DEF CatalogInv, CatalogTypeOK, FetchesInOrder, Answered, Catalog!Fetches, Outcomes, Catalog!Resume, Catalog!Builds, Catalog!Started

LEMMA AgainKeeps ==
  ASSUME MaxFetches \in Nat, CatalogInv, NEW r \in Requests, Catalog!Again(r)
  PROVE  CatalogInv'
<1>1. /\ UNCHANGED <<fetches, inflight, cached, cachedModels, buildable>>
      /\ request' = [request EXCEPT ![r] = "none"]
      /\ awaits' = [awaits EXCEPT ![r] = 0]
  BY DEF Catalog!Again
<1>2. FetchesInOrder'
  BY <1>1 DEF CatalogInv, FetchesInOrder, Catalog!Started
<1>3. CatalogTypeOK'
  <2>1. /\ request' \in [Requests -> {"none", "waiting", "models", "failed"}]
        /\ awaits' \in [Requests -> 0..MaxFetches]
    BY <1>1 DEF CatalogInv, CatalogTypeOK
  <2> QED
    BY <1>1, <2>1 DEF CatalogInv, CatalogTypeOK
<1>4. \A s \in Requests : Answered(s)'
  BY <1>1 DEF CatalogInv, CatalogTypeOK, Answered
<1> QED
  BY <1>2, <1>3, <1>4 DEF CatalogInv

LEMMA CatalogPreserved ==
  ASSUME MaxFetches \in Nat, CatalogInv, [Catalog!Next]_(Catalog!vars)
  PROVE  CatalogInv'
<1>1. CASE UNCHANGED Catalog!vars
  BY <1>1 DEF Catalog!vars, CatalogInv, CatalogTypeOK, FetchesInOrder, Answered, Catalog!Started
<1>2. CASE Catalog!Next
  BY <1>2, GetKeeps, SettlesKeeps, ResumeKeeps, AgainKeeps DEF Catalog!Next
<1> QED
  BY <1>1, <1>2

-----------------------------------------------------------------------------
LEMMA CatalogInvImplies == ASSUME CatalogInv PROVE Catalog!CatalogFetchedOnce
BY DEF CatalogInv, CatalogTypeOK, FetchesInOrder, Answered, Catalog!CatalogFetchedOnce, Catalog!Fetches

(* One fetch at a time; none after the catalog was got; a failed fetch is  *)
(* the answer of those only that waited for it (CatalogFetchedOnce).       *)
THEOREM FetchedOnce == Catalog!Spec => []Catalog!CatalogFetchedOnce
<1>1. Catalog!Init => CatalogInv
  BY CatalogInitially, CatalogAssumption
<1>2. CatalogInv /\ [Catalog!Next]_(Catalog!vars) => CatalogInv'
  BY CatalogPreserved, CatalogAssumption
<1>3. CatalogInv => Catalog!CatalogFetchedOnce
  BY CatalogInvImplies
<1> QED
  BY <1>1, <1>2, <1>3, PTL DEF Catalog!Spec

-----------------------------------------------------------------------------
(* The logins (OAuthCallback).                                             *)

LoginRecords == [state : Nat, provider : Providers, expiresAt : Nat]

(* Every pending state is that of a login, and no callback with it was     *)
(* accepted; states are numbered in the order in which they are given out. *)
PendingAreLogins ==
  /\ \A j \in 1..Len(logins) : logins[j].state = j
  /\ \A p \in pendingStates : /\ p.state \in 1..Len(logins) /\ p = logins[p.state]
                             /\ p.state \notin consumed

(* An exchange is of a state that was accepted, before it expired.         *)
ExchangesAreLogins ==
  /\ \A i \in 1..Len(exchanges) :
       /\ exchanges[i].state \in consumed /\ exchanges[i].state \in 1..Len(logins)
       /\ exchanges[i].provider = logins[exchanges[i].state].provider
       /\ exchanges[i].at < logins[exchanges[i].state].expiresAt
  /\ \A i, j \in 1..Len(exchanges) : exchanges[i].state = exchanges[j].state => i = j

PendingRemembered ==
  \A j \in 1..Len(logins) :
    Len(logins) - j < MaxPendingStates /\ now < logins[j].expiresAt /\ j \notin consumed
      => logins[j] \in pendingStates

OAuthInv ==
  /\ now \in Nat /\ logins \in Seq(LoginRecords)
  /\ exchanges \in Seq([state : Nat, provider : Providers, at : Nat])
  /\ consumed \subseteq 1..Len(logins)
  /\ IsFiniteSet(pendingStates) /\ Cardinality(pendingStates) <= MaxPendingStates
  /\ PendingAreLogins
  /\ ExchangesAreLogins
  /\ PendingRemembered

LEMMA OAuthCardinality == \A S : OAuth!Cardinality(S) = Cardinality(S)
BY DEF OAuth!Cardinality, Cardinality

LEMMA OAuthInitially == ASSUME OAuth!Init PROVE OAuthInv
BY FS_EmptySet, OAuthAssumption
   DEF OAuth!Init, OAuthInv, PendingAreLogins, ExchangesAreLogins, PendingRemembered

LEMMA LoginsAreImage ==
  ASSUME NEW S, IsFiniteSet(S)
  PROVE  IsFiniteSet({logins[j] : j \in S}) /\ Cardinality({logins[j] : j \in S}) <= Cardinality(S)
<1> DEFINE T == {logins[j] : j \in S}
           f == [j \in S |-> logins[j]]
<1>1. f \in Surjection(S, T)
  BY DEF Surjection
<1> QED
  BY <1>1, FS_Surjection, Zenon

(* What has expired is forgotten, and nothing else.                        *)
LEMMA UnexpiredKeeps ==
  ASSUME OAuthInv
  PROVE  /\ OAuth!Unexpired \subseteq pendingStates /\ IsFiniteSet(OAuth!Unexpired)
         /\ Cardinality(OAuth!Unexpired) \in Nat /\ Cardinality(OAuth!Unexpired) <= MaxPendingStates
         /\ \A p \in OAuth!Unexpired : p.expiresAt > now
         /\ \A j \in 1..Len(logins) :
              Len(logins) - j < MaxPendingStates /\ now < logins[j].expiresAt /\ j \notin consumed
                => logins[j] \in OAuth!Unexpired
<1>1. OAuth!Unexpired \subseteq pendingStates
  BY DEF OAuth!Unexpired
<1>2. IsFiniteSet(OAuth!Unexpired) /\ Cardinality(OAuth!Unexpired) <= Cardinality(pendingStates)
  BY <1>1, FS_Subset DEF OAuthInv
<1>3. Cardinality(OAuth!Unexpired) \in Nat /\ Cardinality(pendingStates) \in Nat
  BY <1>2, FS_CardinalityType DEF OAuthInv
<1>4. Cardinality(OAuth!Unexpired) <= MaxPendingStates
  BY <1>2, <1>3, OAuthAssumption DEF OAuthInv
<1>5. \A j \in 1..Len(logins) : now < logins[j].expiresAt <=> logins[j].expiresAt > now
  BY DEF OAuthInv, LoginRecords
<1> QED
  BY <1>1, <1>2, <1>3, <1>4, <1>5 DEF OAuthInv, PendingRemembered, OAuth!Unexpired

(* The state that goes when there are too many is that of a login after    *)
(* which there were as many others, and there is room for one more.        *)
LEMMA RoomIsMade ==
  ASSUME OAuthInv
  PROVE  LET room == OAuth!MadeRoom(OAuth!Unexpired) IN
         /\ room \subseteq OAuth!Unexpired /\ IsFiniteSet(room)
         /\ Cardinality(room) \in Nat /\ Cardinality(room) + 1 <= MaxPendingStates
         /\ \A p \in OAuth!Unexpired \ room : Len(logins) - p.state + 1 >= MaxPendingStates
<1> DEFINE U == OAuth!Unexpired
           room == OAuth!MadeRoom(U)
<1>1. /\ U \subseteq pendingStates /\ IsFiniteSet(U) /\ Cardinality(U) \in Nat
      /\ Cardinality(U) <= MaxPendingStates
  BY UnexpiredKeeps
<1>2. \A p \in U : p.state \in 1..Len(logins) /\ p = logins[p.state]
  BY <1>1 DEF OAuthInv, PendingAreLogins
<1>3. /\ MaxPendingStates \in Nat \ {0} /\ Len(logins) \in Nat
  BY OAuthAssumption DEF OAuthInv
<1>4. CASE ~(Cardinality(U) >= MaxPendingStates)
  <2>1. room = U
    BY <1>4, OAuthCardinality DEF OAuth!MadeRoom
  <2> QED
    BY <1>1, <1>3, <1>4, <2>1
<1>5. CASE Cardinality(U) >= MaxPendingStates
  <2>1. room = {s \in U : \E t \in U : t.state < s.state}
    BY <1>5, OAuthCardinality DEF OAuth!MadeRoom
  <2>2. PICK oldest \in U : \A t \in U : oldest.state <= t.state
    <3>1. U # {}
      BY <1>3, <1>5, FS_EmptySet
    <3> DEFINE states == {p.state : p \in U}
    <3>2. states # {} /\ states \subseteq Nat
      BY <1>2, <3>1
    <3>3. PICK m \in states : \A n \in states : m <= n
      <4> HIDE DEF states
      <4> QED
        BY <3>2, SmallestNat
    <3> QED
      BY <3>3
  <2>3. \A s \in U : s.state = oldest.state => s = oldest
    BY <1>2
  <2>4. room = U \ {oldest}
    BY <1>2, <2>1, <2>2, <2>3
  <2>5. IsFiniteSet(room) /\ Cardinality(room) = Cardinality(U) - 1
    BY <1>1, <2>4, FS_RemoveElement
  <2>6. Len(logins) - oldest.state + 1 >= MaxPendingStates
    <3> DEFINE last == oldest.state..Len(logins)
               image == {logins[j] : j \in last}
    <3>1. U \subseteq image
      BY <1>2, <1>3, <2>2
    <3>2. /\ IsFiniteSet(last)
          /\ Cardinality(last) = Len(logins) - oldest.state + 1
      BY <1>2, <1>3, <2>2, FS_Interval
    <3>3. IsFiniteSet(image) /\ Cardinality(image) <= Cardinality(last)
      BY <3>2, LoginsAreImage
    <3>4. Cardinality(U) <= Cardinality(image)
      BY <3>1, <3>3, FS_Subset
    <3>5. Cardinality(image) \in Nat /\ Cardinality(last) \in Nat
      BY <3>2, <3>3, FS_CardinalityType
    <3> HIDE DEF image, last
    <3>6. Cardinality(last) >= MaxPendingStates
      BY <1>1, <1>3, <1>5, <3>3, <3>4, <3>5
    <3> QED
      BY <3>2, <3>6
  <2>7. room \subseteq U /\ \A p \in U \ room : p = oldest
    BY <2>4
  <2>8. Cardinality(room) \in Nat /\ Cardinality(room) + 1 <= MaxPendingStates
    BY <1>1, <1>3, <1>5, <2>5
  <2> HIDE DEF room, U
  <2>9. \A p \in U \ room : Len(logins) - p.state + 1 >= MaxPendingStates
    BY <2>6, <2>7, Zenon
  <2> QED
    BY <2>5, <2>7, <2>8, <2>9, Zenon DEF room, U
<1> QED
  BY <1>4, <1>5

LEMMA LoginKeeps ==
  ASSUME OAuthInv, NEW provider \in Providers \cup {Unknown}, OAuth!Login(provider) PROVE OAuthInv'
<1> DEFINE new == [state |-> Len(logins) + 1, provider |-> provider, expiresAt |-> now + Ttl]
           U == OAuth!Unexpired
           room == OAuth!MadeRoom(OAuth!Unexpired)
<1>1. /\ pendingStates' = room \cup {new} /\ logins' = Append(logins, new)
      /\ now' = now /\ consumed' = consumed /\ exchanges' = exchanges /\ provider \in Providers
  BY DEF OAuth!Login, OAuth!CreatePendingState
<1>2. /\ now \in Nat /\ logins \in Seq(LoginRecords) /\ Len(logins) \in Nat
      /\ consumed \subseteq 1..Len(logins) /\ MaxPendingStates \in Nat \ {0} /\ Ttl \in Nat
  BY OAuthAssumption DEF OAuthInv
<1>3. new \in LoginRecords
  BY <1>1, <1>2 DEF LoginRecords
<1>4. /\ logins' \in Seq(LoginRecords) /\ Len(logins') = Len(logins) + 1
      /\ \A j \in 1..Len(logins) : logins'[j] = logins[j]
      /\ logins'[Len(logins) + 1] = new
  <2> HIDE DEF new
  <2> QED
    BY <1>1, <1>2, <1>3
<1>5. /\ room \subseteq U /\ U \subseteq pendingStates /\ IsFiniteSet(room)
      /\ Cardinality(room) \in Nat /\ Cardinality(room) + 1 <= MaxPendingStates
      /\ \A p \in U \ room : Len(logins) - p.state + 1 >= MaxPendingStates
  BY RoomIsMade, UnexpiredKeeps
<1>6. IsFiniteSet(pendingStates') /\ Cardinality(pendingStates') <= MaxPendingStates
  <2>1. /\ IsFiniteSet(pendingStates')
        /\ Cardinality(pendingStates') = IF new \in room THEN Cardinality(room) ELSE Cardinality(room) + 1
    BY <1>1, <1>5, FS_AddElement
  <2> QED
    BY <1>2, <1>5, <2>1
<1>7. PendingAreLogins'
  <2>1. \A j \in 1..Len(logins') : logins'[j].state = j
    BY <1>2, <1>4 DEF OAuthInv, PendingAreLogins
  <2>2. ASSUME NEW p \in room
        PROVE  p.state \in 1..Len(logins') /\ p = logins'[p.state] /\ p.state \notin consumed
    <3>1. p.state \in 1..Len(logins) /\ p = logins[p.state] /\ p.state \notin consumed
      BY <1>5 DEF OAuthInv, PendingAreLogins
    <3> QED
      BY <3>1, <1>2, <1>4
  <2>3. new.state \in 1..Len(logins') /\ new = logins'[new.state] /\ new.state \notin consumed
    BY <1>2, <1>4
  <2> HIDE DEF new, room
  <2> QED
    BY <1>1, <2>1, <2>2, <2>3 DEF PendingAreLogins
<1>8. ExchangesAreLogins'
  <2>1. \A i \in 1..Len(exchanges) :
          /\ exchanges[i].state \in consumed /\ exchanges[i].state \in 1..Len(logins')
          /\ exchanges[i].provider = logins'[exchanges[i].state].provider
          /\ exchanges[i].at < logins'[exchanges[i].state].expiresAt
    <3>1. ASSUME NEW i \in 1..Len(exchanges)
          PROVE  /\ exchanges[i].state \in consumed /\ exchanges[i].state \in 1..Len(logins)
                 /\ exchanges[i].provider = logins[exchanges[i].state].provider
                 /\ exchanges[i].at < logins[exchanges[i].state].expiresAt
      BY DEF OAuthInv, ExchangesAreLogins
    <3>2. \A k \in 1..Len(logins) : k \in 1..Len(logins') /\ logins'[k] = logins[k]
      BY <1>2, <1>4
    <3> QED
      BY <3>1, <3>2, Zenon
  <2> QED
    BY <1>1, <2>1 DEF OAuthInv, ExchangesAreLogins
<1>9. PendingRemembered'
  <2>1. SUFFICES ASSUME NEW j \in 1..Len(logins'), Len(logins') - j < MaxPendingStates,
                        now < logins'[j].expiresAt, j \notin consumed
                 PROVE  logins'[j] \in pendingStates'
    BY <1>1 DEF PendingRemembered
  <2>2. CASE j = Len(logins) + 1
    BY <1>1, <1>4, <2>2
  <2>3. CASE j \in 1..Len(logins)
    <3>1. logins'[j] = logins[j] /\ logins[j].state = j
      BY <1>4, <2>3 DEF OAuthInv, PendingAreLogins
    <3>2. Len(logins) - j < MaxPendingStates /\ ~(Len(logins) - j + 1 >= MaxPendingStates)
      BY <1>2, <1>4, <2>1, <2>3
    <3>3. logins[j] \in U
      BY <2>1, <2>3, <3>1, <3>2, UnexpiredKeeps
    <3>4. logins[j] \in room
      BY <1>5, <3>1, <3>2, <3>3
    <3> QED
      BY <1>1, <3>1, <3>4
  <2> QED
    BY <1>2, <1>4, <2>2, <2>3
<1>10. exchanges' \in Seq([state : Nat, provider : Providers, at : Nat]) /\ consumed' \subseteq 1..Len(logins')
  BY <1>1, <1>2, <1>4 DEF OAuthInv
<1>11. now' \in Nat
  BY <1>1, <1>2
<1> QED
  BY <1>4, <1>6, <1>7, <1>8, <1>9, <1>10, <1>11 DEF OAuthInv

(* A callback whose state is pending ends it: the next one finds nothing.  *)
LEMMA CallbackKeeps ==
  ASSUME OAuthInv, NEW state \in 0..MaxLogins, NEW brings \in {"code", "error", "nothing"},
         OAuth!Callback(state, brings)
  PROVE  OAuthInv'
<1> DEFINE U == OAuth!Unexpired
<1>1. /\ pendingStates' = {s \in U : s.state # state} /\ now' = now /\ logins' = logins
  BY DEF OAuth!Callback, OAuth!ConsumePendingState
<1>2. /\ U \subseteq pendingStates /\ IsFiniteSet(U) /\ Cardinality(U) \in Nat
      /\ Cardinality(U) <= MaxPendingStates
      /\ \A p \in U : p.expiresAt > now
      /\ \A j \in 1..Len(logins) :
           Len(logins) - j < MaxPendingStates /\ now < logins[j].expiresAt /\ j \notin consumed
             => logins[j] \in U
  BY UnexpiredKeeps
<1>3. IsFiniteSet(pendingStates') /\ Cardinality(pendingStates') <= MaxPendingStates
  <2>1. pendingStates' \subseteq U
    BY <1>1
  <2>2. IsFiniteSet(pendingStates') /\ Cardinality(pendingStates') <= Cardinality(U)
    BY <1>2, <2>1, FS_Subset
  <2>3. Cardinality(pendingStates') \in Nat
    BY <2>2, FS_CardinalityType
  <2> QED
    BY <1>2, <2>2, <2>3, OAuthAssumption
<1>4. /\ \A j \in 1..Len(logins) : logins[j].state = j
      /\ \A p \in pendingStates : p.state \in 1..Len(logins) /\ p = logins[p.state] /\ p.state \notin consumed
      /\ logins \in Seq(LoginRecords) /\ now \in Nat /\ consumed \subseteq 1..Len(logins)
      /\ exchanges \in Seq([state : Nat, provider : Providers, at : Nat])
  BY DEF OAuthInv, PendingAreLogins
<1>5. consumed' \subseteq consumed \cup {state} /\ consumed \subseteq consumed'
  BY DEF OAuth!Callback
<1>6. PendingAreLogins'
  BY <1>1, <1>2, <1>4, <1>5 DEF PendingAreLogins
<1>7. CASE UNCHANGED <<consumed, exchanges>> /\ \A p \in U : p.state # state
  <2>1. ExchangesAreLogins'
    BY <1>1, <1>7 DEF OAuthInv, ExchangesAreLogins
  <2>2. PendingRemembered'
    BY <1>1, <1>2, <1>4, <1>7 DEF PendingRemembered
  <2> QED
    BY <1>1, <1>3, <1>4, <1>6, <1>7, <2>1, <2>2 DEF OAuthInv
<1>8. ASSUME NEW pending \in U, pending.state = state, consumed' = consumed \cup {state},
             exchanges' = IF brings = "code" THEN
                            Append(exchanges, [state |-> state, provider |-> pending.provider, at |-> now])
                          ELSE exchanges
      PROVE  OAuthInv'
  <2>1. /\ state \in 1..Len(logins) /\ pending = logins[state] /\ state \notin consumed
        /\ logins[state] \in LoginRecords /\ now < logins[state].expiresAt
    <3>1. state \in 1..Len(logins) /\ pending = logins[state] /\ state \notin consumed
      BY <1>2, <1>4, <1>8
    <3>2. logins[state] \in LoginRecords
      BY <1>4, <3>1
    <3>3. logins[state].expiresAt \in Nat
      BY <3>2 DEF LoginRecords
    <3>4. logins[state].expiresAt > now
      BY <1>2, <3>1
    <3> QED
      BY <1>4, <3>1, <3>2, <3>3, <3>4
  <2>2. consumed' \subseteq 1..Len(logins')
    BY <1>1, <1>4, <1>8, <2>1
  <2>3. PendingRemembered'
    BY <1>1, <1>2, <1>4, <1>8 DEF PendingRemembered
  <2>4. /\ exchanges' \in Seq([state : Nat, provider : Providers, at : Nat])
        /\ ExchangesAreLogins'
    <3>1. CASE exchanges' = exchanges
      BY <1>1, <1>4, <1>5, <3>1 DEF OAuthInv, ExchangesAreLogins
    <3>2. CASE exchanges' = Append(exchanges, [state |-> state, provider |-> pending.provider, at |-> now])
      <4> DEFINE new == [state |-> state, provider |-> pending.provider, at |-> now]
      <4>1. new \in [state : Nat, provider : Providers, at : Nat]
        BY <1>4, <2>1 DEF LoginRecords
      <4>2. /\ new.state = state /\ new.provider = logins[state].provider /\ new.at < logins[state].expiresAt
        BY <2>1
      <4> HIDE DEF new
      <4>3. /\ exchanges' \in Seq([state : Nat, provider : Providers, at : Nat])
            /\ Len(exchanges') = Len(exchanges) + 1 /\ Len(exchanges) \in Nat
            /\ \A i \in 1..Len(exchanges) : exchanges'[i] = exchanges[i]
            /\ exchanges'[Len(exchanges) + 1] = new
        BY <1>4, <3>2, <4>1 DEF new
      <4>4. \A i \in 1..Len(exchanges) : exchanges[i].state \in consumed /\ exchanges[i].state # state
        BY <2>1 DEF OAuthInv, ExchangesAreLogins
      <4>5. \A i \in 1..Len(exchanges') : i \in 1..Len(exchanges) \/ i = Len(exchanges) + 1
        BY <4>3
      <4>6. ASSUME NEW i \in 1..Len(exchanges')
            PROVE  /\ exchanges'[i].state \in consumed' /\ exchanges'[i].state \in 1..Len(logins')
                   /\ exchanges'[i].provider = logins'[exchanges'[i].state].provider
                   /\ exchanges'[i].at < logins'[exchanges'[i].state].expiresAt
        <5>1. CASE i = Len(exchanges) + 1
          BY <1>1, <1>8, <2>1, <4>2, <4>3, <5>1
        <5>2. CASE i \in 1..Len(exchanges)
          BY <1>1, <1>5, <4>3, <5>2 DEF OAuthInv, ExchangesAreLogins
        <5> QED
          BY <4>5, <5>1, <5>2
      <4>7. ASSUME NEW i \in 1..Len(exchanges'), NEW j \in 1..Len(exchanges'),
                   exchanges'[i].state = exchanges'[j].state
            PROVE  i = j
        BY <4>2, <4>3, <4>4, <4>5, <4>7 DEF OAuthInv, ExchangesAreLogins
      <4> QED
        BY <4>3, <4>6, <4>7 DEF ExchangesAreLogins
    <3> QED
      BY <1>8, <3>1, <3>2
  <2> QED
    BY <1>1, <1>3, <1>4, <1>6, <2>2, <2>3, <2>4 DEF OAuthInv
<1> QED
  BY <1>7, <1>8 DEF OAuth!Callback

LEMMA OAuthPreserved ==
  ASSUME OAuthInv, [OAuth!Next]_(OAuth!vars) PROVE OAuthInv'
<1>1. CASE UNCHANGED OAuth!vars
  BY <1>1 DEF OAuth!vars, OAuthInv, PendingAreLogins, ExchangesAreLogins, PendingRemembered
<1>2. CASE OAuth!Tick
  <2>1. now' = now + 1 /\ now' \in Nat /\ UNCHANGED <<pendingStates, logins, consumed, exchanges>>
    BY <1>2 DEF OAuth!Tick, OAuthInv
  <2>2. PendingRemembered'
    <3>1. \A j \in 1..Len(logins) : logins[j].expiresAt \in Nat
      <4>1. \A j \in 1..Len(logins) : logins[j] \in LoginRecords
        BY DEF OAuthInv
      <4> QED
        BY <4>1 DEF LoginRecords
    <3>2. \A j \in 1..Len(logins) : now' < logins[j].expiresAt => now < logins[j].expiresAt
      BY <2>1, <3>1 DEF OAuthInv
    <3> QED
      BY <2>1, <3>2 DEF OAuthInv, PendingRemembered
  <2> QED
    BY <2>1, <2>2 DEF OAuthInv, PendingAreLogins, ExchangesAreLogins
<1> QED
  BY <1>1, <1>2, LoginKeeps, CallbackKeeps DEF OAuth!Next

LEMMA OAuthInvImplies == ASSUME OAuthInv PROVE OAuth!LoginsHonoured
<1>1. DOMAIN logins = 1..Len(logins) /\ DOMAIN exchanges = 1..Len(exchanges)
  BY DEF OAuthInv
<1>2. OAuth!ExchangedOnce
  BY <1>1 DEF OAuthInv, PendingAreLogins, ExchangesAreLogins, OAuth!ExchangedOnce
<1>3. OAuth!LoginRemembered
  BY <1>1, OAuthCardinality DEF OAuthInv, PendingAreLogins, PendingRemembered, OAuth!LoginRemembered
<1> QED
  BY <1>2, <1>3 DEF OAuth!LoginsHonoured

(* A login is good for one exchange, of its provider and before it expires;*)
(* no other state is good for any; and a login is not forgotten before it  *)
(* has expired, unless as many others were started after it as are kept.   *)
THEOREM EveryLoginIsHonoured == OAuth!Spec => []OAuth!LoginsHonoured
<1>1. OAuth!Init => OAuthInv
  BY OAuthInitially
<1>2. OAuthInv /\ [OAuth!Next]_(OAuth!vars) => OAuthInv'
  BY OAuthPreserved
<1>3. OAuthInv => OAuth!LoginsHonoured
  BY OAuthInvImplies
<1> QED
  BY <1>1, <1>2, <1>3, PTL DEF OAuth!Spec

-----------------------------------------------------------------------------
(* The three as the run checks them: a behaviour is one of them.           *)

(* No change that was saved is lost, in every behaviour that is run.       *)
THEOREM NoUpdateIsLost == MCSpec => []NoLostUpdate
<1> DEFINE Inv == picked = "settings" => SettingsInv
<1>1. MCInit => Inv
  BY SettingsInitially DEF MCInit
<1>2. Inv /\ [MCNext]_MCvars => Inv'
  <2>1. MCNext => picked' = picked /\ (picked = "settings" => Settings!Next)
    BY DEF MCNext
  <2>2. UNCHANGED MCvars =>
          picked' = picked /\ UNCHANGED Settings!vars
    BY DEF MCvars, settingsVars, Settings!vars
  <2> QED
    BY <2>1, <2>2, SettingsPreserved
<1>3. Inv => NoLostUpdate
  BY DEF SettingsInv, NoLostUpdate, Settings!NoLostUpdate, Settings!Text
<1> QED
  BY <1>1, <1>2, <1>3, PTL DEF MCSpec

(* The catalog is fetched once at a time, in every behaviour that is run.  *)
THEOREM CatalogIsFetchedOnce == MCSpec => []CatalogFetchedOnce
<1> DEFINE Inv == picked = "catalog" => CatalogInv
<1>1. MCInit => Inv
  BY CatalogInitially, CatalogAssumption DEF MCInit
<1>2. Inv /\ [MCNext]_MCvars => Inv'
  <2>1. MCNext => picked' = picked /\ (picked = "catalog" => Catalog!Next)
    BY DEF MCNext
  <2>2. UNCHANGED MCvars =>
          picked' = picked /\ UNCHANGED Catalog!vars
    BY DEF MCvars, catalogVars, Catalog!vars
  <2> QED
    BY <2>1, <2>2, CatalogPreserved, CatalogAssumption
<1>3. Inv => CatalogFetchedOnce
  BY CatalogInvImplies DEF CatalogFetchedOnce
<1> QED
  BY <1>1, <1>2, <1>3, PTL DEF MCSpec

(* The logins are honoured, in every behaviour that is run.                *)
THEOREM LoginsAreHonoured == MCSpec => []LoginsHonoured
<1> DEFINE Inv == picked = "oauth" => OAuthInv
<1>1. MCInit => Inv
  BY OAuthInitially DEF MCInit
<1>2. Inv /\ [MCNext]_MCvars => Inv'
  <2>1. MCNext => picked' = picked /\ (picked = "oauth" => OAuth!Next)
    BY DEF MCNext
  <2>2. UNCHANGED MCvars =>
          picked' = picked /\ UNCHANGED OAuth!vars
    BY DEF MCvars, oauthVars, OAuth!vars
  <2> QED
    BY <2>1, <2>2, OAuthPreserved
<1>3. Inv => LoginsHonoured
  BY OAuthInvImplies DEF LoginsHonoured
<1> QED
  BY <1>1, <1>2, <1>3, PTL DEF MCSpec

-----------------------------------------------------------------------------
(* The plan of a sync.  What is to come of the selection, and what has     *)
(* been.                                                                   *)
ToCome == {left[i] : i \in 1..Len(left)}

Done == selected \ ToCome

(* What a key may be of: the model it was, or a new one of that name.      *)
Chosen(k) == {n \in Done : n = existing[k] \/ (n = k /\ Plan!KeysOf(k) = {})}

KeysKept(models) == {k \in SyncNames : existing[k] \in models}

NamesAdded(models) == {n \in models : Plan!KeysOf(n) = {}}

PlanTypeOK ==
  /\ existing \in [SyncNames -> SyncNames \cup {NoModel}]
  /\ selected \in SUBSET SyncNames
  /\ left \in Seq(selected)
  /\ newModels \in [SyncNames -> SyncNames \cup {NoModel}]
  /\ kept \in Nat /\ added \in Nat

PlanInv ==
  /\ PlanTypeOK
  /\ \A i, j \in 1..Len(left) : left[i] = left[j] => i = j
  /\ \A k \in SyncNames : newModels[k] \in Chosen(k) \/ (Chosen(k) = {} /\ newModels[k] = NoModel)
  /\ kept = Cardinality(KeysKept(Done))
  /\ added = Cardinality(NamesAdded(Done))

LEMMA PlanCardinality == \A S : Plan!Cardinality(S) = Cardinality(S)
BY DEF Plan!Cardinality, Cardinality

LEMMA PlanInitially == ASSUME Plan!Init PROVE PlanInv
<1> DEFINE n == Cardinality(selected)
<1>1. /\ existing \in [SyncNames -> SyncNames \cup {NoModel}] /\ selected \in SUBSET SyncNames
      /\ left \in [1..n -> selected] /\ kept = 0 /\ added = 0
      /\ newModels = [k \in SyncNames |-> NoModel]
      /\ \A i, j \in 1..n : left[i] = left[j] => i = j
  BY PlanCardinality DEF Plan!Init, Plan!IsInjective
<1>2. IsFiniteSet(selected) /\ n \in Nat
  BY <1>1, PlanAssumption, FS_Subset, FS_CardinalityType
<1>3. left \in Seq(selected) /\ Len(left) = n
  BY <1>1, <1>2
<1>4. left \in Surjection(1..n, selected)
  <2>1. left \in Injection(1..n, selected)
    BY <1>1 DEF Injection, IsInjective
  <2>2. Cardinality(1..n) = n
    BY <1>2, FS_Interval
  <2> HIDE DEF n
  <2> QED
    BY <1>2, <2>1, <2>2, FS_Injection DEF n
<1>5. ToCome = selected
  BY <1>1, <1>3, <1>4 DEF ToCome, Surjection
<1>6. Done = {}
  BY <1>5 DEF Done
<1>7. KeysKept(Done) = {} /\ NamesAdded(Done) = {} /\ \A k \in SyncNames : Chosen(k) = {}
  BY <1>6 DEF KeysKept, NamesAdded, Chosen
<1> QED
  BY <1>1, <1>3, <1>7, FS_EmptySet DEF PlanInv, PlanTypeOK

(* The next model of the selection.                                        *)
LEMMA NextModel ==
  ASSUME PlanInv, left # <<>>, left' = Tail(left), selected' = selected
  PROVE  /\ Head(left) \in selected /\ Head(left) \in SyncNames /\ Head(left) \notin Done
         /\ Done' = Done \cup {Head(left)} /\ left' \in Seq(selected)
         /\ \A i, j \in 1..Len(left') : left'[i] = left'[j] => i = j
<1>1. left \in Seq(selected) /\ selected \subseteq SyncNames /\ Head(left) = left[1]
  BY DEF PlanInv, PlanTypeOK
<1>2. /\ left' \in Seq(selected) /\ Len(left') = Len(left) - 1 /\ Len(left) \in Nat \ {0}
      /\ \A i \in 1..Len(left') : left'[i] = left[i + 1] /\ i + 1 \in 1..Len(left)
  BY <1>1
<1>3. 1 \in 1..Len(left) /\ \A i \in 1..Len(left) : i # 1 => i - 1 \in 1..Len(left') /\ (i - 1) + 1 = i
  BY <1>2
<1>4. ToCome' = ToCome \ {left[1]}
  <2>1. ASSUME NEW x \in ToCome' PROVE x \in ToCome /\ x # left[1]
    <3>1. PICK i \in 1..Len(left') : x = left'[i]
      BY DEF ToCome
    <3>2. x = left[i + 1] /\ i + 1 \in 1..Len(left) /\ i + 1 # 1
      BY <1>2, <3>1
    <3> QED
      BY <1>3, <3>2 DEF ToCome, PlanInv
  <2>2. ASSUME NEW x \in ToCome, x # left[1] PROVE x \in ToCome'
    <3>1. PICK i \in 1..Len(left) : x = left[i]
      BY DEF ToCome
    <3>2. i - 1 \in 1..Len(left') /\ x = left'[i - 1]
      BY <1>2, <1>3, <2>2, <3>1
    <3> QED
      BY <3>2 DEF ToCome
  <2> QED
    BY <2>1, <2>2
<1>5. left[1] \in ToCome /\ left[1] \in selected
  BY <1>1, <1>3 DEF ToCome
<1>6. \A i, j \in 1..Len(left') : left'[i] = left'[j] => i = j
  <2>1. ASSUME NEW i \in 1..Len(left'), NEW j \in 1..Len(left'), left'[i] = left'[j] PROVE i = j
    <3>1. i + 1 \in 1..Len(left) /\ j + 1 \in 1..Len(left) /\ left[i + 1] = left[j + 1]
      BY <1>2, <2>1
    <3>2. i + 1 = j + 1
      BY <3>1 DEF PlanInv
    <3> QED
      BY <3>2
  <2> QED
    BY <2>1
<1> QED
  BY <1>1, <1>2, <1>4, <1>5, <1>6 DEF Done

LEMMA SetsAreFinite ==
  ASSUME PlanInv
  PROVE  /\ \A D \in SUBSET SyncNames : IsFiniteSet(KeysKept(D)) /\ IsFiniteSet(NamesAdded(D))
         /\ \A n : IsFiniteSet(Plan!KeysOf(n)) /\ Cardinality(Plan!KeysOf(n)) \in Nat
<1>1. \A T \in SUBSET SyncNames : IsFiniteSet(T) /\ Cardinality(T) \in Nat
  BY PlanAssumption, FS_Subset, FS_CardinalityType
<1>2. /\ \A D \in SUBSET SyncNames : KeysKept(D) \in SUBSET SyncNames /\ NamesAdded(D) \in SUBSET SyncNames
      /\ \A n : Plan!KeysOf(n) \in SUBSET SyncNames
  BY DEF KeysKept, NamesAdded, Plan!KeysOf
<1> QED
  BY <1>1, <1>2

LEMMA PlanKeepKeeps ==
  ASSUME PlanInv, Plan!Keep PROVE PlanInv'
<1> DEFINE h == Head(left)
           keys == Plan!KeysOf(h)
<1>1. /\ left # <<>> /\ left' = Tail(left) /\ keys # {}
      /\ newModels' = [k \in SyncNames |-> IF k \in keys THEN h ELSE newModels[k]]
      /\ kept' = kept + Cardinality(keys)
      /\ UNCHANGED <<existing, discovered, selected, added>>
  BY PlanCardinality DEF Plan!Keep
<1>2. /\ h \in selected /\ h \in SyncNames /\ h \notin Done
      /\ Done' = Done \cup {h} /\ left' \in Seq(selected)
      /\ \A i, j \in 1..Len(left') : left'[i] = left'[j] => i = j
  BY <1>1, NextModel
<1>3. /\ \A k \in SyncNames : k \in keys <=> existing[k] = h
      /\ IsFiniteSet(keys) /\ Cardinality(keys) \in Nat /\ Done \in SUBSET SyncNames
      /\ IsFiniteSet(KeysKept(Done))
  BY SetsAreFinite DEF Plan!KeysOf, Done, PlanInv, PlanTypeOK
<1>4. \A n : Plan!KeysOf(n)' = Plan!KeysOf(n)
  BY <1>1 DEF Plan!KeysOf
<1>5. KeysKept(Done)' = KeysKept(Done) \cup keys /\ KeysKept(Done) \cap keys = {}
  BY <1>1, <1>2 DEF KeysKept, Plan!KeysOf
<1>6. NamesAdded(Done)' = NamesAdded(Done)
  BY <1>1, <1>2, <1>4 DEF NamesAdded
<1>7. \A k \in SyncNames : Chosen(k)' = Chosen(k) \cup (IF k \in keys THEN {h} ELSE {})
  <2>1. \A k \in SyncNames : k = h => Plan!KeysOf(k) # {}
    BY <1>1
  <2> HIDE DEF h, keys
  <2> QED
    BY <1>1, <1>2, <1>3, <1>4, <2>1 DEF Chosen
<1> HIDE DEF h, keys
<1>8. kept' = Cardinality(KeysKept(Done)')
  <2>1. Cardinality(KeysKept(Done) \cup keys)
          = Cardinality(KeysKept(Done)) + Cardinality(keys) - Cardinality(KeysKept(Done) \cap keys)
    BY <1>3, FS_Union
  <2>2. Cardinality(KeysKept(Done) \cap keys) = 0 /\ Cardinality(KeysKept(Done)) \in Nat
    BY <1>3, <1>5, FS_EmptySet, FS_CardinalityType
  <2>3. kept = Cardinality(KeysKept(Done))
    BY DEF PlanInv
  <2>4. kept' = Cardinality(KeysKept(Done) \cup keys)
    BY <1>1, <1>3, <2>1, <2>2, <2>3
  <2> QED
    BY <1>5, <2>4
<1>9. PlanTypeOK'
  BY <1>1, <1>2, <1>3 DEF PlanInv, PlanTypeOK
<1>10. \A k \in SyncNames :
         newModels'[k] \in Chosen(k)' \/ (Chosen(k)' = {} /\ newModels'[k] = NoModel)
  BY <1>1, <1>7 DEF PlanInv
<1>11. added' = Cardinality(NamesAdded(Done)')
  BY <1>1, <1>6 DEF PlanInv
<1> QED
  BY <1>2, <1>8, <1>9, <1>10, <1>11 DEF PlanInv

LEMMA PlanAddKeeps ==
  ASSUME PlanInv, Plan!Add PROVE PlanInv'
<1> DEFINE h == Head(left)
<1>1. /\ left # <<>> /\ left' = Tail(left) /\ Plan!KeysOf(h) = {}
      /\ newModels' = [newModels EXCEPT ![h] = h]
      /\ added' = added + 1
      /\ UNCHANGED <<existing, discovered, selected, kept>>
  BY DEF Plan!Add
<1>2. /\ h \in selected /\ h \in SyncNames /\ h \notin Done
      /\ Done' = Done \cup {h} /\ left' \in Seq(selected)
      /\ \A i, j \in 1..Len(left') : left'[i] = left'[j] => i = j
  BY <1>1, NextModel
<1>3. /\ \A k \in SyncNames : existing[k] # h
      /\ Done \in SUBSET SyncNames /\ IsFiniteSet(NamesAdded(Done))
  BY <1>1, SetsAreFinite DEF Plan!KeysOf, Done, PlanInv, PlanTypeOK
<1>4. \A n : Plan!KeysOf(n)' = Plan!KeysOf(n)
  BY <1>1 DEF Plan!KeysOf
<1> HIDE DEF h
<1>5. KeysKept(Done)' = KeysKept(Done)
  BY <1>1, <1>2, <1>3 DEF KeysKept
<1>6. NamesAdded(Done)' = NamesAdded(Done) \cup {h} /\ h \notin NamesAdded(Done)
  BY <1>1, <1>2, <1>4 DEF NamesAdded
<1>7. \A k \in SyncNames : Chosen(k)' = Chosen(k) \cup (IF k = h THEN {h} ELSE {})
  BY <1>1, <1>2, <1>3, <1>4 DEF Chosen
<1>8. added' = Cardinality(NamesAdded(Done)')
  BY <1>1, <1>3, <1>6, FS_AddElement DEF PlanInv
<1>9. PlanTypeOK'
  BY <1>1, <1>2 DEF PlanInv, PlanTypeOK
<1>10. \A k \in SyncNames :
         newModels'[k] \in Chosen(k)' \/ (Chosen(k)' = {} /\ newModels'[k] = NoModel)
  BY <1>1, <1>2, <1>7 DEF PlanInv, PlanTypeOK
<1>11. kept' = Cardinality(KeysKept(Done)')
  BY <1>1, <1>5 DEF PlanInv
<1> QED
  BY <1>2, <1>8, <1>9, <1>10, <1>11 DEF PlanInv

LEMMA PlanPreserved ==
  ASSUME PlanInv, [Plan!Next]_(Plan!vars) PROVE PlanInv'
<1>1. CASE UNCHANGED Plan!vars
  <2>1. \A n : Plan!KeysOf(n)' = Plan!KeysOf(n)
    BY <1>1 DEF Plan!vars, Plan!KeysOf
  <2>2. Done' = Done
    BY <1>1 DEF Plan!vars, Done, ToCome
  <2>3. KeysKept(Done)' = KeysKept(Done) /\ NamesAdded(Done)' = NamesAdded(Done)
        /\ \A k \in SyncNames : Chosen(k)' = Chosen(k)
    BY <1>1, <2>1, <2>2 DEF Plan!vars, KeysKept, NamesAdded, Chosen
  <2>4. PlanTypeOK'
    BY <1>1 DEF Plan!vars, PlanInv, PlanTypeOK
  <2> QED
    BY <1>1, <2>3, <2>4 DEF Plan!vars, PlanInv
<1> QED
  BY <1>1, PlanKeepKeeps, PlanAddKeeps DEF Plan!Next

LEMMA PlanInvImplies == ASSUME PlanInv PROVE Plan!PlanIsTheChoice
<1> SUFFICES ASSUME left = <<>>
             PROVE
    /\ \A k \in SyncNames \ Plan!Clashes :
         newModels[k] = (IF existing[k] \in selected THEN existing[k]
                         ELSE IF k \in selected /\ Plan!KeysOf(k) = {} THEN k ELSE NoModel)
    /\ \A k \in Plan!Clashes : newModels[k] \in {k, existing[k]}
    /\ selected = Plan!InitialSelections => added = 0
    /\ Plan!Clashes = {} =>
         /\ kept + added = Cardinality(Plan!Keys(newModels))
         /\ Plan!removed = Cardinality(Plan!Keys(existing)
                                       \ {k \in Plan!Keys(newModels) : newModels[k] = existing[k]})
  BY PlanCardinality DEF Plan!PlanIsTheChoice
<1>1. Done = selected
  BY DEF Done, ToCome
<1>2. /\ selected \in SUBSET SyncNames /\ NoModel \notin selected
      /\ existing \in [SyncNames -> SyncNames \cup {NoModel}]
      /\ kept = Cardinality(KeysKept(selected)) /\ added = Cardinality(NamesAdded(selected))
  BY <1>1, PlanAssumption DEF PlanInv, PlanTypeOK
<1>3. \A k \in SyncNames : Plan!KeysOf(k) = {} <=> \A l \in SyncNames : existing[l] # k
  BY DEF Plan!KeysOf
<1>4. \A k \in SyncNames :
        k \in Plan!Clashes <=> k \in selected /\ existing[k] # NoModel /\ Plan!KeysOf(k) = {}
  BY <1>2 DEF Plan!Clashes
<1>5. \A k \in SyncNames :
        \/ newModels[k] \in selected /\ newModels[k] = existing[k]
        \/ newModels[k] \in selected /\ newModels[k] = k /\ Plan!KeysOf(k) = {}
        \/ /\ newModels[k] = NoModel /\ existing[k] \notin selected
           /\ ~(k \in selected /\ Plan!KeysOf(k) = {})
  BY <1>1 DEF PlanInv, Chosen
<1>6. ASSUME NEW k \in SyncNames \ Plan!Clashes
      PROVE  newModels[k] = (IF existing[k] \in selected THEN existing[k]
                             ELSE IF k \in selected /\ Plan!KeysOf(k) = {} THEN k ELSE NoModel)
  BY <1>2, <1>4, <1>5
<1>7. ASSUME NEW k \in Plan!Clashes PROVE newModels[k] \in {k, existing[k]}
  <2>1. k \in SyncNames /\ k \in selected /\ Plan!KeysOf(k) = {}
    BY <1>2 DEF Plan!Clashes
  <2> QED
    BY <1>5, <2>1
<1>8. ASSUME selected = Plan!InitialSelections PROVE added = 0
  <2>1. NamesAdded(selected) = {}
    BY <1>8 DEF NamesAdded, Plan!InitialSelections, Plan!KeysOf, Plan!Keys
  <2> QED
    BY <1>2, <2>1, FS_EmptySet
<1>9. ASSUME Plan!Clashes = {}
      PROVE  /\ kept + added = Cardinality(Plan!Keys(newModels))
             /\ Plan!removed = Cardinality(Plan!Keys(existing)
                                  \ {k \in Plan!Keys(newModels) : newModels[k] = existing[k]})
  <2> DEFINE K == KeysKept(selected)
             A == NamesAdded(selected)
             E == Plan!Keys(existing)
  <2>1. /\ IsFiniteSet(K) /\ IsFiniteSet(A) /\ Cardinality(K) \in Nat /\ Cardinality(A) \in Nat
        /\ IsFiniteSet(E) /\ Cardinality(E) \in Nat
    <3>1. E \in SUBSET SyncNames
      BY DEF Plan!Keys
    <3>2. IsFiniteSet(K) /\ IsFiniteSet(A) /\ IsFiniteSet(E)
      BY <1>2, <3>1, SetsAreFinite, PlanAssumption, FS_Subset
    <3> QED
      BY <3>2, FS_CardinalityType
  <2>2. \A k \in SyncNames : newModels[k] =
          (IF existing[k] \in selected THEN existing[k]
           ELSE IF k \in selected /\ Plan!KeysOf(k) = {} THEN k ELSE NoModel)
    BY <1>6, <1>9
  <2>3. Plan!Keys(newModels) = K \cup A /\ K \cap A = {}
    <3>1. ASSUME NEW k \in SyncNames PROVE newModels[k] # NoModel <=> k \in K \/ k \in A
      BY <1>2, <2>2 DEF KeysKept, NamesAdded
    <3>2. K \cap A = {}
      BY <1>2, <1>4, <1>9 DEF KeysKept, NamesAdded
    <3>3. K \subseteq SyncNames /\ A \subseteq SyncNames
      BY <1>2 DEF KeysKept, NamesAdded
    <3> QED
      BY <3>1, <3>2, <3>3 DEF Plan!Keys
  <2>4. {k \in Plan!Keys(newModels) : newModels[k] = existing[k]} = K /\ K \in SUBSET E
    <3>1. ASSUME NEW k \in SyncNames
          PROVE  newModels[k] # NoModel /\ newModels[k] = existing[k] <=> k \in K
      BY <1>2, <1>3, <2>2 DEF KeysKept
    <3>2. K \subseteq E /\ K \subseteq SyncNames
      BY <1>2 DEF KeysKept, Plan!Keys
    <3> QED
      BY <3>1, <3>2 DEF Plan!Keys
  <2>5. Cardinality(K \cup A) = Cardinality(K) + Cardinality(A)
    <3> HIDE DEF K, A
    <3>1. Cardinality(K \cap A) = 0
      BY <2>3, FS_EmptySet
    <3>2. Cardinality(K \cup A) = Cardinality(K) + Cardinality(A) - Cardinality(K \cap A)
      BY <2>1, FS_Union
    <3> QED
      BY <2>1, <3>1, <3>2
  <2>6. Cardinality(E \ K) = Cardinality(E) - Cardinality(K)
    <3> HIDE DEF K, E
    <3>1. Cardinality(E \ K) = Cardinality(E) - Cardinality(E \cap K)
      BY <2>1, FS_Difference
    <3>2. E \cap K = K
      BY <2>4
    <3> QED
      BY <3>1, <3>2
  <2> QED
    BY <1>2, <2>3, <2>4, <2>5, <2>6, PlanCardinality DEF Plan!removed
<1> QED
  BY <1>6, <1>7, <1>8, <1>9

(* What is written is what the user chose, and the counts that are shown   *)
(* are those of it (PlanIsTheChoice).                                      *)
THEOREM PlansAreTheChoice == MCSpec => []PlanIsTheChoice
<1> DEFINE Inv == picked = "plan" => PlanInv
<1>1. MCInit => Inv
  BY PlanInitially DEF MCInit
<1>2. Inv /\ [MCNext]_MCvars => Inv'
  <2>1. MCNext => picked' = picked /\ (picked = "plan" => Plan!Next)
    BY DEF MCNext
  <2>2. UNCHANGED MCvars =>
          picked' = picked /\ UNCHANGED Plan!vars
    BY DEF MCvars, planVars, Plan!vars
  <2> QED
    BY <2>1, <2>2, PlanPreserved
<1>3. Inv => PlanIsTheChoice
  BY PlanInvImplies DEF PlanIsTheChoice
<1> QED
  BY <1>1, <1>2, <1>3, PTL DEF MCSpec

-----------------------------------------------------------------------------
(* The routes.  The models that are registered and that a bare name, or a  *)
(* selector with a provider, stands for.                                   *)
BareAt(n) == {i \in 1..at : n \in Routes!BareNames(entries[i])}

PrefixedAt(s) == {i \in 1..at : s \in Routes!PrefixedIds(entries[i])}

IsLast(i, S) == (S = {} /\ i = 0) \/ (i \in S /\ \A j \in S : j <= i)

IsOnly(i, S) == (S = {} /\ i = 0) \/ (S = {i} /\ i # 0)

RoutesInv ==
  /\ entries \in Seq(Routes!Entry)
  /\ Len(entries) \in Nat /\ DOMAIN entries = 1..Len(entries) /\ at \in 0..Len(entries)
  /\ ~duplicate => /\ \A n \in Names : IsLast(flatRoutes[n], BareAt(n))
                   /\ \A s \in Routes!Selectors : IsOnly(prefixedRoutes[s], PrefixedAt(s))

LEMMA RoutesCardinality == \A S : Routes!Cardinality(S) = Cardinality(S)
BY DEF Routes!Cardinality, Cardinality

LEMMA RoutesInitially == ASSUME Routes!Init PROVE RoutesInv
<1>1. /\ entries \in Routes!SeqOf(Routes!Entry, MaxModels) /\ at = 0
      /\ flatRoutes = [n \in Names |-> 0]
      /\ prefixedRoutes = [s \in Routes!Selectors |-> 0]
  BY DEF Routes!Init
<1>2. PICK m \in 0..MaxModels : entries \in [1..m -> Routes!Entry]
  BY <1>1 DEF Routes!SeqOf
<1>3. m \in Nat
  BY RouteAssumption
<1>4. Len(entries) = m /\ DOMAIN entries = 1..m /\ entries \in Seq(Routes!Entry)
  BY <1>2, <1>3
<1>5. (\A n : BareAt(n) = {}) /\ \A s : PrefixedAt(s) = {}
  BY <1>1 DEF BareAt, PrefixedAt
<1> QED
  BY <1>1, <1>3, <1>4, <1>5 DEF RoutesInv, IsLast, IsOnly

LEMMA RegisterKeeps == ASSUME RoutesInv, Routes!Register PROVE RoutesInv'
<1> DEFINE i == at + 1
           entry == entries[i]
<1>1. /\ at < Len(entries) /\ ~duplicate /\ at' = i /\ entries' = entries
      /\ Len(entries) \in Nat /\ at \in 0..Len(entries) /\ DOMAIN entries = 1..Len(entries)
  BY DEF Routes!Register, RoutesInv
<1>2. i \in 1..Len(entries) /\ i \in 0..Len(entries) /\ i # 0
  BY <1>1
<1>3. \A j : j \in 1..at' <=> j \in 1..at \/ j = i
  BY <1>1
<1>4. \A n : BareAt(n)' = BareAt(n) \cup (IF n \in Routes!BareNames(entry) THEN {i} ELSE {})
  BY <1>1, <1>3 DEF BareAt, Routes!BareNames, Routes!AliasesOf
<1>5. \A s : PrefixedAt(s)' = PrefixedAt(s)
        \cup (IF s \in Routes!PrefixedIds(entry) THEN {i} ELSE {})
  BY <1>1, <1>3 DEF PrefixedAt, Routes!PrefixedIds, Routes!PrefixedNames, Routes!AliasesOf
<1>6. CASE Routes!IsUnique(entry)
  <2>1. /\ prefixedRoutes' = [s \in Routes!Selectors |->
             IF s \in Routes!PrefixedIds(entry) THEN i ELSE prefixedRoutes[s]]
        /\ flatRoutes' = [n \in Names |->
             IF n \in Routes!BareNames(entry) THEN i ELSE flatRoutes[n]]
    BY <1>6 DEF Routes!Register, Routes!Bare
  <2>2. \A s \in Routes!PrefixedIds(entry) : prefixedRoutes[s] = 0
    BY <1>6 DEF Routes!IsUnique
  <2> HIDE DEF i, entry
  <2>3. ASSUME NEW n \in Names PROVE IsLast(flatRoutes'[n], BareAt(n)')
    <3>1. IsLast(flatRoutes[n], BareAt(n))
      BY <1>1 DEF RoutesInv
    <3>2. \A j \in BareAt(n) : j <= i
      BY <1>1 DEF BareAt, i
    <3>3. i <= i
      BY <1>2
    <3> QED
      BY <1>4, <2>1, <3>1, <3>2, <3>3 DEF IsLast
  <2>4. ASSUME NEW s \in Routes!Selectors PROVE IsOnly(prefixedRoutes'[s], PrefixedAt(s)')
    <3>1. IsOnly(prefixedRoutes[s], PrefixedAt(s))
      BY <1>1 DEF RoutesInv
    <3>2. CASE s \in Routes!PrefixedIds(entry)
      <4>1. prefixedRoutes[s] = 0 /\ prefixedRoutes'[s] = i
        BY <2>1, <2>2, <3>2
      <4>2. PrefixedAt(s) = {}
        BY <3>1, <4>1 DEF IsOnly
      <4> QED
        BY <1>2, <1>5, <3>2, <4>1, <4>2 DEF IsOnly
    <3>3. CASE s \notin Routes!PrefixedIds(entry)
      <4>1. prefixedRoutes'[s] = prefixedRoutes[s] /\ PrefixedAt(s)' = PrefixedAt(s)
        BY <1>5, <2>1, <3>3
      <4> QED
        BY <3>1, <4>1
    <3> QED
      BY <3>2, <3>3
  <2> QED
    BY <1>1, <1>2, <2>3, <2>4 DEF RoutesInv
<1>7. CASE ~Routes!IsUnique(entry)
  <2>1. duplicate' = TRUE
    BY <1>7 DEF Routes!Register
  <2> QED
    BY <1>1, <1>2, <2>1 DEF RoutesInv
<1> QED
  BY <1>6, <1>7

LEMMA RoutesPreserved ==
  ASSUME RoutesInv, [Routes!Next]_(Routes!vars) PROVE RoutesInv'
<1>1. CASE UNCHANGED Routes!vars
  <2>1. \A n : BareAt(n)' = BareAt(n)
    BY <1>1 DEF Routes!vars, BareAt, Routes!BareNames, Routes!AliasesOf
  <2>2. \A s : PrefixedAt(s)' = PrefixedAt(s)
    BY <1>1 DEF Routes!vars, PrefixedAt, Routes!PrefixedIds, Routes!PrefixedNames, Routes!AliasesOf
  <2> QED
    BY <1>1, <2>1, <2>2 DEF Routes!vars, RoutesInv
<1> QED
  BY <1>1, RegisterKeeps DEF Routes!Next

(* A selector with a provider has a slash.                                 *)
LEMMA PrefixedHasSlash ==
  ASSUME NEW p \in Routes!ProviderNumbers, NEW n \in Names
  PROVE  Routes!HasSlash(Routes!Prefixed(p, n))
<1> DEFINE q == ProviderNames[p]
<1>1. n \in Seq(Parts) /\ n # <<>> /\ q \in Seq(Parts) /\ q # <<>>
  BY NameAssumption DEF Routes!ProviderNumbers
<1> HIDE DEF q
<1>2. Len(q) \in Nat /\ Len(n) \in Nat /\ Len(q) > 0 /\ Len(n) > 0
  BY <1>1
<1>3. Len(q \o n) = Len(q) + Len(n)
  BY <1>1
<1>4. Len(q) + Len(n) # 1
  BY <1>2
<1>5. Len(q \o n) # 1
  BY <1>3, <1>4
<1> QED
  BY <1>5 DEF Routes!HasSlash, Routes!Prefixed, q

(* The ids of a model: a bare name is one part, what has a provider more.  *)
LEMMA PartsOfIds ==
  ASSUME NEW e \in Routes!Entry
  PROVE  /\ \A s \in Routes!PrefixedIds(e) : Routes!HasSlash(s)
         /\ \A s \in Routes!BareNames(e) : ~Routes!HasSlash(s)
<1>1. /\ e.provider \in DOMAIN ProviderNames /\ e.modelKey \in Names
      /\ \A a \in Routes!AliasesOf(e) : a.name \in Names
  <2>1. /\ e.provider \in DOMAIN ProviderNames /\ e.modelKey \in Names
        /\ e.aliases \in Routes!SeqOf([name : Routes!AliasNames, flat : BOOLEAN], MaxAliases)
    BY DEF Routes!Entry, Routes!ProviderNumbers
  <2>2. PICK m \in 0..MaxAliases : e.aliases \in [1..m -> [name : Routes!AliasNames, flat : BOOLEAN]]
    BY <2>1 DEF Routes!SeqOf
  <2>3. \A k \in DOMAIN e.aliases : e.aliases[k].name \in Names
    BY <2>2 DEF Routes!AliasNames
  <2> QED
    BY <2>1, <2>3 DEF Routes!AliasesOf, Routes!ToSet
<1>2. \A n \in Routes!PrefixedNames(e) : n \in Names
  BY <1>1 DEF Routes!PrefixedNames
<1>3. e.provider \in Routes!ProviderNumbers
  BY <1>1 DEF Routes!ProviderNumbers
<1>4. \A s \in Routes!PrefixedIds(e) : Routes!HasSlash(s)
  BY <1>2, <1>3, PrefixedHasSlash DEF Routes!PrefixedIds
<1>5. \A n \in Routes!BareNames(e) : Routes!CanUseFlat(n)
  BY DEF Routes!BareNames
<1> QED
  BY <1>4, <1>5 DEF Routes!CanUseFlat

(* A selector is listed under a model exactly if it stands for it.         *)
LEMMA ListedUnder ==
  ASSUME RoutesInv, at = Len(entries), NEW s
  PROVE  /\ ~Routes!HasSlash(s) => Routes!Listing(s) = BareAt(s)
         /\ Routes!HasSlash(s) => Routes!Listing(s) = PrefixedAt(s)
<1>1. DOMAIN entries = 1..at /\ \A i \in DOMAIN entries : entries[i] \in Routes!Entry
  BY DEF RoutesInv
<1>2. ASSUME NEW i \in DOMAIN entries
      PROVE  s \in Routes!Ids(entries[i]) <=>
               IF Routes!HasSlash(s) THEN s \in Routes!PrefixedIds(entries[i])
               ELSE s \in Routes!BareNames(entries[i])
  <2>1. entries[i] \in Routes!Entry
    BY <1>1
  <2>2. /\ s \in Routes!PrefixedIds(entries[i]) => Routes!HasSlash(s)
        /\ s \in Routes!BareNames(entries[i]) => ~Routes!HasSlash(s)
    BY <2>1, PartsOfIds
  <2> QED
    BY <2>2 DEF Routes!Ids
<1>3. ASSUME ~Routes!HasSlash(s) PROVE Routes!Listing(s) = BareAt(s)
  BY <1>1, <1>2, <1>3 DEF Routes!Listing, BareAt
<1>4. ASSUME Routes!HasSlash(s) PROVE Routes!Listing(s) = PrefixedAt(s)
  BY <1>1, <1>2, <1>4 DEF Routes!Listing, PrefixedAt
<1> QED
  BY <1>3, <1>4

(* The model that the list tells of a selector is the last one under it.   *)
LEMMA ModelByIdIs ==
  ASSUME NEW s, NEW m, IsLast(m, Routes!Listing(s)), Routes!Listing(s) \subseteq Nat
  PROVE  Routes!ModelById(s) = m
<1> DEFINE L == Routes!Listing(s)
           IsMax(j) == j \in L /\ \A k \in L : k <= j
<1>1. CASE L = {}
  BY <1>1 DEF IsLast, Routes!ModelById
<1>2. CASE L # {}
  <2>1. IsMax(m) /\ \A j : IsMax(j) => j = m
    BY <1>2 DEF IsLast
  <2>2. Routes!ModelById(s) = CHOOSE j \in L : \A k \in L : k <= j
    BY <1>2 DEF Routes!ModelById
  <2> HIDE DEF L
  <2> QED
    BY <2>1, <2>2
<1> QED
  BY <1>1, <1>2

LEMMA RoutesInvImplies == ASSUME RoutesInv PROVE Routes!RoutesAreListed
<1> SUFFICES ASSUME at = Len(entries), ~duplicate, NEW s \in Routes!Selectors
             PROVE  /\ Routes!Resolve(s) = (IF Routes!IsInvalid(s) THEN 0 ELSE Routes!ModelById(s))
                    /\ Routes!HasSlash(s) => Cardinality(Routes!Listing(s)) <= 1
  BY RoutesCardinality DEF Routes!RoutesAreListed
<1>1. /\ \A n \in Names : IsLast(flatRoutes[n], BareAt(n))
      /\ IsOnly(prefixedRoutes[s], PrefixedAt(s))
  BY DEF RoutesInv
<1>2. BareAt(s) \subseteq Nat /\ PrefixedAt(s) \subseteq Nat
  BY DEF BareAt, PrefixedAt, RoutesInv
<1>3. CASE ~Routes!HasSlash(s)
  <2>1. Routes!Listing(s) = BareAt(s) /\ ~Routes!IsInvalid(s)
    BY <1>3, ListedUnder DEF Routes!IsInvalid
  <2>2. s \in Names
    BY <1>3, PrefixedHasSlash DEF Routes!Selectors
  <2>3. Routes!Resolve(s) = flatRoutes[s] /\ IsLast(flatRoutes[s], BareAt(s))
    BY <1>1, <1>3, <2>1, <2>2 DEF Routes!Resolve
  <2>4. Routes!ModelById(s) = flatRoutes[s]
    BY <1>2, <2>1, <2>3, ModelByIdIs
  <2> QED
    BY <1>3, <2>1, <2>3, <2>4
<1>4. CASE Routes!HasSlash(s)
  <2>1. Routes!Listing(s) = PrefixedAt(s)
    BY <1>4, ListedUnder
  <2> DEFINE m == prefixedRoutes[s]
             L == Routes!Listing(s)
  <2>2. (L = {} /\ m = 0) \/ (L = {m} /\ m # 0)
    BY <1>1, <2>1 DEF IsOnly
  <2>3. Routes!Resolve(s) = (IF Routes!IsInvalid(s) THEN 0 ELSE m)
    BY <1>4 DEF Routes!Resolve
  <2>4. L \subseteq Nat
    BY <1>2, <2>1
  <2> HIDE DEF m, L
  <2>5. Cardinality(L) <= 1
    <3>1. Cardinality({m}) = 1 /\ Cardinality({}) = 0
      BY FS_EmptySet, FS_Singleton
    <3>2. Cardinality(L) = 1 \/ Cardinality(L) = 0
      BY <2>2, <3>1
    <3> QED
      BY <3>2
  <2>6. IsLast(m, L)
    BY <2>2, <2>4 DEF IsLast
  <2>7. Routes!ModelById(s) = m
    BY <2>4, <2>6, ModelByIdIs DEF L
  <2> QED
    BY <2>3, <2>5, <2>7 DEF L
<1> QED
  BY <1>3, <1>4

-----------------------------------------------------------------------------
(* The plugins of a route.  An entry is a level and a place in its list.   *)
Chain == [name : PluginNames, from : (1..3) \X Nat]

(* A plugin of a level.                                                    *)
Listed == [name : PluginNames, serves : BOOLEAN]

(* The entries that the merging has come to, in a level.                   *)
Seen(l, i) == {e \in Match!Serving : e[1] < l \/ (e[1] = l /\ e[2] <= i)}

(* The entries of the levels that are merged.                              *)
MergedEntries == Seen(level, 0) \cup {e \in Match!Serving : e[1] = level}

(* The chain is what these entries make.                                   *)
Layered(chain, E) ==
  /\ \A e \in E : \E k \in 1..Len(chain) : e \in Match!Named(chain[k].name)
  /\ \A k \in 1..Len(chain) :
       /\ chain[k].from \in E /\ chain[k].from \in Match!Named(chain[k].name)
       /\ \A e \in E : e \in Match!Named(chain[k].name) => ~Match!Before(chain[k].from, e)
  /\ \A k, m \in 1..Len(chain) : k < m =>
       \E e \in E : /\ e \in Match!Named(chain[k].name)
                    /\ \A f \in E : f \in Match!Named(chain[m].name) => Match!Before(e, f)

Filtered ==
  IF level <= 3 THEN filtered = Match!Nothing
  ELSE \/ /\ tools = NoTools \/ tools \cap disabled = {}
          /\ filtered = [tools |-> tools, toolChoice |-> toolChoice]
       \/ /\ tools # NoTools
          /\ filtered = [tools |-> IF tools \ disabled = {} THEN NoTools ELSE tools \ disabled,
                         toolChoice |-> Match!Choice(tools \cap disabled, tools \ disabled)]

MatchInv ==
  /\ DOMAIN configured = 1..3
  /\ \A l \in 1..3 : configured[l] \in Seq(Listed)
  /\ level \in 0..4
  /\ resolvedPlugins \in Seq(Chain)
  /\ Layered(resolvedPlugins, MergedEntries)
  /\ tools = NoTools \/ tools \in SUBSET Tools
  /\ toolChoice \in Match!ToolChoices
  /\ tools = NoTools => toolChoice = "auto"
  /\ toolChoice \in Tools \cup {"required"} => tools # {} /\ toolChoice \in tools \cup {"required"}
  /\ Filtered

LEMMA Levels == Len(Match!Levels) = 3 /\ DOMAIN Match!Levels = 1..3
BY DEF Match!Levels

LEMMA MatchInitially == ASSUME Match!Init PROVE MatchInv
<1>1. /\ level = 0 /\ resolvedPlugins = <<>> /\ filtered = Match!Nothing
      /\ configured \in [1..3 -> Match!LevelLists] \/ configured = [l \in 1..3 |-> <<>>]
      /\ tools = NoTools \/ tools \in SUBSET Tools
      /\ toolChoice \in Match!ToolChoices
      /\ tools = NoTools => toolChoice = "auto"
      /\ toolChoice \in Tools \cup {"required"} =>
           tools # {} /\ toolChoice \in tools \cup {"required"}
  BY Levels, RouteAssumption DEF Match!Init, Match!ToolChoices
<1>2. \A s \in Match!LevelLists : s \in Seq(Listed)
  <2> TAKE s \in Match!LevelLists
  <2>1. PICK m \in 0..MaxPlugins : s \in [1..m -> Listed]
    BY DEF Match!LevelLists, Match!SeqOf, Listed
  <2>2. m \in Nat
    BY RouteAssumption
  <2> QED
    BY <2>1, <2>2
<1>3. DOMAIN configured = 1..3 /\ \A l \in 1..3 : configured[l] \in Seq(Listed)
  <2>1. CASE configured = [l \in 1..3 |-> <<>>]
    <3>1. <<>> \in Seq(Listed)
      OBVIOUS
    <3> QED
      BY <2>1, <3>1
  <2>2. CASE configured \in [1..3 -> Match!LevelLists]
    BY <1>2, <2>2
  <2> QED
    BY <1>1, <2>1, <2>2
<1>4. MergedEntries = {}
  BY <1>1, Levels DEF MergedEntries, Seen, Match!Serving
<1>5. Layered(<<>>, {})
  BY DEF Layered
<1>6. <<>> \in Seq(Chain) /\ 0 \in 0..4 /\ 0 <= 3
  OBVIOUS
<1>7. Layered(resolvedPlugins, MergedEntries)
  BY <1>1, <1>4, <1>5
<1>8. Filtered /\ level \in 0..4 /\ resolvedPlugins \in Seq(Chain)
  BY <1>1, <1>6 DEF Filtered
<1> QED
  BY <1>1, <1>3, <1>7, <1>8 DEF MatchInv

LEMMA EntriesAre ==
  ASSUME MatchInv
  PROVE  /\ \A e \in Match!Serving :
              e[1] \in 1..3 /\ e[2] \in 1..Len(configured[e[1]]) /\ e = <<e[1], e[2]>>
         /\ \A l \in 1..3 : Len(configured[l]) \in Nat
         /\ \A l \in 1..3 : \A i \in 1..Len(configured[l]) :
              <<l, i>> \in Match!Serving <=> Match!Serves(l, i)
BY Levels DEF MatchInv, Match!Serving

(* Entries are in a linear order.                                          *)
LEMMA BeforeOrders ==
  ASSUME MatchInv
  PROVE  /\ \A e \in Match!Serving : ~Match!Before(e, e)
         /\ \A e, f \in Match!Serving : Match!Before(e, f) => ~Match!Before(f, e)
<1>1. \A e \in Match!Serving : e[1] \in Int /\ e[2] \in Int
  BY EntriesAre
<1> QED
  BY <1>1 DEF Match!Before

(* A plugin that is set takes the place of its name, or the last one.      *)
LEMMA SetIs ==
  ASSUME NEW chain \in Seq(Chain), NEW p \in Chain
  PROVE  /\ Match!Set(chain, p) \in Seq(Chain)
         /\ (\A k \in 1..Len(chain) : chain[k].name # p.name) =>
              /\ Len(Match!Set(chain, p)) = Len(chain) + 1
              /\ Match!Set(chain, p)[Len(chain) + 1] = p
              /\ \A k \in 1..Len(chain) : Match!Set(chain, p)[k] = chain[k]
         /\ (\E k \in 1..Len(chain) : chain[k].name = p.name) =>
              /\ Len(Match!Set(chain, p)) = Len(chain)
              /\ \A k \in 1..Len(chain) :
                   Match!Set(chain, p)[k] = (IF chain[k].name = p.name THEN p ELSE chain[k])
<1>1. Len(chain) \in Nat /\ DOMAIN chain = 1..Len(chain)
  OBVIOUS
<1>2. CASE \A k \in 1..Len(chain) : chain[k].name # p.name
  <2>1. Match!Set(chain, p) = Append(chain, p)
    BY <1>1, <1>2 DEF Match!Set, Match!Place
  <2>2. /\ Append(chain, p) \in Seq(Chain) /\ Len(Append(chain, p)) = Len(chain) + 1
        /\ Append(chain, p)[Len(chain) + 1] = p
        /\ \A k \in 1..Len(chain) : Append(chain, p)[k] = chain[k]
    BY <1>1
  <2>3. ~\E k \in 1..Len(chain) : chain[k].name = p.name
    BY <1>2
  <2> QED
    BY <2>1, <2>2, <2>3
<1>3. CASE \E k \in 1..Len(chain) : chain[k].name = p.name
  <2> DEFINE new == [k \in 1..Len(chain) |-> IF chain[k].name = p.name THEN p ELSE chain[k]]
  <2>1. Match!Set(chain, p) = new
    BY <1>1, <1>3 DEF Match!Set, Match!Place
  <2>2. new \in [1..Len(chain) -> Chain]
    OBVIOUS
  <2>3. new \in Seq(Chain) /\ Len(new) = Len(chain)
    BY <1>1, <2>2
  <2> QED
    BY <1>3, <2>1, <2>3
<1> QED
  BY <1>2, <1>3

(* The next entry.                                                         *)
LEMMA LayeredMore ==
  ASSUME MatchInv, NEW chain \in Seq(Chain), NEW E \in SUBSET Match!Serving, Layered(chain, E),
         NEW e \in Match!Serving, e \notin E, \A f \in E : Match!Before(f, e),
         NEW p \in Chain, p.from = e, e \in Match!Named(p.name)
  PROVE  Layered(Match!Set(chain, p), E \cup {e})
<1> DEFINE c == Match!Set(chain, p)
           F == E \cup {e}
<1>1. Len(chain) \in Nat
  OBVIOUS
<1>2. \A n, m : \A f : f \in Match!Named(n) /\ f \in Match!Named(m) => n = m
  BY DEF Match!Named
<1>3. ~Match!Before(e, e) /\ \A f \in E : ~Match!Before(e, f)
  BY BeforeOrders
<1>4. /\ \A f \in E : \E k \in 1..Len(chain) : f \in Match!Named(chain[k].name)
      /\ \A k \in 1..Len(chain) :
           /\ chain[k].from \in E /\ chain[k].from \in Match!Named(chain[k].name)
           /\ \A f \in E : f \in Match!Named(chain[k].name) => ~Match!Before(chain[k].from, f)
      /\ \A k, m \in 1..Len(chain) : k < m =>
           \E f \in E : /\ f \in Match!Named(chain[k].name)
                        /\ \A g \in E : g \in Match!Named(chain[m].name) => Match!Before(f, g)
  BY DEF Layered
<1>5. CASE \A k \in 1..Len(chain) : chain[k].name # p.name
  <2>1. /\ Len(c) = Len(chain) + 1 /\ c[Len(chain) + 1] = p
        /\ \A k \in 1..Len(chain) : c[k] = chain[k]
    BY <1>5, SetIs
  <2> HIDE DEF c
  <2>2. \A f \in E : f \notin Match!Named(p.name)
    BY <1>2, <1>4, <1>5
  <2>3. \A k \in 1..Len(chain) : e \notin Match!Named(chain[k].name)
    BY <1>2, <1>5
  <2>4. \A k : k \in 1..Len(c) <=> k \in 1..Len(chain) \/ k = Len(chain) + 1
    BY <1>1, <2>1
  <2>5. ASSUME NEW f \in F PROVE \E k \in 1..Len(c) : f \in Match!Named(c[k].name)
    BY <1>4, <2>1, <2>4
  <2>6. ASSUME NEW k \in 1..Len(c)
        PROVE  /\ c[k].from \in F /\ c[k].from \in Match!Named(c[k].name)
               /\ \A f \in F : f \in Match!Named(c[k].name) => ~Match!Before(c[k].from, f)
    BY <1>3, <1>4, <2>1, <2>2, <2>3, <2>4
  <2>7. ASSUME NEW k \in 1..Len(c), NEW m \in 1..Len(c), k < m
        PROVE  \E f \in F : /\ f \in Match!Named(c[k].name)
                            /\ \A g \in F : g \in Match!Named(c[m].name) => Match!Before(f, g)
    <3>1. k \in 1..Len(chain) /\ c[k] = chain[k]
      BY <1>1, <2>1, <2>4, <2>7
    <3>2. CASE m \in 1..Len(chain)
      <4>1. c[m] = chain[m] /\ e \notin Match!Named(chain[m].name)
        BY <2>1, <2>3, <3>2
      <4> QED
        BY <1>4, <2>7, <3>1, <3>2, <4>1
    <3>3. CASE m = Len(chain) + 1
      <4>1. c[m] = p
        BY <2>1, <3>3
      <4>2. chain[k].from \in E /\ chain[k].from \in Match!Named(chain[k].name)
        BY <1>4, <3>1
      <4> QED
        BY <2>2, <3>1, <4>1, <4>2
    <3> QED
      BY <2>4, <3>2, <3>3
  <2> HIDE DEF F
  <2> QED
    BY <2>5, <2>6, <2>7 DEF Layered, c, F
<1>6. CASE \E k \in 1..Len(chain) : chain[k].name = p.name
  <2>1. /\ Len(c) = Len(chain)
        /\ \A k \in 1..Len(chain) : c[k] = (IF chain[k].name = p.name THEN p ELSE chain[k])
    BY <1>6, SetIs
  <2> HIDE DEF c
  <2>2. \A k \in 1..Len(chain) : c[k].name = chain[k].name
    BY <2>1
  <2>3. ASSUME NEW f \in F PROVE \E k \in 1..Len(c) : f \in Match!Named(c[k].name)
    <3>1. CASE f = e
      BY <1>6, <2>1, <2>2, <3>1
    <3>2. CASE f \in E
      BY <1>4, <2>1, <2>2, <3>2
    <3> QED
      BY <3>1, <3>2
  <2>4. ASSUME NEW k \in 1..Len(c)
        PROVE  /\ c[k].from \in F /\ c[k].from \in Match!Named(c[k].name)
               /\ \A f \in F : f \in Match!Named(c[k].name) => ~Match!Before(c[k].from, f)
    <3>1. CASE chain[k].name = p.name
      BY <1>3, <2>1, <3>1
    <3>2. CASE chain[k].name # p.name
      <4>1. c[k] = chain[k] /\ e \notin Match!Named(chain[k].name)
        BY <1>2, <2>1, <3>2
      <4> QED
        BY <1>4, <2>1, <4>1
    <3> QED
      BY <3>1, <3>2
  <2>5. ASSUME NEW k \in 1..Len(c), NEW m \in 1..Len(c), k < m
        PROVE  \E f \in F : /\ f \in Match!Named(c[k].name)
                            /\ \A g \in F : g \in Match!Named(c[m].name) => Match!Before(f, g)
    <3>1. PICK f \in E : /\ f \in Match!Named(chain[k].name)
                         /\ \A g \in E : g \in Match!Named(chain[m].name) => Match!Before(f, g)
      BY <1>4, <2>1, <2>5
    <3>2. f \in Match!Named(c[k].name) /\ c[m].name = chain[m].name /\ Match!Before(f, e)
      BY <2>1, <2>2, <3>1
    <3> QED
      BY <3>1, <3>2
  <2> HIDE DEF F
  <2> QED
    BY <2>3, <2>4, <2>5 DEF Layered, c, F
<1> QED
  BY <1>5, <1>6

(* The plugins of a level, one after another.                              *)
LEMMA LevelMerged ==
  ASSUME MatchInv, NEW l \in 1..3, NEW chain \in Seq(Chain), Layered(chain, Seen(l, 0))
  PROVE  /\ Match!Merged(chain, l) \in Seq(Chain)
         /\ Layered(Match!Merged(chain, l), Seen(l, Len(configured[l])))
<1> DEFINE list == configured[l]
           n == Len(list)
           V == Seq(Chain)
           entry(i) == [name |-> list[i].name, from |-> <<l, i>>]
           SetOne(i, c) == IF Match!Serves(l, i) THEN Match!Set(c, entry(i)) ELSE c
           steps == [i \in 1..n |-> [c \in V |-> SetOne(i, c)]]
           Body(g) == [i \in 0..n |-> IF i = 0 THEN chain
                                      ELSE IF Match!Serves(l, i) THEN Match!Set(g[i - 1], entry(i))
                                      ELSE g[i - 1]]
           after == CHOOSE g : g = Body(g)
<1>1. n \in Nat /\ \A i \in 1..n : list[i] \in Listed
  <2>1. list \in Seq(Listed)
    BY DEF MatchInv
  <2> HIDE DEF list
  <2> QED
    BY <2>1
<1>2. \A i \in 1..n : entry(i) \in Chain
  BY <1>1 DEF Chain, Listed
<1>3. ASSUME NEW i \in 1..n, NEW c \in V PROVE SetOne(i, c) \in V
  <2>1. Match!Set(c, entry(i)) \in V
    BY <1>2, SetIs
  <2> QED
    BY <2>1
<1>4. Match!Merged(chain, l) = after[n]
  BY DEF Match!Merged
<1> HIDE DEF SetOne, V
<1>5. steps \in [1..n -> [V -> V]] /\ chain \in V
  BY <1>3 DEF V
<1> HIDE DEF n
<1>6. PICK f : Recurses(f, n, V, chain, steps)
  <2> HIDE DEF steps
  <2> QED
    BY <1>1, <1>5, Recursion
<1>7. \A i \in 1..n : f[i - 1] \in V /\ f[i] = SetOne(i, f[i - 1])
  <2> TAKE i \in 1..n
  <2>1. i - 1 \in 0..n
    BY <1>1
  <2>2. f[i - 1] \in V /\ f[i] = steps[i][f[i - 1]]
    BY <1>6, <2>1 DEF Recurses
  <2> QED
    BY <2>2
<1>8. f = Body(f)
  <2>1. \A i \in 0..n : i # 0 => i \in 1..n
    BY <1>1
  <2>2. \A i \in 0..n : f[i] = IF i = 0 THEN chain ELSE SetOne(i, f[i - 1])
    BY <1>6, <1>7, <2>1 DEF Recurses
  <2>3. f = [i \in 0..n |-> IF i = 0 THEN chain ELSE SetOne(i, f[i - 1])]
    BY <1>6, <2>2 DEF Recurses
  <2> QED
    BY <2>3 DEF SetOne
<1>9. after = Body(after)
  <2> HIDE DEF Body
  <2> QED
    BY <1>8
<1> HIDE DEF after
<1>10. after[0] = chain /\ \A i \in 1..n : after[i] = SetOne(i, after[i - 1])
  <2>1. 0 \in 0..n /\ \A i \in 1..n : i \in 0..n /\ i # 0
    BY <1>1
  <2> QED
    BY <1>9, <2>1 DEF SetOne
<1> DEFINE S == {i \in 0..n : after[i] \in V /\ Layered(after[i], Seen(l, i))}
<1>11. 0 \in S
  BY <1>1, <1>5, <1>10
<1>12. ASSUME NEW i \in 0..n, i \in S, i < n PROVE i + 1 \in S
  <2> DEFINE j == i + 1
             c == after[i]
             e == <<l, j>>
  <2>1. j \in 1..n /\ j - 1 = i /\ j \in 0..n
    BY <1>1, <1>12
  <2>2. after[j] = SetOne(j, c) /\ c \in V /\ Layered(c, Seen(l, i))
    <3> HIDE DEF j
    <3>1. after[j] = SetOne(j, after[j - 1])
      BY <1>10, <2>1
    <3> QED
      BY <1>12, <2>1, <3>1
  <2>3. after[j] \in V
    BY <1>3, <2>1, <2>2
  <2>4. \A f2 \in Match!Serving : f2[1] \in Int /\ f2[2] \in Int /\ f2 = <<f2[1], f2[2]>>
    BY EntriesAre
  <2>5. e \in Match!Serving <=> Match!Serves(l, j)
    BY <2>1, EntriesAre DEF n
  <2>6. Seen(l, j) = Seen(l, i) \cup (IF Match!Serves(l, j) THEN {e} ELSE {})
    <3>1. ASSUME NEW g \in Match!Serving
          PROVE  g[2] <= j <=> g[2] <= i \/ g[2] = j
      BY <2>4
    <3>2. ASSUME NEW g \in Match!Serving PROVE g = e <=> g[1] = l /\ g[2] = j
      BY <2>4
    <3> HIDE DEF e, j
    <3> QED
      BY <2>5, <3>1, <3>2 DEF Seen
  <2>7. CASE Match!Serves(l, j)
    <3>1. Seen(l, i) \in SUBSET Match!Serving /\ e \notin Seen(l, i)
          /\ \A g \in Seen(l, i) : Match!Before(g, e)
      BY <2>4 DEF Seen, Match!Before
    <3>2. entry(j) \in Chain /\ entry(j).from = e /\ e \in Match!Named(entry(j).name)
      BY <1>2, <2>1, <2>5, <2>7 DEF Match!Named
    <3>3. after[j] = Match!Set(c, entry(j))
      BY <2>2, <2>7 DEF SetOne
    <3>4. e \in Match!Serving /\ c \in Seq(Chain)
      BY <2>2, <2>5, <2>7 DEF V
    <3> HIDE DEF c, e, entry, j
    <3>5. Layered(Match!Set(c, entry(j)), Seen(l, i) \cup {e})
      BY <2>2, <3>1, <3>2, <3>4, LayeredMore
    <3>6. Seen(l, j) = Seen(l, i) \cup {e}
      BY <2>6, <2>7
    <3>7. j \in S
      BY <2>1, <2>3, <3>3, <3>5, <3>6
    <3> QED
      BY <3>7 DEF j
  <2>8. CASE ~Match!Serves(l, j)
    <3> HIDE DEF j
    <3>1. after[j] = c /\ Seen(l, j) = Seen(l, i)
      BY <2>2, <2>6, <2>8 DEF SetOne
    <3>2. j \in S
      BY <2>1, <2>2, <2>3, <3>1
    <3> QED
      BY <3>2 DEF j
  <2> QED
    BY <2>7, <2>8
<1>13. 0..n \subseteq S
  <2> HIDE DEF S
  <2> QED
    BY <1>1, <1>11, <1>12, BoundedInduction
<1>14. n \in S
  BY <1>1, <1>13
<1> QED
  BY <1>4, <1>14 DEF V, n

LEMMA MergedAre ==
  ASSUME MatchInv
  PROVE  /\ \A l \in 1..3 : l = level + 1 => MergedEntries = Seen(l, 0)
         /\ \A l \in 1..3 : Seen(l, Len(configured[l])) = {e \in Match!Serving : e[1] <= l}
         /\ level \in 3..4 => MergedEntries = Match!Serving
<1>1. /\ level \in 0..4
      /\ \A e \in Match!Serving : e[1] \in 1..3 /\ e[2] \in 1..Len(configured[e[1]])
      /\ \A l \in 1..3 : Len(configured[l]) \in Nat
  BY EntriesAre DEF MatchInv
<1>2. \A e \in Match!Serving : e[1] \in Int /\ e[2] \in Int /\ e[2] > 0 /\ e[1] <= 3
  BY <1>1
<1>3. ASSUME NEW l \in 1..3, l = level + 1 PROVE MergedEntries = Seen(l, 0)
  BY <1>1, <1>2, <1>3 DEF MergedEntries, Seen
<1>4. ASSUME NEW l \in 1..3
      PROVE  Seen(l, Len(configured[l])) = {e \in Match!Serving : e[1] <= l}
  <2>1. ASSUME NEW e \in Match!Serving
        PROVE  e[1] <= l <=> e[1] < l \/ (e[1] = l /\ e[2] <= Len(configured[l]))
    <3>1. e[1] = l => e[2] <= Len(configured[l])
      BY <1>1
    <3> QED
      BY <1>2, <3>1
  <2> QED
    BY <2>1 DEF Seen
<1>5. level \in 3..4 => MergedEntries = Match!Serving
  BY <1>1, <1>2 DEF MergedEntries, Seen
<1> QED
  BY <1>3, <1>4, <1>5

LEMMA MatchPreserved == ASSUME MatchInv, Match!Next \/ UNCHANGED Match!vars PROVE MatchInv'
<1>1. ASSUME configured' = configured /\ hasKey' = hasKey
      PROVE  /\ Match!Serving' = Match!Serving
             /\ Layered(resolvedPlugins', MergedEntries') => Layered(resolvedPlugins, MergedEntries)'
             /\ MergedEntries' = {e \in Match!Serving : e[1] < level' \/ (e[1] = level' /\ e[2] <= 0)}
                        \cup {e \in Match!Serving : e[1] = level'}
  <2>1. Match!Serving' = Match!Serving
    BY <1>1, Levels DEF Match!Serving, Match!Serves, Match!Levels
  <2> QED
    BY <1>1, <2>1 DEF Layered, Match!Named, Match!Before, MergedEntries, Seen
<1>2. CASE Match!MergeLevel
  <2>1. /\ level < 3 /\ level' = level + 1
        /\ resolvedPlugins' = Match!Merged(resolvedPlugins, level')
        /\ configured' = configured /\ hasKey' = hasKey /\ tools' = tools /\ disabled' = disabled
        /\ toolChoice' = toolChoice /\ filtered' = filtered
    BY <1>2, Levels DEF Match!MergeLevel
  <2>2. level \in 0..2
    BY <2>1 DEF MatchInv
  <2>3. PICK l \in 1..3 : level' = l /\ l = level + 1
    BY <2>1, <2>2
  <2>4. Layered(resolvedPlugins, Seen(l, 0))
    BY <2>3, MergedAre DEF MatchInv
  <2>5. resolvedPlugins \in Seq(Chain)
    BY DEF MatchInv
  <2>6. /\ Match!Merged(resolvedPlugins, l) \in Seq(Chain)
        /\ Layered(Match!Merged(resolvedPlugins, l), Seen(l, Len(configured[l])))
    BY <2>4, <2>5, LevelMerged
  <2>7. MergedEntries' = Seen(l, Len(configured[l]))
    <3>1. \A e \in Match!Serving : e[1] \in Int
      BY EntriesAre
    <3>2. \A e \in Match!Serving : e[1] <= l <=> e[1] < l \/ e[1] = l
      BY <3>1
    <3>3. MergedEntries' = {e \in Match!Serving : e[1] <= l}
      BY <1>1, <2>1, <2>3, <3>2
    <3> QED
      BY <3>3, MergedAre
  <2>8. Layered(resolvedPlugins, MergedEntries)' /\ resolvedPlugins' \in Seq(Chain)
    BY <1>1, <2>1, <2>3, <2>6, <2>7
  <2>9. level' \in 0..4 /\ level' <= 3 /\ level <= 3
    BY <2>2, <2>3
  <2>10. Filtered'
    BY <2>1, <2>9 DEF Filtered, MatchInv, Match!Nothing
  <2> QED
    BY <2>1, <2>8, <2>9, <2>10 DEF MatchInv
<1>3. CASE Match!FilterTools
  <2>1. /\ level = 3 /\ level' = 4
        /\ resolvedPlugins' = resolvedPlugins
        /\ configured' = configured /\ hasKey' = hasKey /\ tools' = tools /\ disabled' = disabled
        /\ toolChoice' = toolChoice
        /\ filtered' =
             IF tools = NoTools \/ tools \cap disabled = {} THEN [tools |-> tools, toolChoice |-> toolChoice]
             ELSE [tools |-> IF tools \ disabled = {} THEN NoTools ELSE tools \ disabled,
                   toolChoice |-> Match!Choice(tools \cap disabled, tools \ disabled)]
    BY <1>3, Levels DEF Match!FilterTools
  <2>2. MergedEntries = Match!Serving
    BY <2>1, MergedAre
  <2>3. MergedEntries' = Match!Serving
    <3>1. \A e \in Match!Serving : e[1] < 4
      BY EntriesAre
    <3> QED
      BY <1>1, <2>1, <3>1
  <2>4. Layered(resolvedPlugins, MergedEntries)'
    BY <1>1, <2>1, <2>2, <2>3 DEF MatchInv
  <2>5. Filtered'
    BY <2>1 DEF Filtered, Match!Choice
  <2> QED
    BY <2>1, <2>4, <2>5 DEF MatchInv
<1>4. CASE UNCHANGED Match!vars
  <2>1. /\ configured' = configured /\ hasKey' = hasKey /\ level' = level /\ resolvedPlugins' = resolvedPlugins
        /\ tools' = tools /\ disabled' = disabled /\ toolChoice' = toolChoice
        /\ filtered' = filtered
    BY <1>4 DEF Match!vars
  <2>2. MergedEntries' = MergedEntries
    BY <1>1, <2>1 DEF MergedEntries, Seen
  <2>3. Layered(resolvedPlugins, MergedEntries)'
    BY <1>1, <2>1, <2>2 DEF MatchInv
  <2>4. Filtered'
    BY <2>1 DEF MatchInv, Filtered, Match!Choice, Match!Nothing
  <2> QED
    BY <2>1, <2>3, <2>4 DEF MatchInv
<1> QED
  BY <1>2, <1>3, <1>4 DEF Match!Next

LEMMA LayersKept == ASSUME MatchInv PROVE Match!PluginsLayered
<1> SUFFICES ASSUME level >= 3 PROVE Layered(resolvedPlugins, Match!Serving) /\ resolvedPlugins \in Seq(Chain)
  <2>1. \A n : Match!Named(n) \subseteq Match!Serving
    BY DEF Match!Named
  <2>2. ASSUME resolvedPlugins \in Seq(Chain)
        PROVE  DOMAIN resolvedPlugins = 1..Len(resolvedPlugins)
    BY <2>2
  <2> QED
    BY <2>1, <2>2, Levels DEF Match!PluginsLayered, Layered
<1>1. level \in 3..4 /\ resolvedPlugins \in Seq(Chain) /\ Layered(resolvedPlugins, MergedEntries)
  BY DEF MatchInv
<1> QED
  BY <1>1, MergedAre

LEMMA ToolsKept == ASSUME MatchInv PROVE Match!ToolsConsistent
<1> SUFFICES ASSUME level > 3 PROVE Match!ToolsConsistent
  BY Levels DEF Match!ToolsConsistent
<1> DEFINE there == IF filtered.tools = NoTools THEN {} ELSE filtered.tools
<1> SUFFICES /\ there = (IF tools = NoTools THEN {} ELSE tools \ disabled)
             /\ filtered.toolChoice \in Tools => filtered.toolChoice \in there
             /\ filtered.toolChoice = "required" => there # {}
             /\ filtered.toolChoice # toolChoice => toolChoice \in disabled \/ there = {}
  BY DEF Match!ToolsConsistent
<1>1. /\ tools = NoTools \/ tools \in SUBSET Tools
      /\ toolChoice \in Match!ToolChoices
      /\ tools = NoTools => toolChoice = "auto"
      /\ toolChoice \in Tools \cup {"required"} => tools # {} /\ toolChoice \in tools \cup {"required"}
      /\ ~(level <= 3) /\ Filtered
  BY DEF MatchInv
<1>2. "auto" \notin Tools /\ "required" \notin Tools /\ "auto" # "required"
  BY RouteAssumption
<1>3. \A s \in SUBSET Tools : s # NoTools
  BY RouteAssumption
<1>4. CASE /\ tools = NoTools \/ tools \cap disabled = {}
           /\ filtered = [tools |-> tools, toolChoice |-> toolChoice]
  <2>1. filtered.tools = tools /\ filtered.toolChoice = toolChoice
    BY <1>4
  <2>2. CASE tools = NoTools
    BY <1>1, <1>2, <2>1, <2>2
  <2>3. CASE tools # NoTools
    <3>1. there = tools /\ tools \ disabled = tools
      BY <1>4, <2>1, <2>3
    <3> QED
      BY <1>1, <1>2, <2>1, <2>3, <3>1
  <2> QED
    BY <2>2, <2>3
<1>5. CASE /\ tools # NoTools
           /\ filtered = [tools |-> IF tools \ disabled = {} THEN NoTools ELSE tools \ disabled,
                          toolChoice |-> Match!Choice(tools \cap disabled, tools \ disabled)]
  <2>1. /\ filtered.tools = IF tools \ disabled = {} THEN NoTools ELSE tools \ disabled
        /\ filtered.toolChoice = Match!Choice(tools \cap disabled, tools \ disabled)
    BY <1>5
  <2>2. there = tools \ disabled
    BY <1>1, <1>3, <1>5, <2>1
  <2> HIDE DEF there
  <2>3. CASE toolChoice \in tools \cap disabled \/ (tools \ disabled = {} /\ toolChoice = "required")
    <3>1. filtered.toolChoice = "auto"
      BY <2>1, <2>3 DEF Match!Choice
    <3> QED
      BY <1>2, <1>5, <2>2, <2>3, <3>1
  <2>4. CASE ~(toolChoice \in tools \cap disabled \/ (tools \ disabled = {} /\ toolChoice = "required"))
    <3>1. filtered.toolChoice = toolChoice
      BY <2>1, <2>4 DEF Match!Choice
    <3> QED
      BY <1>1, <1>2, <1>5, <2>2, <2>4, <3>1
  <2> QED
    BY <2>3, <2>4
<1> QED
  BY <1>1, <1>4, <1>5 DEF Filtered

LEMMA MatchInvImplies == MatchInv => Match!RouteApplied
BY LayersKept, ToolsKept DEF Match!RouteApplied

-----------------------------------------------------------------------------
(* Routes are what /v1/models lists, and a route's plugins and tools are   *)
(* what the levels configure, in every behaviour that is run.              *)
THEOREM RoutesAreRight == MCSpec => []RoutesRight
<1> DEFINE Inv == /\ picked = "routes" => RoutesInv
                  /\ picked = "match" => MatchInv
<1>1. MCInit => Inv
  BY RoutesInitially, MatchInitially DEF MCInit
<1>2. Inv /\ [MCNext]_MCvars => Inv'
  <2>1. MCNext => /\ picked' = picked
                  /\ picked = "routes" => Routes!Next
                  /\ picked = "match" => Match!Next
    BY DEF MCNext
  <2>2. UNCHANGED MCvars =>
          picked' = picked /\ UNCHANGED Routes!vars /\ UNCHANGED Match!vars
    BY DEF MCvars, routeVars, Routes!vars, matchVars, Match!vars
  <2> QED
    BY <2>1, <2>2, RoutesPreserved, MatchPreserved
<1>3. Inv => RoutesRight
  BY RoutesInvImplies, MatchInvImplies DEF RoutesRight
<1> QED
  BY <1>1, <1>2, <1>3, PTL DEF MCSpec
=============================================================================
