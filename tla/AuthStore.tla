------------------------------- MODULE AuthStore ------------------------------
(***************************************************************************)
(* What auth.json promises the token manager and the plugins of one        *)
(* process: updates apply one at a time, whole, in the order they were     *)
(* called; an update that succeeds has been applied, one that fails may    *)
(* have been; a crash loses the calls under way and nothing else; a file   *)
(* that is not a JSON object is left alone.                                *)
(***************************************************************************)
EXTENDS Sequences

CONSTANTS
  Updates,            \* calls of saveTokenStore and of PluginStore.set
  Changes,            \* what a call may ask for
  Contents,           \* what auth.json may contain
  Changed(_, _)       \* what a change makes of a content

VARIABLES
  data,               \* the content of auth.json
  change,             \* of each update called: the change it asks for
  queue,              \* the updates called and not answered, in call order
  applied,            \* whether the oldest of them has been applied
  answer              \* of each update: "none" until it is answered

vars == <<data, change, queue, applied, answer>>

Queued(u) == \E i \in DOMAIN queue : queue[i] = u

Init ==
  /\ data \in Contents
  /\ change \in [Updates -> Changes]
  /\ queue = <<>>
  /\ applied = FALSE
  /\ answer = [u \in Updates |-> "none"]

Call(u, c) ==
  /\ answer[u] = "none"
  /\ ~Queued(u)
  /\ change' = [change EXCEPT ![u] = c]
  /\ queue' = Append(queue, u)
  /\ UNCHANGED <<data, applied, answer>>

Apply ==
  /\ queue # <<>>
  /\ ~applied
  /\ data.valid
  /\ data' = Changed(change[Head(queue)], data)
  /\ applied' = TRUE
  /\ UNCHANGED <<change, queue, answer>>

Answer(result) ==
  /\ queue # <<>>
  /\ result = "ok" => applied
  /\ answer' = [answer EXCEPT ![Head(queue)] = result]
  /\ queue' = Tail(queue)
  /\ applied' = FALSE
  /\ UNCHANGED <<data, change>>

Crash ==
  /\ answer' = [u \in Updates |-> IF Queued(u) THEN "lost" ELSE answer[u]]
  /\ queue' = <<>>
  /\ applied' = FALSE
  /\ UNCHANGED <<data, change>>

Next ==
  \/ \E u \in Updates, c \in Changes : Call(u, c)
  \/ Apply
  \/ Answer("ok") \/ Answer("failed")
  \/ Crash

Spec == Init /\ [][Next]_vars
=============================================================================
