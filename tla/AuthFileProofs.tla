---------------------------- MODULE AuthFileProofs ----------------------------
(***************************************************************************)
(* auth.json implements an atomic store, for any providers, plugins and    *)
(* number of updates.                                                      *)
(***************************************************************************)
EXTENDS AuthFile, SequenceTheorems, TLAPS

(* Every update under way is in the chain, once, and no other is.          *)
ChainHoldsCalls ==
  /\ \A i, j \in 1..Len(authFileLocks) : authFileLocks[i] = authFileLocks[j] => i = j
  /\ \A u \in Updates :
       pc[u] # "idle" <=> \E i \in 1..Len(authFileLocks) : authFileLocks[i] = u

(* Only the oldest update has started.                                     *)
OnlyHeadStarted ==
  \A u \in Updates :
    pc[u] \notin {"idle", "called"} => authFileLocks # <<>> /\ u = authFileLocks[1]

(* What an update is about to write was computed from the file of now.     *)
ContentIsCurrent ==
  \A u \in Updates :
    pc[u] \in {"loaded", "written"} => file.valid /\ content[u] = Changed(change[u], file)

(* An update that has not renamed will answer with its error.              *)
AbandonedFails == \A u \in Updates : pc[u] = "abandoning" => u \in failing

FileInv == TypeOK /\ ChainHoldsCalls /\ OnlyHeadStarted /\ ContentIsCurrent /\ AbandonedFails

-----------------------------------------------------------------------------
(* Types.                                                                  *)

LEMMA ChangedType ==
  ASSUME NEW c \in Changes, NEW d \in Contents
  PROVE  Changed(c, d) \in Contents
<1>1. c.tokens \in Tokens /\ c.plugin \in Plugins \cup {None} /\ c.value \in Versions
  BY DEF Changes
<1>2. d.tokens \in Tokens /\ d.plugins \in Subtrees
  BY DEF Contents
<1>3. CASE c.plugin = None
  BY <1>1, <1>2, <1>3 DEF Changed, MergedTokens, Contents
<1>4. CASE c.plugin # None
  <2>1. [d.plugins EXCEPT ![c.plugin] = c.value] \in Subtrees
    BY <1>1, <1>2, <1>4 DEF Subtrees
  <2> QED  BY <1>1, <1>2, <1>4, <2>1 DEF Changed, MergedPlugin, Contents
<1> QED  BY <1>3, <1>4

LEMMA EmptyTypes ==
  /\ Empty \in Contents /\ Unreadable \in Contents
  /\ Empty.tokens \in Tokens
  /\ NoChange \in Changes
<1>1. [p \in Providers |-> None] \in Tokens /\ [g \in Plugins |-> None] \in Subtrees
  BY DEF Tokens, Subtrees, Versions
<1>2. Empty.tokens = [p \in Providers |-> None] /\ Empty.plugins = [g \in Plugins |-> None]
  BY DEF Empty
<1>3. Empty \in Contents
  BY <1>1 DEF Empty, Contents
<1>4. Unreadable \in Contents
  BY <1>1, <1>2 DEF Unreadable, Contents
<1>5. NoChange \in Changes
  BY <1>1, <1>2 DEF NoChange, Changes, Versions
<1> QED  BY <1>1, <1>2, <1>3, <1>4, <1>5

LEMMA CallTypes ==
  ASSUME TypeOK, NEW u \in Updates
  PROVE  /\ \A p \in Providers :
              [tokens |-> [store EXCEPT ![p] = u], plugin |-> None, value |-> None] \in Changes
         /\ \A g \in Plugins : [tokens |-> Empty.tokens, plugin |-> g, value |-> u] \in Changes
<1>1. u \in Versions /\ None \in Versions
  BY DEF Versions
<1>2. \A p \in Providers : [store EXCEPT ![p] = u] \in Tokens
  BY <1>1 DEF TypeOK, Tokens
<1> QED  BY <1>1, <1>2, EmptyTypes DEF Changes

LEMMA TypeInit == Init => TypeOK
<1> SUFFICES ASSUME Init PROVE TypeOK
  OBVIOUS
<1>1. file \in Contents /\ store \in Tokens /\ loaded \in BOOLEAN
  BY EmptyTypes DEF Init, Contents
<1>2. change \in [Updates -> Changes] /\ content \in [Updates -> Contents]
  BY EmptyTypes DEF Init
<1>3. pc \in [Updates -> Steps] /\ answer \in [Updates -> Answers]
  BY DEF Init, Steps, Answers
<1> QED  BY <1>1, <1>2, <1>3 DEF Init, TypeOK

LEMMA SettleType ==
  ASSUME TypeOK, NEW u \in Updates, NEW ok \in BOOLEAN, Settle(u, ok),
         temporaries' \subseteq temporaries, authFileLocks # <<>>
  PROVE  TypeOK'
<1>1. pc' \in [Updates -> Steps] /\ answer' \in [Updates -> Answers]
  BY DEF TypeOK, Settle, Goto, Steps, Answers
<1>2. store' \in Tokens
  BY DEF TypeOK, Settle, Changes
<1>3. content' \in [Updates -> Contents]
  BY EmptyTypes DEF TypeOK, Settle
<1>4. authFileLocks' \in Seq(Updates)
  BY DEF TypeOK, Settle, Released
<1> QED  BY <1>1, <1>2, <1>3, <1>4 DEF TypeOK, Settle

LEMMA FailType ==
  ASSUME TypeOK, NEW u \in Updates, NEW step \in Steps, Fail(u, step),
         temporaries' \subseteq Updates
  PROVE  TypeOK'
BY DEF TypeOK, Fail, Goto, Unaffected

LEMMA StartedHasChain ==
  ASSUME FileInv, NEW u \in Updates, pc[u] \notin {"idle", "called"}
  PROVE  authFileLocks # <<>> /\ Head(authFileLocks) = u
BY DEF FileInv, OnlyHeadStarted, TypeOK

LEMMA TypeNext ==
  ASSUME FileInv, Next
  PROVE  TypeOK'
<1> USE DEF FileInv
<1>1. ASSUME NEW u \in Updates, NEW c \in Changes, Begin(u, c)
      PROVE  TypeOK'
  BY <1>1 DEF TypeOK, Begin, Steps
<1>2. ASSUME NEW u \in Updates, NEW p \in Providers, SaveTokenStore(u, p)
      PROVE  TypeOK'
  BY <1>1, <1>2, CallTypes DEF SaveTokenStore
<1>3. ASSUME NEW u \in Updates, NEW g \in Plugins, SetPluginStore(u, g)
      PROVE  TypeOK'
  BY <1>1, <1>3, CallTypes DEF SetPluginStore
<1>4. ASSUME NEW u \in Updates, LoadAuthFile(u)
      PROVE  TypeOK'
  <2>1. CASE Settle(u, FALSE) /\ UNCHANGED temporaries
    BY <1>4, <2>1, SettleType DEF LoadAuthFile, IsTurn
  <2>2. CASE /\ Goto(u, "loaded")
             /\ content' = [content EXCEPT ![u] = Changed(change[u], file)]
             /\ UNCHANGED <<file, temporaries, failing, Unaffected>>
    <3>1. Changed(change[u], file) \in Contents
      BY ChangedType DEF TypeOK
    <3> QED  BY <2>2, <3>1 DEF TypeOK, Goto, Steps, Unaffected
  <2> QED  BY <1>4, <2>1, <2>2 DEF LoadAuthFile
<1>5. ASSUME NEW u \in Updates, WriteTemporary(u)
      PROVE  TypeOK'
  <2>1. CASE Fail(u, "abandoning") /\ temporaries' \in {temporaries, temporaries \cup {u}}
    BY <2>1, FailType DEF TypeOK, Steps
  <2>2. CASE ~Fail(u, "abandoning")
    BY <1>5, <2>2 DEF WriteTemporary, TypeOK, Goto, Steps, Unaffected
  <2> QED  BY <1>5, <2>1, <2>2 DEF WriteTemporary
<1>6. ASSUME NEW u \in Updates, Rename(u)
      PROVE  TypeOK'
  <2>1. CASE Fail(u, "abandoning")
    BY <1>6, <2>1, FailType DEF Rename, TypeOK, Steps
  <2>2. CASE ~Fail(u, "abandoning")
    BY <1>6, <2>2 DEF Rename, TypeOK, Goto, Steps, Unaffected
  <2> QED  BY <1>6, <2>1, <2>2 DEF Rename
<1>7. ASSUME NEW u \in Updates, Chmod(u)
      PROVE  TypeOK'
  <2>1. CASE Fail(u, "finishing") /\ UNCHANGED temporaries
    BY <2>1, FailType DEF TypeOK, Steps
  <2>2. CASE ~Fail(u, "finishing")
    BY <1>7, <2>2 DEF Chmod, TypeOK, Goto, Steps, Unaffected
  <2> QED  BY <1>7, <2>1, <2>2 DEF Chmod
<1>8. ASSUME NEW u \in Updates, UnlinkTemporary(u)
      PROVE  TypeOK'
  <2>1. authFileLocks # <<>>
    BY <1>8, StartedHasChain DEF UnlinkTemporary
  <2> QED  BY <1>8, <2>1, SettleType DEF UnlinkTemporary
<1>9. ASSUME Crash
      PROVE  TypeOK'
  <2>1. pc' \in [Updates -> Steps] /\ answer' \in [Updates -> Answers]
    BY <1>9 DEF Crash, TypeOK, Steps, Answers
  <2>2. store' \in Tokens /\ loaded' \in BOOLEAN
    BY <1>9, EmptyTypes DEF Crash, TypeOK, Contents
  <2>3. content' \in [Updates -> Contents] /\ authFileLocks' \in Seq(Updates)
    BY <1>9, EmptyTypes DEF Crash
  <2> QED  BY <1>9, <2>1, <2>2, <2>3 DEF Crash, TypeOK
<1> QED  BY <1>2, <1>3, <1>4, <1>5, <1>6, <1>7, <1>8, <1>9 DEF Next, Update

-----------------------------------------------------------------------------
(* The chain.                                                              *)

(* What the steps do to the chain, the steps of the updates and the file,  *)
(* apart from the detail of which of them fails.                           *)
LEMMA BeginInv ==
  ASSUME FileInv, TypeOK', NEW u \in Updates, NEW c, Begin(u, c)
  PROVE  FileInv'
<1> USE DEF FileInv
<1>1. /\ pc[u] = "idle" /\ pc' = [pc EXCEPT ![u] = "called"]
      /\ authFileLocks' = Append(authFileLocks, u)
      /\ change' = [change EXCEPT ![u] = c]
      /\ UNCHANGED <<file, content, failing>>
  BY DEF Begin
<1>2. /\ Len(authFileLocks') = Len(authFileLocks) + 1
      /\ \A i \in 1..Len(authFileLocks) : authFileLocks'[i] = authFileLocks[i]
      /\ authFileLocks'[Len(authFileLocks) + 1] = u
      /\ Len(authFileLocks) \in Nat
  BY <1>1 DEF TypeOK
<1>3. \A i \in 1..Len(authFileLocks) : authFileLocks[i] # u
  BY <1>1 DEF ChainHoldsCalls
<1>4. /\ pc'[u] = "called"
      /\ \A v \in Updates : v # u => pc'[v] = pc[v] /\ change'[v] = change[v]
  BY <1>1 DEF TypeOK
<1>5. ChainHoldsCalls'
  <2>1. ASSUME NEW i \in 1..Len(authFileLocks'), NEW j \in 1..Len(authFileLocks'),
               authFileLocks'[i] = authFileLocks'[j]
        PROVE  i = j
    BY <1>2, <1>3, <2>1 DEF ChainHoldsCalls
  <2>2. ASSUME NEW v \in Updates
        PROVE  pc'[v] # "idle" <=> \E i \in 1..Len(authFileLocks') : authFileLocks'[i] = v
    <3>1. CASE v = u
      BY <1>2, <1>4, <3>1
    <3>2. CASE v # u
      <4>1. pc'[v] = pc[v]
        BY <1>4, <3>2
      <4>2. (\E i \in 1..Len(authFileLocks') : authFileLocks'[i] = v)
              <=> \E i \in 1..Len(authFileLocks) : authFileLocks[i] = v
        BY <1>2, <3>2
      <4> QED  BY <4>1, <4>2 DEF ChainHoldsCalls
    <3> QED  BY <3>1, <3>2
  <2> QED  BY <2>1, <2>2 DEF ChainHoldsCalls
<1>6. OnlyHeadStarted'
  BY <1>1, <1>2, <1>4 DEF OnlyHeadStarted, TypeOK
<1>7. ContentIsCurrent' /\ AbandonedFails'
  BY <1>1, <1>4 DEF ContentIsCurrent, AbandonedFails
<1> QED  BY <1>5, <1>6, <1>7

LEMMA SettleInv ==
  ASSUME FileInv, TypeOK', NEW u \in Updates, NEW ok \in BOOLEAN, Settle(u, ok),
         authFileLocks # <<>>, Head(authFileLocks) = u
  PROVE  FileInv'
<1> USE DEF FileInv
<1>1. /\ pc' = [pc EXCEPT ![u] = "idle"]
      /\ authFileLocks' = Tail(authFileLocks)
      /\ failing' = failing \ {u}
      /\ content' = [content EXCEPT ![u] = Empty]
      /\ UNCHANGED <<file, change>>
  BY DEF Settle, Goto, Released
<1>2. /\ Len(authFileLocks) \in Nat \ {0}
      /\ authFileLocks[1] = u
      /\ Len(authFileLocks') = Len(authFileLocks) - 1
      /\ \A i \in 1..Len(authFileLocks') : authFileLocks'[i] = authFileLocks[i + 1]
  BY <1>1 DEF TypeOK
<1>3. /\ pc'[u] = "idle"
      /\ \A v \in Updates : v # u => pc'[v] = pc[v] /\ content'[v] = content[v]
  BY <1>1 DEF TypeOK
<1>4. \A v \in Updates : v # u => pc[v] \in {"idle", "called"}
  BY <1>2 DEF OnlyHeadStarted
<1>5. ChainHoldsCalls'
  <2>1. ASSUME NEW i \in 1..Len(authFileLocks'), NEW j \in 1..Len(authFileLocks'),
               authFileLocks'[i] = authFileLocks'[j]
        PROVE  i = j
    <3>1. /\ i + 1 \in 1..Len(authFileLocks) /\ j + 1 \in 1..Len(authFileLocks)
          /\ authFileLocks[i + 1] = authFileLocks[j + 1]
      BY <1>2, <2>1
    <3>2. i + 1 = j + 1
      BY <3>1 DEF ChainHoldsCalls
    <3> QED  BY <1>2, <3>2
  <2>2. ASSUME NEW v \in Updates
        PROVE  pc'[v] # "idle" <=> \E i \in 1..Len(authFileLocks') : authFileLocks'[i] = v
    <3>1. CASE v = u
      <4>1. \A i \in 1..Len(authFileLocks') : authFileLocks'[i] # u
        BY <1>2 DEF ChainHoldsCalls
      <4> QED  BY <1>3, <3>1, <4>1
    <3>2. CASE v # u
      <4>1. pc'[v] = pc[v]
        BY <1>3, <3>2
      <4>2. ASSUME NEW i \in 1..Len(authFileLocks), authFileLocks[i] = v
            PROVE  \E k \in 1..Len(authFileLocks') : authFileLocks'[k] = v
        <5>1. i # 1
          BY <1>2, <3>2, <4>2
        <5>2. i - 1 \in 1..Len(authFileLocks') /\ (i - 1) + 1 = i
          BY <1>2, <5>1
        <5>3. authFileLocks'[i - 1] = v
          BY <1>2, <4>2, <5>2
        <5> QED  BY <5>2, <5>3
      <4>3. ASSUME NEW i \in 1..Len(authFileLocks'), authFileLocks'[i] = v
            PROVE  \E k \in 1..Len(authFileLocks) : authFileLocks[k] = v
        BY <1>2, <4>3
      <4> QED  BY <4>1, <4>2, <4>3 DEF ChainHoldsCalls
    <3> QED  BY <3>1, <3>2
  <2> QED  BY <2>1, <2>2 DEF ChainHoldsCalls
<1>6. OnlyHeadStarted' /\ ContentIsCurrent' /\ AbandonedFails'
  BY <1>1, <1>3, <1>4 DEF OnlyHeadStarted, ContentIsCurrent, AbandonedFails
<1> QED  BY <1>5, <1>6

(* A step of the oldest update that does not settle it.                    *)
LEMMA StepInv ==
  ASSUME FileInv, TypeOK', NEW u \in Updates, NEW step \in Steps \ {"idle", "called"},
         Goto(u, step), pc[u] # "idle",
         authFileLocks # <<>>, Head(authFileLocks) = u,
         UNCHANGED <<authFileLocks, change>>,
         step \in {"loaded", "written"} =>
           file'.valid /\ content'[u] = Changed(change[u], file'),
         step = "abandoning" => u \in failing',
         failing \subseteq failing'
  PROVE  FileInv'
<1> USE DEF FileInv
<1>1. pc'[u] = step /\ \A v \in Updates : v # u => pc'[v] = pc[v]
  BY DEF Goto, TypeOK
<1>2. authFileLocks[1] = u
  BY DEF TypeOK
<1>3. \A v \in Updates : v # u => pc[v] \in {"idle", "called"}
  BY <1>2 DEF OnlyHeadStarted
<1>4. ChainHoldsCalls'
  <2>1. \A v \in Updates : pc'[v] # "idle" <=> pc[v] # "idle"
    BY <1>1
  <2> QED  BY <2>1 DEF ChainHoldsCalls
<1>5. OnlyHeadStarted' /\ AbandonedFails'
  BY <1>1, <1>2, <1>3 DEF OnlyHeadStarted, AbandonedFails
<1>6. ContentIsCurrent'
  BY <1>1, <1>3 DEF ContentIsCurrent
<1> QED  BY <1>4, <1>5, <1>6

LEMMA CrashInv ==
  ASSUME FileInv, TypeOK', Crash
  PROVE  FileInv'
BY DEF FileInv, Crash, ChainHoldsCalls, OnlyHeadStarted, ContentIsCurrent, AbandonedFails
LEMMA InvInit == Init => FileInv
<1> SUFFICES ASSUME Init PROVE FileInv
  OBVIOUS
<1>1. \A u \in Updates : pc[u] = "idle"
  BY DEF Init
<1>2. authFileLocks = <<>> /\ Len(authFileLocks) = 0
  BY DEF Init
<1> QED  BY <1>1, <1>2, TypeInit
  DEF FileInv, ChainHoldsCalls, OnlyHeadStarted, ContentIsCurrent, AbandonedFails

LEMMA InvNext == FileInv /\ [Next]_vars => FileInv'
<1> SUFFICES ASSUME FileInv, [Next]_vars PROVE FileInv'
  OBVIOUS
<1> DEFINE AtHead(u) == authFileLocks # <<>> /\ Head(authFileLocks) = u
<1>1. CASE UNCHANGED vars
  BY <1>1 DEF vars, FileInv, TypeOK, ChainHoldsCalls, OnlyHeadStarted, ContentIsCurrent,
              AbandonedFails
<1>2. CASE Next
  <2>1. TypeOK'
    BY <1>2, TypeNext
  <2>2. ASSUME NEW u \in Updates, NEW p \in Providers, SaveTokenStore(u, p)
        PROVE  FileInv'
    BY <2>1, <2>2, BeginInv DEF SaveTokenStore
  <2>3. ASSUME NEW u \in Updates, NEW g \in Plugins, SetPluginStore(u, g)
        PROVE  FileInv'
    BY <2>1, <2>3, BeginInv DEF SetPluginStore
  <2>4. ASSUME NEW u \in Updates, LoadAuthFile(u)
        PROVE  FileInv'
    <3>1. AtHead(u) /\ pc[u] = "called"
      BY <2>4 DEF LoadAuthFile, IsTurn
    <3>2. CASE Settle(u, FALSE)
      BY <2>1, <3>1, <3>2, SettleInv
    <3>3. CASE ~Settle(u, FALSE)
      <4>1. /\ file.valid /\ Goto(u, "loaded")
            /\ content' = [content EXCEPT ![u] = Changed(change[u], file)]
            /\ UNCHANGED <<file, failing, Unaffected>>
        BY <2>4, <3>3 DEF LoadAuthFile
      <4>2. content'[u] = Changed(change[u], file')
        BY <4>1 DEF FileInv, TypeOK
      <4> QED  BY <2>1, <3>1, <4>1, <4>2, StepInv DEF Steps, Unaffected
    <3> QED  BY <3>2, <3>3
  <2>5. ASSUME NEW u \in Updates, WriteTemporary(u)
        PROVE  FileInv'
    <3>1. AtHead(u) /\ pc[u] = "loaded"
      BY <2>5, StartedHasChain DEF WriteTemporary
    <3>2. file.valid /\ content[u] = Changed(change[u], file)
      BY <3>1 DEF FileInv, ContentIsCurrent
    <3>3. CASE Fail(u, "abandoning")
      BY <2>1, <3>1, <3>3, StepInv DEF Fail, Steps, Unaffected
    <3>4. CASE ~Fail(u, "abandoning")
      <4>1. Goto(u, "written") /\ UNCHANGED <<file, content, failing, Unaffected>>
        BY <2>5, <3>4 DEF WriteTemporary
      <4> QED  BY <2>1, <3>1, <3>2, <4>1, StepInv DEF Steps, Unaffected
    <3> QED  BY <3>3, <3>4
  <2>6. ASSUME NEW u \in Updates, Rename(u)
        PROVE  FileInv'
    <3>1. AtHead(u) /\ pc[u] = "written"
      BY <2>6, StartedHasChain DEF Rename
    <3>2. CASE Fail(u, "abandoning")
      BY <2>1, <3>1, <3>2, StepInv DEF Fail, Steps, Unaffected
    <3>3. CASE ~Fail(u, "abandoning")
      <4>1. Goto(u, "renamed") /\ UNCHANGED <<content, failing, Unaffected>>
        BY <2>6, <3>3 DEF Rename
      <4> QED  BY <2>1, <3>1, <4>1, StepInv DEF Steps, Unaffected
    <3> QED  BY <3>2, <3>3
  <2>7. ASSUME NEW u \in Updates, Chmod(u)
        PROVE  FileInv'
    <3>1. AtHead(u) /\ pc[u] = "renamed"
      BY <2>7, StartedHasChain DEF Chmod
    <3>2. /\ Goto(u, "finishing") /\ failing \subseteq failing'
          /\ UNCHANGED <<file, Unaffected>>
      BY <2>7 DEF Chmod, Fail
    <3> QED  BY <2>1, <3>1, <3>2, StepInv DEF Steps, Unaffected
  <2>8. ASSUME NEW u \in Updates, UnlinkTemporary(u)
        PROVE  FileInv'
    <3>1. AtHead(u)
      BY <2>8, StartedHasChain DEF UnlinkTemporary
    <3> QED  BY <2>1, <2>8, <3>1, SettleInv DEF UnlinkTemporary
  <2>9. CASE Crash
    BY <2>1, <2>9, CrashInv
  <2> QED  BY <1>2, <2>2, <2>3, <2>4, <2>5, <2>6, <2>7, <2>8, <2>9 DEF Next, Update
<1> QED  BY <1>1, <1>2

(* Every variable keeps its type, whatever the number of updates, their    *)
(* failures and the crashes between their steps (updateAuthFile).          *)
THEOREM FileTypeCorrect == Spec => []TypeOK
<1>1. FileInv => TypeOK
  BY DEF FileInv
<1> QED  BY <1>1, InvInit, InvNext, PTL DEF Spec

-----------------------------------------------------------------------------
(* The refinement.                                                         *)

Applied == authFileLocks # <<>> /\ pc[Head(authFileLocks)] \in {"renamed", "finishing"}

(* The chain has no update that started when the oldest is answered or the *)
(* process is killed: the next one has not been applied.                   *)
LEMMA SettleRefines ==
  ASSUME FileInv, FileInv', NEW u \in Updates, NEW ok \in BOOLEAN, Settle(u, ok),
         authFileLocks # <<>>, Head(authFileLocks) = u,
         ok => pc[u] \in {"renamed", "finishing"}
  PROVE  Abstract!Answer(IF ok THEN "ok" ELSE "failed")
<1> DEFINE result == IF ok THEN "ok" ELSE "failed"
<1>1. /\ answer' = [answer EXCEPT ![Head(authFileLocks)] = result]
      /\ authFileLocks' = Tail(authFileLocks)
      /\ UNCHANGED <<file, change>>
  BY DEF Settle, Released
<1>2. result = "ok" => Applied
  BY DEF Applied
<1>3. ~Applied'
  <2> SUFFICES ASSUME Tail(authFileLocks) # <<>>
               PROVE  pc'[Head(Tail(authFileLocks))] \notin {"renamed", "finishing"}
    BY <1>1 DEF Applied
  <2> DEFINE v == authFileLocks'[1]
  <2>1. /\ authFileLocks' \in Seq(Updates) /\ Len(authFileLocks') \in Nat \ {0}
        /\ v \in Updates /\ Head(authFileLocks') = v
        /\ authFileLocks[2] = v /\ authFileLocks[1] = u
        /\ 2 \in 1..Len(authFileLocks) /\ 1 \in 1..Len(authFileLocks)
    BY <1>1 DEF FileInv, TypeOK
  <2>2. v # u
    BY <2>1 DEF FileInv, ChainHoldsCalls
  <2>3. pc[v] \in {"idle", "called"}
    BY <2>1, <2>2 DEF FileInv, OnlyHeadStarted
  <2>4. pc'[v] = pc[v]
    BY <2>1, <2>2 DEF Settle, Goto, FileInv, TypeOK
  <2> QED  BY <1>1, <2>1, <2>3, <2>4
<1> QED  BY <1>1, <1>2, <1>3 DEF Abstract!Answer, Applied

LEMMA CallRefines ==
  ASSUME FileInv, NEW u \in Updates, NEW c \in Changes, Begin(u, c)
  PROVE  Abstract!Call(u, c)
<1>1. /\ answer[u] = "none" /\ change' = [change EXCEPT ![u] = c]
      /\ authFileLocks' = Append(authFileLocks, u)
      /\ pc[u] = "idle" /\ pc' = [pc EXCEPT ![u] = "called"]
      /\ UNCHANGED <<file, answer>>
  BY DEF Begin
<1>2. DOMAIN authFileLocks = 1..Len(authFileLocks) /\ Len(authFileLocks) \in Nat
  BY DEF FileInv, TypeOK
<1>3. ~Abstract!Queued(u)
  BY <1>1, <1>2 DEF Abstract!Queued, FileInv, ChainHoldsCalls
<1>4. Applied' = Applied
  <2>1. CASE authFileLocks = <<>>
    <3>1. authFileLocks' # <<>> /\ Head(authFileLocks') = u
      BY <1>1, <2>1
    <3>2. pc'[u] = "called"
      BY <1>1 DEF FileInv, TypeOK
    <3> QED  BY <2>1, <3>1, <3>2 DEF Applied
  <2>2. CASE authFileLocks # <<>>
    <3>1. /\ authFileLocks' # <<>> /\ Head(authFileLocks') = Head(authFileLocks)
          /\ Head(authFileLocks) = authFileLocks[1] /\ authFileLocks[1] \in Updates
          /\ 1 \in 1..Len(authFileLocks)
      BY <1>1, <2>2 DEF FileInv, TypeOK
    <3>2. Head(authFileLocks) # u
      BY <1>1, <3>1 DEF FileInv, ChainHoldsCalls
    <3>3. pc'[Head(authFileLocks)] = pc[Head(authFileLocks)]
      BY <1>1, <3>1, <3>2 DEF FileInv, TypeOK
    <3> QED  BY <2>2, <3>1, <3>3 DEF Applied
  <2> QED  BY <2>1, <2>2
<1> QED  BY <1>1, <1>3, <1>4 DEF Abstract!Call, Applied

(* A step of the oldest update that leaves the file as it was.             *)
LEMMA StepStutters ==
  ASSUME FileInv, NEW u \in Updates, NEW step, Goto(u, step),
         authFileLocks # <<>>, Head(authFileLocks) = u,
         (step \in {"renamed", "finishing"}) = (pc[u] \in {"renamed", "finishing"}),
         UNCHANGED <<file, Unaffected>>
  PROVE  UNCHANGED Abstract!vars
<1>1. pc'[u] = step /\ UNCHANGED <<file, change, authFileLocks, answer>>
  BY DEF Goto, Unaffected, FileInv, TypeOK
<1>2. Applied' = Applied
  BY <1>1 DEF Applied
<1> QED  BY <1>1, <1>2 DEF Abstract!vars, Applied

LEMMA RenameRefines ==
  ASSUME FileInv, NEW u \in Updates, Goto(u, "renamed"), pc[u] = "written",
         authFileLocks # <<>>, Head(authFileLocks) = u,
         file' = content[u], UNCHANGED Unaffected
  PROVE  Abstract!Apply
<1>1. file.valid /\ content[u] = Changed(change[u], file)
  BY DEF FileInv, ContentIsCurrent
<1>2. ~Applied
  BY DEF Applied
<1>3. pc'[u] = "renamed" /\ UNCHANGED <<change, authFileLocks, answer>>
  BY DEF Goto, Unaffected, FileInv, TypeOK
<1>4. Applied'
  BY <1>3 DEF Applied
<1> QED  BY <1>1, <1>2, <1>3, <1>4 DEF Abstract!Apply, Applied

LEMMA CrashRefines ==
  ASSUME FileInv, Crash
  PROVE  Abstract!Crash
<1>1. DOMAIN authFileLocks = 1..Len(authFileLocks)
  BY DEF FileInv, TypeOK
<1>2. \A u \in Updates : Abstract!Queued(u) <=> pc[u] # "idle"
  BY <1>1 DEF Abstract!Queued, FileInv, ChainHoldsCalls
<1>3. answer' = [u \in Updates |-> IF Abstract!Queued(u) THEN "lost" ELSE answer[u]]
  BY <1>2 DEF Crash
<1> QED  BY <1>3 DEF Crash, Abstract!Crash

LEMMA NextRefines ==
  FileInv /\ FileInv' /\ [Next]_vars => [Abstract!Next]_(Abstract!vars)
<1> SUFFICES ASSUME FileInv, FileInv', [Next]_vars
             PROVE  Abstract!Next \/ UNCHANGED Abstract!vars
  OBVIOUS
<1> DEFINE AtHead(u) == authFileLocks # <<>> /\ Head(authFileLocks) = u
<1>1. CASE UNCHANGED vars
  BY <1>1 DEF vars, Abstract!vars
<1>2. ASSUME NEW u \in Updates, NEW p \in Providers, SaveTokenStore(u, p)
      PROVE  Abstract!Next
  BY <1>2, CallTypes, CallRefines DEF SaveTokenStore, Abstract!Next, FileInv
<1>3. ASSUME NEW u \in Updates, NEW g \in Plugins, SetPluginStore(u, g)
      PROVE  Abstract!Next
  BY <1>3, CallTypes, CallRefines DEF SetPluginStore, Abstract!Next, FileInv
<1>4. ASSUME NEW u \in Updates, LoadAuthFile(u)
      PROVE  Abstract!Next \/ UNCHANGED Abstract!vars
  <2>1. AtHead(u) /\ pc[u] = "called"
    BY <1>4 DEF LoadAuthFile, IsTurn
  <2>2. CASE Settle(u, FALSE)
    BY <2>1, <2>2, SettleRefines DEF Abstract!Next
  <2>3. CASE ~Settle(u, FALSE)
    <3>1. Goto(u, "loaded") /\ UNCHANGED <<file, Unaffected>>
      BY <1>4, <2>3 DEF LoadAuthFile
    <3> QED  BY <2>1, <3>1, StepStutters
  <2> QED  BY <2>2, <2>3
<1>5. ASSUME NEW u \in Updates, WriteTemporary(u)
      PROVE  UNCHANGED Abstract!vars
  <2>1. AtHead(u) /\ pc[u] = "loaded"
    BY <1>5, StartedHasChain DEF WriteTemporary
  <2> QED  BY <1>5, <2>1, StepStutters DEF WriteTemporary, Fail
<1>6. ASSUME NEW u \in Updates, Rename(u)
      PROVE  Abstract!Next \/ UNCHANGED Abstract!vars
  <2>1. AtHead(u) /\ pc[u] = "written"
    BY <1>6, StartedHasChain DEF Rename
  <2>2. CASE Fail(u, "abandoning")
    BY <2>1, <2>2, StepStutters DEF Fail
  <2>3. CASE ~Fail(u, "abandoning")
    BY <1>6, <2>1, <2>3, RenameRefines DEF Rename, Abstract!Next
  <2> QED  BY <2>2, <2>3
<1>7. ASSUME NEW u \in Updates, Chmod(u)
      PROVE  UNCHANGED Abstract!vars
  <2>1. AtHead(u) /\ pc[u] = "renamed"
    BY <1>7, StartedHasChain DEF Chmod
  <2> QED  BY <1>7, <2>1, StepStutters DEF Chmod, Fail
<1>8. ASSUME NEW u \in Updates, UnlinkTemporary(u)
      PROVE  Abstract!Next
  <2>1. AtHead(u)
    BY <1>8, StartedHasChain DEF UnlinkTemporary
  <2>2. u \notin failing => pc[u] \in {"renamed", "finishing"}
    BY <1>8 DEF UnlinkTemporary, FileInv, AbandonedFails
  <2> QED  BY <1>8, <2>1, <2>2, SettleRefines DEF UnlinkTemporary, Abstract!Next
<1>9. CASE Crash
  BY <1>9, CrashRefines DEF Abstract!Next
<1> QED  BY <1>1, <1>2, <1>3, <1>4, <1>5, <1>6, <1>7, <1>8, <1>9 DEF Next, Update

LEMMA InitRefines == Init => Abstract!Init
<1> SUFFICES ASSUME Init PROVE Abstract!Init
  OBVIOUS
<1>1. file \in Contents /\ change \in [Updates -> Changes]
  BY TypeInit DEF TypeOK
<1> QED  BY <1>1 DEF Init, Abstract!Init

(* The steps of updateAuthFile, with their failures and the crashes        *)
(* between them, implement an atomic store: an update is applied whole or  *)
(* not at all, in call order, and never undoes another's.                  *)
THEOREM AuthFileIsAtomic == Spec => IsAtomicStore
<1> QED  BY InitRefines, InvInit, InvNext, NextRefines, PTL DEF Spec, IsAtomicStore, Abstract!Spec
=============================================================================
