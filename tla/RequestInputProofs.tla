------------------------- MODULE RequestInputProofs -------------------------
(***************************************************************************)
(* The files that the vision artifact store hands out are there and hold   *)
(* their images, and all of them together stay within the quota, for any   *)
(* images, batches and quota, whatever operation on the directory fails    *)
(* and whatever the agent and the clock do to it.  The tools and the items *)
(* of a Responses client's request are translated without loss, for any    *)
(* names, texts and ids and any number of items.  The invariant says after *)
(* each of the patches which item is at which place; the folds that the    *)
(* patches are go item by item, and what they have taken and what they     *)
(* have put is carried from one element of the fold to the next.           *)
(***************************************************************************)
EXTENDS MCRequestInput, DataProofs

Results == Batches \cup {0, storage_error, storage_quota_exceeded}

(* TypeOK, in parts.                                                       *)
DiskOK == disk \subseteq Files /\ spoiled \subseteq (Batches \X Images)

BatchesOK ==
  /\ queue \in Seq(Batches)
  /\ state \in [Batches -> {"idle", "queued", "running", "done", "lost"}]
  /\ images \in [Batches -> SUBSET Images]
  /\ results \in [Batches -> [Images -> Results]]

WorkOK ==
  /\ deduplicated \in [Images -> Batches \cup {0}]
  /\ at \in {"idle", "cleaning", "verifying", "writing"}
  /\ IF at = "cleaning" THEN todo \subseteq Files ELSE todo \subseteq Images
  /\ pending \subseteq Images
  /\ totalBytes \in Nat

(* A batch that is at work is the first of the queue.                      *)
BatchAtWork == at # "idle" => queue # <<>>

(* A file whose times let it go is one that nobody asked for.              *)
StaleIsUnused == \A f \in disk : f.stale => f.unused

IInv == DiskOK /\ BatchesOK /\ WorkOK /\ BatchAtWork /\ StaleIsUnused /\ StoredIsThere

LEMMA NotBatches ==
  /\ storage_error \notin Batches /\ storage_error # 0
  /\ storage_quota_exceeded \notin Batches /\ storage_quota_exceeded # 0
  /\ 0 \notin Batches
BY StoreAssumption DEF Batches

LEMMA Initially == Init => IInv
<1> SUFFICES ASSUME Init PROVE IInv
  OBVIOUS
<1>1. DiskOK /\ BatchAtWork /\ StaleIsUnused
  BY DEF Init, DiskOK, BatchAtWork, StaleIsUnused
<1>2. BatchesOK
  <2>1. None \in [Images -> Results]
    BY DEF None, Results
  <2> QED
    BY <2>1 DEF Init, BatchesOK
<1>3. WorkOK
  BY DEF Init, WorkOK, None
<1>4. StoredIsThere
  BY NotBatches DEF Init, StoredIsThere, None
<1> QED
  BY <1>1, <1>2, <1>3, <1>4 DEF IInv

-----------------------------------------------------------------------------
(* A directory serves as another did if every file that was handed out and *)
(* holds its image is there with it, or was touched by others.             *)
Serves ==
  /\ spoiled \subseteq spoiled'
  /\ \A f \in disk : f.kind = "final" /\ f.intact =>
       \/ Name(f) \in spoiled'
       \/ \E g \in disk' : g.kind = "final" /\ g.intact /\ Name(g) = Name(f)

(* What a result that a step gives leads to.                               *)
ResultsServed ==
  \A b \in Batches, i \in Images :
    results'[b][i] # results[b][i] /\ results'[b][i] \in Batches =>
      \E f \in disk' : f.kind = "final" /\ Name(f) = <<results'[b][i], i>> /\ f.intact

LEMMA ServedStays ==
  ASSUME StoredIsThere, Serves, ResultsServed
  PROVE  StoredIsThere'
<1> SUFFICES ASSUME NEW b \in Batches, NEW i \in Images, results'[b][i] \in Batches
             PROVE  \/ <<results'[b][i], i>> \in spoiled'
                    \/ \E f \in disk' : f.kind = "final" /\ Name(f) = <<results'[b][i], i>> /\ f.intact
  BY DEF StoredIsThere, Finals, Name
<1>1. CASE results'[b][i] # results[b][i]
  BY <1>1 DEF ResultsServed
<1>2. CASE results'[b][i] = results[b][i]
  <2>1. CASE <<results[b][i], i>> \in spoiled
    BY <1>2, <2>1 DEF Serves
  <2>2. CASE <<results[b][i], i>> \notin spoiled
    <3>1. PICK f \in disk : f.kind = "final" /\ Name(f) = <<results[b][i], i>> /\ f.intact
      BY <1>2, <2>2 DEF StoredIsThere, Finals
    <3> QED
      BY <1>2, <3>1 DEF Serves
  <2> QED
    BY <2>1, <2>2
<1> QED
  BY <1>1, <1>2

(* What a step leaves alone.                                               *)
LEMMA SameDirectory ==
  ASSUME UNCHANGED <<disk, spoiled>>
  PROVE  Serves
BY DEF Serves

LEMMA Reported ==
  ASSUME ResultsServed, 0 \notin Batches
  PROVE  \A b \in Batches, i \in Images :
           results'[b][i] \in Batches /\ results[b][i] = 0 =>
             \E f \in disk' : f.kind = "final" /\ Name(f) = <<results'[b][i], i>> /\ f.intact
BY DEF ResultsServed

Good == IInv' /\ ResultsServed

-----------------------------------------------------------------------------
(* The ends of a batch.                                                    *)
LEMMA FirstIsBatch ==
  ASSUME IInv, queue # <<>>
  PROVE  Running \in Batches /\ Tail(queue) \in Seq(Batches)
BY DEF IInv, BatchesOK, Running

LEMMA ReturnKeeps ==
  ASSUME IInv, queue # <<>>, NEW r \in [Images -> Results], Return(r),
         \A i \in Images : r[i] \in Batches => r[i] = results[Running][i],
         UNCHANGED <<disk, deduplicated, images, spoiled>>
  PROVE  Good
<1>1. Running \in Batches /\ Tail(queue) \in Seq(Batches)
  BY FirstIsBatch
<1> DEFINE b0 == Running
<1> HIDE DEF b0
<1>2. /\ results' = [results EXCEPT ![b0] = r]
      /\ state' = [state EXCEPT ![b0] = "done"]
      /\ queue' = Tail(queue)
      /\ at' = "idle" /\ todo' = {} /\ pending' = {} /\ totalBytes' = 0
  BY DEF Return, b0
<1>3. BatchesOK'
  BY <1>1, <1>2 DEF IInv, BatchesOK, b0
<1>4. DiskOK' /\ WorkOK' /\ BatchAtWork' /\ StaleIsUnused'
  BY <1>2 DEF IInv, DiskOK, WorkOK, BatchAtWork, StaleIsUnused
<1>5. ResultsServed
  BY <1>1, <1>2 DEF IInv, BatchesOK, ResultsServed, b0
<1>6. StoredIsThere'
  BY <1>5, SameDirectory, ServedStays DEF IInv
<1> QED
  BY <1>3, <1>4, <1>5, <1>6 DEF Good, IInv

LEMMA OtherResults ==
  ASSUME IInv, queue # <<>>, NEW s \in SUBSET Images,
         NEW result \in {storage_error, storage_quota_exceeded}
  PROVE  LET r == WithResult(results[Running], s, result) IN
           /\ r \in [Images -> Results]
           /\ \A i \in Images : r[i] \in Batches => r[i] = results[Running][i]
BY FirstIsBatch, NotBatches DEF IInv, BatchesOK, WithResult, Results

LEMMA GiveUpKeeps ==
  ASSUME IInv, queue # <<>>, GiveUp, UNCHANGED <<disk, deduplicated, images, spoiled>>
  PROVE  Good
<1> DEFINE r == WithResult(results[Running], images[Running], storage_error)
<1>1. images[Running] \in SUBSET Images
  BY FirstIsBatch DEF IInv, BatchesOK
<1>2. /\ r \in [Images -> Results]
      /\ \A i \in Images : r[i] \in Batches => r[i] = results[Running][i]
  BY <1>1, OtherResults
<1>3. Return(r)
  BY DEF GiveUp
<1> HIDE DEF r
<1> QED
  BY <1>2, <1>3, ReturnKeeps

(* A step that gives no results.                                           *)
LEMMA NoResults ==
  ASSUME UNCHANGED results
  PROVE  ResultsServed
BY DEF ResultsServed

LEMMA SubmitKeeps ==
  ASSUME IInv, NEW b \in Batches, NEW s \in SUBSET Images, Submit(b, s)
  PROVE  Good
<1>1. BatchesOK'
  BY DEF Submit, IInv, BatchesOK
<1>2. queue' # <<>>
  BY DEF Submit, IInv, BatchesOK
<1>3. DiskOK' /\ WorkOK' /\ BatchAtWork' /\ StaleIsUnused'
  BY <1>2 DEF Submit, IInv, DiskOK, WorkOK, BatchAtWork, StaleIsUnused
<1>4. ResultsServed /\ Serves
  BY NoResults, SameDirectory DEF Submit
<1>5. StoredIsThere'
  BY <1>4, ServedStays DEF IInv
<1> QED
  BY <1>1, <1>3, <1>4, <1>5 DEF Good, IInv

LEMMA StartKeeps ==
  ASSUME IInv, Start
  PROVE  Good
<1>1. queue # <<>> /\ Running \in Batches /\ UNCHANGED <<disk, deduplicated, images, spoiled>>
  BY FirstIsBatch DEF Start
<1>2. CASE GiveUp
  BY <1>1, <1>2, GiveUpKeeps
<1>3. CASE /\ at' = "cleaning" /\ todo' = disk
           /\ state' = [state EXCEPT ![Running] = "running"]
           /\ UNCHANGED <<queue, results, pending, totalBytes>>
  <2>1. BatchesOK'
    BY <1>1, <1>3 DEF IInv, BatchesOK
  <2>2. DiskOK' /\ WorkOK' /\ BatchAtWork' /\ StaleIsUnused'
    BY <1>1, <1>3 DEF IInv, DiskOK, WorkOK, BatchAtWork, StaleIsUnused
  <2>3. ResultsServed /\ Serves
    BY <1>1, <1>3, NoResults, SameDirectory
  <2>4. StoredIsThere'
    BY <2>3, ServedStays DEF IInv
  <2> QED
    BY <2>1, <2>2, <2>3, <2>4 DEF Good, IInv
<1> QED
  BY <1>2, <1>3 DEF Start

(* Cleaning removes a file that is stale, hence unused: it is one that     *)
(* nobody asked for.                                                       *)
LEMMA CleanKeeps ==
  ASSUME IInv, NEW file \in Files, Clean(file)
  PROVE  Good
<1>1. at = "cleaning" /\ queue # <<>> /\ images' = images
  BY DEF Clean, IInv, BatchAtWork
<1>2. CASE GiveUp /\ UNCHANGED <<disk, deduplicated, spoiled>>
  BY <1>1, <1>2, GiveUpKeeps
<1>3. CASE \E f \in Current(file) :
             /\ todo' = todo \ {file}
             /\ IF Expired(f) THEN
                  /\ disk' = disk \ {f}
                  /\ deduplicated' = [i \in Images |->
                       IF f.kind = "final" /\ Name(f) = <<deduplicated[i], i>> THEN 0
                       ELSE deduplicated[i]]
                  /\ spoiled' = IF f.unused THEN spoiled \cup {Name(f)} ELSE spoiled
                  /\ UNCHANGED totalBytes
                ELSE
                  /\ totalBytes' = totalBytes + IF f.kind = "final" THEN Size[f.image] ELSE 0
                  /\ UNCHANGED <<disk, deduplicated, spoiled>>
             /\ UNCHANGED <<queue, state, results, at, pending>>
  <2>1. PICK f \in Current(file) :
             /\ todo' = todo \ {file}
             /\ IF Expired(f) THEN
                  /\ disk' = disk \ {f}
                  /\ deduplicated' = [i \in Images |->
                       IF f.kind = "final" /\ Name(f) = <<deduplicated[i], i>> THEN 0
                       ELSE deduplicated[i]]
                  /\ spoiled' = IF f.unused THEN spoiled \cup {Name(f)} ELSE spoiled
                  /\ UNCHANGED totalBytes
                ELSE
                  /\ totalBytes' = totalBytes + IF f.kind = "final" THEN Size[f.image] ELSE 0
                  /\ UNCHANGED <<disk, deduplicated, spoiled>>
             /\ UNCHANGED <<queue, state, results, at, pending>>
    BY <1>3
  <2>2. f \in disk /\ f \in Files /\ Name(f) \in Batches \X Images /\ f.image \in Images
    BY DEF Current, IInv, DiskOK, Files, Name
  <2>3. BatchesOK'
    BY <1>1, <2>1 DEF IInv, BatchesOK
  <2>4. ResultsServed
    BY <2>1, NoResults
  <2>5. CASE Expired(f)
    <3>1. f.unused
      BY <2>2, <2>5 DEF Expired, IInv, StaleIsUnused
    <3>2. disk' = disk \ {f} /\ spoiled' = spoiled \cup {Name(f)} /\ totalBytes' = totalBytes
      BY <2>1, <2>5, <3>1
    <3>3. deduplicated' \in [Images -> Batches \cup {0}]
      BY <2>1, <2>5 DEF IInv, WorkOK
    <3>4. DiskOK' /\ StaleIsUnused'
      BY <2>2, <3>2 DEF IInv, DiskOK, StaleIsUnused
    <3>5. WorkOK' /\ BatchAtWork'
      BY <1>1, <2>1, <3>2, <3>3 DEF IInv, WorkOK, BatchAtWork
    <3>6. Serves
      BY <3>2 DEF Serves
    <3>7. StoredIsThere'
      BY <2>4, <3>6, ServedStays DEF IInv
    <3> QED
      BY <2>3, <2>4, <3>4, <3>5, <3>7 DEF Good, IInv
  <2>6. CASE ~Expired(f)
    <3>1. /\ totalBytes' = totalBytes + IF f.kind = "final" THEN Size[f.image] ELSE 0
          /\ UNCHANGED <<disk, deduplicated, spoiled>>
      BY <2>1, <2>6
    <3>2. Size[f.image] \in Nat
      BY <2>2, StoreAssumption
    <3>3. totalBytes' \in Nat
      BY <3>1, <3>2 DEF IInv, WorkOK
    <3>4. DiskOK' /\ StaleIsUnused'
      BY <3>1 DEF IInv, DiskOK, StaleIsUnused
    <3>5. WorkOK' /\ BatchAtWork'
      BY <1>1, <2>1, <3>1, <3>3 DEF IInv, WorkOK, BatchAtWork
    <3>6. StoredIsThere'
      BY <2>4, <3>1, SameDirectory, ServedStays DEF IInv
    <3> QED
      BY <2>3, <2>4, <3>4, <3>5, <3>6 DEF Good, IInv
  <2> QED
    BY <2>5, <2>6
<1> QED
  BY <1>2, <1>3 DEF Clean

LEMMA CleanedKeeps ==
  ASSUME IInv, Cleaned
  PROVE  Good
<1>1. queue # <<>> /\ Running \in Batches
  BY FirstIsBatch DEF Cleaned, IInv, BatchAtWork
<1>2. images[Running] \subseteq Images
  BY <1>1 DEF IInv, BatchesOK
<1>3. WorkOK' /\ BatchAtWork'
  BY <1>1, <1>2 DEF Cleaned, IInv, WorkOK, BatchAtWork
<1>4. DiskOK' /\ BatchesOK' /\ StaleIsUnused'
  BY DEF Cleaned, IInv, DiskOK, BatchesOK, StaleIsUnused
<1>5. ResultsServed /\ Serves
  BY NoResults, SameDirectory DEF Cleaned
<1>6. StoredIsThere'
  BY <1>5, ServedStays DEF IInv
<1> QED
  BY <1>3, <1>4, <1>5, <1>6 DEF Good, IInv

-----------------------------------------------------------------------------
(* Verification.                                                           *)
LEMMA TouchedIs ==
  ASSUME NEW f \in Files
  PROVE  /\ Touched(f) \in Files /\ Name(Touched(f)) = Name(f) /\ ~Touched(f).stale
         /\ Touched(f).kind = f.kind /\ Touched(f).intact = f.intact
BY DEF Files, Touched, Name

LEMMA TempIs ==
  ASSUME NEW b \in Batches, NEW i \in Images
  PROVE  LET f == [NewFile(b, i, "temp") EXCEPT !.intact = FALSE] IN f \in Files /\ ~f.stale
BY DEF Files, NewFile

LEMMA ForgetKeeps ==
  ASSUME IInv, NEW i \in Images, at = "verifying", i \in todo, todo' = todo \ {i}, Forget(i),
         VerifyUnchanged, totalBytes' \in Nat, DiskOK', StaleIsUnused', Serves
  PROVE  Good
<1>1. deduplicated' \in [Images -> Batches \cup {0}] /\ pending' \subseteq Images
  BY DEF Forget, IInv, WorkOK
<1>2. WorkOK' /\ BatchAtWork'
  BY <1>1 DEF VerifyUnchanged, IInv, WorkOK, BatchAtWork
<1>3. BatchesOK'
  BY DEF VerifyUnchanged, Forget, IInv, BatchesOK
<1>4. ResultsServed
  BY NoResults DEF Forget
<1>5. StoredIsThere'
  BY <1>4, ServedStays DEF IInv
<1> QED
  BY <1>2, <1>3, <1>4, <1>5 DEF Good, IInv

(* An image that has its result without being written.                     *)
LEMMA ResultKeeps ==
  ASSUME IInv, NEW i \in Images, at = "verifying", i \in todo, todo' = todo \ {i},
         VerifyUnchanged, UNCHANGED <<deduplicated, pending, totalBytes>>,
         NEW result \in Results, results' = [results EXCEPT ![Running][i] = result],
         result \in Batches =>
           \E f \in disk' : f.kind = "final" /\ Name(f) = <<result, i>> /\ f.intact,
         DiskOK', StaleIsUnused', Serves
  PROVE  Good
<1>1. queue # <<>> /\ Running \in Batches
  BY FirstIsBatch DEF IInv, BatchAtWork
<1> DEFINE b0 == Running
<1> HIDE DEF b0
<1>2. results' = [results EXCEPT ![b0][i] = result] /\ b0 \in Batches
  BY <1>1 DEF b0
<1>3. WorkOK' /\ BatchAtWork'
  BY DEF VerifyUnchanged, IInv, WorkOK, BatchAtWork
<1>4. BatchesOK'
  <2>1. [results[b0] EXCEPT ![i] = result] \in [Images -> Results]
    BY <1>2 DEF IInv, BatchesOK
  <2>2. results' = [results EXCEPT ![b0] = [results[b0] EXCEPT ![i] = result]]
    BY <1>2
  <2>3. results' \in [Batches -> [Images -> Results]]
    BY <1>2, <2>1, <2>2 DEF IInv, BatchesOK
  <2> QED
    BY <2>3 DEF VerifyUnchanged, IInv, BatchesOK
<1>5. ResultsServed
  BY <1>2 DEF IInv, BatchesOK, ResultsServed
<1>6. StoredIsThere'
  BY <1>5, ServedStays DEF IInv
<1> QED
  BY <1>3, <1>4, <1>5, <1>6 DEF Good, IInv

LEMMA KnownIs ==
  ASSUME IInv, NEW i \in Images, NEW f \in KnownFile(i)
  PROVE  /\ f \in disk /\ f \in Files /\ f.kind = "final" /\ Name(f) = <<deduplicated[i], i>>
         /\ f.batch = deduplicated[i] /\ f.batch \in Batches
BY DEF KnownFile, Finals, IInv, DiskOK, Files, Name

LEMMA VerifyNoneKeeps ==
  ASSUME IInv, NEW i \in Images, VerifyNone(i)
  PROVE  Good
<1>1. UNCHANGED <<disk, spoiled, totalBytes>>
  BY DEF VerifyNone, VerifyUnchanged
<1>2. DiskOK' /\ StaleIsUnused' /\ totalBytes' \in Nat
  BY <1>1 DEF IInv, DiskOK, StaleIsUnused, WorkOK
<1> QED
  BY <1>1, <1>2, SameDirectory, ForgetKeeps DEF VerifyNone

LEMMA TouchKeeps ==
  ASSUME IInv, NEW i \in Images, NEW f \in KnownFile(i), UNCHANGED spoiled,
         disk' = (disk \ {f}) \cup {Touched(f)}
  PROVE  DiskOK' /\ StaleIsUnused' /\ Serves
BY KnownIs, TouchedIs DEF IInv, DiskOK, StaleIsUnused, Serves

LEMMA ReuseKeeps ==
  ASSUME IInv, NEW i \in Images, Reuse(i)
  PROVE  Good
<1>1. PICK f \in KnownFile(i) : Reusable(f) /\ disk' = (disk \ {f}) \cup {Touched(f)}
  BY DEF Reuse
<1>2. /\ f \in Files /\ f.kind = "final" /\ Name(f) = <<deduplicated[i], i>> /\ f.intact
      /\ deduplicated[i] \in Batches /\ deduplicated[i] \in Results
  BY <1>1, KnownIs DEF Reusable, Results
<1>3. DiskOK' /\ StaleIsUnused' /\ Serves
  BY <1>1, TouchKeeps DEF Reuse, VerifyUnchanged
<1>4. \E g \in disk' : g.kind = "final" /\ Name(g) = <<deduplicated[i], i>> /\ g.intact
  BY <1>1, <1>2, TouchedIs
<1> QED
  BY <1>2, <1>3, <1>4, ResultKeeps DEF Reuse

LEMMA RemoveKeeps ==
  ASSUME IInv, NEW i \in Images, NEW f \in KnownFile(i), UNCHANGED spoiled, ~Reusable(f),
         \/ disk' = disk \ {f}
         \/ disk' = (disk \ {f}) \cup {[NewFile(f.batch, i, "temp") EXCEPT !.intact = FALSE]}
  PROVE  DiskOK' /\ StaleIsUnused' /\ Serves
<1>1. f \in disk /\ f.batch \in Batches /\ ~f.intact
  BY KnownIs DEF Reusable
<1> DEFINE g == [NewFile(f.batch, i, "temp") EXCEPT !.intact = FALSE]
<1>2. g \in Files /\ ~g.stale
  BY <1>1, TempIs
<1> HIDE DEF g
<1>3. disk' \subseteq disk \cup {g} /\ disk \ {f} \subseteq disk'
  BY DEF g
<1>4. DiskOK' /\ StaleIsUnused'
  BY <1>2, <1>3 DEF IInv, DiskOK, StaleIsUnused
<1>5. Serves
  BY <1>1, <1>3 DEF Serves
<1> QED
  BY <1>4, <1>5

LEMMA RetireKeeps ==
  ASSUME IInv, NEW i \in Images, Retire(i)
  PROVE  Good
<1>1. PICK f \in KnownFile(i) : ~Reusable(f) /\ disk' = disk \ {f}
  BY DEF Retire
<1>2. DiskOK' /\ StaleIsUnused' /\ Serves
  BY <1>1, RemoveKeeps DEF Retire, VerifyUnchanged
<1>3. totalBytes' \in Nat
  <2>1. Size[i] \in Nat /\ totalBytes \in Nat
    BY StoreAssumption DEF IInv, WorkOK
  <2> QED
    BY <2>1 DEF Retire, Less
<1> QED
  BY <1>2, <1>3, ForgetKeeps DEF Retire

LEMMA VerifyFailsKeeps ==
  ASSUME IInv, NEW i \in Images, VerifyFails(i)
  PROVE  Good
<1>1. PICK f \in KnownFile(i) :
        disk' \in {disk} \cup
          (IF Reusable(f) THEN {(disk \ {f}) \cup {Touched(f)}}
           ELSE {disk \ {f},
                 (disk \ {f}) \cup {[NewFile(f.batch, i, "temp") EXCEPT !.intact = FALSE]}})
  BY DEF VerifyFails
<1>2. UNCHANGED spoiled
  BY DEF VerifyFails, VerifyUnchanged
<1>3. DiskOK' /\ StaleIsUnused' /\ Serves
  <2>1. CASE disk' = disk
    BY <1>2, <2>1, SameDirectory DEF IInv, DiskOK, StaleIsUnused
  <2>2. CASE disk' = (disk \ {f}) \cup {Touched(f)}
    BY <1>2, <2>2, TouchKeeps
  <2>3. CASE ~Reusable(f) /\ disk' # disk
    BY <1>1, <1>2, <2>3, RemoveKeeps
  <2> QED
    BY <1>1, <2>1, <2>2, <2>3
<1>4. storage_error \in Results /\ storage_error \notin Batches
  BY NotBatches DEF Results
<1> QED
  BY <1>3, <1>4, ResultKeeps DEF VerifyFails

-----------------------------------------------------------------------------
(* The quota, writing, and the rest of the world.                          *)
LEMMA CheckQuotaKeeps ==
  ASSUME IInv, CheckQuota
  PROVE  Good
<1>1. queue # <<>> /\ at = "verifying" /\ UNCHANGED <<disk, deduplicated, images, spoiled>>
  BY DEF CheckQuota, IInv, BatchAtWork
<1>2. CASE Fits
  <2>1. /\ at' = "writing" /\ todo' = pending
        /\ UNCHANGED <<queue, state, results, pending, totalBytes>>
    BY <1>2 DEF CheckQuota
  <2>2. DiskOK' /\ BatchesOK' /\ WorkOK' /\ BatchAtWork' /\ StaleIsUnused'
    BY <1>1, <2>1 DEF IInv, DiskOK, BatchesOK, WorkOK, BatchAtWork, StaleIsUnused
  <2>3. ResultsServed /\ Serves
    BY <1>1, <2>1, NoResults, SameDirectory
  <2>4. StoredIsThere'
    BY <2>3, ServedStays DEF IInv
  <2> QED
    BY <2>2, <2>3, <2>4 DEF Good, IInv
<1>3. CASE ~Fits
  <2> DEFINE r == WithResult(results[Running], pending, storage_quota_exceeded)
  <2>1. pending \in SUBSET Images
    BY DEF IInv, WorkOK
  <2>2. /\ r \in [Images -> Results]
        /\ \A i \in Images : r[i] \in Batches => r[i] = results[Running][i]
    BY <1>1, <2>1, OtherResults
  <2>3. Return(r)
    BY <1>3 DEF CheckQuota
  <2> HIDE DEF r
  <2> QED
    BY <1>1, <2>2, <2>3, ReturnKeeps
<1> QED
  BY <1>2, <1>3

LEMMA NewFileIs ==
  ASSUME NEW b \in Batches, NEW i \in Images, NEW k \in {"temp", "final"}
  PROVE  LET f == NewFile(b, i, k) IN
           /\ f \in Files /\ ~f.stale /\ f.intact /\ f.kind = k /\ Name(f) = <<b, i>>
BY DEF Files, NewFile, Name

LEMMA GrowKeeps ==
  ASSUME IInv, UNCHANGED spoiled, disk \subseteq disk', NEW g \in Files, ~g.stale,
         disk' \subseteq disk \cup {g}
  PROVE  DiskOK' /\ StaleIsUnused' /\ Serves
BY DEF IInv, DiskOK, StaleIsUnused, Serves

LEMMA WriteKeeps ==
  ASSUME IInv, NEW i \in Images, Write(i)
  PROVE  Good
<1> DEFINE b0 == Running
<1>1. queue # <<>> /\ b0 \in Batches
  BY FirstIsBatch DEF Write, IInv, BatchAtWork
<1>2. /\ at = "writing" /\ i \in todo /\ todo' = todo \ {i}
      /\ UNCHANGED <<queue, state, images, at, pending, spoiled>>
  BY DEF Write
<1>3. \/ /\ disk' = disk \cup {NewFile(b0, i, "final")}
         /\ deduplicated' = [deduplicated EXCEPT ![i] = b0]
         /\ results' = [results EXCEPT ![b0][i] = b0]
         /\ totalBytes' = totalBytes + Size[i]
      \/ /\ disk' \in {disk} \cup {disk \cup {NewFile(b0, i, k)} : k \in {"temp", "final"}}
         /\ results' = [results EXCEPT ![b0][i] = storage_error]
         /\ UNCHANGED <<deduplicated, totalBytes>>
  BY DEF Write
<1> HIDE DEF b0
<1>4. /\ DiskOK' /\ StaleIsUnused' /\ Serves
  <2>1. \E k \in {"temp", "final"} : disk' \in {disk, disk \cup {NewFile(b0, i, k)}}
    BY <1>3
  <2>2. PICK k \in {"temp", "final"} : disk' \in {disk, disk \cup {NewFile(b0, i, k)}}
    BY <2>1
  <2>3. NewFile(b0, i, k) \in Files /\ ~NewFile(b0, i, k).stale
    BY <1>1, NewFileIs
  <2> QED
    BY <1>2, <2>2, <2>3, GrowKeeps
<1>5. WorkOK' /\ BatchAtWork'
  <2>1. Size[i] \in Nat
    BY StoreAssumption
  <2>2. deduplicated' \in [Images -> Batches \cup {0}] /\ totalBytes' \in Nat
    BY <1>1, <1>3, <2>1 DEF IInv, WorkOK
  <2> QED
    BY <1>2, <2>2 DEF IInv, WorkOK, BatchAtWork
<1>6. \E result \in Results :
        /\ results' = [results EXCEPT ![b0][i] = result]
        /\ result \in Batches =>
             \E f \in disk' : f.kind = "final" /\ Name(f) = <<result, i>> /\ f.intact
  <2>1. CASE disk' = disk \cup {NewFile(b0, i, "final")} /\ results' = [results EXCEPT ![b0][i] = b0]
    <3>1. NewFile(b0, i, "final") \in disk'
      BY <2>1
    <3>2. \E f \in disk' : f.kind = "final" /\ Name(f) = <<b0, i>> /\ f.intact
      BY <1>1, <3>1, NewFileIs
    <3> QED
      BY <1>1, <2>1, <3>2 DEF Results
  <2>2. CASE results' = [results EXCEPT ![b0][i] = storage_error]
    BY <2>2, NotBatches DEF Results
  <2> QED
    BY <1>3, <2>1, <2>2
<1>7. PICK result \in Results :
        /\ results' = [results EXCEPT ![b0][i] = result]
        /\ result \in Batches =>
             \E f \in disk' : f.kind = "final" /\ Name(f) = <<result, i>> /\ f.intact
  BY <1>6
<1>8. BatchesOK'
  <2>1. [results[b0] EXCEPT ![i] = result] \in [Images -> Results]
    BY <1>1 DEF IInv, BatchesOK
  <2>2. results' = [results EXCEPT ![b0] = [results[b0] EXCEPT ![i] = result]]
    BY <1>7
  <2>3. results' \in [Batches -> [Images -> Results]]
    BY <1>1, <2>1, <2>2 DEF IInv, BatchesOK
  <2> QED
    BY <1>2, <2>3 DEF IInv, BatchesOK
<1>9. ResultsServed
  BY <1>1, <1>7 DEF IInv, BatchesOK, ResultsServed
<1>10. StoredIsThere'
  BY <1>4, <1>9, ServedStays DEF IInv
<1> QED
  BY <1>4, <1>5, <1>8, <1>9, <1>10 DEF Good, IInv

LEMMA FinishKeeps ==
  ASSUME IInv, Finish
  PROVE  Good
<1>1. /\ queue # <<>> /\ Return(results[Running]) /\ UNCHANGED <<disk, deduplicated, images, spoiled>>
  BY DEF Finish, IInv, BatchAtWork
<1>2. results[Running] \in [Images -> Results]
  BY <1>1, FirstIsBatch DEF IInv, BatchesOK
<1> QED
  BY <1>1, <1>2, ReturnKeeps

LEMMA WorldKeeps ==
  ASSUME IInv, MemoryUnchanged, DiskOK', StaleIsUnused', Serves
  PROVE  Good
<1>1. BatchesOK' /\ WorkOK' /\ BatchAtWork'
  BY DEF MemoryUnchanged, IInv, BatchesOK, WorkOK, BatchAtWork
<1>2. ResultsServed
  BY NoResults DEF MemoryUnchanged
<1>3. StoredIsThere'
  BY <1>2, ServedStays DEF IInv
<1> QED
  BY <1>1, <1>2, <1>3 DEF Good, IInv

LEMMA AgeKeeps ==
  ASSUME IInv, NEW file \in disk, Age(file)
  PROVE  Good
<1> DEFINE g == [file EXCEPT !.stale = TRUE, !.unused = TRUE]
<1>1. /\ g \in Files /\ g.unused /\ g.kind = file.kind /\ g.intact = file.intact
      /\ Name(g) = Name(file)
  BY DEF IInv, DiskOK, Files, Name
<1>2. disk' = (disk \ {file}) \cup {g} /\ UNCHANGED spoiled /\ MemoryUnchanged
  BY DEF Age
<1> HIDE DEF g
<1>3. DiskOK' /\ StaleIsUnused' /\ Serves
  BY <1>1, <1>2 DEF IInv, DiskOK, StaleIsUnused, Serves
<1> QED
  BY <1>2, <1>3, WorldKeeps

LEMMA SpoilKeeps ==
  ASSUME IInv, NEW file \in disk, Spoil(file)
  PROVE  Good
<1> DEFINE g == [file EXCEPT !.intact = FALSE, !.stale = FALSE]
<1>1. g \in Files /\ ~g.stale /\ Name(file) \in Batches \X Images
  BY DEF IInv, DiskOK, Files, Name
<1>2. /\ disk' \subseteq disk \cup {g} /\ disk \ {file} \subseteq disk'
      /\ spoiled' = spoiled \cup {Name(file)} /\ MemoryUnchanged
  BY DEF Spoil
<1> HIDE DEF g
<1>3. DiskOK' /\ StaleIsUnused' /\ Serves
  BY <1>1, <1>2 DEF IInv, DiskOK, StaleIsUnused, Serves
<1> QED
  BY <1>2, <1>3, WorldKeeps

(* The memory of the process is lost, its directory is not.                *)
LEMMA KillKeeps ==
  ASSUME IInv, Kill
  PROVE  Good
<1>1. BatchesOK'
  BY DEF Kill, IInv, BatchesOK
<1>2. WorkOK' /\ BatchAtWork'
  BY DEF Kill, WorkOK, BatchAtWork, None
<1>3. DiskOK' /\ StaleIsUnused' /\ ResultsServed /\ Serves
  BY NoResults, SameDirectory DEF Kill, IInv, DiskOK, StaleIsUnused
<1>4. StoredIsThere'
  BY <1>3, ServedStays DEF IInv
<1> QED
  BY <1>1, <1>2, <1>3, <1>4 DEF Good, IInv

LEMMA Preserved ==
  ASSUME IInv, [Next]_vars
  PROVE  Good
<1>1. CASE UNCHANGED vars
  <2>1. DiskOK' /\ StaleIsUnused' /\ Serves /\ MemoryUnchanged
    BY <1>1, SameDirectory DEF vars, IInv, DiskOK, StaleIsUnused, MemoryUnchanged
  <2> QED
    BY <2>1, WorldKeeps
<1>2. CASE Next
  <2>1. CASE Step
    BY <2>1, StartKeeps, CleanedKeeps, CheckQuotaKeeps, FinishKeeps, CleanKeeps, VerifyNoneKeeps,
       ReuseKeeps, RetireKeeps, VerifyFailsKeeps, WriteKeeps DEF Step
  <2>2. CASE \E b \in Batches : \E s \in SUBSET Images \ {{}} : Submit(b, s)
    BY <2>2, SubmitKeeps
  <2> QED
    BY <1>2, <2>1, <2>2, AgeKeeps, SpoilKeeps, KillKeeps DEF Next
<1> QED
  BY <1>1, <1>2

-----------------------------------------------------------------------------
LEMMA Invariance == Spec => []IInv
<1>1. IInv /\ [Next]_vars => IInv'
  BY Preserved DEF Good
<1> QED
  BY Initially, <1>1, PTL DEF Spec

(* A path that was handed out leads to its image, unless somebody else     *)
(* touched the file or nobody asked for the image for a ttl                *)
(* (StoredIsThere).                                                        *)
THEOREM StoredStays == Spec => []StoredIsThere
<1>1. IInv => StoredIsThere
  BY DEF IInv
<1> QED
  BY Invariance, <1>1, PTL

(* A batch reports a path only while its file holds the image              *)
(* (ReportsIntact).                                                        *)
THEOREM ReportsAreIntact == Spec => ReportsIntact
<1>1. IInv /\ [Next]_vars =>
        [\A b \in Batches, i \in Images :
           results'[b][i] \in Batches /\ results[b][i] = 0 =>
             \E f \in disk' : f.kind = "final" /\ Name(f) = <<results'[b][i], i>> /\ f.intact]_vars
  BY Preserved, Reported, NotBatches DEF Good
<1> QED
  BY Invariance, <1>1, PTL DEF Spec, ReportsIntact

-----------------------------------------------------------------------------
(* The quota.  What a set of files or images takes is a sum.               *)
Weight == [f \in Files |-> Size[f.image]]

LEMMA Sizes ==
  /\ \A i \in Images : Size[i] \in Nat
  /\ \A f \in Files : f.image \in Images /\ Weight[f] = Size[f.image] /\ Weight[f] \in Nat
BY StoreAssumption DEF Files, Weight

(* The folds of the model, unfolded.                                       *)
LEMMA BytesAre ==
  ASSUME NEW s \in SUBSET Images, IsFiniteSet(s)
  PROVE  Bytes(s) = Total(Size, s)
<1> DEFINE Folds(g) == g = [t \in SUBSET s |-> IF t = {} THEN 0 ELSE
                          Size[CHOOSE x \in t : TRUE] + g[t \ {CHOOSE x \in t : TRUE}]]
<1>1. Bytes(s) = (CHOOSE g : Folds(g))[s]
  BY DEF Bytes, MapThenSumSet, MapThenFoldSet
<1>2. \A x \in s : Size[x] \in Nat
  BY Sizes
<1>3. \E g : Folds(g)
  <2>1. PICK g : Unfolds(g, Size, s)
    BY <1>2, SumExists, AddsUnfolds
  <2> DEFINE h == [t \in SUBSET s |-> g[t]]
  <2>2. \A t \in SUBSET s : t # {} => t \ {CHOOSE x \in t : TRUE} \in SUBSET s
    OBVIOUS
  <2>3. ASSUME NEW t \in SUBSET s, t # {}
        PROVE  h[t] = Size[CHOOSE x \in t : TRUE] + h[t \ {CHOOSE x \in t : TRUE}]
    BY <2>1, <2>2, <2>3 DEF Unfolds, Pick
  <2>4. h[{}] = 0
    BY <2>1 DEF Unfolds
  <2>5. Folds(h)
    BY <2>3, <2>4
  <2> QED
    BY <2>5
<1> DEFINE fold == CHOOSE g : Folds(g)
<1>4. Folds(fold)
  <2> HIDE DEF Folds
  <2> QED
    BY <1>3
<1>5. Unfolds(fold, Size, s)
  <2> HIDE DEF fold
  <2> QED
    BY <1>4 DEF Unfolds, Pick
<1>6. Bytes(s) = fold[s]
  BY <1>1
<1> HIDE DEF fold
<1> QED
  BY <1>2, <1>5, <1>6, TotalIs

LEMMA StoredIs ==
  ASSUME NEW s \in SUBSET Files, IsFiniteSet(s)
  PROVE  Stored(s) = Total(Weight, s)
<1> DEFINE Folds(g) == g = [t \in SUBSET s |-> IF t = {} THEN 0 ELSE
                          Size[(CHOOSE x \in t : TRUE).image] + g[t \ {CHOOSE x \in t : TRUE}]]
<1>1. Stored(s) = (CHOOSE g : Folds(g))[s]
  BY DEF Stored, MapThenSumSet, MapThenFoldSet
<1>2. \A x \in s : Weight[x] \in Nat /\ Weight[x] = Size[x.image]
  BY Sizes
<1>3. \A t \in SUBSET s : t # {} => Weight[Pick(t)] = Size[(CHOOSE x \in t : TRUE).image]
  BY <1>2 DEF Pick
<1>4. \E g : Folds(g)
  <2>1. PICK g : Unfolds(g, Weight, s)
    BY <1>2, SumExists, AddsUnfolds
  <2> DEFINE h == [t \in SUBSET s |-> g[t]]
  <2>2. \A t \in SUBSET s : t # {} => t \ {CHOOSE x \in t : TRUE} \in SUBSET s
    OBVIOUS
  <2>3. ASSUME NEW t \in SUBSET s, t # {}
        PROVE  h[t] = Size[(CHOOSE x \in t : TRUE).image] + h[t \ {CHOOSE x \in t : TRUE}]
    <3>1. g[t] = Weight[Pick(t)] + g[t \ {Pick(t)}]
      BY <2>1, <2>3 DEF Unfolds
    <3>2. t \ {Pick(t)} \in SUBSET s
      OBVIOUS
    <3>3. h[t] = Weight[Pick(t)] + h[t \ {Pick(t)}]
      BY <3>1, <3>2
    <3> HIDE DEF h
    <3> QED
      BY <1>3, <2>3, <3>3 DEF Pick
  <2>4. h[{}] = 0
    BY <2>1 DEF Unfolds
  <2>5. Folds(h)
    BY <2>3, <2>4
  <2> QED
    BY <2>5
<1> DEFINE fold == CHOOSE g : Folds(g)
<1>5. Folds(fold)
  <2> HIDE DEF Folds
  <2> QED
    BY <1>4
<1>6. Unfolds(fold, Weight, s)
  <2> HIDE DEF fold
  <2>1. fold[{}] = 0
    BY <1>5
  <2>2. ASSUME NEW t \in SUBSET s, t # {} PROVE fold[t] = Weight[Pick(t)] + fold[t \ {Pick(t)}]
    <3>1. fold[t] = Size[(CHOOSE x \in t : TRUE).image] + fold[t \ {CHOOSE x \in t : TRUE}]
      BY <1>5, <2>2
    <3> QED
      BY <1>3, <2>2, <3>1 DEF Pick
  <2> QED
    BY <2>1, <2>2 DEF Unfolds
<1>7. Stored(s) = fold[s]
  BY <1>1
<1> HIDE DEF fold
<1> QED
  BY <1>2, <1>6, <1>7, TotalIs

LEMMA StoredNat ==
  ASSUME NEW s \in SUBSET Files, IsFiniteSet(s)
  PROVE  Stored(s) \in Nat /\ Stored({}) = 0
<1>1. \A f \in s : Weight[f] \in Nat
  BY Sizes
<1>2. IsFiniteSet({}) /\ {} \in SUBSET Files
  BY FS_EmptySet
<1> QED
  BY <1>1, <1>2, StoredIs, TotalNat

LEMMA StoredMore ==
  ASSUME NEW s \in SUBSET Files, IsFiniteSet(s), NEW f \in Files
  PROVE  /\ Stored(s \cup {f}) \in Nat /\ IsFiniteSet(s \cup {f})
         /\ Stored(s \cup {f}) <= Stored(s) + Size[f.image]
<1>1. \A g \in s \cup {f} : Weight[g] \in Nat
  BY Sizes
<1>2. IsFiniteSet(s \cup {f}) /\ s \cup {f} \in SUBSET Files
  BY FS_AddElement
<1>3. Stored(s) = Total(Weight, s) /\ Stored(s) \in Nat /\ Stored(s \cup {f}) \in Nat
  BY <1>2, StoredIs, StoredNat
<1>4. Stored(s \cup {f}) = Total(Weight, s \cup {f})
  BY <1>2, StoredIs
<1>5. Weight[f] = Size[f.image] /\ Size[f.image] \in Nat
  BY Sizes
<1>6. CASE f \in s
  <2>1. s \cup {f} = s
    BY <1>6
  <2>2. Stored(s \cup {f}) = Stored(s)
    BY <2>1
  <2> QED
    BY <1>2, <1>3, <1>5, <2>2
<1>7. CASE f \notin s
  <2>1. Total(Weight, s \cup {f}) = Total(Weight, s) + Weight[f]
    BY <1>1, <1>7, TotalInserted
  <2> QED
    BY <1>2, <1>3, <1>4, <1>5, <2>1
<1> QED
  BY <1>6, <1>7

LEMMA StoredLess ==
  ASSUME NEW s \in SUBSET Files, IsFiniteSet(s), NEW t \in SUBSET s
  PROVE  Stored(t) <= Stored(s) /\ Stored(t) \in Nat /\ IsFiniteSet(t)
<1>1. \A g \in s : Weight[g] \in Nat
  BY Sizes
<1>2. IsFiniteSet(t) /\ t \in SUBSET Files
  BY FS_Subset
<1>3. Stored(s) = Total(Weight, s) /\ Stored(t) = Total(Weight, t)
  BY <1>2, StoredIs
<1>4. Total(Weight, t) <= Total(Weight, s)
  BY <1>1, TotalMonotone
<1> QED
  BY <1>2, <1>3, <1>4, StoredNat

LEMMA StoredRemoved ==
  ASSUME NEW s \in SUBSET Files, IsFiniteSet(s), NEW f \in s
  PROVE  Stored(s \ {f}) + Size[f.image] = Stored(s) /\ Stored(s \ {f}) \in Nat
<1>1. \A g \in s : Weight[g] \in Nat
  BY Sizes
<1>2. IsFiniteSet(s \ {f}) /\ s \ {f} \in SUBSET Files
  BY FS_RemoveElement
<1>3. Stored(s) = Total(Weight, s) /\ Stored(s \ {f}) = Total(Weight, s \ {f})
  BY <1>2, StoredIs
<1>4. Total(Weight, s) = Total(Weight, s \ {f}) + Weight[f] /\ Weight[f] = Size[f.image]
  BY <1>1, TotalRemoved, Sizes
<1> QED
  BY <1>2, <1>3, <1>4, StoredNat

LEMMA BytesRemoved ==
  ASSUME NEW s \in SUBSET Images, IsFiniteSet(s), NEW i \in s
  PROVE  /\ Bytes(s) = Bytes(s \ {i}) + Size[i]
         /\ Bytes(s \ {i}) \in Nat /\ IsFiniteSet(s \ {i})
<1>1. \A j \in s : Size[j] \in Nat
  BY Sizes
<1>2. IsFiniteSet(s \ {i}) /\ s \ {i} \in SUBSET Images
  BY FS_RemoveElement
<1>3. Bytes(s) = Total(Size, s) /\ Bytes(s \ {i}) = Total(Size, s \ {i})
  BY <1>2, BytesAre
<1> QED
  BY <1>1, <1>2, <1>3, TotalRemoved

LEMMA BytesNat ==
  ASSUME NEW s \in SUBSET Images, IsFiniteSet(s)
  PROVE  Bytes(s) \in Nat
BY Sizes, BytesAre, TotalNat

-----------------------------------------------------------------------------
(* The files of a kind that count, but for those of some names.            *)
But(files, names) == {f \in files : f.kind = "final" /\ Name(f) \notin names}

(* What is still to clean up.                                              *)
Uncounted == {Name(f) : f \in {g \in todo : g.kind = "final"}}

Finite ==
  /\ IsFiniteSet(disk) /\ IsFiniteSet(pending)
  /\ at = "writing" => IsFiniteSet(todo)

(* The batches of the queue wait, but for the first one while it is at     *)
(* work; no other batch is running.                                        *)
Turns ==
  /\ \A n \in 1..Len(queue) :
       state[queue[n]] = IF n = 1 /\ at # "idle" THEN "running" ELSE "queued"
  /\ \A n, m \in 1..Len(queue) : queue[n] = queue[m] => n = m
  /\ \A b \in Batches : state[b] = "running" => at # "idle" /\ b = Running

(* A batch makes files once it is writing, one for each image.             *)
OfBatches ==
  \A f \in disk : f.kind = "final" =>
    /\ state[f.batch] \notin {"idle", "queued"}
    /\ state[f.batch] = "running" => at = "writing" /\ f.image \notin todo

OneEach ==
  \A f, g \in disk : f.kind = "final" /\ g.kind = "final" /\ Name(f) = Name(g) => f = g

(* The running batch knows of everything that is stored, or of everything  *)
(* it has come to, and leaves room for what it has to write.               *)
Measured ==
  /\ Stored(But(disk, {})) <= MaxTotalBytes
  /\ at = "cleaning" => Stored(But(disk, Uncounted)) <= totalBytes
  /\ at = "verifying" => Stored(But(disk, {})) <= totalBytes
  /\ at = "writing" => Stored(But(disk, {})) + Bytes(todo) <= MaxTotalBytes

QInv == Finite /\ Turns /\ OfBatches /\ OneEach /\ Measured

LEMMA ButFinite ==
  ASSUME NEW files \in SUBSET Files, IsFiniteSet(files), NEW names
  PROVE  /\ IsFiniteSet(But(files, names)) /\ But(files, names) \in SUBSET Files
         /\ Stored(But(files, names)) \in Nat
BY FS_Subset, StoredNat DEF But

LEMMA QuotaInitially == Init => QInv
<1> SUFFICES ASSUME Init PROVE QInv
  OBVIOUS
<1>1. disk = {} /\ pending = {} /\ at = "idle" /\ queue = <<>>
  BY DEF Init
<1>2. IsFiniteSet({}) /\ But({}, {}) = {}
  BY FS_EmptySet DEF But
<1>3. Stored({}) = 0 /\ MaxTotalBytes \in Nat
  BY <1>2, StoredNat, StoreAssumption
<1>4. Measured
  <2>1. Stored(But(disk, {})) = 0
    BY <1>1, <1>2, <1>3
  <2> QED
    BY <1>1, <1>3, <2>1 DEF Measured
<1>5. Turns
  <2>1. \A b \in Batches : state[b] = "idle"
    BY DEF Init
  <2> QED
    BY <1>1, <2>1 DEF Turns
<1> QED
  BY <1>1, <1>2, <1>4, <1>5 DEF QInv, Finite, OfBatches, OneEach

-----------------------------------------------------------------------------
(* A step takes a file away, or replaces one, by one of its name if the    *)
(* new one counts.                                                         *)
Shrunk ==
  \/ disk' = disk
  \/ \E f \in disk : disk' = disk \ {f}
  \/ \E f \in disk, g \in Files :
       /\ disk' = (disk \ {f}) \cup {g}
       /\ g.kind = "final" => f.kind = "final" /\ Name(g) = Name(f)

LEMMA ShrunkFinite ==
  ASSUME DiskOK, IsFiniteSet(disk), Shrunk
  PROVE  IsFiniteSet(disk') /\ disk' \in SUBSET Files
<1>1. CASE disk' = disk
  BY <1>1 DEF DiskOK
<1>2. CASE \E f \in disk : disk' = disk \ {f}
  BY <1>2, FS_RemoveElement DEF DiskOK
<1>3. ASSUME NEW f \in disk, NEW g \in Files, disk' = (disk \ {f}) \cup {g}
      PROVE  IsFiniteSet(disk') /\ disk' \in SUBSET Files
  <2>1. IsFiniteSet(disk \ {f})
    BY FS_RemoveElement
  <2>2. IsFiniteSet((disk \ {f}) \cup {g})
    BY <2>1, FS_AddElement
  <2> QED
    BY <1>3, <2>2 DEF DiskOK
<1> QED
  BY <1>1, <1>2, <1>3 DEF Shrunk

LEMMA ShrunkCounts ==
  ASSUME DiskOK, IsFiniteSet(disk), Shrunk, NEW names
  PROVE  Stored(But(disk', names)) <= Stored(But(disk, names))
<1> DEFINE s == But(disk, names)
           t == But(disk', names)
<1>1. IsFiniteSet(s) /\ s \in SUBSET Files /\ Stored(s) \in Nat
  BY ButFinite DEF DiskOK
<1>2. ASSUME t \in SUBSET s PROVE Stored(t) <= Stored(s)
  <2> HIDE DEF s, t
  <2> QED
    BY <1>1, <1>2, StoredLess
<1>3. CASE disk' \subseteq disk
  <2>1. t \in SUBSET s
    BY <1>3 DEF But
  <2> QED
    BY <1>2, <2>1
<1>4. ASSUME NEW f \in disk, NEW g \in Files, disk' = (disk \ {f}) \cup {g},
             g.kind = "final" => f.kind = "final" /\ Name(g) = Name(f)
      PROVE  Stored(t) <= Stored(s)
  <2>1. CASE g \notin t \/ g \in s
    <3>1. t \in SUBSET s
      BY <1>4, <2>1 DEF But
    <3> QED
      BY <1>2, <3>1
  <2>2. CASE g \in t /\ g \notin s
    <3>1. f \in s /\ f \in Files /\ t = (s \ {f}) \cup {g}
      BY <1>4, <2>2 DEF But, DiskOK
    <3>2. g.image = f.image
      BY <1>4, <2>2 DEF But, Name
    <3> HIDE DEF s, t
    <3>3. Stored(s \ {f}) + Size[f.image] = Stored(s) /\ Stored(s \ {f}) \in Nat
      BY <1>1, <3>1, StoredRemoved
    <3>4. s \ {f} \in SUBSET Files /\ IsFiniteSet(s \ {f})
      BY <1>1, FS_RemoveElement
    <3>5. Stored((s \ {f}) \cup {g}) <= Stored(s \ {f}) + Size[g.image]
      BY <3>4, StoredMore
    <3> QED
      BY <3>1, <3>2, <3>3, <3>5
  <2> QED
    BY <2>1, <2>2
<1> QED
  BY <1>3, <1>4 DEF Shrunk

(* What counts afterwards counted before, by another time stamp maybe.     *)
LEMMA ShrunkNames ==
  ASSUME OneEach, Shrunk
  PROVE  /\ OneEach'
         /\ \A g \in disk' : g.kind = "final" =>
              \E f \in disk : f.kind = "final" /\ f.batch = g.batch /\ f.image = g.image
<1>1. CASE disk' \subseteq disk
  BY <1>1 DEF OneEach
<1>2. ASSUME NEW f \in disk, NEW g \in Files, disk' = (disk \ {f}) \cup {g},
             g.kind = "final" => f.kind = "final" /\ Name(g) = Name(f)
      PROVE  /\ OneEach'
             /\ \A h \in disk' : h.kind = "final" =>
                  \E e \in disk : e.kind = "final" /\ e.batch = h.batch /\ e.image = h.image
  <2>1. g.kind = "final" => f.batch = g.batch /\ f.image = g.image
    BY <1>2 DEF Name
  <2> QED
    BY <1>2, <2>1 DEF OneEach, Name
<1> QED
  BY <1>1, <1>2 DEF Shrunk

(* A step like that, of a batch that goes on with what it did.             *)
LEMMA ShrunkKeeps ==
  ASSUME IInv, QInv, Shrunk, UNCHANGED <<queue, state, at>>,
         todo' \subseteq todo, IsFiniteSet(pending'),
         at = "cleaning" => Stored(But(disk', Uncounted')) <= totalBytes',
         at = "verifying" => Stored(But(disk', {})) <= totalBytes',
         at = "writing" => UNCHANGED todo
  PROVE  QInv'
<1>1. DiskOK /\ IsFiniteSet(disk) /\ OneEach
  BY DEF IInv, QInv, Finite
<1>2. IsFiniteSet(disk') /\ disk' \in SUBSET Files
  BY <1>1, ShrunkFinite
<1>3. Finite'
  BY <1>2 DEF QInv, Finite
<1>4. OneEach' /\ \A g \in disk' : g.kind = "final" =>
         \E f \in disk : f.kind = "final" /\ f.batch = g.batch /\ f.image = g.image
  BY <1>1, ShrunkNames
<1>5. OfBatches'
  BY <1>4 DEF QInv, OfBatches
<1>6. Turns'
  BY DEF QInv, Turns, Running
<1>7. Stored(But(disk', {})) <= Stored(But(disk, {}))
  BY <1>1, ShrunkCounts
<1>8. Stored(But(disk', {})) \in Nat /\ Stored(But(disk, {})) \in Nat
  BY <1>1, <1>2, ButFinite DEF DiskOK
<1>9. MaxTotalBytes \in Nat
  BY StoreAssumption
<1>10. at = "writing" => Bytes(todo) \in Nat
  BY BytesNat DEF QInv, Finite, IInv, WorkOK
<1>11. Stored(But(disk', {})) <= MaxTotalBytes
  BY <1>7, <1>8, <1>9 DEF QInv, Measured
<1>12. at = "writing" => Stored(But(disk', {})) + Bytes(todo') <= MaxTotalBytes
  <2>1. ASSUME at = "writing" PROVE Stored(But(disk', {})) + Bytes(todo') <= MaxTotalBytes
    <3>1. todo' = todo /\ Stored(But(disk, {})) + Bytes(todo) <= MaxTotalBytes /\ Bytes(todo) \in Nat
      BY <1>10, <2>1 DEF QInv, Measured
    <3>2. Bytes(todo') = Bytes(todo)
      BY <3>1
    <3> QED
      BY <1>7, <1>8, <1>9, <3>1, <3>2
  <2> QED
    BY <2>1
<1>13. Measured'
  BY <1>11, <1>12 DEF Measured
<1> QED
  BY <1>3, <1>4, <1>5, <1>6, <1>13 DEF QInv

-----------------------------------------------------------------------------
(* The turns of the batches.                                               *)
BatchStates == {"idle", "queued", "running", "done", "lost"}

LEMMA NoneRuns ==
  ASSUME IInv, QInv, at # "writing"
  PROVE  \A f \in disk : f.kind = "final" => state[f.batch] \notin {"idle", "queued", "running"}
BY DEF QInv, OfBatches

LEMMA ReturnQuota ==
  ASSUME IInv, QInv, queue # <<>>, NEW r, Return(r), UNCHANGED disk
  PROVE  QInv'
<1>1. Running \in Batches /\ Running = queue[1] /\ 1 \in 1..Len(queue)
  BY FirstIsBatch DEF Running, IInv, BatchesOK
<1>2. /\ state' = [state EXCEPT ![Running] = "done"] /\ state \in [Batches -> BatchStates]
      /\ queue' = Tail(queue) /\ queue \in Seq(Batches)
      /\ at' = "idle" /\ pending' = {}
  BY DEF Return, IInv, BatchesOK, BatchStates
<1> DEFINE b0 == Running
<1>3. b0 \in Batches /\ b0 = queue[1] /\ state' = [state EXCEPT ![b0] = "done"]
  BY <1>1, <1>2
<1>4. \A b \in Batches : state[b] = "running" => b = b0
  BY DEF QInv, Turns
<1> HIDE DEF b0
<1>5. Finite'
  BY <1>2, FS_EmptySet DEF QInv, Finite
<1>6. OfBatches'
  <2>1. ASSUME NEW f \in disk', f.kind = "final"
        PROVE  state'[f.batch] \notin {"idle", "queued", "running"}
    <3>1. state[f.batch] \notin {"idle", "queued"} /\ f.batch \in Batches
      BY <2>1 DEF QInv, OfBatches, IInv, DiskOK, Files
    <3>2. CASE f.batch = b0
      BY <1>2, <1>3, <3>2
    <3>3. CASE f.batch # b0
      BY <1>2, <1>3, <1>4, <3>1, <3>3
    <3> QED
      BY <3>2, <3>3
  <2> QED
    BY <2>1 DEF OfBatches
<1>7. Turns'
  <2>1. ASSUME NEW n \in 1..Len(queue')
        PROVE  /\ queue'[n] = queue[n + 1] /\ n + 1 \in 1..Len(queue) /\ queue[n + 1] \in Batches
               /\ state'[queue'[n]] = "queued"
    <3>1. queue'[n] = queue[n + 1] /\ n + 1 \in 1..Len(queue) /\ n + 1 # 1
      BY <1>2, <2>1
    <3>2. queue[n + 1] \in Batches
      BY <1>2, <3>1
    <3>3. state[queue[n + 1]] = "queued" /\ queue[n + 1] # queue[1]
      BY <1>1, <3>1 DEF QInv, Turns
    <3> QED
      BY <1>2, <1>3, <3>1, <3>2, <3>3
  <2>2. ASSUME NEW n \in 1..Len(queue'), NEW m \in 1..Len(queue'), queue'[n] = queue'[m]
        PROVE  n = m
    <3>1. queue[n + 1] = queue[m + 1] /\ n + 1 \in 1..Len(queue) /\ m + 1 \in 1..Len(queue)
      BY <2>1, <2>2
    <3>2. n + 1 = m + 1
      BY <3>1 DEF QInv, Turns
    <3> QED
      BY <3>2
  <2>3. \A b \in Batches : state'[b] # "running"
    BY <1>2, <1>3, <1>4
  <2> QED
    BY <1>2, <2>1, <2>2, <2>3 DEF Turns
<1>8. Measured'
  BY <1>2 DEF QInv, Measured
<1>9. OneEach'
  BY DEF QInv, OneEach
<1> QED
  BY <1>5, <1>6, <1>7, <1>8, <1>9 DEF QInv

LEMMA GiveUpQuota ==
  ASSUME IInv, QInv, queue # <<>>, GiveUp, UNCHANGED disk
  PROVE  QInv'
BY ReturnQuota DEF GiveUp

LEMMA SubmitQuota ==
  ASSUME IInv, QInv, NEW b \in Batches, NEW s \in SUBSET Images, Submit(b, s)
  PROVE  QInv'
<1>1. /\ state[b] = "idle" /\ state' = [state EXCEPT ![b] = "queued"]
      /\ state \in [Batches -> BatchStates] /\ queue \in Seq(Batches)
      /\ queue' = Append(queue, b) /\ UNCHANGED <<disk, at, todo, pending, totalBytes>>
  BY DEF Submit, IInv, BatchesOK, BatchStates
<1>2. Finite' /\ OneEach' /\ Measured'
  BY <1>1 DEF QInv, Finite, OneEach, Measured, Uncounted
<1>3. OfBatches'
  BY <1>1 DEF QInv, OfBatches, IInv, DiskOK, Files
<1>4. Turns'
  <2>1. ASSUME NEW n \in 1..Len(queue)
        PROVE  /\ queue'[n] = queue[n] /\ queue[n] \in Batches /\ queue[n] # b
               /\ state'[queue[n]] = state[queue[n]]
    <3>1. queue'[n] = queue[n] /\ queue[n] \in Batches
      BY <1>1
    <3>2. queue[n] # b
      BY <1>1 DEF QInv, Turns
    <3> QED
      BY <1>1, <3>1, <3>2
  <2>2. Len(queue') = Len(queue) + 1 /\ queue'[Len(queue) + 1] = b /\ Len(queue) \in Nat
    BY <1>1
  <2>3. \A n \in 1..Len(queue') : n \in 1..Len(queue) \/ n = Len(queue) + 1
    BY <2>2
  <2>4. ASSUME NEW n \in 1..Len(queue')
        PROVE  state'[queue'[n]] = IF n = 1 /\ at' # "idle" THEN "running" ELSE "queued"
    <3>1. CASE n \in 1..Len(queue)
      <4>1. state[queue[n]] = IF n = 1 /\ at # "idle" THEN "running" ELSE "queued"
        BY <3>1 DEF QInv, Turns
      <4> QED
        BY <1>1, <2>1, <3>1, <4>1
    <3>2. CASE n = Len(queue) + 1
      <4>1. state'[queue'[n]] = "queued"
        BY <1>1, <2>2, <3>2
      <4>2. n = 1 => queue = <<>>
        BY <1>1, <2>2, <3>2
      <4>3. n = 1 => at = "idle"
        BY <4>2 DEF IInv, BatchAtWork
      <4> QED
        BY <1>1, <4>1, <4>3
    <3> QED
      BY <2>3, <3>1, <3>2
  <2>5. ASSUME NEW n \in 1..Len(queue'), NEW m \in 1..Len(queue'), queue'[n] = queue'[m]
        PROVE  n = m
    <3>1. CASE n \in 1..Len(queue) /\ m \in 1..Len(queue)
      <4>1. queue[n] = queue[m]
        BY <2>1, <2>5, <3>1
      <4> QED
        BY <3>1, <4>1 DEF QInv, Turns
    <3>2. CASE n \notin 1..Len(queue) \/ m \notin 1..Len(queue)
      BY <2>1, <2>2, <2>3, <2>5, <3>2
    <3> QED
      BY <3>1, <3>2
  <2>6. ASSUME NEW c \in Batches, state'[c] = "running" PROVE at' # "idle" /\ c = Running'
    <3>1. state[c] = "running"
      BY <1>1, <2>6
    <3>2. at # "idle" /\ c = Running /\ queue # <<>>
      BY <3>1 DEF QInv, Turns, IInv, BatchAtWork
    <3>3. Running' = Running
      BY <1>1, <3>2 DEF Running
    <3> QED
      BY <1>1, <3>2, <3>3
  <2> QED
    BY <2>4, <2>5, <2>6 DEF Turns
<1> QED
  BY <1>2, <1>3, <1>4 DEF QInv

LEMMA StartQuota ==
  ASSUME IInv, QInv, Start
  PROVE  QInv'
<1>1. /\ queue # <<>> /\ at = "idle" /\ Running \in Batches /\ Running = queue[1]
      /\ UNCHANGED disk /\ 1 \in 1..Len(queue)
  BY FirstIsBatch DEF Start, Running, IInv, BatchesOK
<1>2. CASE GiveUp
  BY <1>1, <1>2, GiveUpQuota
<1>3. CASE /\ at' = "cleaning" /\ todo' = disk
           /\ state' = [state EXCEPT ![Running] = "running"]
           /\ UNCHANGED <<queue, results, pending, totalBytes>>
  <2> DEFINE b0 == Running
  <2>1. /\ b0 \in Batches /\ b0 = queue[1] /\ state' = [state EXCEPT ![b0] = "running"]
        /\ state \in [Batches -> BatchStates] /\ queue \in Seq(Batches) /\ Running' = b0
    BY <1>1, <1>3 DEF Running, IInv, BatchesOK, BatchStates
  <2> HIDE DEF b0
  <2>2. Finite' /\ OneEach'
    BY <1>1, <1>3 DEF QInv, Finite, OneEach
  <2>3. state[b0] = "queued"
    BY <1>1, <2>1 DEF QInv, Turns
  <2>4. OfBatches'
    <3>1. \A f \in disk : f.kind = "final" =>
            f.batch \in Batches /\ state[f.batch] \notin {"idle", "queued", "running"}
      BY <1>1, NoneRuns DEF IInv, DiskOK, Files
    <3> QED
      BY <1>1, <2>1, <2>3, <3>1 DEF OfBatches
  <2>5. Turns'
    <3>1. ASSUME NEW n \in 1..Len(queue)
          PROVE  state'[queue[n]] = IF n = 1 THEN "running" ELSE "queued"
      <4>1. queue[n] \in Batches /\ (n # 1 => queue[n] # b0) /\ state[queue[n]] = "queued"
        BY <1>1, <2>1 DEF QInv, Turns
      <4> QED
        BY <2>1, <4>1
    <3>2. \A b \in Batches : state'[b] = "running" => b = b0
      BY <1>1, <2>1 DEF QInv, Turns
    <3> QED
      BY <1>1, <1>3, <2>1, <3>1, <3>2 DEF QInv, Turns
  <2>6. Measured'
    <3>1. But(disk', Uncounted') = {}
      BY <1>1, <1>3 DEF But, Uncounted
    <3>2. {} \in SUBSET Files /\ IsFiniteSet({}) /\ totalBytes' \in Nat
      BY <1>3, FS_EmptySet DEF IInv, WorkOK
    <3>3. Stored(But(disk', Uncounted')) <= totalBytes'
      BY <3>1, <3>2, StoredNat
    <3> QED
      BY <1>1, <1>3, <3>3 DEF QInv, Measured
  <2> QED
    BY <2>2, <2>4, <2>5, <2>6 DEF QInv
<1> QED
  BY <1>2, <1>3 DEF Start

-----------------------------------------------------------------------------
(* Cleaning up and verifying.                                              *)
LEMMA DiskIs ==
  ASSUME IInv, QInv
  PROVE  disk \in SUBSET Files /\ IsFiniteSet(disk) /\ DiskOK /\ OneEach /\ IsFiniteSet(pending)
BY DEF IInv, DiskOK, QInv, Finite

LEMMA CleanQuota ==
  ASSUME IInv, QInv, NEW file \in Files, Clean(file)
  PROVE  QInv'
<1>1. at = "cleaning" /\ file \in todo /\ queue # <<>>
  BY DEF Clean, IInv, BatchAtWork
<1>2. CASE GiveUp /\ UNCHANGED <<disk, deduplicated, spoiled>>
  BY <1>1, <1>2, GiveUpQuota
<1>3. CASE ~(GiveUp /\ UNCHANGED <<disk, deduplicated, spoiled>>)
  <2>1. PICK f \in Current(file) :
             /\ todo' = todo \ {file}
             /\ \/ Expired(f) /\ disk' = disk \ {f} /\ UNCHANGED totalBytes
                \/ /\ totalBytes' = totalBytes + IF f.kind = "final" THEN Size[f.image] ELSE 0
                   /\ UNCHANGED disk
             /\ UNCHANGED <<queue, state, results, at, pending>>
    BY <1>3 DEF Clean
  <2>2. f \in disk /\ f \in Files /\ Name(f) = Name(file) /\ f.kind = file.kind
    BY DiskIs DEF Current
  <2>3. Shrunk
    BY <2>1, <2>2 DEF Shrunk
  <2>4. Stored(But(disk, Uncounted)) <= totalBytes /\ totalBytes \in Nat /\ totalBytes' \in Nat
    <3>1. Size[f.image] \in Nat
      BY <2>2, Sizes
    <3>2. Stored(But(disk, Uncounted)) <= totalBytes /\ totalBytes \in Nat
      BY <1>1 DEF QInv, Measured, IInv, WorkOK
    <3> QED
      BY <2>1, <3>1, <3>2
  <2> DEFINE s == But(disk, Uncounted)
             t == But(disk', Uncounted')
  <2>5. s \in SUBSET Files /\ IsFiniteSet(s) /\ Stored(s) \in Nat
    BY DiskIs, ButFinite
  <2>6. ASSUME NEW h \in t PROVE h \in s \/ (h = f /\ f.kind = "final")
    <3>1. h \in disk /\ h.kind = "final" /\ Name(h) \notin Uncounted'
      BY <2>1 DEF But
    <3>2. CASE Name(h) \in Uncounted
      <4>1. PICK g \in todo : g.kind = "final" /\ Name(g) = Name(h)
        BY <3>2 DEF Uncounted
      <4>2. g = file
        BY <2>1, <3>1, <4>1 DEF Uncounted
      <4> QED
        BY <2>2, <3>1, <4>1, <4>2, DiskIs DEF OneEach
    <3>3. CASE Name(h) \notin Uncounted
      BY <3>1, <3>3 DEF But
    <3> QED
      BY <3>2, <3>3
  <2>7. CASE Expired(f) /\ disk' = disk \ {f} /\ UNCHANGED totalBytes
    <3>1. t \in SUBSET s
      BY <2>6, <2>7 DEF But
    <3> HIDE DEF s, t
    <3>2. Stored(t) <= Stored(s) /\ Stored(t) \in Nat
      BY <2>5, <3>1, StoredLess
    <3>3. Stored(t) <= totalBytes'
      BY <2>4, <2>5, <2>7, <3>2 DEF s
    <3> QED
      BY <1>1, <2>1, <2>3, <3>3, DiskIs, ShrunkKeeps DEF t
  <2>8. CASE /\ totalBytes' = totalBytes + IF f.kind = "final" THEN Size[f.image] ELSE 0
             /\ UNCHANGED disk
    <3>1. Stored(t) <= totalBytes'
      <4>1. CASE f.kind = "final"
        <5>1. t \in SUBSET (s \cup {f})
          BY <2>6
        <5> HIDE DEF s, t
        <5>2. /\ s \cup {f} \in SUBSET Files /\ IsFiniteSet(s \cup {f}) /\ Stored(s \cup {f}) \in Nat
              /\ Stored(s \cup {f}) <= Stored(s) + Size[f.image]
          BY <2>2, <2>5, StoredMore
        <5>3. Stored(t) <= Stored(s \cup {f}) /\ Stored(t) \in Nat
          BY <5>1, <5>2, StoredLess
        <5>4. Size[f.image] \in Nat
          BY <2>2, Sizes
        <5> QED
          BY <2>4, <2>5, <2>8, <4>1, <5>2, <5>3, <5>4 DEF s
      <4>2. CASE f.kind # "final"
        <5>1. t \in SUBSET s
          BY <2>6, <4>2
        <5> HIDE DEF s, t
        <5>2. Stored(t) <= Stored(s) /\ Stored(t) \in Nat
          BY <2>5, <5>1, StoredLess
        <5> QED
          BY <2>4, <2>5, <2>8, <4>2, <5>2 DEF s
      <4> QED
        BY <4>1, <4>2
    <3> HIDE DEF s, t
    <3> QED
      BY <1>1, <2>1, <2>3, <3>1, DiskIs, ShrunkKeeps DEF t
  <2> QED
    BY <2>1, <2>7, <2>8
<1> QED
  BY <1>2, <1>3

LEMMA CleanedQuota ==
  ASSUME IInv, QInv, Cleaned
  PROVE  QInv'
<1>1. /\ at = "cleaning" /\ todo = {} /\ at' = "verifying"
      /\ UNCHANGED <<disk, queue, state, pending, totalBytes>>
  BY DEF Cleaned
<1>2. Uncounted = {}
  BY <1>1 DEF Uncounted
<1>3. Measured'
  BY <1>1, <1>2 DEF QInv, Measured
<1>4. Finite' /\ Turns' /\ OneEach'
  BY <1>1 DEF QInv, Finite, Turns, OneEach, Running
<1>5. OfBatches'
  BY <1>1 DEF QInv, OfBatches
<1> QED
  BY <1>3, <1>4, <1>5 DEF QInv

(* What the verification of an image does to the directory and to what is  *)
(* known of it.                                                            *)
LEMMA VerifyQuota ==
  ASSUME IInv, QInv, NEW i \in Images, at = "verifying", todo' = todo \ {i}, VerifyUnchanged,
         pending' = pending \/ pending' = pending \cup {i}, Shrunk,
         Stored(But(disk', {})) <= totalBytes'
  PROVE  QInv'
<1>1. IsFiniteSet(pending)
  BY DiskIs
<1>2. IsFiniteSet(pending \cup {i})
  BY <1>1, FS_AddElement
<1>3. IsFiniteSet(pending')
  BY <1>1, <1>2
<1> QED
  BY <1>3, ShrunkKeeps DEF VerifyUnchanged

LEMMA Known ==
  ASSUME IInv, QInv
  PROVE  /\ Stored(But(disk, {})) \in Nat /\ totalBytes \in Nat
         /\ at = "verifying" => Stored(But(disk, {})) <= totalBytes
         /\ IsFiniteSet(But(disk, {})) /\ But(disk, {}) \in SUBSET Files
BY DiskIs, ButFinite DEF QInv, Measured, IInv, WorkOK

LEMMA SameOrLess ==
  ASSUME IInv, QInv, at = "verifying", Shrunk, UNCHANGED totalBytes
  PROVE  Stored(But(disk', {})) <= totalBytes'
<1>1. Stored(But(disk', {})) <= Stored(But(disk, {}))
  BY DiskIs, ShrunkCounts
<1>2. disk' \in SUBSET Files /\ IsFiniteSet(disk')
  BY DiskIs, ShrunkFinite
<1>3. Stored(But(disk', {})) \in Nat
  BY <1>2, ButFinite
<1> QED
  BY <1>1, <1>3, Known

LEMMA VerifyNoneQuota ==
  ASSUME IInv, QInv, NEW i \in Images, VerifyNone(i)
  PROVE  QInv'
<1>1. Shrunk /\ UNCHANGED totalBytes /\ at = "verifying"
  BY DEF VerifyNone, Shrunk
<1> QED
  BY <1>1, SameOrLess, VerifyQuota DEF VerifyNone, Forget

LEMMA TouchShrinks ==
  ASSUME IInv, NEW i \in Images, NEW f \in KnownFile(i), disk' = (disk \ {f}) \cup {Touched(f)}
  PROVE  Shrunk
<1>1. /\ f \in disk /\ Touched(f) \in Files /\ Name(Touched(f)) = Name(f)
      /\ f.kind = "final"
  BY KnownIs, TouchedIs
<1> QED
  BY <1>1 DEF Shrunk

LEMMA ReuseQuota ==
  ASSUME IInv, QInv, NEW i \in Images, Reuse(i)
  PROVE  QInv'
<1>1. PICK f \in KnownFile(i) : disk' = (disk \ {f}) \cup {Touched(f)}
  BY DEF Reuse
<1>2. Shrunk /\ UNCHANGED totalBytes /\ at = "verifying"
  BY <1>1, TouchShrinks DEF Reuse
<1> QED
  BY <1>2, SameOrLess, VerifyQuota DEF Reuse

LEMMA RetireQuota ==
  ASSUME IInv, QInv, NEW i \in Images, Retire(i)
  PROVE  QInv'
<1>1. PICK f \in KnownFile(i) : disk' = disk \ {f}
  BY DEF Retire
<1>2. f \in disk /\ f.kind = "final" /\ f.image = i
  BY KnownIs DEF Name
<1> DEFINE s == But(disk, {})
           t == But(disk', {})
<1>3. t = s \ {f} /\ f \in s
  BY <1>1, <1>2 DEF But
<1>4. Shrunk /\ at = "verifying" /\ totalBytes' = Less(totalBytes, Size[i])
  BY <1>1, <1>2 DEF Retire, Shrunk
<1>5. s \in SUBSET Files /\ IsFiniteSet(s) /\ Stored(s) \in Nat /\ Stored(s) <= totalBytes
      /\ totalBytes \in Nat
  BY <1>4, Known
<1>6. Size[i] \in Nat
  BY Sizes
<1> HIDE DEF s, t
<1>7. Stored(s \ {f}) + Size[i] = Stored(s) /\ Stored(s \ {f}) \in Nat
  BY <1>2, <1>3, <1>5, StoredRemoved
<1>8. Stored(s \ {f}) <= totalBytes'
  BY <1>4, <1>5, <1>6, <1>7 DEF Less
<1>9. Stored(But(disk', {})) <= totalBytes'
  BY <1>3, <1>8 DEF t
<1> QED
  BY <1>4, <1>9, VerifyQuota DEF Retire, Forget

LEMMA VerifyFailsQuota ==
  ASSUME IInv, QInv, NEW i \in Images, VerifyFails(i)
  PROVE  QInv'
<1>1. PICK f \in KnownFile(i) :
        \/ disk' = disk
        \/ disk' = (disk \ {f}) \cup {Touched(f)}
        \/ disk' = disk \ {f}
        \/ disk' = (disk \ {f}) \cup {[NewFile(f.batch, i, "temp") EXCEPT !.intact = FALSE]}
  BY DEF VerifyFails
<1> DEFINE g == [NewFile(f.batch, i, "temp") EXCEPT !.intact = FALSE]
<1>2. f \in disk /\ g \in Files /\ g.kind = "temp"
  BY KnownIs, TempIs DEF NewFile
<1> HIDE DEF g
<1>3. \/ disk' = disk \/ disk' = disk \ {f} \/ disk' = (disk \ {f}) \cup {g}
      \/ disk' = (disk \ {f}) \cup {Touched(f)}
  BY <1>1 DEF g
<1>4. Shrunk
  BY <1>2, <1>3, TouchShrinks DEF Shrunk
<1>5. UNCHANGED totalBytes /\ at = "verifying"
  BY DEF VerifyFails
<1> QED
  BY <1>4, <1>5, SameOrLess, VerifyQuota DEF VerifyFails

-----------------------------------------------------------------------------
(* Writing.                                                                *)
LEMMA CheckQuotaQuota ==
  ASSUME IInv, QInv, CheckQuota
  PROVE  QInv'
<1>1. queue # <<>> /\ at = "verifying" /\ UNCHANGED disk
  BY DEF CheckQuota, IInv, BatchAtWork
<1>2. CASE Fits
  <2>1. /\ at' = "writing" /\ todo' = pending
        /\ UNCHANGED <<queue, state, pending, totalBytes>>
    BY <1>2 DEF CheckQuota
  <2>2. Finite' /\ Turns' /\ OneEach'
    BY <1>1, <2>1 DEF QInv, Finite, Turns, OneEach, Running
  <2>3. OfBatches'
    BY <1>1, <2>1 DEF QInv, OfBatches
  <2>4. Bytes(pending) \in Nat
    BY DiskIs, BytesNat DEF IInv, WorkOK
  <2>5. totalBytes + Bytes(pending) <= MaxTotalBytes /\ MaxTotalBytes \in Nat
    BY <1>2, StoreAssumption DEF Fits
  <2>6. Bytes(todo') = Bytes(pending)
    BY <2>1
  <2>7. Measured'
    BY <1>1, <2>1, <2>4, <2>5, <2>6, Known DEF QInv, Measured
  <2> QED
    BY <2>2, <2>3, <2>7 DEF QInv
<1>3. CASE ~Fits
  <2>1. Return(WithResult(results[Running], pending, storage_quota_exceeded))
    BY <1>3 DEF CheckQuota
  <2> QED
    BY <1>1, <2>1, ReturnQuota
<1> QED
  BY <1>2, <1>3

LEMMA WriteQuota ==
  ASSUME IInv, QInv, NEW i \in Images, Write(i)
  PROVE  QInv'
<1> DEFINE b0 == Running
<1>1. queue # <<>> /\ b0 \in Batches
  BY FirstIsBatch DEF Write, IInv, BatchAtWork
<1>2. /\ at = "writing" /\ i \in todo /\ todo' = todo \ {i}
      /\ UNCHANGED <<queue, state, at, pending>>
  BY DEF Write
<1>3. state[b0] = "running"
  BY <1>1, <1>2 DEF QInv, Turns, Running, IInv, BatchesOK
<1>4. \E k \in {"temp", "final"} : disk' \in {disk, disk \cup {NewFile(b0, i, k)}}
  BY DEF Write
<1> HIDE DEF b0
<1>5. PICK k \in {"temp", "final"} : disk' \in {disk, disk \cup {NewFile(b0, i, k)}}
  BY <1>4
<1> DEFINE g == NewFile(b0, i, k)
<1>6. g \in Files /\ g.kind = k /\ Name(g) = <<b0, i>> /\ g.batch = b0 /\ g.image = i
  BY <1>1, NewFileIs DEF NewFile
<1> HIDE DEF g
<1>7. disk' = disk \/ disk' = disk \cup {g}
  BY <1>5 DEF g
<1>8. ASSUME NEW f \in disk, f.kind = "final" PROVE Name(f) # <<b0, i>>
  BY <1>2, <1>3, <1>8 DEF QInv, OfBatches, Name
<1>9. IsFiniteSet(disk') /\ disk' \in SUBSET Files
  BY <1>6, <1>7, DiskIs, FS_AddElement
<1>10. IsFiniteSet(todo) /\ todo \in SUBSET Images
  BY <1>2 DEF QInv, Finite, IInv, WorkOK
<1>11. /\ Bytes(todo) = Bytes(todo \ {i}) + Size[i]
       /\ Bytes(todo \ {i}) \in Nat /\ IsFiniteSet(todo \ {i})
  BY <1>2, <1>10, BytesRemoved
<1>12. Finite'
  BY <1>2, <1>9, <1>11 DEF QInv, Finite
<1>13. Turns'
  BY <1>2 DEF QInv, Turns, Running
<1>14. OneEach'
  BY <1>6, <1>7, <1>8 DEF QInv, OneEach
<1>15. OfBatches'
  BY <1>2, <1>3, <1>6, <1>7 DEF QInv, OfBatches
<1>16. Stored(But(disk', {})) <= Stored(But(disk, {})) + Size[i] /\ Stored(But(disk', {})) \in Nat
  <2> DEFINE s == But(disk, {})
             t == But(disk', {})
  <2>1. /\ s \in SUBSET Files /\ IsFiniteSet(s) /\ Stored(s) \in Nat /\ Stored(t) \in Nat
        /\ Size[i] \in Nat
    BY <1>9, Known, ButFinite, Sizes
  <2>2. t \in SUBSET (s \cup {g})
    BY <1>7 DEF But
  <2> HIDE DEF s, t
  <2>3. /\ Stored(s \cup {g}) \in Nat /\ IsFiniteSet(s \cup {g}) /\ s \cup {g} \in SUBSET Files
        /\ Stored(s \cup {g}) <= Stored(s) + Size[i]
    BY <1>6, <2>1, StoredMore
  <2>4. Stored(t) <= Stored(s \cup {g})
    BY <2>2, <2>3, StoredLess
  <2>5. Stored(t) <= Stored(s) + Size[i]
    BY <2>1, <2>3, <2>4
  <2> QED
    BY <2>1, <2>5 DEF s, t
<1>17. Measured'
  <2>1. Stored(But(disk, {})) + Bytes(todo) <= MaxTotalBytes /\ MaxTotalBytes \in Nat
    BY <1>2, StoreAssumption DEF QInv, Measured
  <2>2. Bytes(todo') = Bytes(todo \ {i}) /\ Size[i] \in Nat
    BY <1>2, Sizes
  <2>3. Stored(But(disk', {})) + Bytes(todo') <= MaxTotalBytes
    BY <1>11, <1>16, <2>1, <2>2, Known
  <2>4. Stored(But(disk', {})) <= MaxTotalBytes
    BY <1>11, <1>16, <2>1, <2>2, <2>3
  <2> QED
    BY <1>2, <2>3, <2>4 DEF Measured
<1> QED
  BY <1>12, <1>13, <1>14, <1>15, <1>17 DEF QInv

LEMMA FinishQuota ==
  ASSUME IInv, QInv, Finish
  PROVE  QInv'
BY ReturnQuota DEF Finish, IInv, BatchAtWork

-----------------------------------------------------------------------------
(* The rest of the world.                                                  *)
LEMMA WorldQuota ==
  ASSUME IInv, QInv, MemoryUnchanged, Shrunk
  PROVE  QInv'
<1>1. UNCHANGED <<queue, state, at, todo, pending, totalBytes>>
  BY DEF MemoryUnchanged
<1>2. Uncounted' = Uncounted
  BY <1>1 DEF Uncounted
<1>3. disk' \in SUBSET Files /\ IsFiniteSet(disk')
  BY DiskIs, ShrunkFinite
<1>4. /\ Stored(But(disk', Uncounted)) <= Stored(But(disk, Uncounted))
      /\ Stored(But(disk', Uncounted)) \in Nat /\ Stored(But(disk, Uncounted)) \in Nat
  BY <1>3, DiskIs, ShrunkCounts, ButFinite
<1>5. /\ Stored(But(disk', {})) <= Stored(But(disk, {}))
      /\ Stored(But(disk', {})) \in Nat /\ Stored(But(disk, {})) \in Nat
  BY <1>3, DiskIs, ShrunkCounts, ButFinite
<1>6. at = "cleaning" => Stored(But(disk', Uncounted')) <= totalBytes'
  BY <1>1, <1>2, <1>4, Known DEF QInv, Measured
<1>7. at = "verifying" => Stored(But(disk', {})) <= totalBytes'
  BY <1>1, <1>5, Known
<1> QED
  BY <1>1, <1>6, <1>7, DiskIs, ShrunkKeeps

LEMMA AgeQuota ==
  ASSUME IInv, QInv, NEW file \in disk, Age(file)
  PROVE  QInv'
<1> DEFINE g == [file EXCEPT !.stale = TRUE, !.unused = TRUE]
<1>1. /\ g \in Files /\ g.kind = file.kind /\ Name(g) = Name(file)
  BY DEF IInv, DiskOK, Files, Name
<1>2. disk' = (disk \ {file}) \cup {g} /\ MemoryUnchanged
  BY DEF Age
<1> HIDE DEF g
<1>3. Shrunk
  BY <1>1, <1>2 DEF Shrunk
<1> QED
  BY <1>2, <1>3, WorldQuota

LEMMA SpoilQuota ==
  ASSUME IInv, QInv, NEW file \in disk, Spoil(file)
  PROVE  QInv'
<1> DEFINE g == [file EXCEPT !.intact = FALSE, !.stale = FALSE]
<1>1. /\ g \in Files /\ g.kind = file.kind /\ Name(g) = Name(file)
  BY DEF IInv, DiskOK, Files, Name
<1>2. (disk' = disk \ {file} \/ disk' = (disk \ {file}) \cup {g}) /\ MemoryUnchanged
  BY DEF Spoil
<1> HIDE DEF g
<1>3. Shrunk
  BY <1>1, <1>2 DEF Shrunk
<1> QED
  BY <1>2, <1>3, WorldQuota

LEMMA KillQuota ==
  ASSUME IInv, QInv, Kill
  PROVE  QInv'
<1>1. /\ queue' = <<>> /\ at' = "idle" /\ todo' = {} /\ pending' = {} /\ UNCHANGED disk
      /\ \A b \in Batches : state'[b] = IF state[b] \in {"queued", "running"} THEN "lost" ELSE state[b]
  BY DEF Kill
<1>2. Finite' /\ OneEach' /\ Measured'
  BY <1>1, FS_EmptySet DEF QInv, Finite, OneEach, Measured
<1>3. Turns'
  BY <1>1 DEF Turns
<1>4. OfBatches'
  BY <1>1 DEF QInv, OfBatches, IInv, DiskOK, Files
<1> QED
  BY <1>2, <1>3, <1>4 DEF QInv

LEMMA QuotaPreserved ==
  ASSUME IInv, QInv, [Next]_vars
  PROVE  QInv'
<1>1. CASE UNCHANGED vars
  <2>1. MemoryUnchanged /\ Shrunk
    BY <1>1 DEF vars, MemoryUnchanged, Shrunk
  <2> QED
    BY <2>1, WorldQuota
<1>2. CASE Next
  <2>1. CASE Step
    BY <2>1, StartQuota, CleanedQuota, CheckQuotaQuota, FinishQuota, CleanQuota, VerifyNoneQuota,
       ReuseQuota, RetireQuota, VerifyFailsQuota, WriteQuota DEF Step
  <2>2. CASE \E b \in Batches : \E s \in SUBSET Images \ {{}} : Submit(b, s)
    BY <2>2, SubmitQuota
  <2> QED
    BY <1>2, <2>1, <2>2, AgeQuota, SpoilQuota, KillQuota DEF Next
<1> QED
  BY <1>1, <1>2

(* What the store keeps has its type and never takes more than the quota,  *)
(* whatever failed and whoever was killed (StoreWithinQuota).              *)
THEOREM QuotaIsKept == MCSpec => []StoreWithinQuota
<1>1. MCInit => IInv /\ QInv
  BY Initially, QuotaInitially DEF MCInit
<1>2. IInv /\ QInv /\ [MCNext]_mcVars => IInv' /\ QInv'
  <2>1. [MCNext]_mcVars => [Next]_vars
    BY DEF MCNext, mcVars, StoreImages, TranslateTools, TranslateInput
  <2> QED
    BY <2>1, Preserved, QuotaPreserved DEF Good
<1>3. IInv /\ QInv => StoreWithinQuota
  <2>1. But(disk, {}) = Finals
    BY DEF But, Finals
  <2>2. IInv => TypeOK
    BY DEF IInv, DiskOK, BatchesOK, WorkOK, TypeOK, Results
  <2> QED
    BY <2>1, <2>2 DEF QInv, Measured, StoreWithinQuota, QuotaHolds
<1> QED
  BY <1>1, <1>2, <1>3, PTL DEF MCSpec
-----------------------------------------------------------------------------
(* The tools of a request (ToolNames).                                     *)
LEMMA ToolsCardinality == \A S : Tools!Cardinality(S) = Cardinality(S)
BY DEF Tools!Cardinality, Cardinality

Declared == 1..Len(declared)
Discovered == 1..Len(discovered)

(* The tools that have been registered.                                    *)
DeclaredUpTo(i) == {k \in Declared : k <= i}
DiscoveredUpTo(i) == {k \in Discovered : Len(declared) + k <= i}

(* A tool that is offered was declared, or it is the first that was        *)
(* discovered with its name.                                               *)
Offered(tool) ==
  \/ \E k \in Declared : declared[k] = tool
  \/ \E k \in Discovered :
       /\ discovered[k] = tool
       /\ \A m \in Discovered : m < k => Tools!Flat(discovered[m]) # Tools!Flat(tool)

ToolSetSound ==
  /\ toolSet \subseteq Tools!Declarable \ {Tools!Plain("hosted", <<>>)}
  /\ \A s, t \in toolSet : Tools!Flat(s) = Tools!Flat(t) => s = t
  /\ \A t \in toolSet : Offered(t)
  /\ \A k \in DeclaredUpTo(registered) : declared[k].kind # "hosted" => declared[k] \in toolSet
  /\ \A k \in DiscoveredUpTo(registered) :
       \E t \in toolSet : Tools!Flat(t) = Tools!Flat(discovered[k])

ToolsInv ==
  /\ declared \in Seq(Tools!Declarable) /\ discovered \in Seq(Tools!Discoverable)
  /\ registered \in 0..(Len(declared) + Len(discovered))
  /\ ~duplicate => ToolSetSound

LEMMA ToolsInitially == ASSUME Tools!Init PROVE ToolsInv
<1>1. ASSUME NEW S, NEW s \in Tools!SeqOf(S, MaxTools) PROVE s \in Seq(S)
  BY <1>1 DEF Tools!SeqOf
<1>2. declared \in Seq(Tools!Declarable) /\ discovered \in Seq(Tools!Discoverable)
  BY <1>1 DEF Tools!Init
<1>3. Len(declared) \in Nat /\ Len(discovered) \in Nat /\ registered = 0 /\ toolSet = {}
  BY <1>2 DEF Tools!Init
<1>4. ToolSetSound
  BY <1>3 DEF ToolSetSound, DeclaredUpTo, DiscoveredUpTo, Declared, Discovered
<1> QED
  BY <1>2, <1>3, <1>4 DEF ToolsInv

(* What the names of the tools are.                                        *)
LEMMA FlatNames ==
  ASSUME NEW t \in Tools!Declarable
  PROVE  /\ t.kind = "hosted" <=> t = Tools!Plain("hosted", <<>>)
         /\ t.kind = "search" <=> t = Tools!SearchTool
         /\ t.kind \in {"hosted", "search", "custom"} => t.namespace = <<>>
         /\ t.kind \in {"custom", "function"} => Tools!Flat(t) # Search
         /\ t.kind = "custom" => t = Tools!Plain("custom", t.name)
         /\ t.kind \in {"function", "custom", "hosted", "search"}
         /\ t.kind = "function" /\ t.namespace = <<>> => t = Tools!Plain("function", t.name)
         /\ t.namespace = <<>> => Tools!Flat(t) = t.name
         /\ t.kind = "search" => Tools!Flat(t) = Search
<1> DEFINE plain == {Tools!Plain(kind1, name) : kind1 \in {"function", "custom"}, name \in Names}
<1>1. CASE t \in plain
  <2>1. PICK k \in {"function", "custom"}, name \in Names : t = Tools!Plain(k, name)
    BY <1>1
  <2>2. name \in Seq(STRING) /\ name # Search
    BY ToolsAssumption
  <2>3. t = [kind |-> k, namespace |-> <<>>, name |-> name]
    BY <2>1 DEF Tools!Plain
  <2>4. Tools!Flat(t) = name
    BY <2>2, <2>3 DEF Tools!Flat
  <2> QED
    BY <2>1, <2>2, <2>3, <2>4 DEF Tools!Plain, Tools!SearchTool
<1>2. CASE t \in Tools!Namespaced
  <2>1. t.namespace \in Namespaces /\ t.name \in Names /\ t.kind = "function"
    BY <1>2 DEF Tools!Namespaced
  <2>2. t.namespace # <<>> /\ Tools!Flat(t) # Search
    BY <2>1, ToolsAssumption DEF Tools!Flat
  <2> QED
    BY <2>1, <2>2 DEF Tools!Plain, Tools!SearchTool
<1>3. CASE t = Tools!SearchTool
  <2>1. t = [kind |-> "search", namespace |-> <<>>, name |-> Search]
    BY <1>3 DEF Tools!SearchTool, Tools!Plain
  <2>2. Tools!Flat(t) = Search
    BY <2>1, ToolsAssumption DEF Tools!Flat
  <2> QED
    BY <2>1, <2>2 DEF Tools!Plain, Tools!SearchTool
<1>4. CASE t = Tools!Plain("hosted", <<>>)
  <2>1. t = [kind |-> "hosted", namespace |-> <<>>, name |-> <<>>]
    BY <1>4 DEF Tools!Plain
  <2>2. Tools!Flat(t) = <<>>
    BY <2>1 DEF Tools!Flat
  <2> QED
    BY <2>1, <2>2 DEF Tools!Plain, Tools!SearchTool
<1> QED
  BY <1>1, <1>2, <1>3, <1>4 DEF Tools!Declarable

LEMMA DiscoverableIs ==
  ASSUME NEW t \in Tools!Discoverable
  PROVE  t \in Tools!Declarable /\ t.kind = "function"
<1>1. CASE t \in Tools!Namespaced
  BY <1>1 DEF Tools!Declarable, Tools!Namespaced
<1>2. CASE t \in {Tools!Plain("function", name) : name \in Names}
  <2>1. PICK name \in Names : t = Tools!Plain("function", name)
    BY <1>2
  <2>2. t \in {Tools!Plain(k, m) : k \in {"function", "custom"}, m \in Names}
    BY <2>1
  <2> QED
    BY <2>1, <2>2 DEF Tools!Declarable, Tools!Plain
<1> QED
  BY <1>1, <1>2 DEF Tools!Discoverable

LEMMA ToolAdded ==
  ASSUME ToolSetSound, NEW t \in Tools!Declarable, t.kind # "hosted", Offered(t),
         \A s \in toolSet : Tools!Flat(s) = Tools!Flat(t) => s = t,
         toolSet' = toolSet \cup {t}, UNCHANGED <<declared, discovered>>
  PROVE  /\ toolSet' \subseteq Tools!Declarable \ {Tools!Plain("hosted", <<>>)}
         /\ \A r, s \in toolSet' : Tools!Flat(r) = Tools!Flat(s) => r = s
         /\ \A s \in toolSet' : Offered(s)'
<1>1. t # Tools!Plain("hosted", <<>>)
  BY FlatNames
<1>2. \A s : Offered(s)' <=> Offered(s)
  BY DEF Offered, Declared, Discovered
<1>3. \A s \in toolSet : Offered(s)
  BY DEF ToolSetSound
<1> QED
  BY <1>1, <1>2, <1>3 DEF ToolSetSound

LEMMA ToolsPreserved == ASSUME ToolsInv, [Tools!Next]_(Tools!vars) PROVE ToolsInv'
<1>1. CASE UNCHANGED Tools!vars
  BY <1>1 DEF Tools!vars, ToolsInv, ToolSetSound, Offered, Declared, Discovered, DeclaredUpTo, DiscoveredUpTo
<1>2. CASE Tools!Register
  <2> DEFINE i == registered + 1
             n == Len(declared)
             k == i - n
  <2>1. /\ ~duplicate /\ registered' = i /\ UNCHANGED <<declared, discovered>>
        /\ n \in Nat /\ Len(discovered) \in Nat /\ registered \in Nat /\ registered < n + Len(discovered)
        /\ i \in 1..(n + Len(discovered))
    BY <1>2 DEF Tools!Register, ToolsInv
  <2>2. /\ ToolSetSound
        /\ \A m \in Declared : declared[m] \in Tools!Declarable
        /\ \A m \in Discovered : discovered[m] \in Tools!Discoverable
    BY <2>1 DEF ToolsInv, Declared, Discovered
  <2>3. SUFFICES ~duplicate' => ToolSetSound'
    BY <2>1 DEF ToolsInv
  <2>4. CASE i <= n
    <3>1. i \in Declared /\ declared[i] \in Tools!Declarable
      BY <2>1, <2>2, <2>4 DEF Declared
    <3>2. \A m \in DeclaredUpTo(registered)' : m \in DeclaredUpTo(registered) \/ m = i
      BY <2>1 DEF DeclaredUpTo, Declared
    <3>3. DiscoveredUpTo(registered)' = {}
      BY <2>1, <2>4 DEF DiscoveredUpTo, Discovered
    <3>4. Offered(declared[i])
      BY <3>1 DEF Offered
    <3>5. Tools!AddDeclared(declared[i])
      BY <1>2, <2>1, <2>4 DEF Tools!Register
    <3>6. CASE declared[i].kind = "hosted"
      <4>1. UNCHANGED <<toolSet, duplicate>>
        BY <3>5, <3>6 DEF Tools!AddDeclared
      <4>2. \A s : Offered(s)' <=> Offered(s)
        BY <2>1 DEF Offered, Declared, Discovered
      <4> QED
        BY <2>1, <2>2, <3>2, <3>3, <3>6, <4>1, <4>2 DEF ToolSetSound
    <3>7. CASE toolSet' = toolSet \cup {declared[i]} /\ declared[i].kind # "hosted"
               /\ \A s \in toolSet : Tools!Flat(s) = Tools!Flat(declared[i]) => s = declared[i]
      <4>1. /\ toolSet' \subseteq Tools!Declarable \ {Tools!Plain("hosted", <<>>)}
            /\ \A r, s \in toolSet' : Tools!Flat(r) = Tools!Flat(s) => r = s
            /\ \A s \in toolSet' : Offered(s)'
        BY <2>1, <2>2, <3>1, <3>4, <3>7, ToolAdded
      <4>2. \A m \in DeclaredUpTo(registered)' : declared'[m].kind # "hosted" => declared'[m] \in toolSet'
        BY <2>1, <2>2, <3>2, <3>7 DEF ToolSetSound
      <4> QED
        BY <3>3, <4>1, <4>2 DEF ToolSetSound
    <3>8. CASE declared[i].kind = "search"
      <4>1. toolSet' = (toolSet \ Tools!Named(Search)) \cup {Tools!SearchTool}
        BY <3>5, <3>8 DEF Tools!AddDeclared, Tools!SetSearch
      <4>2. declared[i] = Tools!SearchTool /\ Tools!Flat(declared[i]) = Search
        BY <3>1, <3>8, FlatNames
      <4>3. ASSUME NEW s \in toolSet, Tools!Flat(s) = Search PROVE s = Tools!SearchTool
        <5>1. s \in Tools!Declarable /\ s # Tools!Plain("hosted", <<>>)
          BY <2>2 DEF ToolSetSound
        <5> QED
          BY <4>3, <5>1, FlatNames
      <4>4. Tools!Named(Search) \subseteq {Tools!SearchTool}
        BY <4>3 DEF Tools!Named
      <4> QED
        BY <3>7, <3>8, <4>1, <4>2, <4>3, <4>4
    <3>9. CASE declared[i].kind \notin {"hosted", "search"}
      <4>1. Tools!AddSelectable(declared[i])
        BY <3>5, <3>9 DEF Tools!AddDeclared
      <4>2. CASE Tools!Named(Tools!Flat(declared[i])) = {}
        <5>1. toolSet' = toolSet \cup {declared[i]}
          BY <4>1, <4>2 DEF Tools!AddSelectable
        <5>2. \A s \in toolSet : Tools!Flat(s) # Tools!Flat(declared[i])
          BY <4>2 DEF Tools!Named
        <5> QED
          BY <3>7, <3>9, <5>1, <5>2
      <4>3. CASE Tools!Named(Tools!Flat(declared[i])) # {}
        BY <4>1, <4>3 DEF Tools!AddSelectable
      <4> QED
        BY <4>2, <4>3
    <3> QED
      BY <3>6, <3>8, <3>9
  <2>5. CASE ~(i <= n)
    <3>1. k \in Discovered /\ i = n + k
      BY <2>1, <2>5 DEF Discovered
    <3>2. discovered[k] \in Tools!Declarable /\ discovered[k].kind # "hosted"
      BY <2>2, <3>1, DiscoverableIs
    <3>3. \A m \in DiscoveredUpTo(registered)' : m \in DiscoveredUpTo(registered) \/ m = k
      BY <2>1, <3>1 DEF DiscoveredUpTo, Discovered
    <3>4. \A m \in DeclaredUpTo(registered)' : m \in DeclaredUpTo(registered)
      BY <2>1, <2>5 DEF DeclaredUpTo, Declared
    <3>5. Tools!AddDiscovered(discovered[k])
      BY <1>2, <2>1, <2>5 DEF Tools!Register
    <3>6. CASE Tools!Named(Tools!Flat(discovered[k])) = {}
      <4>1. toolSet' = toolSet \cup {discovered[k]}
        BY <3>5, <3>6 DEF Tools!AddDiscovered
      <4>2. \A s \in toolSet : Tools!Flat(s) # Tools!Flat(discovered[k])
        BY <3>6 DEF Tools!Named
      <4>3. ASSUME NEW m \in Discovered, m < k PROVE Tools!Flat(discovered[m]) # Tools!Flat(discovered[k])
        <5>1. m \in DiscoveredUpTo(registered)
          BY <2>1, <3>1, <4>3 DEF DiscoveredUpTo, Discovered
        <5> QED
          BY <2>2, <4>2, <5>1 DEF ToolSetSound
      <4>4. Offered(discovered[k])
        BY <3>1, <4>3 DEF Offered
      <4>5. /\ toolSet' \subseteq Tools!Declarable \ {Tools!Plain("hosted", <<>>)}
            /\ \A r, s \in toolSet' : Tools!Flat(r) = Tools!Flat(s) => r = s
            /\ \A s \in toolSet' : Offered(s)'
        BY <2>1, <2>2, <3>2, <4>1, <4>2, <4>4, ToolAdded
      <4>6. /\ \A m \in DeclaredUpTo(registered)' : declared'[m].kind # "hosted" => declared'[m] \in toolSet'
            /\ \A m \in DiscoveredUpTo(registered)' :
                 \E t \in toolSet' : Tools!Flat(t) = Tools!Flat(discovered'[m])
        BY <2>1, <2>2, <3>3, <3>4, <4>1 DEF ToolSetSound
      <4> QED
        BY <4>5, <4>6 DEF ToolSetSound
    <3>7. CASE Tools!Named(Tools!Flat(discovered[k])) # {}
      <4>1. toolSet' = toolSet
        BY <3>5, <3>7 DEF Tools!AddDiscovered
      <4>2. \E t \in toolSet : Tools!Flat(t) = Tools!Flat(discovered[k])
        BY <3>7 DEF Tools!Named
      <4>3. \A s : Offered(s)' <=> Offered(s)
        BY <2>1 DEF Offered, Declared, Discovered
      <4> QED
        BY <2>1, <2>2, <3>3, <3>4, <4>1, <4>2, <4>3 DEF ToolSetSound
    <3> QED
      BY <3>6, <3>7
  <2> QED
    BY <2>4, <2>5
<1> QED
  BY <1>1, <1>2 DEF Tools!Next

(* A call of the tool comes back as one of it, unless it is shadowed or    *)
(* taken for a custom tool.                                                *)
ReturnsAs(t) ==
  \/ Tools!Rendered(Tools!Flat(t)) = t
  \/ Tools!Shadowed(t)
  \/ /\ Tools!TakenForCustom(t)
     /\ Tools!Rendered(Tools!Flat(t)) = Tools!Plain("custom", ApplyPatch)

(* When all are registered, what the upstream calls is what was offered.   *)
LEMMA ToolsReturn == ASSUME ToolsInv PROVE Tools!ToolCallsReturn
<1> SUFFICES ASSUME registered = Len(declared) + Len(discovered), ~duplicate
             PROVE  /\ \A t \in Tools!ToSet(declared) : t.kind = "hosted" \/ t \in toolSet
                    /\ \A t \in Tools!ToSet(discovered) : Tools!Named(Tools!Flat(t)) # {}
                    /\ \A t \in toolSet :
                         /\ Tools!Cardinality(Tools!Named(Tools!Flat(t))) = 1
                         /\ ReturnsAs(t)
                    /\ toolSet # {} /\ Tools!MappedChoice # <<>> => Tools!Named(Tools!MappedChoice) # {}
  BY DEF Tools!ToolCallsReturn, ReturnsAs
<1> DEFINE n == Len(declared)
<1>1. /\ ToolSetSound /\ n \in Nat /\ Len(discovered) \in Nat
      /\ DOMAIN declared = Declared /\ DOMAIN discovered = Discovered
      /\ \A m \in Declared : declared[m] \in Tools!Declarable
      /\ \A m \in Discovered : discovered[m] \in Tools!Discoverable
  BY DEF ToolsInv, Declared, Discovered
<1>2. DeclaredUpTo(registered) = Declared /\ DiscoveredUpTo(registered) = Discovered
  BY <1>1 DEF DeclaredUpTo, DiscoveredUpTo, Declared, Discovered
<1>3. /\ \A m \in Declared : declared[m].kind # "hosted" => declared[m] \in toolSet
      /\ \A m \in Discovered : \E t \in toolSet : Tools!Flat(t) = Tools!Flat(discovered[m])
  BY <1>1, <1>2 DEF ToolSetSound
<1>4. /\ \A t : t \in Tools!ToSet(declared) <=> \E m \in Declared : t = declared[m]
      /\ \A t : t \in Tools!ToSet(discovered) <=> \E m \in Discovered : t = discovered[m]
  BY <1>1 DEF Tools!ToSet
<1>5. \A t \in Tools!ToSet(declared) : t.kind = "hosted" \/ t \in toolSet
  BY <1>3, <1>4
<1>6. \A t \in Tools!ToSet(discovered) : Tools!Named(Tools!Flat(t)) # {}
  BY <1>3, <1>4 DEF Tools!Named
<1>7. ASSUME NEW t \in toolSet PROVE Tools!Cardinality(Tools!Named(Tools!Flat(t))) = 1
  <2>1. Tools!Named(Tools!Flat(t)) = {t}
    BY <1>1 DEF Tools!Named, ToolSetSound
  <2> QED
    BY <2>1, FS_Singleton, ToolsCardinality
<1>8. toolSet # {} /\ Tools!MappedChoice # <<>> => Tools!Named(Tools!MappedChoice) # {}
  BY DEF Tools!MappedChoice
<1>9. ASSUME NEW t \in toolSet PROVE ReturnsAs(t)
  <2> DEFINE f == Tools!Flat(t)
             entries == Tools!FlatEntries(f)
             first == CHOOSE i \in entries : \A j \in entries : i <= j
             e == Tools!Collected[first]
  <2>1. t \in Tools!Declarable /\ t # Tools!Plain("hosted", <<>>) /\ Offered(t)
    BY <1>1 DEF ToolSetSound
  <2>2. t.kind \in {"function", "custom", "search"}
    BY <2>1, FlatNames
  <2>3. ASSUME NEW m \in Declared, declared[m].kind # "hosted", Tools!Flat(declared[m]) = f
        PROVE  declared[m] = t
    BY <1>1, <1>3, <2>3 DEF ToolSetSound
  <2>4. Tools!customToolNames = {c.name : c \in {d \in Tools!ToSet(declared) : d.kind = "custom"}}
    BY DEF Tools!customToolNames
  <2>5. ASSUME f \in Tools!customToolNames PROVE t.kind = "custom"
    <3>1. PICK c \in Tools!ToSet(declared) : c.kind = "custom" /\ c.name = f
      BY <2>4, <2>5
    <3>2. PICK m \in Declared : c = declared[m]
      BY <1>4
    <3>3. Tools!Flat(c) = f
      BY <1>1, <3>1, <3>2, FlatNames
    <3> QED
      BY <2>3, <3>1, <3>2, <3>3
  <2>6. CASE t.kind = "custom"
    <3>1. t = Tools!Plain("custom", f) /\ t.name = f
      BY <2>1, <2>6, FlatNames
    <3>2. t \in Tools!ToSet(declared)
      BY <1>1, <1>4, <2>1, <2>6, DiscoverableIs DEF Offered
    <3>3. f \in Tools!customToolNames
      BY <2>4, <2>6, <3>1, <3>2
    <3> QED
      BY <3>1, <3>3 DEF Tools!Rendered, Tools!IsCustomToolName, ReturnsAs
  <2>7. CASE t.kind = "search"
    <3>1. t = Tools!SearchTool /\ f = Search
      BY <2>1, <2>7, FlatNames
    <3>2. t \in Tools!ToSet(declared)
      BY <1>1, <1>4, <2>1, <2>7, DiscoverableIs DEF Offered
    <3>3. f \notin Tools!customToolNames /\ f # ApplyPatch
      BY <2>5, <2>7, <3>1, ToolsAssumption
    <3>4. ~Tools!IsCustomToolName(f)
      BY <3>3 DEF Tools!IsCustomToolName
    <3> QED
      BY <3>1, <3>2, <3>4 DEF Tools!Rendered, Tools!toolSearchShimmed, ReturnsAs
  <2>8. CASE t.kind = "function" /\ f = ApplyPatch
    BY <2>8 DEF Tools!Rendered, Tools!IsCustomToolName, Tools!TakenForCustom, ReturnsAs
  <2>9. CASE t.kind = "function" /\ f # ApplyPatch
    <3>1. ~Tools!IsCustomToolName(f) /\ f # Search
      BY <2>1, <2>5, <2>9, FlatNames DEF Tools!IsCustomToolName
    <3>2. /\ DOMAIN Tools!Collected = 1..(n + Len(discovered))
          /\ \A i \in Declared : Tools!Collected[i] = declared[i]
          /\ \A k \in Discovered : Tools!Collected[n + k] = discovered[k]
          /\ \A i \in 1..(n + Len(discovered)) : i \notin Declared => i - n \in Discovered /\ i = n + (i - n)
      <4>1. declared \in Seq(Tools!Declarable) /\ discovered \in Seq(Tools!Discoverable)
        BY DEF ToolsInv
      <4> QED
        BY <1>1, <4>1 DEF Tools!Collected, Declared, Discovered
    <3>3. entries \subseteq 1..(n + Len(discovered)) /\ \A i \in entries : i \in Nat
      BY <3>2 DEF Tools!FlatEntries
    <3>4. ASSUME entries # {} PROVE first \in entries /\ \A j \in entries : first <= j
      <4>1. \E i \in entries : \A j \in entries : i <= j
        BY <3>3, <3>4, SmallestNat
      <4> QED
        BY <4>1
    <3>5. ASSUME NEW i \in entries
          PROVE  /\ Tools!Flat(Tools!Collected[i]) = f
                 /\ i \in Declared => /\ Tools!Collected[i] = declared[i] /\ declared[i].namespace # <<>>
                                      /\ Tools!Collected[i] = t
                 /\ i \notin Declared => i - n \in Discovered /\ Tools!Collected[i] = discovered[i - n]
      <4>1. Tools!Flat(Tools!Collected[i]) = f /\ (i <= n => Tools!Collected[i].namespace # <<>>)
        BY DEF Tools!FlatEntries
      <4>2. ASSUME i \in Declared PROVE declared[i].kind # "hosted" /\ declared[i].namespace # <<>>
        <5>1. i <= n /\ Tools!Collected[i] = declared[i] /\ declared[i] \in Tools!Declarable
          BY <1>1, <3>2, <4>2 DEF Declared
        <5> QED
          BY <4>1, <5>1, FlatNames
      <4> QED
        BY <2>3, <3>2, <3>3, <4>1, <4>2
    <3>6. CASE entries = {} \/ (entries # {} /\ e.namespace = <<>>)
      <4>1. ASSUME t.namespace # <<>> PROVE FALSE
        <5>1. CASE \E i \in Declared : declared[i] = t
          <6>1. PICK i \in Declared : declared[i] = t
            BY <5>1
          <6>2. i \in DOMAIN Tools!Collected /\ Tools!Collected[i] = t
            BY <1>1, <3>2, <6>1 DEF Declared
          <6>3. i \in entries
            BY <4>1, <6>2 DEF Tools!FlatEntries
          <6>4. first \in entries /\ first <= i
            BY <3>4, <6>3
          <6>5. first \in Declared
            BY <1>1, <3>3, <6>1, <6>4 DEF Declared
          <6>6. e = t
            BY <3>5, <6>4, <6>5
          <6> QED
            BY <3>6, <4>1, <6>3, <6>6
        <5>2. CASE ~\E i \in Declared : declared[i] = t
          <6>1. PICK k \in Discovered :
                  /\ discovered[k] = t
                  /\ \A m \in Discovered : m < k => Tools!Flat(discovered[m]) # f
            BY <2>1, <5>2 DEF Offered
          <6>2. n + k \in DOMAIN Tools!Collected /\ Tools!Collected[n + k] = t /\ ~(n + k <= n)
            BY <1>1, <3>2, <6>1 DEF Discovered
          <6>3. n + k \in entries
            BY <6>2 DEF Tools!FlatEntries
          <6>4. first \in entries /\ first <= n + k
            BY <3>4, <6>3
          <6>5. first \notin Declared
            BY <3>5, <5>2, <6>4
          <6>6. first - n \in Discovered /\ e = discovered[first - n] /\ Tools!Flat(e) = f
            BY <3>5, <6>4, <6>5
          <6>7. first - n = k
            BY <1>1, <3>3, <6>1, <6>4, <6>6 DEF Discovered
          <6> QED
            BY <3>6, <4>1, <6>1, <6>3, <6>6, <6>7
        <5> QED
          BY <5>1, <5>2
      <4>2. t = Tools!Plain("function", f)
        BY <2>1, <2>9, <4>1, FlatNames
      <4>3. Tools!Rendered(f) = Tools!Plain("function", f)
        BY <3>1, <3>6 DEF Tools!Rendered, Tools!FlatEntry
      <4> QED
        BY <4>2, <4>3 DEF ReturnsAs
    <3>7. CASE entries # {} /\ e.namespace # <<>>
      <4>1. Tools!Rendered(f) = e
        BY <3>1, <3>7 DEF Tools!Rendered, Tools!FlatEntry
      <4>2. first \in entries /\ \A j \in entries : first <= j
        BY <3>4, <3>7
      <4>3. CASE first \in Declared
        BY <3>5, <4>1, <4>2, <4>3 DEF ReturnsAs
      <4>4. CASE first \notin Declared
        <5>1. first - n \in Discovered /\ e = discovered[first - n] /\ Tools!Flat(e) = f
          BY <3>5, <4>2, <4>4
        <5>2. CASE \E i \in Declared : declared[i] = t
          <6>1. PICK i \in Declared : declared[i] = t
            BY <5>2
          <6>2. i \in DOMAIN Tools!Collected /\ Tools!Collected[i] = t /\ i <= n
            BY <1>1, <3>2, <6>1 DEF Declared
          <6>3. t.namespace = <<>>
            <7>1. ASSUME t.namespace # <<>> PROVE FALSE
              <8>1. i \in entries
                BY <6>2, <7>1 DEF Tools!FlatEntries
              <8>2. first <= i
                BY <4>2, <8>1
              <8> QED
                BY <1>1, <3>3, <4>2, <4>4, <6>2, <8>2 DEF Declared
            <7> QED
              BY <7>1
          <6>4. t = Tools!Plain("function", f) /\ t.name = f
            BY <2>1, <2>9, <6>3, FlatNames
          <6>5. t \in Tools!ToSet(declared) /\ e \in Tools!ToSet(discovered)
            BY <1>4, <5>1, <6>1
          <6>6. Tools!Shadowed(t)
            BY <3>7, <5>1, <6>4, <6>5 DEF Tools!Shadowed
          <6> QED
            BY <6>6 DEF ReturnsAs
        <5>3. CASE ~\E i \in Declared : declared[i] = t
          <6>1. PICK k \in Discovered :
                  /\ discovered[k] = t
                  /\ \A m \in Discovered : m < k => Tools!Flat(discovered[m]) # f
            BY <2>1, <5>3 DEF Offered
          <6>2. n + k \in DOMAIN Tools!Collected /\ Tools!Collected[n + k] = t /\ ~(n + k <= n)
            BY <1>1, <3>2, <6>1 DEF Discovered
          <6>3. n + k \in entries
            BY <6>2 DEF Tools!FlatEntries
          <6>4. first <= n + k
            BY <4>2, <6>3
          <6>5. first - n = k
            BY <1>1, <3>3, <4>2, <5>1, <6>1, <6>4 DEF Discovered
          <6> QED
            BY <4>1, <5>1, <6>1, <6>5 DEF ReturnsAs
        <5> QED
          BY <5>2, <5>3
      <4> QED
        BY <4>3, <4>4
    <3> QED
      BY <3>6, <3>7
  <2> QED
    BY <2>2, <2>6, <2>7, <2>8, <2>9
<1> QED
  BY <1>5, <1>6, <1>7, <1>8, <1>9

-----------------------------------------------------------------------------
(* The input of a request (ResponsesInput).                                *)
LEMMA InputCardinality == \A S : Input!Cardinality(S) = Cardinality(S)
BY DEF Input!Cardinality, Cardinality

InputTyped == rawInput \in Seq(InputItems) /\ transformed \in BOOLEAN /\ store \in BOOLEAN

PlacedItems == {Input!SDKItem(i) : i \in Input!Places} \cup {Input!RawItem(i) : i \in Input!Places}

LEMMA PlacesAre ==
  ASSUME InputTyped
  PROVE  /\ Len(rawInput) \in Nat /\ Input!Places = 1..Len(rawInput)
         /\ \A i \in Input!Places : Input!Raw(i) \in InputItems
BY DEF InputTyped, Input!Places, Input!Raw

(* The place of an item is in it.                                          *)
LEMMA ItemFields ==
  ASSUME NEW i
  PROVE  /\ Input!SDKItem(i).at = i /\ Input!RawItem(i).at = i
         /\ Input!SDKItem(i).type = Input!SDKType(Input!Raw(i))
         /\ Input!SDKItem(i).id = Input!Raw(i).id /\ Input!SDKItem(i).text = Input!Raw(i).text
         /\ Input!SDKItem(i).raw = FALSE /\ Input!RawItem(i).raw = TRUE
         /\ Input!RawItem(i).type = Input!Raw(i).type /\ Input!RawItem(i).id = Input!Raw(i).id
         /\ Input!SDKItem(i).role = Input!Raw(i).role
              \/ /\ Input!IsSystem(Input!Raw(i).role)
                 /\ Input!SDKItem(i).role = "developer"
BY DEF Input!SDKItem, Input!RawItem

(* What kinds of items there are, and what becomes of each.                *)
LEMMA ItemKinds ==
  ASSUME InputTyped, NEW i \in Input!Places
  PROVE  LET r == Input!Raw(i) IN
         /\ r.type \in ItemTypes
         /\ r.type = "message" => r.role \in {"system", "developer", "user", "assistant"}
         /\ Input!SDKType(r) = IF r.type \in {"reasoning", "compaction"} /\ store THEN "item_reference"
                               ELSE IF r.type = "tool_search_output" THEN "function_call_output"
                               ELSE IF r.type = "agent_message" THEN "agent_message anchor"
                               ELSE IF r.type = "additional_tools" THEN "additional_tools anchor"
                               ELSE r.type
<1>1. Input!Raw(i) \in InputItems
  BY PlacesAre
<1>2. /\ Input!Raw(i).type \in ItemTypes
      /\ Input!Raw(i).type = "message" => Input!Raw(i).role \in {"system", "developer", "user", "assistant"}
  BY <1>1, InputAssumption
<1> QED
  BY <1>2 DEF Input!SDKType, Input!Anchor, ItemTypes

(* What is sent of each kind.                                              *)
LEMMA KindsSent ==
  ASSUME InputTyped, NEW i \in Input!Places
  PROVE  LET r == Input!Raw(i) IN
         /\ r.type \in {"function_call", "function_call_output", "tool_search_call",
                        "tool_search_output", "agent_message", "additional_tools", "compaction"}
            => Input!IsSent(i)
         /\ r.type = "web_search_call" => ~Input!IsSent(i)
         /\ r.type = "message" /\ r.role = "user" => Input!IsSent(i)
         /\ r.type = "message" /\ r.role # "user" => (Input!IsSent(i) <=> ~Input!IsEmpty(r))
BY ItemKinds DEF Input!IsSent, Input!IsMapped, Input!IsEasy, Input!IsSystem, ItemTypes

(* The first of some places.                                               *)
LEMMA LowestIs ==
  ASSUME InputTyped, NEW S \in SUBSET Input!Places, S # {}
  PROVE  Input!Lowest(S) \in S /\ \A i \in S : Input!Lowest(S) <= i
<1>1. S \in SUBSET Nat
  BY PlacesAre
<1>2. \E i \in S : \A j \in S : i <= j
  BY <1>1, SmallestNat
<1> QED
  BY <1>2 DEF Input!Lowest

LEMMA LowestIsThis ==
  ASSUME InputTyped, NEW S \in SUBSET Input!Places, NEW i \in S, \A j \in S : i <= j
  PROVE  Input!Lowest(S) = i
<1>1. Input!Lowest(S) \in S /\ Input!Lowest(S) <= i /\ i <= Input!Lowest(S)
  BY LowestIs
<1>2. i \in Nat /\ Input!Lowest(S) \in Nat
  <2>1. \A j \in S : j \in Nat
    BY PlacesAre
  <2> QED
    BY <1>1, <2>1
<1> QED
  BY <1>1, <1>2

(* Places in their order.                                                  *)
LEMMA InOrderIs ==
  ASSUME InputTyped, NEW S \in SUBSET Input!Places
  PROVE  /\ IsFiniteSet(S) /\ Cardinality(S) \in Nat
         /\ Ascends(Input!InOrder(S), S)
         /\ \A i \in S : \E k \in 1..Cardinality(S) : Input!InOrder(S)[k] = i
<1> DEFINE c == Cardinality(S)
           Mounts(p) == \A k, l \in DOMAIN p : k < l => p[k] < p[l]
<1>1. S \in SUBSET (1..Len(rawInput)) /\ Len(rawInput) \in Nat
  BY PlacesAre
<1>2. IsFiniteSet(S) /\ \E p : Ascends(p, S)
  BY <1>1, AscentExists
<1>3. c \in Nat
  BY <1>2, FS_CardinalityType
<1>4. PICK p \in [1..c -> S] : Mounts(p)
  <2>1. PICK p : Ascends(p, S)
    BY <1>2
  <2>2. p \in [1..c -> S] /\ Mounts(p)
    BY <2>1 DEF Ascends
  <2> HIDE DEF Mounts
  <2> QED
    BY <2>2
<1>5. Input!InOrder(S) = CHOOSE q \in [1..c -> S] : Mounts(q)
  BY InputCardinality DEF Input!InOrder
<1>6. Input!InOrder(S) \in [1..c -> S] /\ Mounts(Input!InOrder(S))
  <2> HIDE DEF Mounts, c
  <2> QED
    BY <1>4, <1>5
<1>7. Ascends(Input!InOrder(S), S)
  BY <1>6 DEF Ascends
<1>8. S \subseteq Nat
  BY <1>1
<1>9. \A q : Ascends(q, S) => \A i \in S : \E k \in 1..Cardinality(S) : q[k] = i
  BY <1>2, <1>8, AscentCovers, Zenon
<1> QED
  BY <1>2, <1>3, <1>7, <1>9, Zenon

(* Items of the places that are sent, in order.                            *)
Ascending(s) ==
  /\ s \in Seq(PlacedItems)
  /\ \A k, l \in 1..Len(s) : k < l => s[k].at < s[l].at
  /\ \A k \in 1..Len(s) : s[k].at \in Input!Places /\ Input!IsSent(s[k].at)
  /\ \A i \in Input!Places : Input!IsSent(i) => \E k \in 1..Len(s) : s[k].at = i

(* What an item is once the tool search has been patched.                  *)
ToolSearched(i) ==
  IF Input!Raw(i).type \in {"tool_search_call", "tool_search_output"} THEN Input!RawItem(i)
  ELSE Input!SDKItem(i)

Mapped(s) == Ascending(s) /\ \A k \in 1..Len(s) : s[k] = Input!SDKItem(s[k].at)

Searched(s) == Ascending(s) /\ \A k \in 1..Len(s) : s[k] = ToolSearched(s[k].at)

LEMMA MapsAscending ==
  ASSUME InputTyped
  PROVE  LET order == Input!InOrder({i \in Input!Places : Input!IsSent(i)})
         IN  Mapped([k \in DOMAIN order |-> Input!SDKItem(order[k])])
<1> DEFINE S == {i \in Input!Places : Input!IsSent(i)}
           order == Input!InOrder(S)
           c == Cardinality(S)
           s == [k \in DOMAIN order |-> Input!SDKItem(order[k])]
<1>1. S \in SUBSET Input!Places
  OBVIOUS
<1>2. /\ c \in Nat /\ order \in [1..c -> S] /\ \A k, l \in 1..c : k < l => order[k] < order[l]
      /\ \A i \in S : \E k \in 1..c : order[k] = i
  <2> HIDE DEF S
  <2> QED
    BY <1>1, InOrderIs DEF Ascends
<1> HIDE DEF order, c
<1>3. \A k \in 1..c : order[k] \in Input!Places /\ Input!IsSent(order[k])
  BY <1>2
<1>4. \A k \in 1..c : s[k] = Input!SDKItem(order[k])
  BY <1>2
<1>5. s \in Seq(PlacedItems) /\ Len(s) = c
  <2>1. s \in [1..c -> PlacedItems]
    BY <1>2, <1>3, <1>4 DEF PlacedItems
  <2> HIDE DEF s
  <2> QED
    BY <1>2, <2>1
<1> HIDE DEF s
<1>6. \A k \in 1..c : s[k].at = order[k]
  BY <1>4, ItemFields
<1>7. \A i \in Input!Places : Input!IsSent(i) => \E k \in 1..c : s[k].at = i
  BY <1>2, <1>6
<1>8. Ascending(s)
  BY <1>2, <1>3, <1>5, <1>6, <1>7 DEF Ascending
<1>9. Mapped(s)
  BY <1>4, <1>5, <1>6, <1>8 DEF Mapped
<1> QED
  BY <1>9 DEF s, order

-----------------------------------------------------------------------------
(* What a fold over the items carries.                                     *)
Carried == [taken : SUBSET Input!Places, out : Seq([item : PlacedItems, place : Nat])]

LEMMA StartIs == Input!Start \in Carried /\ Input!Start.out = <<>> /\ Input!Start.taken = {}
BY DEF Carried, Input!Start

LEMMA Appends ==
  ASSUME NEW V, NEW s \in Seq(V), NEW e \in V
  PROVE  /\ Append(s, e) \in Seq(V) /\ Len(Append(s, e)) = Len(s) + 1
         /\ \A k \in 1..Len(s) : Append(s, e)[k] = s[k]
         /\ Append(s, e)[Len(s) + 1] = e
OBVIOUS

LEMMA MatchedIs ==
  ASSUME InputTyped, NEW acc \in Carried, NEW i \in Input!Places, NEW item \in PlacedItems
  PROVE  LET m == Input!Matched(acc, i, item) IN
         /\ m \in Carried /\ m.taken = acc.taken \cup {i}
         /\ Len(m.out) = Len(acc.out) + 1
         /\ \A k \in 1..Len(acc.out) : m.out[k] = acc.out[k]
         /\ m.out[Len(acc.out) + 1].item = item /\ m.out[Len(acc.out) + 1].place = i
<1> DEFINE e == [item |-> item, place |-> i]
           V == [item : PlacedItems, place : Nat]
<1>1. e \in V /\ e.item = item /\ e.place = i
  BY PlacesAre
<1>2. acc.out \in Seq(V) /\ acc.taken \cup {i} \in SUBSET Input!Places
  BY DEF Carried
<1>3. Input!Matched(acc, i, item) = [taken |-> acc.taken \cup {i}, out |-> Append(acc.out, e)]
  BY DEF Input!Matched
<1> HIDE DEF e, V
<1>4. /\ Append(acc.out, e) \in Seq(V) /\ Len(Append(acc.out, e)) = Len(acc.out) + 1
      /\ \A k \in 1..Len(acc.out) : Append(acc.out, e)[k] = acc.out[k]
      /\ Append(acc.out, e)[Len(acc.out) + 1] = e
  BY <1>1, <1>2, Appends
<1> QED
  BY <1>1, <1>2, <1>3, <1>4 DEF Carried, V

LEMMA UnmatchedIs ==
  ASSUME NEW acc \in Carried, NEW item \in PlacedItems
  PROVE  LET m == Input!Unmatched(acc, item) IN
         /\ m \in Carried /\ m.taken = acc.taken
         /\ Len(m.out) = Len(acc.out) + 1
         /\ \A k \in 1..Len(acc.out) : m.out[k] = acc.out[k]
         /\ m.out[Len(acc.out) + 1].item = item /\ m.out[Len(acc.out) + 1].place = 0
<1> DEFINE e == [item |-> item, place |-> 0]
           V == [item : PlacedItems, place : Nat]
<1>1. e \in V /\ e.item = item /\ e.place = 0
  OBVIOUS
<1>2. acc.out \in Seq(V)
  BY DEF Carried
<1>3. Input!Unmatched(acc, item) = [taken |-> acc.taken, out |-> Append(acc.out, e)]
  <2>1. acc = [taken |-> acc.taken, out |-> acc.out]
    BY DEF Carried
  <2>2. [acc EXCEPT !.out = Append(acc.out, e)] = [taken |-> acc.taken, out |-> Append(acc.out, e)]
    BY <2>1
  <2> QED
    BY <2>2 DEF Input!Unmatched
<1> HIDE DEF e, V
<1>4. /\ Append(acc.out, e) \in Seq(V) /\ Len(Append(acc.out, e)) = Len(acc.out) + 1
      /\ \A k \in 1..Len(acc.out) : Append(acc.out, e)[k] = acc.out[k]
      /\ Append(acc.out, e)[Len(acc.out) + 1] = e
  BY <1>1, <1>2, Appends
<1> QED
  BY <1>1, <1>2, <1>3, <1>4 DEF Carried, V

-----------------------------------------------------------------------------
(* The tool search.                                                        *)
SearchTypes(type) ==
  CASE type = "item_reference" -> {"compaction", "tool_search_output"}
    [] type = "tool_search_call" -> {"tool_search_call"}
    [] type = "function_call_output" -> {"function_call_output", "tool_search_output"}
    [] OTHER -> {}

SearchLeft(acc, item) ==
  {i \in Input!Places \ acc.taken :
     Input!Raw(i).type \in SearchTypes(item.type) /\ Input!Raw(i).id = item.id}

LEMMA RestoreToolSearchIs ==
  ASSUME NEW acc, NEW item
  PROVE  LET left == SearchLeft(acc, item)
             i == Input!Lowest(left)
         IN  /\ left = {} => Input!RestoreToolSearch(acc, item) = Input!Unmatched(acc, item)
             /\ left # {} /\ Input!Raw(i).type \in {"tool_search_call", "tool_search_output"}
                 /\ item.type # "item_reference"
                => Input!RestoreToolSearch(acc, item) = Input!Matched(acc, i, Input!RawItem(i))
             /\ left # {} /\ (\/ Input!Raw(i).type \notin {"tool_search_call", "tool_search_output"}
                              \/ item.type = "item_reference")
                => Input!RestoreToolSearch(acc, item) = Input!Matched(acc, i, item)
<1> DEFINE left == SearchLeft(acc, item)
           i == Input!Lowest(left)
<1>1. Input!RestoreToolSearch(acc, item) =
        IF left = {} THEN Input!Unmatched(acc, item)
        ELSE IF Input!Raw(i).type \in {"tool_search_call", "tool_search_output"}
             THEN IF item.type = "item_reference" THEN Input!Matched(acc, i, item)
                  ELSE Input!Matched(acc, i, Input!RawItem(i))
             ELSE Input!Matched(acc, i, item)
  BY DEF Input!RestoreToolSearch, SearchLeft, SearchTypes, Input!Left, Input!Outputs
<1> HIDE DEF left, i
<1>2. /\ left = {} => Input!RestoreToolSearch(acc, item) = Input!Unmatched(acc, item)
      /\ left # {} /\ Input!Raw(i).type \in {"tool_search_call", "tool_search_output"}
                 /\ item.type # "item_reference"
                => Input!RestoreToolSearch(acc, item) = Input!Matched(acc, i, Input!RawItem(i))
      /\ left # {} /\ (\/ Input!Raw(i).type \notin {"tool_search_call", "tool_search_output"}
                       \/ item.type = "item_reference")
                => Input!RestoreToolSearch(acc, item) = Input!Matched(acc, i, item)
  BY <1>1
<1> QED
  BY <1>2 DEF left, i

LEMMA RestoreToolSearchType ==
  ASSUME InputTyped, NEW acc \in Carried, NEW item \in PlacedItems
  PROVE  Input!RestoreToolSearch(acc, item) \in Carried
<1> DEFINE left == SearchLeft(acc, item)
           i == Input!Lowest(left)
<1>1. left \in SUBSET Input!Places
  BY DEF SearchLeft
<1> HIDE DEF left
<1>2. CASE left = {}
  BY <1>2, RestoreToolSearchIs, UnmatchedIs DEF left
<1>3. CASE left # {}
  <2>1. i \in Input!Places
    BY <1>1, <1>3, LowestIs
  <2>2. Input!RawItem(i) \in PlacedItems
    BY <2>1 DEF PlacedItems
  <2>3. \/ Input!RestoreToolSearch(acc, item) = Input!Matched(acc, i, item)
        \/ Input!RestoreToolSearch(acc, item) = Input!Matched(acc, i, Input!RawItem(i))
    BY <1>3, RestoreToolSearchIs DEF left
  <2>4. \A x \in PlacedItems : Input!Matched(acc, i, x) \in Carried
    BY <2>1, MatchedIs
  <2> QED
    BY <2>2, <2>3, <2>4
<1> QED
  BY <1>2, <1>3

(* The fold, one item after the other.                                     *)
LEMMA SearchFolded ==
  ASSUME InputTyped, NEW s \in Seq(PlacedItems)
  PROVE  \E c : /\ c \in [0..Len(s) -> Carried] /\ c[0] = Input!Start
                /\ \A k \in 1..Len(s) : c[k] = Input!RestoreToolSearch(c[k - 1], s[k])
                /\ Input!FoldLeft(Input!RestoreToolSearch, Input!Start, s) = c[Len(s)]
<1> DEFINE n == Len(s)
           steps == [k \in 1..n |-> [acc \in Carried |-> Input!RestoreToolSearch(acc, s[k])]]
           Unrolls(g) == g = [x \in SUBSET (1..n) |->
                               IF x = {} THEN Input!Start
                               ELSE Input!RestoreToolSearch(g[x \ {Top(x)}], s[Top(x)])]
           fold == CHOOSE g : Unrolls(g)
<1>1. n \in Nat /\ DOMAIN s = 1..n /\ \A k \in 1..n : s[k] \in PlacedItems
  OBVIOUS
<1>2. steps \in [1..n -> [Carried -> Carried]]
  <2>1. \A k \in 1..n, acc \in Carried : Input!RestoreToolSearch(acc, s[k]) \in Carried
    BY <1>1, RestoreToolSearchType
  <2> QED
    BY <2>1
<1>3. Input!FoldLeft(Input!RestoreToolSearch, Input!Start, s) = fold[1..n]
  BY <1>1 DEF Input!FoldLeft, Input!MapThenFoldSet, Input!Max, Top
<1> HIDE DEF n
<1>4. \E g : Unrolls(g)
  <2>1. PICK g \in [SUBSET (1..n) -> Carried] : IsFold(g, n, Carried, Input!Start, steps)
    <3> HIDE DEF steps
    <3> QED
      BY <1>1, <1>2, StartIs, FoldExists
  <2>2. ASSUME NEW x \in SUBSET (1..n), x # {}
        PROVE  g[x] = Input!RestoreToolSearch(g[x \ {Top(x)}], s[Top(x)])
    <3>1. Top(x) \in 1..n /\ g[x \ {Top(x)}] \in Carried
      BY <1>1, <2>2, TopOfIndices
    <3>2. g[x] = steps[Top(x)][g[x \ {Top(x)}]]
      BY <2>1, <2>2 DEF IsFold
    <3> QED
      BY <3>1, <3>2
  <2>3. g[{}] = Input!Start
    BY <2>1 DEF IsFold
  <2>4. Unrolls(g)
    BY <2>2, <2>3
  <2> QED
    BY <2>4
<1>5. Unrolls(fold)
  <2> HIDE DEF Unrolls
  <2> QED
    BY <1>4
<1>6. IsFold(fold, n, Carried, Input!Start, steps)
  <2> HIDE DEF fold
  <2>1. fold[{}] = Input!Start
    BY <1>5
  <2>2. ASSUME NEW x \in SUBSET (1..n), x # {}, fold[x \ {Top(x)}] \in Carried
        PROVE  fold[x] = steps[Top(x)][fold[x \ {Top(x)}]]
    <3>1. Top(x) \in 1..n
      BY <1>1, <2>2, TopOfIndices
    <3>2. fold[x] = Input!RestoreToolSearch(fold[x \ {Top(x)}], s[Top(x)])
      BY <1>5, <2>2
    <3> QED
      BY <2>2, <3>1, <3>2
  <2> QED
    BY <2>1, <2>2 DEF IsFold
<1> HIDE DEF fold
<1>7. PICK c : Recurses(c, n, Carried, Input!Start, steps) /\ c[n] = fold[1..n]
  <2> HIDE DEF steps
  <2> QED
    BY <1>1, <1>2, <1>6, StartIs, FoldRecurses
<1>8. ASSUME NEW k \in 1..n PROVE c[k] = Input!RestoreToolSearch(c[k - 1], s[k])
  <2>1. c[k - 1] \in Carried /\ c[k] = steps[k][c[k - 1]]
    <3> HIDE DEF steps
    <3>1. k - 1 \in 0..n
      BY <1>1
    <3> QED
      BY <1>7, <3>1 DEF Recurses
  <2> QED
    BY <2>1
<1> QED
  BY <1>3, <1>7, <1>8 DEF Recurses, n

(* The k-th item comes after those before it.                              *)
LEMMA NotBefore ==
  ASSUME InputTyped, NEW s, Ascending(s), NEW k \in 1..Len(s)
  PROVE  /\ s[k].at \in Input!Places /\ Input!IsSent(s[k].at)
         /\ ~\E j \in 1..(k - 1) : s[j].at = s[k].at
         /\ \A j \in 1..k : j \in 1..(k - 1) \/ j = k
<1>1. Len(s) \in Nat
  BY DEF Ascending
<1>2. s[k].at \in Input!Places /\ Input!IsSent(s[k].at)
  BY DEF Ascending
<1>3. ASSUME NEW j \in 1..(k - 1) PROVE s[j].at # s[k].at
  <2>1. j \in 1..Len(s) /\ j < k
    BY <1>1
  <2>2. s[j].at < s[k].at /\ s[j].at \in Input!Places
    BY <2>1 DEF Ascending
  <2>3. s[j].at \in Nat /\ s[k].at \in Nat
    BY <1>2, <2>2, PlacesAre
  <2> QED
    BY <2>2, <2>3
<1> QED
  BY <1>1, <1>2, <1>3

(* Of some places that are sent, and where no item has come from yet, that *)
(* of the next item is the first.                                          *)
LEMMA NextIsLowest ==
  ASSUME InputTyped, NEW s, Ascending(s), NEW k \in 1..Len(s), NEW S \in SUBSET Input!Places,
         s[k].at \in S, \A p \in S : Input!IsSent(p) /\ ~\E j \in 1..(k - 1) : s[j].at = p
  PROVE  Input!Lowest(S) = s[k].at
<1>1. Len(s) \in Nat
  BY DEF Ascending
<1>2. ASSUME NEW p \in S PROVE s[k].at <= p
  <2>1. PICK j \in 1..Len(s) : s[j].at = p
    BY <1>2 DEF Ascending
  <2>2. j = k \/ k < j
    BY <1>1, <2>1
  <2>3. k < j => s[k].at < p
    BY <2>1 DEF Ascending
  <2>4. s[k].at \in Nat /\ p \in Nat
    BY PlacesAre
  <2> QED
    BY <2>1, <2>2, <2>3, <2>4
<1> QED
  BY <1>2, LowestIsThis

SearchKinds == {"tool_search_call", "function_call_output", "tool_search_output"}

(* After k items.                                                          *)
SearchDone(acc, s, k) ==
  /\ acc \in Carried /\ Len(acc.out) = k
  /\ \A j \in 1..k : acc.out[j].item = ToolSearched(s[j].at)
  /\ \A p \in Input!Places :
       Input!Raw(p).type \in SearchKinds => (p \in acc.taken <=> \E j \in 1..k : s[j].at = p)

LEMMA SearchStep ==
  ASSUME InputTyped, NEW s, Mapped(s), NEW k \in 1..Len(s), NEW acc, SearchDone(acc, s, k - 1)
  PROVE  SearchDone(Input!RestoreToolSearch(acc, s[k]), s, k)
<1> DEFINE i == s[k].at
           item == s[k]
           r == Input!Raw(i)
           left == SearchLeft(acc, item)
           next == Input!RestoreToolSearch(acc, item)
<1>1. Ascending(s) /\ item = Input!SDKItem(i) /\ item \in PlacedItems
  BY DEF Mapped, Ascending
<1>2. /\ i \in Input!Places /\ Input!IsSent(i)
      /\ ~\E j \in 1..(k - 1) : s[j].at = i
      /\ \A j \in 1..k : j \in 1..(k - 1) \/ j = k
      /\ k \in Nat /\ 1..(k - 1) \subseteq 1..k /\ k \in 1..k
  BY <1>1, NotBefore DEF Ascending
<1>3. /\ acc \in Carried /\ Len(acc.out) = k - 1
      /\ \A j \in 1..(k - 1) : acc.out[j].item = ToolSearched(s[j].at)
      /\ \A p \in Input!Places :
           Input!Raw(p).type \in SearchKinds => (p \in acc.taken <=> \E j \in 1..(k - 1) : s[j].at = p)
  BY DEF SearchDone
<1>4. item.type = Input!SDKType(r) /\ item.id = r.id
  BY <1>1, ItemFields
<1>5. /\ r.type \in ItemTypes
      /\ Input!SDKType(r) = IF r.type \in {"reasoning", "compaction"} /\ store THEN "item_reference"
                            ELSE IF r.type = "tool_search_output" THEN "function_call_output"
                            ELSE IF r.type = "agent_message" THEN "agent_message anchor"
                            ELSE IF r.type = "additional_tools" THEN "additional_tools anchor"
                            ELSE r.type
  BY <1>2, ItemKinds
<1> HIDE DEF i, item, r
<1>6. Input!RawItem(i) \in PlacedItems
  BY <1>2 DEF PlacedItems
<1>7. /\ left \in SUBSET Input!Places
      /\ \A p \in left : p \notin acc.taken /\ Input!Raw(p).type \in SearchTypes(item.type)
                         /\ Input!Raw(p).id = item.id
  BY DEF SearchLeft
<1>8. CASE r.type \in SearchKinds
  <2>1. i \in left
    <3>1. i \notin acc.taken
      BY <1>2, <1>3, <1>8 DEF r
    <3>2. r.type \in SearchTypes(item.type)
      BY <1>4, <1>5, <1>8 DEF SearchTypes, SearchKinds
    <3> QED
      BY <1>2, <1>4, <3>1, <3>2 DEF SearchLeft, r
  <2>2. ASSUME NEW p \in left
        PROVE  /\ Input!Raw(p).type \in SearchKinds /\ Input!IsSent(p)
               /\ ~\E j \in 1..(k - 1) : s[j].at = p
    <3>1. Input!Raw(p).type \in SearchKinds
      BY <1>4, <1>5, <1>7, <1>8 DEF SearchTypes, SearchKinds
    <3>2. Input!IsSent(p)
      BY <1>7, <3>1, KindsSent DEF SearchKinds
    <3> QED
      BY <1>3, <1>7, <3>1, <3>2
  <2>3. Input!Lowest(left) = i
    <3> HIDE DEF left
    <3> QED
      BY <1>1, <1>7, <2>1, <2>2, NextIsLowest DEF i
  <2>4. item.type # "item_reference"
    BY <1>4, <1>5, <1>8 DEF SearchKinds
  <2>5. next = Input!Matched(acc, i, ToolSearched(i)) /\ ToolSearched(i) \in PlacedItems
    <3>1. CASE r.type \in {"tool_search_call", "tool_search_output"}
      <4>1. ToolSearched(i) = Input!RawItem(i)
        BY <3>1 DEF ToolSearched, r
      <4> QED
        BY <1>6, <2>1, <2>3, <2>4, <3>1, <4>1, RestoreToolSearchIs DEF r
    <3>2. CASE r.type \notin {"tool_search_call", "tool_search_output"}
      <4>1. ToolSearched(i) = item
        BY <1>1, <3>2 DEF ToolSearched, r, item, i
      <4> QED
        BY <1>1, <2>1, <2>3, <3>2, <4>1, RestoreToolSearchIs DEF r, item
    <3> QED
      BY <3>1, <3>2
  <2> HIDE DEF next, left
  <2>6. /\ next \in Carried /\ next.taken = acc.taken \cup {i} /\ Len(next.out) = k
        /\ \A j \in 1..(k - 1) : next.out[j] = acc.out[j]
        /\ next.out[k].item = ToolSearched(i)
    <3>1. Len(acc.out) + 1 = k
      BY <1>2, <1>3
    <3>2. /\ next \in Carried /\ next.taken = acc.taken \cup {i}
          /\ Len(next.out) = Len(acc.out) + 1
          /\ \A j \in 1..Len(acc.out) : next.out[j] = acc.out[j]
          /\ next.out[Len(acc.out) + 1].item = ToolSearched(i)
      <4> DEFINE x == ToolSearched(i)
      <4>1. i \in Input!Places /\ acc \in Carried /\ x \in PlacedItems
        BY <1>2, <1>3, <2>5
      <4>2. next = Input!Matched(acc, i, x)
        BY <2>5
      <4> HIDE DEF x
      <4>3. /\ next \in Carried /\ next.taken = acc.taken \cup {i}
            /\ Len(next.out) = Len(acc.out) + 1
            /\ \A j \in 1..Len(acc.out) : next.out[j] = acc.out[j]
            /\ next.out[Len(acc.out) + 1].item = x
        BY <4>1, <4>2, MatchedIs
      <4> QED
        BY <4>3 DEF x
    <3> QED
      BY <1>3, <3>1, <3>2
  <2>7. \A j \in 1..k : next.out[j].item = ToolSearched(s[j].at)
    BY <1>2, <1>3, <2>6 DEF i
  <2>8. ASSUME NEW p \in Input!Places, Input!Raw(p).type \in SearchKinds
        PROVE  p \in next.taken <=> \E j \in 1..k : s[j].at = p
    BY <1>2, <1>3, <2>6, <2>8 DEF i
  <2> QED
    BY <2>6, <2>7, <2>8 DEF SearchDone, next, item
<1>9. CASE r.type \notin SearchKinds
  <2>1. ToolSearched(i) = item
    BY <1>1, <1>9 DEF ToolSearched, r, item, i, SearchKinds
  <2>2. item.type \notin {"tool_search_call", "function_call_output"}
    BY <1>4, <1>5, <1>9 DEF SearchKinds
  <2>3. ASSUME NEW p \in left PROVE Input!Raw(p).type \notin SearchKinds
    <3>1. item.type = "item_reference" /\ Input!Raw(p).type \in {"compaction", "tool_search_output"}
      BY <1>7, <2>2 DEF SearchTypes
    <3>2. r.type \in {"reasoning", "compaction"}
      BY <1>4, <1>5, <3>1 DEF ItemTypes
    <3>3. Input!Raw(p).id = r.id
      BY <1>4, <1>7
    <3>4. r \in InputItems /\ Input!Raw(p) \in InputItems
      BY <1>2, <1>7, PlacesAre DEF r
    <3>5. r.type = Input!Raw(p).type
      BY <3>1, <3>2, <3>3, <3>4, InputAssumption
    <3> QED
      BY <1>9, <3>5
  <2>4. \/ next = Input!Unmatched(acc, item)
        \/ \E p \in left : next = Input!Matched(acc, p, item)
    <3>1. CASE left = {}
      BY <3>1, RestoreToolSearchIs
    <3>2. CASE left # {}
      <4>1. Input!Lowest(left) \in left
        BY <1>7, <3>2, LowestIs
      <4>2. Input!Raw(Input!Lowest(left)).type \notin {"tool_search_call", "tool_search_output"}
        BY <2>3, <4>1 DEF SearchKinds
      <4>3. next = Input!Matched(acc, Input!Lowest(left), item)
        BY <3>2, <4>2, RestoreToolSearchIs
      <4> QED
        BY <4>1, <4>3
    <3> QED
      BY <3>1, <3>2
  <2> HIDE DEF next, left
  <2>5. /\ next \in Carried /\ Len(next.out) = k
        /\ next.taken = acc.taken \/ \E p \in left : next.taken = acc.taken \cup {p}
        /\ \A j \in 1..(k - 1) : next.out[j] = acc.out[j]
        /\ next.out[k].item = item
    <3>1. Len(acc.out) + 1 = k
      BY <1>2, <1>3
    <3>2. CASE next = Input!Unmatched(acc, item)
      <4>1. /\ next \in Carried /\ next.taken = acc.taken
            /\ Len(next.out) = Len(acc.out) + 1
            /\ \A j \in 1..Len(acc.out) : next.out[j] = acc.out[j]
            /\ next.out[Len(acc.out) + 1].item = item
        BY <1>1, <1>3, <3>2, UnmatchedIs
      <4> QED
        BY <1>3, <3>1, <4>1
    <3>3. CASE \E p \in left : next = Input!Matched(acc, p, item)
      <4>1. PICK p \in left : next = Input!Matched(acc, p, item)
        BY <3>3
      <4>2. p \in Input!Places /\ acc \in Carried /\ item \in PlacedItems
        BY <1>1, <1>3, <1>7
      <4> HIDE DEF item
      <4>3. /\ next \in Carried /\ next.taken = acc.taken \cup {p}
            /\ Len(next.out) = Len(acc.out) + 1
            /\ \A j \in 1..Len(acc.out) : next.out[j] = acc.out[j]
            /\ next.out[Len(acc.out) + 1].item = item
        BY <4>1, <4>2, MatchedIs
      <4> QED
        BY <1>3, <3>1, <4>1, <4>3
    <3> QED
      BY <2>4, <3>2, <3>3
  <2>6. \A j \in 1..k : next.out[j].item = ToolSearched(s[j].at)
    BY <1>2, <1>3, <2>1, <2>5 DEF i
  <2>7. ASSUME NEW p \in Input!Places, Input!Raw(p).type \in SearchKinds
        PROVE  p \in next.taken <=> \E j \in 1..k : s[j].at = p
    <3>1. p # i
      BY <1>9, <2>7 DEF r
    <3>2. p \in next.taken <=> p \in acc.taken
      BY <2>3, <2>5, <2>7
    <3> QED
      BY <1>2, <1>3, <2>7, <3>1, <3>2 DEF i
  <2> QED
    BY <2>5, <2>6, <2>7 DEF SearchDone, next, item
<1> QED
  BY <1>8, <1>9

LEMMA OutItemsAre ==
  ASSUME NEW acc \in Carried
  PROVE  /\ Input!OutItems(acc) \in Seq(PlacedItems)
         /\ Len(acc.out) \in Nat /\ Len(Input!OutItems(acc)) = Len(acc.out)
         /\ \A k \in 1..Len(acc.out) : Input!OutItems(acc)[k] = acc.out[k].item
         /\ \A k \in 1..Len(acc.out) : acc.out[k].place \in Nat
<1> DEFINE o == acc.out
           V == [item : PlacedItems, place : Nat]
<1>1. o \in Seq(V)
  BY DEF Carried
<1> HIDE DEF o, V
<1>2. /\ Len(o) \in Nat /\ DOMAIN o = 1..Len(o)
      /\ \A k \in 1..Len(o) : o[k].item \in PlacedItems /\ o[k].place \in Nat
  <2>1. Len(o) \in Nat /\ DOMAIN o = 1..Len(o)
    BY <1>1
  <2>2. \A k \in 1..Len(o) : o[k] \in V
    BY <1>1
  <2> QED
    BY <2>1, <2>2 DEF V
<1>3. Input!OutItems(acc) = [k \in 1..Len(o) |-> o[k].item]
  BY <1>2 DEF Input!OutItems, o
<1>4. Input!OutItems(acc) \in [1..Len(o) -> PlacedItems]
  BY <1>2, <1>3
<1>5. Input!OutItems(acc) \in Seq(PlacedItems) /\ Len(Input!OutItems(acc)) = Len(o)
  BY <1>2, <1>4
<1> QED
  BY <1>2, <1>3, <1>5 DEF o

(* Items of the same places.                                               *)
LEMMA SamePlaces ==
  ASSUME NEW s, Ascending(s), NEW t \in Seq(PlacedItems), Len(t) = Len(s),
         \A k \in 1..Len(s) : t[k].at = s[k].at
  PROVE  Ascending(t)
BY DEF Ascending

LEMMA ToolSearchedAt ==
  ASSUME NEW i
  PROVE  ToolSearched(i).at = i
BY ItemFields DEF ToolSearched

LEMMA SearchRestores ==
  ASSUME InputTyped, NEW s, Mapped(s)
  PROVE  Searched(Input!OutItems(Input!FoldLeft(Input!RestoreToolSearch, Input!Start, s)))
<1> DEFINE n == Len(s)
           acc == Input!FoldLeft(Input!RestoreToolSearch, Input!Start, s)
           t == Input!OutItems(acc)
<1>1. s \in Seq(PlacedItems) /\ n \in Nat /\ Ascending(s)
  BY DEF Mapped, Ascending
<1>2. PICK c : /\ c \in [0..n -> Carried] /\ c[0] = Input!Start
               /\ \A k \in 1..n : c[k] = Input!RestoreToolSearch(c[k - 1], s[k])
               /\ acc = c[n]
  BY <1>1, SearchFolded
<1> HIDE DEF acc
<1> DEFINE Steps == {k \in 0..n : SearchDone(c[k], s, k)}
<1>3. 0 \in Steps
  <2>1. c[0] \in Carried /\ c[0].out = <<>> /\ c[0].taken = {}
    BY <1>2, StartIs
  <2>2. SearchDone(c[0], s, 0)
    BY <2>1 DEF SearchDone
  <2> QED
    BY <1>1, <2>2
<1>4. ASSUME NEW k \in 0..n, k \in Steps, k < n PROVE k + 1 \in Steps
  <2> DEFINE m == k + 1
  <2>1. m \in 1..n /\ m - 1 = k /\ SearchDone(c[k], s, k)
    BY <1>1, <1>4
  <2> HIDE DEF m
  <2>2. SearchDone(Input!RestoreToolSearch(c[m - 1], s[m]), s, m)
    BY <2>1, SearchStep
  <2>3. SearchDone(c[m], s, m) /\ m \in 0..n
    BY <1>2, <2>1, <2>2
  <2> QED
    BY <2>3 DEF m
<1>5. SearchDone(acc, s, n)
  <2>1. 0..n \subseteq Steps
    <3> HIDE DEF Steps, n
    <3> QED
      BY <1>1, <1>3, <1>4, BoundedInduction
  <2>2. n \in Steps
    BY <1>1, <2>1
  <2> QED
    BY <1>2, <2>2
<1>6. acc \in Carried /\ Len(acc.out) = n /\ \A k \in 1..n : acc.out[k].item = ToolSearched(s[k].at)
  BY <1>5 DEF SearchDone
<1>7. t \in Seq(PlacedItems) /\ Len(t) = n /\ \A k \in 1..n : t[k] = ToolSearched(s[k].at)
  <2>1. /\ t \in Seq(PlacedItems) /\ Len(t) = Len(acc.out)
        /\ \A k \in 1..Len(acc.out) : t[k] = acc.out[k].item
    BY <1>6, OutItemsAre
  <2> HIDE DEF t, n
  <2> QED
    BY <1>6, <2>1
<1> HIDE DEF t
<1>8. \A k \in 1..n : t[k].at = s[k].at
  BY <1>7, ToolSearchedAt
<1>9. Ascending(t)
  BY <1>1, <1>7, <1>8, SamePlaces
<1>10. Searched(t)
  BY <1>7, <1>8, <1>9 DEF Searched
<1> QED
  BY <1>10 DEF t, acc

-----------------------------------------------------------------------------
(* The items that are located.                                             *)
LocateLeft(acc, item) ==
  IF Input!IsEasy(item) THEN Input!EasyMatch(acc, item) ELSE Input!ItemMatch(acc, item)

IsReplaced(item) == Input!IsEasy(item) \/ item.type = "function_call_output"

LEMMA LocateIs ==
  ASSUME NEW acc, NEW item
  PROVE  LET left == LocateLeft(acc, item)
             i == Input!Lowest(left)
         IN  /\ left = {} => Input!Locate(acc, item) = Input!Unmatched(acc, item)
             /\ left # {} /\ IsReplaced(item)
                => Input!Locate(acc, item) = Input!Matched(acc, i, Input!RawItem(i))
             /\ left # {} /\ ~IsReplaced(item) => Input!Locate(acc, item) = Input!Matched(acc, i, item)
<1> DEFINE left == LocateLeft(acc, item)
           i == Input!Lowest(left)
<1>1. Input!Locate(acc, item) =
        IF left = {} THEN Input!Unmatched(acc, item)
        ELSE IF IsReplaced(item) THEN Input!Matched(acc, i, Input!RawItem(i))
        ELSE Input!Matched(acc, i, item)
  BY DEF Input!Locate, LocateLeft, IsReplaced
<1> HIDE DEF left, i
<1>2. /\ left = {} => Input!Locate(acc, item) = Input!Unmatched(acc, item)
      /\ left # {} /\ IsReplaced(item)
         => Input!Locate(acc, item) = Input!Matched(acc, i, Input!RawItem(i))
      /\ left # {} /\ ~IsReplaced(item) => Input!Locate(acc, item) = Input!Matched(acc, i, item)
  BY <1>1
<1> QED
  BY <1>2 DEF left, i

LEMMA LocateLeftIs ==
  ASSUME NEW acc, NEW item
  PROVE  LocateLeft(acc, item) \subseteq Input!Places \ acc.taken
BY DEF LocateLeft, Input!EasyMatch, Input!ItemMatch, Input!Left

LEMMA LocateType ==
  ASSUME InputTyped, NEW acc \in Carried, NEW item \in PlacedItems
  PROVE  Input!Locate(acc, item) \in Carried
<1> DEFINE left == LocateLeft(acc, item)
           i == Input!Lowest(left)
<1>1. left \in SUBSET Input!Places
  BY LocateLeftIs
<1> HIDE DEF left
<1>2. CASE left = {}
  BY <1>2, LocateIs, UnmatchedIs DEF left
<1>3. CASE left # {}
  <2>1. i \in Input!Places
    BY <1>1, <1>3, LowestIs
  <2>2. Input!RawItem(i) \in PlacedItems
    BY <2>1 DEF PlacedItems
  <2>3. \/ Input!Locate(acc, item) = Input!Matched(acc, i, item)
        \/ Input!Locate(acc, item) = Input!Matched(acc, i, Input!RawItem(i))
    BY <1>3, LocateIs DEF left
  <2>4. \A x \in PlacedItems : Input!Matched(acc, i, x) \in Carried
    BY <2>1, MatchedIs
  <2> QED
    BY <2>2, <2>3, <2>4
<1> QED
  BY <1>2, <1>3

LEMMA LocateFolded ==
  ASSUME InputTyped, NEW s \in Seq(PlacedItems)
  PROVE  \E c : /\ c \in [0..Len(s) -> Carried] /\ c[0] = Input!Start
                /\ \A k \in 1..Len(s) : c[k] = Input!Locate(c[k - 1], s[k])
                /\ Input!FoldLeft(Input!Locate, Input!Start, s) = c[Len(s)]
<1> DEFINE n == Len(s)
           steps == [k \in 1..n |-> [acc \in Carried |-> Input!Locate(acc, s[k])]]
           Unrolls(g) == g = [x \in SUBSET (1..n) |->
                               IF x = {} THEN Input!Start
                               ELSE Input!Locate(g[x \ {Top(x)}], s[Top(x)])]
           fold == CHOOSE g : Unrolls(g)
<1>1. n \in Nat /\ DOMAIN s = 1..n /\ \A k \in 1..n : s[k] \in PlacedItems
  OBVIOUS
<1>2. steps \in [1..n -> [Carried -> Carried]]
  <2>1. \A k \in 1..n, acc \in Carried : Input!Locate(acc, s[k]) \in Carried
    BY <1>1, LocateType
  <2> QED
    BY <2>1
<1>3. Input!FoldLeft(Input!Locate, Input!Start, s) = fold[1..n]
  BY <1>1 DEF Input!FoldLeft, Input!MapThenFoldSet, Input!Max, Top
<1> HIDE DEF n
<1>4. \E g : Unrolls(g)
  <2>1. PICK g \in [SUBSET (1..n) -> Carried] : IsFold(g, n, Carried, Input!Start, steps)
    <3> HIDE DEF steps
    <3> QED
      BY <1>1, <1>2, StartIs, FoldExists
  <2>2. ASSUME NEW x \in SUBSET (1..n), x # {}
        PROVE  g[x] = Input!Locate(g[x \ {Top(x)}], s[Top(x)])
    <3>1. Top(x) \in 1..n /\ g[x \ {Top(x)}] \in Carried
      BY <1>1, <2>2, TopOfIndices
    <3>2. g[x] = steps[Top(x)][g[x \ {Top(x)}]]
      BY <2>1, <2>2 DEF IsFold
    <3> QED
      BY <3>1, <3>2
  <2>3. g[{}] = Input!Start
    BY <2>1 DEF IsFold
  <2>4. Unrolls(g)
    BY <2>2, <2>3
  <2> QED
    BY <2>4
<1>5. Unrolls(fold)
  <2> HIDE DEF Unrolls
  <2> QED
    BY <1>4
<1>6. IsFold(fold, n, Carried, Input!Start, steps)
  <2> HIDE DEF fold
  <2>1. fold[{}] = Input!Start
    BY <1>5
  <2>2. ASSUME NEW x \in SUBSET (1..n), x # {}, fold[x \ {Top(x)}] \in Carried
        PROVE  fold[x] = steps[Top(x)][fold[x \ {Top(x)}]]
    <3>1. Top(x) \in 1..n
      BY <1>1, <2>2, TopOfIndices
    <3>2. fold[x] = Input!Locate(fold[x \ {Top(x)}], s[Top(x)])
      BY <1>5, <2>2
    <3> QED
      BY <2>2, <3>1, <3>2
  <2> QED
    BY <2>1, <2>2 DEF IsFold
<1> HIDE DEF fold
<1>7. PICK c : Recurses(c, n, Carried, Input!Start, steps) /\ c[n] = fold[1..n]
  <2> HIDE DEF steps
  <2> QED
    BY <1>1, <1>2, <1>6, StartIs, FoldRecurses
<1>8. ASSUME NEW k \in 1..n PROVE c[k] = Input!Locate(c[k - 1], s[k])
  <2>1. c[k - 1] \in Carried /\ c[k] = steps[k][c[k - 1]]
    <3> HIDE DEF steps
    <3>1. k - 1 \in 0..n
      BY <1>1
    <3> QED
      BY <1>7, <3>1 DEF Recurses
  <2> QED
    BY <2>1
<1> QED
  BY <1>3, <1>7, <1>8 DEF Recurses, n

(* What an item is once the items have been located.                       *)
LocatedItem(i) ==
  IF Input!Raw(i).type \in {"message", "function_call_output"} THEN Input!RawItem(i)
  ELSE ToolSearched(i)

(* What the messages of an item's role are, among those that are left.     *)
LEMMA EasyMatches ==
  ASSUME InputTyped, NEW acc, NEW i \in Input!Places \ acc.taken, Input!IsSent(i),
         Input!Raw(i).type = "message"
  PROVE  LET left == LocateLeft(acc, Input!SDKItem(i)) IN
         /\ i \in left
         /\ \A p \in left : Input!IsSent(p) /\ Input!Raw(p).type = "message"
<1> DEFINE item == Input!SDKItem(i)
           r == Input!Raw(i)
           sameRole == {p \in Input!Left(acc) : Input!SameRole(Input!Raw(p), item.role)}
           sameText == {p \in sameRole : /\ ~Input!IsEmpty(Input!Raw(p))
                                         /\ Input!Raw(p).text \subseteq item.text}
           left == LocateLeft(acc, item)
<1>1. /\ item.text = r.text
      /\ item.role = r.role \/ (Input!IsSystem(r.role) /\ item.role = "developer")
      /\ item.type = "message"
  BY ItemFields, ItemKinds
<1>2. left = IF sameText # {} THEN sameText ELSE sameRole
  BY <1>1 DEF LocateLeft, Input!EasyMatch, Input!IsEasy
<1> HIDE DEF item, left
<1>3. i \in sameRole
  BY <1>1 DEF Input!Left, Input!SameRole, Input!IsEasy, Input!IsSystem
<1>4. \A p \in sameRole : p \in Input!Places /\ Input!Raw(p).type = "message"
  BY DEF Input!Left, Input!SameRole, Input!IsEasy
<1>5. CASE ~Input!IsEmpty(r)
  <2>1. i \in sameText
    BY <1>1, <1>3, <1>5
  <2>2. left = sameText
    BY <1>2, <2>1
  <2>3. ASSUME NEW p \in sameText PROVE Input!IsSent(p)
    <3>1. ~Input!IsEmpty(Input!Raw(p)) /\ p \in Input!Places /\ Input!Raw(p).type = "message"
      BY <1>4
    <3> QED
      BY <3>1, KindsSent
  <2> QED
    BY <1>4, <2>1, <2>2, <2>3 DEF left, item
<1>6. CASE Input!IsEmpty(r)
  <2>1. r.role = "user"
    BY <1>6, KindsSent
  <2>2. item.role = "user"
    BY <1>1, <2>1 DEF Input!IsSystem
  <2>3. sameText = {}
    <3>1. r.text \in {{}, {"parts"}}
      BY <1>6 DEF Input!IsEmpty
    <3>2. \A x : x \subseteq r.text => x \in {{}, {"parts"}}
      BY <3>1
    <3> QED
      BY <1>1, <3>2 DEF Input!IsEmpty
  <2>4. \A p \in sameRole : Input!Raw(p).role = "user"
    BY <2>2 DEF Input!SameRole, Input!IsSystem
  <2>5. \A p \in sameRole : Input!IsSent(p)
    BY <1>4, <2>4, KindsSent
  <2>6. left = sameRole
    BY <1>2, <2>3
  <2> QED
    BY <1>3, <1>4, <2>5, <2>6 DEF left, item
<1> QED
  BY <1>5, <1>6

(* What the other items match: what has their type, and they themselves.   *)
LEMMA ItemMatches ==
  ASSUME InputTyped, NEW acc, NEW i \in Input!Places \ acc.taken, Input!IsSent(i),
         Input!Raw(i).type # "message"
  PROVE  LET left == LocateLeft(acc, ToolSearched(i)) IN
         /\ \A p \in left : Input!Raw(p).type = Input!Raw(i).type
         /\ i \notin left => Input!Raw(i).type = "reasoning" /\ left = {}
<1> DEFINE item == ToolSearched(i)
           r == Input!Raw(i)
           left == LocateLeft(acc, item)
<1>1. /\ item.id = r.id /\ r.type \in ItemTypes \ {"message", "web_search_call"}
      /\ item.type = IF r.type \in {"reasoning", "compaction"} /\ store THEN "item_reference"
                     ELSE IF r.type = "agent_message" THEN "agent_message anchor"
                     ELSE IF r.type = "additional_tools" THEN "additional_tools anchor"
                     ELSE r.type
  <2>1. r.type \in ItemTypes \ {"message", "web_search_call"}
    BY ItemKinds, KindsSent
  <2>2. CASE r.type \in {"tool_search_call", "tool_search_output"}
    <3>1. item.id = r.id /\ item.type = r.type
      BY <2>2, ItemFields DEF ToolSearched
    <3> QED
      BY <2>1, <2>2, <3>1
  <2>3. CASE r.type \notin {"tool_search_call", "tool_search_output"}
    <3>1. item.id = r.id /\ item.type = Input!SDKType(r)
      BY <2>3, ItemFields DEF ToolSearched
    <3> QED
      BY <2>1, <2>3, <3>1, ItemKinds
  <2> QED
    BY <2>2, <2>3
<1> HIDE DEF item, r
<1>2. left = {p \in Input!Places \ acc.taken : Input!IsMatch(Input!Raw(p), item)}
  BY <1>1 DEF LocateLeft, Input!ItemMatch, Input!Left, Input!IsEasy, ItemTypes
<1> HIDE DEF left
<1>3. \A p \in Input!Places : Input!Raw(p) \in InputItems
  BY PlacesAre
<1>4. ASSUME NEW p \in left PROVE Input!Raw(p).type = r.type
  <2>1. Input!IsMatch(Input!Raw(p), item) /\ Input!Raw(p) \in InputItems /\ r \in InputItems
    BY <1>2, <1>3 DEF r
  <2>2. CASE item.type = "item_reference"
    <3>1. r.type \in {"reasoning", "compaction"}
      BY <1>1, <2>2 DEF ItemTypes
    <3>2. Input!Raw(p).type \in {"compaction", "tool_search_output"} /\ Input!Raw(p).id = r.id
      BY <1>1, <2>1, <2>2 DEF Input!IsMatch
    <3> QED
      BY <2>1, <3>1, <3>2, InputAssumption
  <2>3. CASE item.type # "item_reference"
    BY <1>1, <2>1, <2>3 DEF Input!IsMatch, ItemTypes
  <2> QED
    BY <2>2, <2>3
<1>5. CASE r.type = "reasoning" /\ store
  <2>1. item.type = "item_reference"
    BY <1>1, <1>5
  <2>2. ASSUME NEW p \in left PROVE FALSE
    <3>1. Input!Raw(p).type \in {"compaction", "tool_search_output"}
      BY <1>2, <2>1 DEF Input!IsMatch
    <3> QED
      BY <1>4, <1>5, <3>1
  <2> QED
    BY <1>5, <2>2 DEF left, r, item
<1>6. CASE ~(r.type = "reasoning" /\ store)
  <2>1. Input!IsMatch(r, item)
    BY <1>1, <1>6 DEF Input!IsMatch, ItemTypes
  <2>2. i \in left
    BY <1>2, <2>1 DEF r
  <2> QED
    BY <1>4, <2>2 DEF left, r, item
<1> QED
  BY <1>5, <1>6

(* After k items.  Only reasoning may be before its own place.             *)
LocateDone(acc, s, k) ==
  /\ acc \in Carried /\ Len(acc.out) = k
  /\ \A j \in 1..k :
       /\ acc.out[j].item = LocatedItem(s[j].at)
       /\ Input!Raw(s[j].at).type # "reasoning" => acc.out[j].place = s[j].at
       /\ acc.out[j].place <= s[j].at
  /\ \A p \in Input!Places :
       Input!Raw(p).type # "reasoning" => (p \in acc.taken <=> \E j \in 1..k : s[j].at = p)
  /\ \A p \in acc.taken : \E j \in 1..k : p <= s[j].at

LEMMA LocateStep ==
  ASSUME InputTyped, NEW s, Searched(s), NEW k \in 1..Len(s), NEW acc, LocateDone(acc, s, k - 1)
  PROVE  LocateDone(Input!Locate(acc, s[k]), s, k)
<1> DEFINE i == s[k].at
           item == s[k]
           r == Input!Raw(i)
           left == LocateLeft(acc, item)
           next == Input!Locate(acc, item)
<1>1. Ascending(s) /\ item = ToolSearched(i) /\ item \in PlacedItems
  BY DEF Searched, Ascending
<1>2. /\ i \in Input!Places /\ Input!IsSent(i) /\ i \in Nat
      /\ ~\E j \in 1..(k - 1) : s[j].at = i
      /\ \A j \in 1..k : j \in 1..(k - 1) \/ j = k
      /\ k \in Nat /\ 1..(k - 1) \subseteq 1..k /\ k \in 1..k
  BY <1>1, NotBefore, PlacesAre DEF Ascending
<1>3. /\ acc \in Carried /\ Len(acc.out) = k - 1
      /\ \A j \in 1..(k - 1) :
           /\ acc.out[j].item = LocatedItem(s[j].at)
           /\ Input!Raw(s[j].at).type # "reasoning" => acc.out[j].place = s[j].at
           /\ acc.out[j].place <= s[j].at
      /\ \A p \in Input!Places :
           Input!Raw(p).type # "reasoning" => (p \in acc.taken <=> \E j \in 1..(k - 1) : s[j].at = p)
      /\ \A p \in acc.taken : \E j \in 1..(k - 1) : p <= s[j].at
  BY DEF LocateDone
<1>4. r.type \in ItemTypes \ {"web_search_call"}
  BY <1>2, ItemKinds, KindsSent
<1>5. left \subseteq Input!Places \ acc.taken
  BY LocateLeftIs
<1>6. i \notin acc.taken
  <2>1. CASE r.type # "reasoning"
    BY <1>2, <1>3, <2>1
  <2>2. ASSUME i \in acc.taken PROVE FALSE
    <3>1. PICK j \in 1..(k - 1) : i <= s[j].at
      BY <1>3, <2>2
    <3>2. j \in 1..Len(s) /\ j < k
      BY <1>1, <3>1 DEF Ascending
    <3>3. s[j].at < i /\ s[j].at \in Input!Places
      BY <1>1, <3>2 DEF Ascending
    <3>4. s[j].at \in Nat
      BY <3>3, PlacesAre
    <3> QED
      BY <1>2, <3>1, <3>3, <3>4
  <2> QED
    BY <2>2
<1>7. Input!RawItem(i) \in PlacedItems
  BY <1>2 DEF PlacedItems
<1>8. LocatedItem(i) \in PlacedItems
  BY <1>1, <1>7 DEF LocatedItem
<1>9. IsReplaced(item) <=> r.type \in {"message", "function_call_output"}
  <2>1. CASE r.type \in {"tool_search_call", "tool_search_output"}
    <3>1. item.type = r.type
      BY <1>1, <2>1, ItemFields DEF ToolSearched
    <3> QED
      BY <2>1, <3>1 DEF IsReplaced, Input!IsEasy
  <2>2. CASE r.type \notin {"tool_search_call", "tool_search_output"}
    <3>1. item.type = Input!SDKType(r)
      BY <1>1, <2>2, ItemFields DEF ToolSearched
    <3> HIDE DEF item, r
    <3>2. item.type = "message" <=> r.type = "message"
      BY <1>2, <2>2, <3>1, ItemKinds DEF r
    <3>3. item.type = "function_call_output" <=> r.type = "function_call_output"
      BY <1>2, <2>2, <3>1, ItemKinds DEF r
    <3> QED
      BY <2>2, <3>2, <3>3 DEF IsReplaced, Input!IsEasy
  <2> QED
    BY <2>1, <2>2
<1> HIDE DEF i, item, r, left, next
<1>10. i \notin left => r.type = "reasoning" /\ left = {}
  <2>1. CASE r.type = "message"
    <3>1. item = Input!SDKItem(i)
      BY <1>1, <2>1 DEF ToolSearched, r
    <3> QED
      BY <1>2, <1>6, <2>1, <3>1, EasyMatches DEF left, r
  <2>2. CASE r.type # "message"
    BY <1>1, <1>2, <1>6, <2>2, ItemMatches DEF left, r
  <2> QED
    BY <2>1, <2>2
<1>11. \A p \in left : Input!Raw(p).type = r.type
  <2>1. CASE r.type = "message"
    <3>1. item = Input!SDKItem(i)
      BY <1>1, <2>1 DEF ToolSearched, r
    <3> QED
      BY <1>2, <1>6, <2>1, <3>1, EasyMatches DEF left, r
  <2>2. CASE r.type # "message"
    BY <1>1, <1>2, <1>6, <2>2, ItemMatches DEF left, r
  <2> QED
    BY <2>1, <2>2
<1>12. ASSUME NEW p \in left, r.type # "reasoning"
       PROVE  Input!IsSent(p) /\ ~\E j \in 1..(k - 1) : s[j].at = p
  <2>1. p \in Input!Places /\ p \notin acc.taken /\ Input!Raw(p).type = r.type
    BY <1>5, <1>11
  <2>2. Input!IsSent(p)
    <3>1. CASE r.type = "message"
      <4>1. item = Input!SDKItem(i)
        BY <1>1, <3>1 DEF ToolSearched, r
      <4> QED
        BY <1>2, <1>6, <3>1, <4>1, EasyMatches DEF left, r
    <3>2. CASE r.type # "message"
      BY <1>4, <1>12, <2>1, <3>2, KindsSent DEF ItemTypes
    <3> QED
      BY <3>1, <3>2
  <2> QED
    BY <1>3, <1>12, <2>1, <2>2
(* What comes of it.                                                       *)
<1>13. ASSUME left # {}
       PROVE  /\ Input!Lowest(left) \in left /\ Input!Lowest(left) <= i
              /\ r.type # "reasoning" => Input!Lowest(left) = i
  <2>1. left \in SUBSET Input!Places /\ i \in left
    BY <1>5, <1>10, <1>13
  <2>2. Input!Lowest(left) \in left /\ Input!Lowest(left) <= i
    BY <1>13, <2>1, LowestIs
  <2>3. ASSUME r.type # "reasoning" PROVE Input!Lowest(left) = i
    <3>1. \A p \in left : Input!IsSent(p) /\ ~\E j \in 1..(k - 1) : s[j].at = p
      BY <1>12, <2>3
    <3> QED
      BY <1>1, <2>1, <3>1, NextIsLowest DEF i
  <2> QED
    BY <2>2, <2>3
<1>14. left = {} => r.type = "reasoning" /\ next = Input!Unmatched(acc, LocatedItem(i))
  <2>1. ASSUME left = {} PROVE r.type = "reasoning" /\ next = Input!Unmatched(acc, LocatedItem(i))
    <3>1. r.type = "reasoning"
      BY <1>10, <2>1
    <3>2. LocatedItem(i) = item
      BY <1>1, <3>1 DEF LocatedItem, r
    <3> QED
      BY <2>1, <3>1, <3>2, LocateIs DEF left, next
  <2> QED
    BY <2>1
<1>15. left # {} => next = Input!Matched(acc, Input!Lowest(left), LocatedItem(i))
  <2>1. ASSUME left # {} PROVE next = Input!Matched(acc, Input!Lowest(left), LocatedItem(i))
    <3>1. CASE r.type \in {"message", "function_call_output"}
      <4>1. Input!Lowest(left) = i /\ LocatedItem(i) = Input!RawItem(i)
        BY <1>13, <2>1, <3>1 DEF LocatedItem, r
      <4> QED
        BY <1>9, <2>1, <3>1, <4>1, LocateIs DEF left, next
    <3>2. CASE r.type \notin {"message", "function_call_output"}
      <4>1. LocatedItem(i) = item
        BY <1>1, <3>2 DEF LocatedItem, r
      <4> QED
        BY <1>9, <2>1, <3>2, <4>1, LocateIs DEF left, next
    <3> QED
      BY <3>1, <3>2
  <2> QED
    BY <2>1
<1>16. PICK place :
         /\ place \in Nat /\ place <= i
         /\ r.type # "reasoning" => place = i
         /\ next \in Carried /\ Len(next.out) = Len(acc.out) + 1
         /\ \A j \in 1..Len(acc.out) : next.out[j] = acc.out[j]
         /\ next.out[Len(acc.out) + 1].item = LocatedItem(i)
         /\ next.out[Len(acc.out) + 1].place = place
         /\ \/ next.taken = acc.taken /\ r.type = "reasoning"
            \/ next.taken = acc.taken \cup {place} /\ place \in left
  <2> DEFINE x == LocatedItem(i)
  <2>1. x \in PlacedItems /\ acc \in Carried
    BY <1>3, <1>8
  <2>2. CASE left = {}
    <3>1. next = Input!Unmatched(acc, x) /\ r.type = "reasoning"
      BY <1>14, <2>2
    <3> HIDE DEF x
    <3>2. /\ next \in Carried /\ next.taken = acc.taken /\ Len(next.out) = Len(acc.out) + 1
          /\ \A j \in 1..Len(acc.out) : next.out[j] = acc.out[j]
          /\ next.out[Len(acc.out) + 1].item = x /\ next.out[Len(acc.out) + 1].place = 0
      BY <2>1, <3>1, UnmatchedIs
    <3> QED
      BY <1>2, <3>1, <3>2 DEF x
  <2>3. CASE left # {}
    <3> DEFINE p == Input!Lowest(left)
    <3>1. /\ p \in left /\ p \in Input!Places /\ p <= i
          /\ r.type # "reasoning" => p = i
      BY <1>5, <1>13, <2>3
    <3>2. next = Input!Matched(acc, p, x)
      BY <1>15, <2>3
    <3> HIDE DEF x, p
    <3>3. /\ next \in Carried /\ next.taken = acc.taken \cup {p} /\ Len(next.out) = Len(acc.out) + 1
          /\ \A j \in 1..Len(acc.out) : next.out[j] = acc.out[j]
          /\ next.out[Len(acc.out) + 1].item = x /\ next.out[Len(acc.out) + 1].place = p
      BY <2>1, <3>1, <3>2, MatchedIs
    <3>4. p \in Nat
      BY <3>1, PlacesAre
    <3> QED
      BY <3>1, <3>3, <3>4 DEF x
  <2> QED
    BY <2>2, <2>3
<1>17. /\ Len(next.out) = k /\ \A j \in 1..(k - 1) : next.out[j] = acc.out[j]
       /\ next.out[k].item = LocatedItem(i) /\ next.out[k].place = place
  <2>1. Len(acc.out) + 1 = k
    BY <1>2, <1>3
  <2> QED
    BY <1>3, <1>16, <2>1
<1>18. ASSUME NEW j \in 1..k
       PROVE  /\ next.out[j].item = LocatedItem(s[j].at)
              /\ Input!Raw(s[j].at).type # "reasoning" => next.out[j].place = s[j].at
              /\ next.out[j].place <= s[j].at
  <2>1. CASE j \in 1..(k - 1)
    BY <1>3, <1>17, <2>1
  <2>2. CASE j = k
    BY <1>16, <1>17, <2>2 DEF i, r
  <2> QED
    BY <1>2, <2>1, <2>2
<1>19. ASSUME NEW p \in Input!Places, Input!Raw(p).type # "reasoning"
       PROVE  p \in next.taken <=> \E j \in 1..k : s[j].at = p
  <2>1. p \in next.taken <=> p \in acc.taken \/ p = i
    <3>1. CASE r.type # "reasoning"
      BY <1>16, <3>1
    <3>2. CASE r.type = "reasoning"
      <4>1. p # i
        BY <1>19, <3>2 DEF r
      <4>2. p \notin left
        BY <1>11, <1>19, <3>2
      <4> QED
        BY <1>16, <4>1, <4>2
    <3> QED
      BY <3>1, <3>2
  <2>2. p \in acc.taken <=> \E j \in 1..(k - 1) : s[j].at = p
    BY <1>3, <1>19
  <2> QED
    BY <1>2, <2>1, <2>2 DEF i
<1>20. ASSUME NEW p \in next.taken PROVE \E j \in 1..k : p <= s[j].at
  <2>1. CASE p \in acc.taken
    <3>1. PICK j \in 1..(k - 1) : p <= s[j].at
      BY <1>3, <2>1
    <3> QED
      BY <1>2, <3>1
  <2>2. CASE p = place
    BY <1>2, <1>16, <2>2 DEF i
  <2> QED
    BY <1>16, <2>1, <2>2
<1> QED
  BY <1>16, <1>17, <1>18, <1>19, <1>20 DEF LocateDone, next, item

LEMMA LocatedItemAt ==
  ASSUME NEW i
  PROVE  LocatedItem(i).at = i
BY ItemFields, ToolSearchedAt DEF LocatedItem

LEMMA Locates ==
  ASSUME InputTyped, NEW s, Searched(s)
  PROVE  LocateDone(Input!FoldLeft(Input!Locate, Input!Start, s), s, Len(s))
<1> DEFINE n == Len(s)
           acc == Input!FoldLeft(Input!Locate, Input!Start, s)
<1>1. s \in Seq(PlacedItems) /\ n \in Nat
  BY DEF Searched, Ascending
<1>2. PICK c : /\ c \in [0..n -> Carried] /\ c[0] = Input!Start
               /\ \A k \in 1..n : c[k] = Input!Locate(c[k - 1], s[k])
               /\ acc = c[n]
  BY <1>1, LocateFolded
<1> HIDE DEF acc
<1> DEFINE Steps == {k \in 0..n : LocateDone(c[k], s, k)}
<1>3. 0 \in Steps
  <2>1. c[0] \in Carried /\ c[0].out = <<>> /\ c[0].taken = {}
    BY <1>2, StartIs
  <2>2. LocateDone(c[0], s, 0)
    BY <2>1 DEF LocateDone
  <2> QED
    BY <1>1, <2>2
<1>4. ASSUME NEW k \in 0..n, k \in Steps, k < n PROVE k + 1 \in Steps
  <2> DEFINE m == k + 1
  <2>1. m \in 1..n /\ m - 1 = k /\ LocateDone(c[k], s, k)
    BY <1>1, <1>4
  <2> HIDE DEF m
  <2>2. LocateDone(Input!Locate(c[m - 1], s[m]), s, m)
    BY <2>1, LocateStep
  <2>3. LocateDone(c[m], s, m) /\ m \in 0..n
    BY <1>2, <2>1, <2>2
  <2> QED
    BY <2>3 DEF m
<1>5. 0..n \subseteq Steps
  <2> HIDE DEF Steps, n
  <2> QED
    BY <1>1, <1>3, <1>4, BoundedInduction
<1>6. n \in Steps
  BY <1>1, <1>5
<1> QED
  BY <1>2, <1>6 DEF acc

-----------------------------------------------------------------------------
(* The messages that are put back.                                         *)
LEMMA RestoreIs ==
  ASSUME InputTyped, NEW acc \in Carried, NEW i \in Input!Places
  PROVE  \E here \in 1..(Len(acc.out) + 1) :
           LET next == Input!Restore(acc, i) IN
           /\ next \in Carried /\ next.taken = acc.taken
           /\ Len(next.out) = Len(acc.out) + 1
           /\ next.out[here].item = Input!RawItem(i) /\ next.out[here].place = i
           /\ \A k \in 1..(Len(acc.out) + 1) :
                /\ k < here => next.out[k] = acc.out[k]
                /\ k > here => next.out[k] = acc.out[k - 1]
           /\ \A k \in 1..Len(acc.out) : k < here => acc.out[k].place <= i
           /\ here <= Len(acc.out) => acc.out[here].place > i
<1> DEFINE V == [item : PlacedItems, place : Nat]
           o == acc.out
           n == Len(o)
           later == {k \in DOMAIN o : o[k].place > i}
           here == IF later = {} THEN n + 1 ELSE Input!Lowest(later)
           e == [item |-> Input!RawItem(i), place |-> i]
           t == SubSeq(o, 1, here - 1) \o <<e>> \o SubSeq(o, here, n)
           next == Input!Restore(acc, i)
<1>1. o \in Seq(V) /\ acc = [taken |-> acc.taken, out |-> o] /\ acc.taken \in SUBSET Input!Places
  BY DEF Carried
<1>2. n \in Nat /\ DOMAIN o = 1..n /\ \A k \in 1..n : o[k].place \in Nat
  <2>1. n \in Nat /\ DOMAIN o = 1..n
    BY <1>1
  <2> QED
    BY <2>1, OutItemsAre
<1>3. i \in Nat /\ e \in V /\ e.item = Input!RawItem(i) /\ e.place = i
  BY PlacesAre DEF PlacedItems
<1>4. next = [taken |-> acc.taken, out |-> t]
  <2>1. next = [acc EXCEPT !.out = t]
    BY DEF Input!Restore, Input!InsertAt
  <2> HIDE DEF next, t, o
  <2> QED
    BY <1>1, <2>1
<1> HIDE DEF o, n, next, e
<1>5. /\ here \in 1..(n + 1)
      /\ \A k \in 1..n : k < here => o[k].place <= i
      /\ here <= n => o[here].place > i
  <2>1. CASE later = {}
    <3>1. here = n + 1
      BY <2>1
    <3>2. \A k \in 1..n : ~(o[k].place > i)
      BY <1>2, <2>1
    <3> HIDE DEF here, later
    <3> QED
      BY <1>2, <1>3, <3>1, <3>2
  <2>2. CASE later # {}
    <3>1. later \in SUBSET Nat
      BY <1>2
    <3>2. \E k \in later : \A m \in later : k <= m
      <4> HIDE DEF later
      <4> QED
        BY <2>2, <3>1, SmallestNat
    <3>3. here \in later /\ \A m \in later : here <= m
      BY <2>2, <3>2 DEF Input!Lowest
    <3>4. here \in 1..n /\ o[here].place > i
      BY <1>2, <3>3
    <3>5. ASSUME NEW k \in 1..n, k < here PROVE o[k].place <= i
      <4>1. k \notin later
        <5> HIDE DEF here, later
        <5> QED
          BY <1>2, <3>3, <3>4, <3>5
      <4>2. ~(o[k].place > i)
        BY <1>2, <4>1
      <4> QED
        BY <1>2, <1>3, <4>2
    <3> HIDE DEF here
    <3> QED
      BY <1>2, <3>4, <3>5
  <2> QED
    BY <2>1, <2>2
<1> HIDE DEF here, V
<1>6. /\ t \in Seq(V) /\ Len(t) = n + 1
      /\ \A k \in 1..(n + 1) :
           t[k] = IF k < here THEN o[k] ELSE IF k = here THEN e ELSE o[k - 1]
  <2>1. n = Len(o) /\ o \in Seq(V) /\ here \in 1..(n + 1) /\ e \in V
    BY <1>1, <1>3, <1>5 DEF n
  <2>2. Inserted(t, o, n, V, here, e)
    BY <2>1, InsertedIs
  <2> HIDE DEF t
  <2> QED
    BY <2>2 DEF Inserted
<1> HIDE DEF t
<1>7. next \in Carried /\ next.taken = acc.taken /\ next.out = t
  BY <1>1, <1>4, <1>6 DEF Carried, V
<1>8. t[here].item = Input!RawItem(i) /\ t[here].place = i
  BY <1>2, <1>3, <1>5, <1>6
<1>9. \A k \in 1..(n + 1) : /\ k < here => t[k] = o[k]
                            /\ k > here => t[k] = o[k - 1]
  BY <1>2, <1>5, <1>6
<1> QED
  BY <1>5, <1>6, <1>7, <1>8, <1>9 DEF o, n, next

LEMMA RestoreType ==
  ASSUME InputTyped, NEW acc \in Carried, NEW i \in Input!Places
  PROVE  Input!Restore(acc, i) \in Carried
BY RestoreIs

LEMMA RestoreFolded ==
  ASSUME InputTyped, NEW s \in Seq(Input!Places), NEW base \in Carried
  PROVE  \E c : /\ c \in [0..Len(s) -> Carried] /\ c[0] = base
                /\ \A k \in 1..Len(s) : c[k] = Input!Restore(c[k - 1], s[k])
                /\ Input!FoldLeft(Input!Restore, base, s) = c[Len(s)]
<1> DEFINE n == Len(s)
           steps == [k \in 1..n |-> [acc \in Carried |-> Input!Restore(acc, s[k])]]
           Unrolls(g) == g = [x \in SUBSET (1..n) |->
                               IF x = {} THEN base
                               ELSE Input!Restore(g[x \ {Top(x)}], s[Top(x)])]
           fold == CHOOSE g : Unrolls(g)
<1>1. n \in Nat /\ DOMAIN s = 1..n /\ \A k \in 1..n : s[k] \in Input!Places
  OBVIOUS
<1>2. steps \in [1..n -> [Carried -> Carried]]
  <2>1. \A k \in 1..n, acc \in Carried : Input!Restore(acc, s[k]) \in Carried
    BY <1>1, RestoreType
  <2> QED
    BY <2>1
<1>3. Input!FoldLeft(Input!Restore, base, s) = fold[1..n]
  BY <1>1 DEF Input!FoldLeft, Input!MapThenFoldSet, Input!Max, Top
<1> HIDE DEF n
<1>4. \E g : Unrolls(g)
  <2>1. PICK g \in [SUBSET (1..n) -> Carried] : IsFold(g, n, Carried, base, steps)
    <3> HIDE DEF steps
    <3> QED
      BY <1>1, <1>2, FoldExists
  <2>2. ASSUME NEW x \in SUBSET (1..n), x # {}
        PROVE  g[x] = Input!Restore(g[x \ {Top(x)}], s[Top(x)])
    <3>1. Top(x) \in 1..n /\ g[x \ {Top(x)}] \in Carried
      BY <1>1, <2>2, TopOfIndices
    <3>2. g[x] = steps[Top(x)][g[x \ {Top(x)}]]
      BY <2>1, <2>2 DEF IsFold
    <3> QED
      BY <3>1, <3>2
  <2>3. g[{}] = base
    BY <2>1 DEF IsFold
  <2>4. Unrolls(g)
    BY <2>2, <2>3
  <2> QED
    BY <2>4
<1>5. Unrolls(fold)
  <2> HIDE DEF Unrolls
  <2> QED
    BY <1>4
<1>6. IsFold(fold, n, Carried, base, steps)
  <2> HIDE DEF fold
  <2>1. fold[{}] = base
    BY <1>5
  <2>2. ASSUME NEW x \in SUBSET (1..n), x # {}, fold[x \ {Top(x)}] \in Carried
        PROVE  fold[x] = steps[Top(x)][fold[x \ {Top(x)}]]
    <3>1. Top(x) \in 1..n
      BY <1>1, <2>2, TopOfIndices
    <3>2. fold[x] = Input!Restore(fold[x \ {Top(x)}], s[Top(x)])
      BY <1>5, <2>2
    <3> QED
      BY <2>2, <3>1, <3>2
  <2> QED
    BY <2>1, <2>2 DEF IsFold
<1> HIDE DEF fold
<1>7. PICK c : Recurses(c, n, Carried, base, steps) /\ c[n] = fold[1..n]
  <2> HIDE DEF steps
  <2> QED
    BY <1>1, <1>2, <1>6, FoldRecurses
<1>8. ASSUME NEW k \in 1..n PROVE c[k] = Input!Restore(c[k - 1], s[k])
  <2>1. c[k - 1] \in Carried /\ c[k] = steps[k][c[k - 1]]
    <3> HIDE DEF steps
    <3>1. k - 1 \in 0..n
      BY <1>1
    <3> QED
      BY <1>7, <3>1 DEF Recurses
  <2> QED
    BY <2>1
<1> QED
  BY <1>3, <1>7, <1>8 DEF Recurses, n

(* What an item is once messages have been put back, and its place.        *)
RestoredItem(i) == IF Input!IsSent(i) THEN LocatedItem(i) ELSE Input!RawItem(i)

IsIn(i, rs, q) == Input!IsSent(i) \/ \E j \in 1..q : rs[j] = i

MayPrecede(i, j) == i < j \/ (~Input!IsSent(j) /\ Input!Raw(i).type = "reasoning")

(* x is an item, with the place that it was given.                         *)
IsRestoredElement(x, rs, q) ==
  /\ x.item.at \in Input!Places /\ x.item = RestoredItem(x.item.at) /\ IsIn(x.item.at, rs, q)
  /\ Input!Raw(x.item.at).type # "reasoning" => x.place = x.item.at
  /\ x.place \in Nat /\ x.place <= x.item.at

(* x may be before y.                                                      *)
InPlace(x, y) ==
  /\ MayPrecede(x.item.at, y.item.at)
  /\ ~Input!IsSent(y.item.at) => x.place <= y.item.at

(* After q of the messages rs.                                             *)
RestoreDone(acc, rs, q) ==
  /\ acc \in Carried
  /\ \A k \in 1..Len(acc.out) : IsRestoredElement(acc.out[k], rs, q)
  /\ \A k, l \in 1..Len(acc.out) : k < l => InPlace(acc.out[k], acc.out[l])
  /\ \A i \in Input!Places : IsIn(i, rs, q) => \E k \in 1..Len(acc.out) : acc.out[k].item.at = i

LEMMA RestoredItemAt ==
  ASSUME NEW i
  PROVE  RestoredItem(i).at = i
BY ItemFields, LocatedItemAt DEF RestoredItem

LEMMA RestoreStarts ==
  ASSUME InputTyped, NEW s, Searched(s), NEW acc, LocateDone(acc, s, Len(s)), NEW rs
  PROVE  RestoreDone(acc, rs, 0)
<1> DEFINE n == Len(s)
<1>1. /\ s \in Seq(PlacedItems) /\ n \in Nat
      /\ \A k, l \in 1..n : k < l => s[k].at < s[l].at
      /\ \A k \in 1..n : s[k].at \in Input!Places /\ Input!IsSent(s[k].at)
      /\ \A i \in Input!Places : Input!IsSent(i) => \E k \in 1..n : s[k].at = i
  BY DEF Searched, Ascending
<1>2. /\ acc \in Carried /\ Len(acc.out) = n
      /\ \A k \in 1..n :
           /\ acc.out[k].item = LocatedItem(s[k].at)
           /\ Input!Raw(s[k].at).type # "reasoning" => acc.out[k].place = s[k].at
           /\ acc.out[k].place <= s[k].at
  BY DEF LocateDone
<1> HIDE DEF n
<1>3. \A k \in 1..n : acc.out[k].item.at = s[k].at /\ acc.out[k].place \in Nat
  BY <1>2, LocatedItemAt, OutItemsAre
<1>4. ASSUME NEW k \in 1..n PROVE IsRestoredElement(acc.out[k], rs, 0)
  BY <1>1, <1>2, <1>3 DEF IsRestoredElement, RestoredItem, IsIn
<1>5. ASSUME NEW k \in 1..n, NEW l \in 1..n, k < l PROVE InPlace(acc.out[k], acc.out[l])
  <2>1. Input!IsSent(s[l].at) /\ s[k].at < s[l].at
    BY <1>1, <1>5
  <2> QED
    BY <1>3, <2>1 DEF InPlace, MayPrecede
<1>6. ASSUME NEW i \in Input!Places, IsIn(i, rs, 0) PROVE \E k \in 1..n : acc.out[k].item.at = i
  <2>1. Input!IsSent(i)
    BY <1>6 DEF IsIn
  <2> QED
    BY <1>1, <1>3, <2>1
<1> QED
  BY <1>2, <1>4, <1>5, <1>6 DEF RestoreDone

(* rs are messages that are not sent, in order.                            *)
AreRestored(rs, m) ==
  /\ m \in Nat /\ rs \in [1..m -> Input!Places]
  /\ \A j \in 1..m : ~Input!IsSent(rs[j]) /\ Input!Raw(rs[j]).type = "message"
  /\ \A j, k \in 1..m : j < k => rs[j] < rs[k]

LEMMA RestoreStep ==
  ASSUME InputTyped, NEW rs, NEW m, AreRestored(rs, m), NEW q \in 1..m,
         NEW acc, RestoreDone(acc, rs, q - 1)
  PROVE  RestoreDone(Input!Restore(acc, rs[q]), rs, q)
<1> DEFINE i == rs[q]
           next == Input!Restore(acc, i)
           n == Len(acc.out)
           A(k) == acc.out[k].item.at
<1>1. /\ m \in Nat /\ q \in Nat /\ 1..(q - 1) \subseteq 1..q /\ q \in 1..q
      /\ \A j \in 1..q : j \in 1..(q - 1) \/ j = q
      /\ i \in Input!Places /\ i \in Nat /\ ~Input!IsSent(i) /\ Input!Raw(i).type = "message"
  <2>1. m \in Nat /\ q \in Nat /\ 1..(q - 1) \subseteq 1..q /\ q \in 1..q
        /\ \A j \in 1..q : j \in 1..(q - 1) \/ j = q
    BY DEF AreRestored
  <2>2. i \in Input!Places /\ ~Input!IsSent(i) /\ Input!Raw(i).type = "message"
    BY DEF AreRestored
  <2> QED
    BY <2>1, <2>2, PlacesAre
<1>2. \A j \in 1..(q - 1) : rs[j] < i /\ rs[j] \in Nat
  <2>1. ASSUME NEW j \in 1..(q - 1) PROVE rs[j] < i /\ rs[j] \in Nat
    <3>1. j \in 1..m /\ j < q
      BY <1>1
    <3>2. rs[j] < i /\ rs[j] \in Input!Places
      BY <3>1 DEF AreRestored
    <3> QED
      BY <3>2, PlacesAre
  <2> QED
    BY <2>1
<1>3. /\ acc \in Carried
      /\ \A k \in 1..n : IsRestoredElement(acc.out[k], rs, q - 1)
      /\ \A k, l \in 1..n : k < l => InPlace(acc.out[k], acc.out[l])
      /\ \A p \in Input!Places : IsIn(p, rs, q - 1) => \E k \in 1..n : A(k) = p
  BY DEF RestoreDone
<1>4. n \in Nat
  BY <1>3, OutItemsAre
<1>5. PICK here \in 1..(n + 1) :
         /\ next \in Carried /\ Len(next.out) = n + 1
         /\ next.out[here].item = Input!RawItem(i) /\ next.out[here].place = i
         /\ \A k \in 1..(n + 1) :
              /\ k < here => next.out[k] = acc.out[k]
              /\ k > here => next.out[k] = acc.out[k - 1]
         /\ \A k \in 1..n : k < here => acc.out[k].place <= i
         /\ here <= n => acc.out[here].place > i
  BY <1>1, <1>3, RestoreIs
<1> HIDE DEF i, next, n
<1> DEFINE o(k) == IF k < here THEN k ELSE k - 1
<1>6. ASSUME NEW k \in 1..(n + 1), k # here PROVE o(k) \in 1..n /\ next.out[k] = acc.out[o(k)]
  <2>1. n \in Nat /\ k \in Nat /\ here \in Nat /\ here <= n + 1 /\ 1 <= k /\ k <= n + 1
    BY <1>4
  <2>2. CASE k < here
    BY <1>5, <2>1, <2>2
  <2>3. CASE k > here
    <3>1. o(k) = k - 1 /\ k - 1 \in 1..n
      BY <2>1, <2>3
    <3> QED
      BY <1>5, <2>3, <3>1
  <2> QED
    BY <1>6, <2>1, <2>2, <2>3
(* What was there, and what is new.                                        *)
<1>7. ASSUME NEW k \in 1..n
      PROVE  /\ A(k) \in Nat /\ acc.out[k].place \in Nat /\ acc.out[k].place <= A(k)
             /\ Input!Raw(A(k)).type # "reasoning" => acc.out[k].place = A(k)
             /\ A(k) # i
             /\ ~Input!IsSent(A(k)) => A(k) < i
             /\ IsRestoredElement(acc.out[k], rs, q)
  <2>1. /\ A(k) \in Input!Places /\ acc.out[k].item = RestoredItem(A(k)) /\ IsIn(A(k), rs, q - 1)
        /\ Input!Raw(A(k)).type # "reasoning" => acc.out[k].place = A(k)
        /\ acc.out[k].place \in Nat /\ acc.out[k].place <= A(k)
    BY <1>3 DEF IsRestoredElement
  <2>2. A(k) \in Nat
    BY <2>1, PlacesAre
  <2>3. ~Input!IsSent(A(k)) => A(k) < i
    BY <1>2, <2>1 DEF IsIn
  <2>4. A(k) # i
    BY <1>1, <2>2, <2>3
  <2>5. IsIn(A(k), rs, q)
    BY <1>1, <2>1 DEF IsIn
  <2> QED
    BY <2>1, <2>2, <2>3, <2>4, <2>5 DEF IsRestoredElement
<1>8. Input!RawItem(i).at = i /\ RestoredItem(i) = Input!RawItem(i)
  BY <1>1, ItemFields DEF RestoredItem
<1>9. next.out[here].item.at = i /\ next.out[here].item = RestoredItem(i) /\ next.out[here].place = i
  BY <1>5, <1>8
<1>10. IsIn(i, rs, q)
  BY <1>1 DEF IsIn, i
<1>11. IsRestoredElement(next.out[here], rs, q)
  BY <1>1, <1>9, <1>10 DEF IsRestoredElement
<1>12. ASSUME NEW k \in 1..n, k < here PROVE InPlace(acc.out[k], next.out[here])
  <2>1. acc.out[k].place <= i
    BY <1>5, <1>12
  <2>2. MayPrecede(A(k), i)
    <3>1. CASE Input!Raw(A(k)).type = "reasoning"
      BY <1>1, <3>1 DEF MayPrecede
    <3>2. CASE Input!Raw(A(k)).type # "reasoning"
      <4>1. A(k) < i
        BY <1>1, <1>7, <2>1, <3>2
      <4> QED
        BY <4>1 DEF MayPrecede
    <3> QED
      BY <3>1, <3>2
  <2> QED
    BY <1>9, <2>1, <2>2 DEF InPlace
<1>13. ASSUME NEW k \in 1..n, here <= k PROVE InPlace(next.out[here], acc.out[k])
  <2>1. here \in 1..n /\ acc.out[here].place > i
    BY <1>4, <1>5, <1>13
  <2>2. A(here) > i
    BY <1>1, <1>7, <2>1
  <2>3. A(k) > i
    <3>1. CASE k = here
      BY <2>2, <3>1
    <3>2. CASE k # here
      <4>1. InPlace(acc.out[here], acc.out[k])
        BY <1>3, <1>4, <1>13, <2>1, <3>2
      <4>2. Input!IsSent(A(k))
        <5>1. ASSUME ~Input!IsSent(A(k)) PROVE FALSE
          <6>1. acc.out[here].place <= A(k) /\ A(k) < i
            BY <1>7, <4>1, <5>1 DEF InPlace
          <6> QED
            BY <1>1, <1>7, <2>1, <6>1
        <5> QED
          BY <5>1
      <4>3. A(here) < A(k)
        BY <4>1, <4>2 DEF InPlace, MayPrecede
      <4> QED
        BY <1>1, <1>7, <2>1, <2>2, <4>3
    <3> QED
      BY <3>1, <3>2
  <2>4. Input!IsSent(A(k))
    BY <1>1, <1>7, <2>3
  <2> QED
    BY <1>9, <2>3, <2>4 DEF InPlace, MayPrecede
<1>14. ASSUME NEW k \in 1..(n + 1) PROVE IsRestoredElement(next.out[k], rs, q)
  <2>1. CASE k = here
    BY <1>11, <2>1
  <2>2. CASE k # here
    <3>1. o(k) \in 1..n /\ next.out[k] = acc.out[o(k)]
      BY <1>6, <2>2
    <3> HIDE DEF o
    <3> QED
      BY <1>7, <3>1
  <2> QED
    BY <2>1, <2>2
<1>15. ASSUME NEW k \in 1..(n + 1), NEW l \in 1..(n + 1), k < l PROVE InPlace(next.out[k], next.out[l])
  <2>1. k # here => o(k) \in 1..n /\ next.out[k] = acc.out[o(k)]
    BY <1>6
  <2>2. l # here => o(l) \in 1..n /\ next.out[l] = acc.out[o(l)]
    BY <1>6
  <2>3. /\ k # here /\ l # here => o(k) < o(l)
        /\ l = here => o(k) < here
        /\ k = here => here <= o(l)
    BY <1>4, <1>5, <1>15
  <2> HIDE DEF o
  <2>4. CASE k # here /\ l # here
    BY <1>3, <2>1, <2>2, <2>3, <2>4
  <2>5. CASE l = here
    <3>1. k # here
      BY <1>15, <2>5
    <3> QED
      BY <1>12, <2>1, <2>3, <2>5, <3>1
  <2>6. CASE k = here
    <3>1. l # here
      BY <1>15, <2>6
    <3> QED
      BY <1>13, <2>2, <2>3, <2>6, <3>1
  <2> QED
    BY <2>4, <2>5, <2>6
<1>16. ASSUME NEW p \in Input!Places, IsIn(p, rs, q)
       PROVE  \E k \in 1..(n + 1) : next.out[k].item.at = p
  <2>1. CASE p = i
    BY <1>9, <2>1
  <2>2. CASE p # i
    <3>1. IsIn(p, rs, q - 1)
      BY <1>1, <1>16, <2>2 DEF IsIn, i
    <3>2. PICK l \in 1..n : A(l) = p
      BY <1>3, <3>1
    <3> DEFINE k == IF l < here THEN l ELSE l + 1
    <3>3. k \in 1..(n + 1) /\ k # here /\ o(k) = l
      BY <1>4, <1>5
    <3>4. next.out[k] = acc.out[l]
      BY <1>6, <3>3
    <3> HIDE DEF k
    <3> QED
      BY <3>2, <3>3, <3>4
  <2> QED
    BY <2>1, <2>2
<1> QED
  BY <1>5, <1>14, <1>15, <1>16 DEF RestoreDone, next, i

LEMMA Restores ==
  ASSUME InputTyped, NEW rs, NEW m, AreRestored(rs, m), NEW base, RestoreDone(base, rs, 0)
  PROVE  RestoreDone(Input!FoldLeft(Input!Restore, base, rs), rs, m)
<1> DEFINE acc == Input!FoldLeft(Input!Restore, base, rs)
<1>1. m \in Nat /\ rs \in Seq(Input!Places) /\ Len(rs) = m /\ base \in Carried
  BY DEF AreRestored, RestoreDone
<1>2. PICK c : /\ c \in [0..Len(rs) -> Carried] /\ c[0] = base
               /\ \A k \in 1..Len(rs) : c[k] = Input!Restore(c[k - 1], rs[k])
               /\ acc = c[Len(rs)]
  BY <1>1, RestoreFolded
<1>3. c[0] = base /\ acc = c[m] /\ \A k \in 1..m : c[k] = Input!Restore(c[k - 1], rs[k])
  BY <1>1, <1>2
<1> HIDE DEF acc
<1> DEFINE Steps == {k \in 0..m : RestoreDone(c[k], rs, k)}
<1>4. 0 \in Steps
  BY <1>1, <1>3
<1>5. ASSUME NEW k \in 0..m, k \in Steps, k < m PROVE k + 1 \in Steps
  <2> DEFINE q == k + 1
  <2>1. q \in 1..m /\ q - 1 = k /\ RestoreDone(c[k], rs, k)
    BY <1>1, <1>5
  <2> HIDE DEF q
  <2>2. RestoreDone(Input!Restore(c[q - 1], rs[q]), rs, q)
    BY <2>1, RestoreStep
  <2>3. RestoreDone(c[q], rs, q) /\ q \in 0..m
    BY <1>3, <2>1, <2>2
  <2> QED
    BY <2>3 DEF q
<1>6. 0..m \subseteq Steps
  <2> HIDE DEF Steps
  <2> QED
    BY <1>1, <1>4, <1>5, BoundedInduction
<1>7. m \in Steps
  BY <1>1, <1>6
<1> QED
  BY <1>3, <1>7 DEF acc

(* What an item is once the input is complete, but for the anchors.        *)
SettledItem(i) == IF transformed THEN RestoredItem(i) ELSE ToolSearched(i)

(* The items at these places, in an order that they may have.              *)
Arranged(s) ==
  /\ \A k \in 1..Len(s) : s[k].at \in Input!Places /\ Input!IsKept(s[k].at)
  /\ \A k, l \in 1..Len(s) : k < l => MayPrecede(s[k].at, s[l].at)
  /\ \A i \in Input!Places : Input!IsKept(i) => \E k \in 1..Len(s) : s[k].at = i

Settled(s) ==
  /\ s \in Seq(PlacedItems) /\ Arranged(s)
  /\ \A k \in 1..Len(s) : s[k] = SettledItem(s[k].at)

Filtered(s) ==
  LET located == Input!FoldLeft(Input!Locate, Input!Start, s)
      restored == Input!InOrder({i \in Input!Left(located) : Input!IsRestored(Input!Raw(i))})
  IN IF transformed THEN Input!OutItems(Input!FoldLeft(Input!Restore, located, restored)) ELSE s

LEMMA FilteringSettles ==
  ASSUME InputTyped, NEW s, Searched(s)
  PROVE  Settled(Filtered(s))
<1>1. CASE ~transformed
  <2>1. Filtered(s) = s
    BY <1>1 DEF Filtered
  <2>2. \A i : Input!IsKept(i) <=> Input!IsSent(i)
    BY <1>1 DEF Input!IsKept
  <2>3. Arranged(s)
    BY <2>2 DEF Searched, Ascending, Arranged, MayPrecede
  <2>4. \A k \in 1..Len(s) : s[k] = SettledItem(s[k].at)
    BY <1>1 DEF Searched, SettledItem
  <2>5. s \in Seq(PlacedItems)
    BY DEF Searched, Ascending
  <2> QED
    BY <2>1, <2>3, <2>4, <2>5 DEF Settled
<1>2. CASE transformed
  <2> DEFINE located == Input!FoldLeft(Input!Locate, Input!Start, s)
             R == {i \in Input!Left(located) : Input!IsRestored(Input!Raw(i))}
             rs == Input!InOrder(R)
             m == Cardinality(R)
             acc == Input!FoldLeft(Input!Restore, located, rs)
             t == Input!OutItems(acc)
  <2>1. LocateDone(located, s, Len(s))
    BY Locates
  <2>2. Filtered(s) = t
    BY <1>2 DEF Filtered
  <2> HIDE DEF located
  <2>3. ASSUME NEW i \in Input!Places, Input!Raw(i).type = "message"
        PROVE  i \in Input!Left(located) <=> ~Input!IsSent(i)
    <3>1. i \in located.taken <=> \E j \in 1..Len(s) : s[j].at = i
      BY <2>1, <2>3 DEF LocateDone
    <3>2. (\E j \in 1..Len(s) : s[j].at = i) <=> Input!IsSent(i)
      BY DEF Searched, Ascending
    <3> QED
      BY <3>1, <3>2 DEF Input!Left
  <2>4. /\ R \in SUBSET Input!Places
        /\ \A i \in R : ~Input!IsSent(i) /\ Input!Raw(i).type = "message"
        /\ \A i \in Input!Places : Input!IsRestored(Input!Raw(i)) => Input!IsSent(i) \/ i \in R
        /\ \A i \in R : Input!IsRestored(Input!Raw(i))
    BY <2>3 DEF Input!IsRestored, Input!IsEasy, Input!Left
  <2> HIDE DEF R
  <2>5. /\ m \in Nat /\ rs \in [1..m -> R] /\ \A k, l \in 1..m : k < l => rs[k] < rs[l]
        /\ \A i \in R : \E k \in 1..m : rs[k] = i
    BY <2>4, InOrderIs DEF Ascends
  <2> HIDE DEF rs, m
  <2>6. AreRestored(rs, m)
    BY <2>4, <2>5 DEF AreRestored
  <2>7. RestoreDone(acc, rs, m)
    <3>1. RestoreDone(located, rs, 0)
      BY <2>1, RestoreStarts
    <3> QED
      BY <2>6, <3>1, Restores
  <2> HIDE DEF acc
  <2>8. ASSUME NEW i \in Input!Places PROVE IsIn(i, rs, m) <=> Input!IsKept(i)
    <3>1. (\E j \in 1..m : rs[j] = i) <=> i \in R
      BY <2>5
    <3> QED
      BY <1>2, <2>4, <3>1 DEF IsIn, Input!IsKept
  <2>9. /\ acc \in Carried
        /\ \A k \in 1..Len(acc.out) : IsRestoredElement(acc.out[k], rs, m)
        /\ \A k, l \in 1..Len(acc.out) : k < l => InPlace(acc.out[k], acc.out[l])
        /\ \A i \in Input!Places : IsIn(i, rs, m) => \E k \in 1..Len(acc.out) : acc.out[k].item.at = i
    BY <2>7 DEF RestoreDone
  <2>10. t \in Seq(PlacedItems) /\ Len(t) = Len(acc.out) /\ \A k \in 1..Len(t) : t[k] = acc.out[k].item
    BY <2>9, OutItemsAre
  <2> HIDE DEF t
  <2>11. ASSUME NEW k \in 1..Len(t)
         PROVE  t[k].at \in Input!Places /\ Input!IsKept(t[k].at) /\ t[k] = SettledItem(t[k].at)
    <3>1. IsRestoredElement(acc.out[k], rs, m) /\ t[k] = acc.out[k].item
      BY <2>9, <2>10
    <3> QED
      BY <1>2, <2>8, <3>1 DEF IsRestoredElement, SettledItem
  <2>12. ASSUME NEW k \in 1..Len(t), NEW l \in 1..Len(t), k < l PROVE MayPrecede(t[k].at, t[l].at)
    <3>1. InPlace(acc.out[k], acc.out[l]) /\ t[k] = acc.out[k].item /\ t[l] = acc.out[l].item
      BY <2>9, <2>10, <2>12
    <3> QED
      BY <3>1 DEF InPlace
  <2>13. ASSUME NEW i \in Input!Places, Input!IsKept(i) PROVE \E k \in 1..Len(t) : t[k].at = i
    BY <2>8, <2>9, <2>10, <2>13
  <2>14. Settled(t)
    BY <2>10, <2>11, <2>12, <2>13 DEF Settled, Arranged
  <2> QED
    BY <2>2, <2>14
<1> QED
  BY <1>1, <1>2 DEF InputTyped

-----------------------------------------------------------------------------
(* The anchors.                                                            *)
LEMMA UnanchoredIs ==
  ASSUME InputTyped, NEW type \in {"agent_message", "additional_tools"},
         NEW items \in Seq(PlacedItems), Arranged(items),
         \A k \in 1..Len(items) :
           items[k].type = Input!Anchor(type) <=> Input!Raw(items[k].at).type = type
  PROVE  LET t == Input!Unanchored(items, type) IN
         /\ t \in Seq(PlacedItems) /\ Len(t) = Len(items)
         /\ \A k \in 1..Len(items) :
              t[k] = IF Input!Raw(items[k].at).type = type THEN Input!RawItem(items[k].at) ELSE items[k]
<1> DEFINE n == Len(items)
           Anchors(k) == {j \in 1..k : items[j].type = Input!Anchor(type)}
           Raws(i) == {j \in 1..i : Input!Raw(j).type = type}
           Meant(k) == CHOOSE i \in Input!Places :
                         i \in Raws(i) /\ Input!Cardinality(Raws(i)) = Input!Cardinality(Anchors(k))
           t == Input!Unanchored(items, type)
<1>1. n \in Nat /\ DOMAIN items = 1..n /\ \A k \in 1..n : items[k] \in PlacedItems
  OBVIOUS
<1>2. /\ Len(rawInput) \in Nat /\ Input!Places = 1..Len(rawInput) /\ Input!Places \subseteq Nat
  BY PlacesAre
<1>3. t = [k \in 1..n |-> IF k \in Anchors(k) THEN Input!RawItem(Meant(k)) ELSE items[k]]
  BY <1>1 DEF Input!Unanchored
<1>4. /\ \A k \in 1..n : items[k].at \in Input!Places
      /\ \A k, l \in 1..n : k < l => MayPrecede(items[k].at, items[l].at)
      /\ \A i \in Input!Places : Input!IsKept(i) => \E k \in 1..n : items[k].at = i
  BY DEF Arranged
<1>5. \A i \in Input!Places : Input!Raw(i).type = type => Input!IsSent(i) /\ Input!IsKept(i)
  BY KindsSent DEF Input!IsKept
<1>6. \A k \in 1..n : items[k].type = Input!Anchor(type) <=> Input!Raw(items[k].at).type = type
  OBVIOUS
<1> HIDE DEF n, t
<1>7. ASSUME NEW k \in 1..n, NEW l \in 1..n, k < l, Input!Raw(items[l].at).type = type
      PROVE  items[k].at < items[l].at
  BY <1>4, <1>5, <1>7 DEF MayPrecede
<1>8. ASSUME NEW k \in 1..n, Input!Raw(items[k].at).type = type
      PROVE  Meant(k) = items[k].at
  <2> DEFINE i == items[k].at
             f == [j \in Anchors(k) |-> items[j].at]
  <2>1. i \in Input!Places /\ i \in Nat /\ i \in Raws(i) /\ k \in Nat /\ 1..k \subseteq 1..n
    BY <1>1, <1>2, <1>4, <1>8
  <2>2. ASSUME NEW j \in Anchors(k)
        PROVE  j \in 1..n /\ j <= k /\ items[j].at \in Raws(i) /\ Input!Raw(items[j].at).type = type
    <3>1. j \in 1..n /\ j <= k /\ Input!Raw(items[j].at).type = type
      BY <1>6, <2>1
    <3>2. items[j].at \in Input!Places /\ items[j].at \in Nat /\ items[j].at >= 1
      BY <1>2, <1>4, <3>1
    <3>3. items[j].at <= i
      <4>1. CASE j = k
        BY <2>1, <4>1
      <4>2. CASE j # k
        <5>1. j < k
          BY <1>1, <3>1, <4>2
        <5>2. items[j].at < i
          BY <1>7, <1>8, <3>1, <5>1
        <5> QED
          BY <2>1, <3>2, <5>2
      <4> QED
        BY <4>1, <4>2
    <3> QED
      BY <2>1, <3>1, <3>2, <3>3
  <2>3. f \in [Anchors(k) -> Raws(i)]
    BY <2>2
  <2>4. ASSUME NEW x \in Anchors(k), NEW y \in Anchors(k), f[x] = f[y] PROVE x = y
    <3>1. /\ x \in 1..n /\ y \in 1..n /\ items[x].at = items[y].at
          /\ Input!Raw(items[x].at).type = type /\ Input!Raw(items[y].at).type = type
      BY <2>2, <2>4
    <3>2. items[x].at \in Nat
      BY <1>2, <1>4, <3>1
    <3>3. ~(x < y) /\ ~(y < x)
      BY <1>7, <3>1, <3>2
    <3> QED
      BY <1>1, <3>1, <3>3
  <2>5. ASSUME NEW p \in Raws(i) PROVE \E x \in Anchors(k) : f[x] = p
    <3>1. p \in Input!Places /\ p \in Nat /\ p <= i /\ Input!Raw(p).type = type
      BY <1>2, <2>1
    <3>2. PICK x \in 1..n : items[x].at = p
      BY <1>4, <1>5, <3>1
    <3>3. x <= k
      <4>1. ASSUME k < x PROVE FALSE
        <5>1. i < p
          BY <1>7, <3>1, <3>2, <4>1
        <5> QED
          BY <2>1, <3>1, <5>1
      <4> QED
        BY <1>1, <4>1
    <3>4. x \in Anchors(k)
      BY <1>1, <1>6, <3>1, <3>2, <3>3
    <3> QED
      BY <3>2, <3>4
  <2>6. IsFiniteSet(Anchors(k))
    <3>1. IsFiniteSet(1..k) /\ Anchors(k) \in SUBSET (1..k)
      BY <2>1, FS_Interval
    <3> HIDE DEF Anchors
    <3> QED
      BY <3>1, FS_Subset
  <2>7. Cardinality(Raws(i)) = Cardinality(Anchors(k))
    <3> HIDE DEF f, Anchors, Raws, i
    <3> QED
      BY <2>3, <2>4, <2>5, <2>6, SameNumber
  <2>8. ASSUME NEW p \in Nat, NEW q \in Nat, p < q, q \in Raws(q) PROVE Cardinality(Raws(p)) # Cardinality(Raws(q))
    <3>1. IsFiniteSet(1..q) /\ Raws(q) \in SUBSET (1..q)
      <4>1. IsFiniteSet(1..q)
        BY FS_Interval
      <4> QED
        BY <4>1
    <3>2. Raws(p) \in SUBSET Raws(q)
      BY <2>8
    <3>3. q \notin Raws(p)
      BY <2>8
    <3> HIDE DEF Raws
    <3>4. IsFiniteSet(Raws(q))
      BY <3>1, FS_Subset
    <3>5. Cardinality(Raws(q)) = Cardinality(Raws(p)) => Raws(q) = Raws(p)
      BY <3>2, <3>4, FS_Subset
    <3> QED
      BY <2>8, <3>3, <3>5
  <2>9. ASSUME NEW p \in Input!Places, p \in Raws(p), Cardinality(Raws(p)) = Cardinality(Anchors(k))
        PROVE  p = i
    <3> HIDE DEF Raws, Anchors, i
    <3>1. p \in Nat
      BY <1>2
    <3> QED
      BY <2>1, <2>7, <2>8, <2>9, <3>1
  <2> HIDE DEF Raws, Anchors, i
  <2> QED
    BY <2>1, <2>7, <2>9, InputCardinality DEF i
<1>9. ASSUME NEW k \in 1..n
      PROVE  t[k] = IF Input!Raw(items[k].at).type = type THEN Input!RawItem(items[k].at) ELSE items[k]
  <2>1. k \in Anchors(k) <=> Input!Raw(items[k].at).type = type
    BY <1>1, <1>6
  <2> HIDE DEF Anchors, Meant
  <2> QED
    BY <1>3, <1>8, <2>1
<1>10. t \in Seq(PlacedItems) /\ Len(t) = n
  <2>1. ASSUME NEW k \in 1..n PROVE t[k] \in PlacedItems
    BY <1>1, <1>4, <1>9 DEF PlacedItems
  <2> HIDE DEF Anchors, Meant
  <2>2. t \in [1..n -> PlacedItems]
    BY <1>3, <2>1
  <2> QED
    BY <1>1, <2>2
<1> QED
  BY <1>9, <1>10 DEF n, t

(* What an item is when it is sent.                                        *)
FinalItem(i) ==
  IF Input!Raw(i).type \in {"agent_message", "additional_tools"} THEN Input!RawItem(i)
  ELSE SettledItem(i)

Complete(s) ==
  /\ s \in Seq(PlacedItems) /\ Arranged(s)
  /\ \A k \in 1..Len(s) : s[k] = FinalItem(s[k].at)

LEMMA SettledTypes ==
  ASSUME InputTyped, NEW i \in Input!Places
  PROVE  \A type \in {"agent_message", "additional_tools"} :
           /\ SettledItem(i).type = Input!Anchor(type) <=> Input!Raw(i).type = type
           /\ Input!RawItem(i).type # Input!Anchor(type)
<1> DEFINE r == Input!Raw(i)
<1>1. \/ SettledItem(i) = Input!RawItem(i) /\ r.type \notin {"agent_message", "additional_tools"}
      \/ SettledItem(i) = Input!SDKItem(i)
  BY KindsSent DEF SettledItem, RestoredItem, LocatedItem, ToolSearched
<1>2. /\ Input!RawItem(i).type = r.type /\ r.type \in ItemTypes
      /\ Input!SDKItem(i).type = Input!SDKType(r)
  BY ItemFields, ItemKinds
<1>3. Input!SDKType(r) = IF r.type \in {"reasoning", "compaction"} /\ store THEN "item_reference"
                         ELSE IF r.type = "tool_search_output" THEN "function_call_output"
                         ELSE IF r.type = "agent_message" THEN "agent_message anchor"
                         ELSE IF r.type = "additional_tools" THEN "additional_tools anchor"
                         ELSE r.type
  BY ItemKinds
<1> HIDE DEF r
<1>4. \A type \in {"agent_message", "additional_tools"} : Input!RawItem(i).type # Input!Anchor(type)
  BY <1>2 DEF Input!Anchor, ItemTypes
<1>5. \A type \in {"agent_message", "additional_tools"} :
        Input!SDKItem(i).type = Input!Anchor(type) <=> r.type = type
  BY <1>2, <1>3 DEF Input!Anchor, ItemTypes
<1> QED
  BY <1>1, <1>4, <1>5 DEF r

LEMMA FinalItemAt ==
  ASSUME NEW i
  PROVE  FinalItem(i).at = i /\ SettledItem(i).at = i
BY ItemFields, ToolSearchedAt, RestoredItemAt DEF FinalItem, SettledItem

LEMMA SameArrangement ==
  ASSUME NEW s, Arranged(s), NEW t, Len(t) = Len(s), \A k \in 1..Len(s) : t[k].at = s[k].at
  PROVE  Arranged(t)
BY DEF Arranged

LEMMA AnchorsComplete ==
  ASSUME InputTyped, NEW s, Settled(s)
  PROVE  Complete(Input!Unanchored(Input!Unanchored(s, "agent_message"), "additional_tools"))
<1> DEFINE n == Len(s)
           t == Input!Unanchored(s, "agent_message")
           u == Input!Unanchored(t, "additional_tools")
<1>1. /\ s \in Seq(PlacedItems) /\ Arranged(s) /\ n \in Nat
      /\ \A k \in 1..n : s[k] = SettledItem(s[k].at) /\ s[k].at \in Input!Places
  BY DEF Settled, Arranged
<1>2. /\ t \in Seq(PlacedItems) /\ Len(t) = n
      /\ \A k \in 1..n :
           t[k] = IF Input!Raw(s[k].at).type = "agent_message" THEN Input!RawItem(s[k].at) ELSE s[k]
  <2>1. \A k \in 1..Len(s) :
          s[k].type = Input!Anchor("agent_message") <=> Input!Raw(s[k].at).type = "agent_message"
    BY <1>1, SettledTypes
  <2> QED
    BY <1>1, <2>1, UnanchoredIs
<1> HIDE DEF n, t
<1>3. \A k \in 1..n : t[k].at = s[k].at
  BY <1>2, ItemFields
<1>4. Arranged(t)
  BY <1>1, <1>2, <1>3, SameArrangement DEF n
<1>5. /\ u \in Seq(PlacedItems) /\ Len(u) = n
      /\ \A k \in 1..n :
           u[k] = IF Input!Raw(t[k].at).type = "additional_tools" THEN Input!RawItem(t[k].at) ELSE t[k]
  <2>1. \A k \in 1..Len(t) :
          t[k].type = Input!Anchor("additional_tools") <=> Input!Raw(t[k].at).type = "additional_tools"
    <3>1. ASSUME NEW k \in 1..n
          PROVE  t[k].type = Input!Anchor("additional_tools") <=> Input!Raw(s[k].at).type = "additional_tools"
      <4>1. CASE Input!Raw(s[k].at).type = "agent_message"
        BY <1>1, <1>2, <4>1, SettledTypes
      <4>2. CASE Input!Raw(s[k].at).type # "agent_message"
        BY <1>1, <1>2, <4>2, SettledTypes
      <4> QED
        BY <4>1, <4>2
    <3> QED
      BY <1>2, <1>3, <3>1
  <2>2. Len(t) = n
    BY <1>2
  <2> QED
    BY <1>2, <1>4, <2>1, <2>2, UnanchoredIs
<1> HIDE DEF u
<1>6. \A k \in 1..n : u[k].at = s[k].at /\ u[k] = FinalItem(s[k].at)
  <2>1. ASSUME NEW k \in 1..n PROVE u[k] = FinalItem(s[k].at)
    BY <1>1, <1>2, <1>3, <1>5 DEF FinalItem
  <2> QED
    BY <2>1, FinalItemAt
<1>7. Arranged(u)
  BY <1>1, <1>5, <1>6, SameArrangement DEF n
<1> QED
  BY <1>5, <1>6, <1>7 DEF Complete, t, u

-----------------------------------------------------------------------------
InputInv ==
  /\ InputTyped
  /\ stage \in {"map", "tool search", "filtered", "anchors", "sent"}
  /\ stage = "tool search" => Mapped(sdkInput)
  /\ stage = "filtered" => Searched(sdkInput)
  /\ stage = "anchors" => Settled(sdkInput)
  /\ stage = "sent" => Complete(sdkInput)

LEMMA InputInitially == ASSUME Input!Init PROVE InputInv
<1>1. ASSUME NEW s \in Input!SeqOf(InputItems, MaxInput) PROVE s \in Seq(InputItems)
  BY <1>1 DEF Input!SeqOf
<1> QED
  BY <1>1 DEF Input!Init, InputInv, InputTyped

(* The client's items stay as they are, and what they may become with them.*)
LEMMA SameInput ==
  ASSUME UNCHANGED <<rawInput, transformed, store>>
  PROVE  /\ InputTyped' <=> InputTyped
         /\ Mapped(sdkInput)' <=> Mapped(sdkInput')
         /\ Searched(sdkInput)' <=> Searched(sdkInput')
         /\ Settled(sdkInput)' <=> Settled(sdkInput')
         /\ Complete(sdkInput)' <=> Complete(sdkInput')
<1>1. InputTyped' <=> InputTyped
  BY DEF InputTyped
<1>2. Input!Places' = Input!Places /\ \A i : Input!Raw(i)' = Input!Raw(i)
  BY DEF Input!Places, Input!Raw
<1>3. \A i : Input!RawItem(i)' = Input!RawItem(i)
  BY <1>2 DEF Input!RawItem
<1>4. \A i : Input!SDKItem(i)' = Input!SDKItem(i)
  BY <1>2 DEF Input!SDKItem, Input!SDKType, Input!Anchor, Input!IsSystem
<1>5. \A i : Input!IsSent(i)' <=> Input!IsSent(i)
  BY <1>2 DEF Input!IsSent, Input!IsMapped, Input!IsEasy, Input!IsSystem, Input!IsEmpty
<1>6. \A i : Input!IsKept(i)' <=> Input!IsKept(i)
  BY <1>2, <1>5 DEF Input!IsKept, Input!IsRestored, Input!IsEasy
<1>7. PlacedItems' = PlacedItems
  BY <1>2, <1>3, <1>4 DEF PlacedItems
<1>8. \A i : ToolSearched(i)' = ToolSearched(i)
  BY <1>2, <1>3, <1>4 DEF ToolSearched
<1>9. \A i : SettledItem(i)' = SettledItem(i)
  BY <1>2, <1>3, <1>5, <1>8 DEF SettledItem, RestoredItem, LocatedItem
<1>10. \A i : FinalItem(i)' = FinalItem(i)
  BY <1>2, <1>3, <1>9 DEF FinalItem
<1>11. Arranged(sdkInput)' <=> Arranged(sdkInput')
  BY <1>2, <1>5, <1>6 DEF Arranged, MayPrecede
<1>12. Ascending(sdkInput)' <=> Ascending(sdkInput')
  BY <1>2, <1>5, <1>7 DEF Ascending
<1>13. Mapped(sdkInput)' <=> Mapped(sdkInput')
  BY <1>4, <1>12 DEF Mapped
<1>14. Searched(sdkInput)' <=> Searched(sdkInput')
  BY <1>8, <1>12 DEF Searched
<1>15. Settled(sdkInput)' <=> Settled(sdkInput')
  BY <1>7, <1>9, <1>11 DEF Settled
<1>16. Complete(sdkInput)' <=> Complete(sdkInput')
  BY <1>7, <1>10, <1>11 DEF Complete
<1> QED
  BY <1>1, <1>13, <1>14, <1>15, <1>16

LEMMA InputPreserved ==
  ASSUME InputInv, Input!Next
  PROVE  InputInv'
<1>1. InputTyped /\ UNCHANGED <<rawInput, transformed, store>>
  BY DEF InputInv, Input!Next, Input!Map, Input!PatchNativeToolSearchInput,
         Input!PatchFilteredRawInputItems, Input!PatchAnchors, Input!Goes
<1>2. InputTyped'
  BY <1>1, SameInput
<1>3. CASE Input!Map
  <2>1. stage' = "tool search" /\ Mapped(sdkInput')
    BY <1>1, <1>3, MapsAscending DEF Input!Map, Input!Goes
  <2> QED
    BY <1>1, <1>2, <2>1, SameInput DEF InputInv
<1>4. CASE Input!PatchNativeToolSearchInput
  <2>1. Mapped(sdkInput)
    BY <1>4 DEF InputInv, Input!PatchNativeToolSearchInput
  <2>2. stage' = "filtered" /\ Searched(sdkInput')
    BY <1>1, <1>4, <2>1, SearchRestores DEF Input!PatchNativeToolSearchInput, Input!Goes
  <2> QED
    BY <1>1, <1>2, <2>2, SameInput DEF InputInv
<1>5. CASE Input!PatchFilteredRawInputItems
  <2>1. Searched(sdkInput)
    BY <1>5 DEF InputInv, Input!PatchFilteredRawInputItems
  <2>2. stage' = "anchors" /\ sdkInput' = Filtered(sdkInput)
    BY <1>5 DEF Input!PatchFilteredRawInputItems, Input!Goes, Filtered
  <2>3. Settled(sdkInput')
    BY <1>1, <2>1, <2>2, FilteringSettles
  <2> QED
    BY <1>1, <1>2, <2>2, <2>3, SameInput DEF InputInv
<1>6. CASE Input!PatchAnchors
  <2>1. Settled(sdkInput)
    BY <1>6 DEF InputInv, Input!PatchAnchors
  <2>2. stage' = "sent" /\ Complete(sdkInput')
    BY <1>1, <1>6, <2>1, AnchorsComplete DEF Input!PatchAnchors, Input!Goes
  <2> QED
    BY <1>1, <1>2, <2>2, SameInput DEF InputInv
<1> QED
  BY <1>3, <1>4, <1>5, <1>6 DEF Input!Next

LEMMA CompleteIsRestored == ASSUME InputInv PROVE Input!InputRestored
<1> SUFFICES ASSUME stage = "sent" PROVE Input!InputRestored
  BY DEF Input!InputRestored
<1> DEFINE s == sdkInput
           n == Len(s)
           places == Input!SentPlaces
<1>1. InputTyped /\ Complete(s)
  BY DEF InputInv
<1>2. /\ s \in Seq(PlacedItems) /\ n \in Nat /\ DOMAIN s = 1..n
      /\ \A k \in 1..n : /\ s[k].at \in Input!Places /\ Input!IsKept(s[k].at)
                         /\ s[k] = FinalItem(s[k].at)
      /\ \A k, l \in 1..n : k < l => MayPrecede(s[k].at, s[l].at)
      /\ \A i \in Input!Places : Input!IsKept(i) => \E k \in 1..n : s[k].at = i
  BY <1>1 DEF Complete, Arranged
<1>3. places = [k \in 1..n |-> s[k].at]
  BY <1>2 DEF Input!SentPlaces
<1> HIDE DEF s, n, places
<1>4. \A i \in Input!Places : Input!IsKept(i) /\ ~Input!IsSent(i) =>
        transformed /\ Input!Raw(i).type = "message"
  BY DEF Input!IsKept, Input!IsRestored, Input!IsEasy
<1>5. ASSUME NEW k \in 1..n, NEW l \in 1..n, k < l PROVE s[k].at # s[l].at
  <2>1. MayPrecede(s[k].at, s[l].at) /\ s[k].at \in Input!Places /\ s[l].at \in Input!Places
    BY <1>2, <1>5
  <2>2. s[k].at \in Nat
    BY <1>1, <2>1, PlacesAre
  <2>3. ~(s[k].at < s[l].at) => Input!Raw(s[k].at).type = "reasoning" /\ Input!Raw(s[l].at).type = "message"
    BY <1>2, <1>4, <2>1 DEF MayPrecede
  <2> QED
    BY <2>2, <2>3
<1>6. Input!IsInjective(places)
  <2>1. ASSUME NEW k \in 1..n, NEW l \in 1..n, s[k].at = s[l].at PROVE k = l
    <3>1. ~(k < l) /\ ~(l < k)
      BY <1>5, <2>1
    <3> QED
      BY <1>2, <3>1
  <2> QED
    BY <1>3, <2>1 DEF Input!IsInjective
<1>7. Input!ToSet(places) = {i \in Input!Places : Input!IsKept(i)}
  BY <1>2, <1>3 DEF Input!ToSet
<1>8. ASSUME NEW k \in 1..n, NEW l \in 1..n, k < l
      PROVE  \/ places[k] < places[l]
             \/ transformed /\ ~Input!IsSent(places[l]) /\ Input!Raw(places[k]).type = "reasoning"
  BY <1>2, <1>3, <1>4, <1>8 DEF MayPrecede
<1>9. ASSUME NEW k \in 1..n
      PROVE  LET type == Input!Raw(places[k]).type IN
             \/ s[k].raw
             \/ type \in {"function_call", "reasoning", "compaction"}
             \/ (type \in {"message", "function_call_output"} /\ ~transformed)
  <2> DEFINE i == s[k].at
             r == Input!Raw(i)
  <2>1. i \in Input!Places /\ Input!IsKept(i) /\ s[k] = FinalItem(i) /\ places[k] = i
    BY <1>2, <1>3
  <2>2. r.type \in ItemTypes /\ (r.type = "web_search_call" => ~Input!IsSent(i))
    BY <1>1, <2>1, ItemKinds, KindsSent
  <2>3. r.type # "web_search_call"
    BY <1>4, <2>1, <2>2
  <2> HIDE DEF i, r
  <2>4. Input!RawItem(i).raw = TRUE
    BY ItemFields
  <2>5. CASE r.type \in {"agent_message", "additional_tools"}
    BY <2>1, <2>4, <2>5 DEF FinalItem, r
  <2>6. CASE r.type \in {"tool_search_call", "tool_search_output"}
    BY <2>1, <2>4, <2>6 DEF FinalItem, SettledItem, RestoredItem, LocatedItem, ToolSearched, r
  <2>7. CASE r.type \in {"message", "function_call_output"} /\ transformed
    BY <2>1, <2>4, <2>7 DEF FinalItem, SettledItem, RestoredItem, LocatedItem, r
  <2> QED
    BY <2>1, <2>2, <2>3, <2>5, <2>6, <2>7 DEF ItemTypes, r
<1> QED
  BY <1>2, <1>6, <1>7, <1>8, <1>9 DEF Input!InputRestored, places, s

RequestInv ==
  /\ picked = "tools" => ToolsInv
  /\ picked = "input" => InputInv

LEMMA RequestInitially == ASSUME MCInit PROVE RequestInv
<1>1. CASE picked = "tools"
  <2>1. Tools!Init
    BY <1>1 DEF MCInit
  <2> QED
    BY <1>1, <2>1, ToolsInitially DEF RequestInv
<1>2. CASE picked = "input"
  <2>1. Input!Init
    BY <1>2 DEF MCInit
  <2> QED
    BY <1>2, <2>1, InputInitially DEF RequestInv
<1> QED
  BY <1>1, <1>2 DEF RequestInv

(* The images of the same behaviours leave a request alone.                *)
LEMMA RequestStutter ==
  ASSUME RequestInv, UNCHANGED <<picked, toolVars, inputVars>>
  PROVE  RequestInv'
<1>1. CASE picked = "tools"
  <2>1. UNCHANGED Tools!vars
    BY DEF toolVars, Tools!vars
  <2>2. ToolsInv'
    BY <1>1, <2>1, ToolsPreserved DEF RequestInv
  <2> QED
    BY <1>1, <2>2 DEF RequestInv
<1>2. CASE picked = "input"
  <2>1. UNCHANGED <<rawInput, transformed, store, stage, sdkInput>>
    BY DEF inputVars
  <2>2. InputInv'
    BY <1>2, <2>1, SameInput DEF RequestInv, InputInv
  <2> QED
    BY <1>2, <2>2 DEF RequestInv
<1> QED
  BY <1>1, <1>2 DEF RequestInv

LEMMA RequestPreserved ==
  ASSUME RequestInv, [MCNext]_mcVars
  PROVE  RequestInv'
<1>1. CASE UNCHANGED mcVars
  BY <1>1, RequestStutter DEF mcVars
<1>2. CASE StoreImages /\ UNCHANGED picked
  BY <1>2, RequestStutter DEF StoreImages
<1>3. CASE TranslateTools /\ UNCHANGED picked
  <2>1. picked = "tools" /\ Tools!Next
    BY <1>3 DEF TranslateTools
  <2>2. ToolsInv'
    BY <2>1, ToolsPreserved DEF RequestInv
  <2> QED
    BY <1>3, <2>1, <2>2 DEF RequestInv
<1>4. CASE TranslateInput /\ UNCHANGED picked
  <2>1. picked = "input" /\ Input!Next
    BY <1>4 DEF TranslateInput
  <2>2. InputInv'
    BY <2>1, InputPreserved DEF RequestInv
  <2> QED
    BY <1>4, <2>1, <2>2 DEF RequestInv
<1> QED
  BY <1>1, <1>2, <1>3, <1>4 DEF MCNext

(* Of every request of a Responses client: what its tools are called on    *)
(* the way to the upstream leads back to the one tool that was offered,    *)
(* and the input that the SDK maps away and reorders is put back, each     *)
(* item once, whole, and in the place the client gave it.                  *)
THEOREM RequestsAreTranslated == MCSpec => []RequestTranslated
<1>1. MCInit => RequestInv
  BY RequestInitially
<1>2. RequestInv /\ [MCNext]_mcVars => RequestInv'
  BY RequestPreserved
<1>3. RequestInv => RequestTranslated
  BY ToolsReturn, CompleteIsRestored DEF RequestInv, RequestTranslated
<1> QED
  BY <1>1, <1>2, <1>3, PTL DEF MCSpec
=============================================================================
