---------------------------- MODULE VisionArtifacts ----------------------------
(***************************************************************************)
(* VisionArtifactStore (src/server/vision-artifact-store.ts): the images   *)
(* of tool results that a model cannot see are kept as files for the       *)
(* agent.  Batches run one after another; each cleans the directory up,    *)
(* reuses the files that already hold an image of its own, and writes the  *)
(* others if the quota lets all of them in.  The directory belongs to the  *)
(* agent as well, who may remove or change a file, and it outlives the     *)
(* process, which may be killed; any file operation may fail.  Time is a   *)
(* file's age: it becomes old, and its last use a ttl ago, at any moment.  *)
(* Images are valid here: those that cannot be decoded never get this far. *)
(***************************************************************************)
EXTENDS Naturals, Sequences, FiniteSetsExt

CONSTANTS
  Images,             \* image contents
  Size,               \* their sizes
  MaxBatches,         \* calls of persistBatch
  MaxTotalBytes,
  storage_error, storage_quota_exceeded     \* why an image has no file

ASSUME StoreAssumption ==
  /\ Size \in [Images -> Nat \ {0}]
  /\ MaxBatches \in Nat
  /\ MaxTotalBytes \in Nat
  /\ storage_error \notin 0..MaxBatches /\ storage_quota_exceeded \notin 0..MaxBatches

VARIABLES
  disk,               \* the files of the directory
  deduplicated,       \* the batch whose file is known to hold an image, or 0
  queue,              \* batches waiting for their turn
  state,              \* of a batch: "idle", "queued", "running", "done", "lost"
  images,             \* of a batch: what it has to store
  results,            \* of a batch, for each image: 0, a reason or the batch of its file
  at,                 \* the running batch: "idle", "cleaning", "verifying", "writing"
  todo,               \* files still to clean up, or images still to verify or write
  pending,            \* images to write
  totalBytes,         \* what the batch knows of the directory
  spoiled             \* files changed by others, or removed when unused for a ttl

vars == <<disk, deduplicated, queue, state, images, results, at, todo, pending, totalBytes, spoiled>>

(* Batches are numbered in the order of their calls.                       *)
Batches == 1..MaxBatches

(* The file that a batch makes for an image.  stale: by its times it may   *)
(* go; unused: nobody asked for it for as long.                            *)
Files == [batch : Batches, image : Images, kind : {"final", "temp"}, intact : BOOLEAN,
          stale : BOOLEAN, unused : BOOLEAN]

NewFile(b, i, kind) ==
  [batch |-> b, image |-> i, kind |-> kind, intact |-> TRUE, stale |-> FALSE, unused |-> FALSE]

Name(file) == <<file.batch, file.image>>

Finals == {file \in disk : file.kind = "final"}

Bytes(s) == MapThenSumSet(LAMBDA i : Size[i], s)

Stored(file) == MapThenSumSet(LAMBDA f : Size[f.image], file)

None == [i \in Images |-> 0]

Init ==
  /\ disk = {}
  /\ deduplicated = None
  /\ queue = <<>>
  /\ state = [b \in Batches |-> "idle"]
  /\ images = [b \in Batches |-> {}]
  /\ results = [b \in Batches |-> None]
  /\ at = "idle" /\ todo = {} /\ pending = {} /\ totalBytes = 0
  /\ spoiled = {}

Running == Head(queue)

-----------------------------------------------------------------------------
(* persistBatch                                                            *)

Submit(b, s) ==
  /\ state[b] = "idle" /\ \A c \in 1..(b - 1) : state[c] # "idle"
  /\ state' = [state EXCEPT ![b] = "queued"]
  /\ images' = [images EXCEPT ![b] = s]
  /\ queue' = Append(queue, b)
  /\ UNCHANGED <<disk, deduplicated, results, at, todo, pending, totalBytes, spoiled>>

(* The results of a batch, which has ended.                                *)
Return(r) ==
  /\ results' = [results EXCEPT ![Running] = r]
  /\ state' = [state EXCEPT ![Running] = "done"]
  /\ queue' = Tail(queue)
  /\ at' = "idle" /\ todo' = {} /\ pending' = {} /\ totalBytes' = 0

(* Faulty: a batch that never got to its images has no results.            *)
WithResult_Faulty(r, s, result) ==
  [i \in Images |-> IF at = "verifying" /\ i \in s THEN result ELSE r[i]]

WithResult(r, s, result) == [i \in Images |-> IF i \in s THEN result ELSE r[i]]

GiveUp == Return(WithResult(results[Running], images[Running], storage_error))

(* mkdir, then readdir.                                                    *)
Start ==
  /\ at = "idle" /\ queue # <<>>
  /\ \/ /\ at' = "cleaning" /\ todo' = disk
        /\ state' = [state EXCEPT ![Running] = "running"]
        /\ UNCHANGED <<queue, results, pending, totalBytes>>
     \/ GiveUp
  /\ UNCHANGED <<disk, deduplicated, images, spoiled>>

-----------------------------------------------------------------------------
(* cleanupAndMeasure                                                       *)

Expired(file) == file.stale

(* What readdir listed may have changed meanwhile.                         *)
Current(file) == {f \in disk : Name(f) = Name(file) /\ f.kind = file.kind}

Clean(file) ==
  /\ at = "cleaning" /\ file \in todo
  /\ \/ \E f \in Current(file) :
          /\ todo' = todo \ {file}
          /\ IF Expired(f) THEN
               /\ disk' = disk \ {f}
               /\ deduplicated' = [i \in Images |->
                    IF f.kind = "final" /\ Name(f) = <<deduplicated[i], i>> THEN 0
                    ELSE deduplicated[i]]
               /\ spoiled' = IF f.unused THEN spoiled \cup {Name(f)} ELSE spoiled
               /\ UNCHANGED totalBytes
             ELSE
               /\ totalBytes' = totalBytes + IF f.kind = "final" THEN Size[f.image] ELSE 0
               /\ UNCHANGED <<disk, deduplicated, spoiled>>
          /\ UNCHANGED <<queue, state, results, at, pending>>
     \/ GiveUp /\ UNCHANGED <<disk, deduplicated, spoiled>>
  /\ UNCHANGED images

Cleaned ==
  /\ at = "cleaning" /\ todo = {}
  /\ at' = "verifying"
  /\ todo' = images[Running]
  /\ UNCHANGED <<disk, deduplicated, queue, state, images, results, pending, totalBytes, spoiled>>

-----------------------------------------------------------------------------
(* verifyArtifactForReuse                                                  *)

VerifyUnchanged == UNCHANGED <<queue, state, images, at, spoiled>>

Forget(i) ==
  /\ deduplicated' = [deduplicated EXCEPT ![i] = 0]
  /\ pending' = pending \cup {i}
  /\ UNCHANGED results

KnownFile(i) == {f \in Finals : Name(f) = <<deduplicated[i], i>>}

(* No file is known, or it is there no more.                               *)
VerifyNone(i) ==
  /\ at = "verifying" /\ i \in todo
  /\ todo' = todo \ {i}
  /\ KnownFile(i) = {}
  /\ Forget(i)
  /\ VerifyUnchanged /\ UNCHANGED <<disk, totalBytes>>

(* Faulty: a file is reused as long as it is there.                        *)
Reusable_Faulty(file) == TRUE

(* The digest of its content is the image's.                               *)
Reusable(file) == file.intact

(* Faulty: the times of a file stay those of its writing.                  *)
Touched_Faulty(file) == [file EXCEPT !.unused = FALSE]

Touched(file) == [file EXCEPT !.stale = FALSE, !.unused = FALSE]

(* The file holds the image: it is used now.                               *)
Reuse(i) ==
  /\ at = "verifying" /\ i \in todo
  /\ todo' = todo \ {i}
  /\ \E f \in KnownFile(i) :
       /\ Reusable(f)
       /\ disk' = (disk \ {f}) \cup {Touched(f)}
  /\ results' = [results EXCEPT ![Running][i] = deduplicated[i]]
  /\ VerifyUnchanged /\ UNCHANGED <<deduplicated, pending, totalBytes>>

Less(n, m) == IF m > n THEN 0 ELSE n - m

(* It holds something else: it is moved aside, and removed.                *)
Retire(i) ==
  /\ at = "verifying" /\ i \in todo
  /\ todo' = todo \ {i}
  /\ \E f \in KnownFile(i) : ~Reusable(f) /\ disk' = disk \ {f}
  /\ totalBytes' = Less(totalBytes, Size[i])
  /\ Forget(i)
  /\ VerifyUnchanged

(* An operation on it fails: the image's file is still there, used or not; *)
(* another one is there, aside or removed.                                 *)
VerifyFails(i) ==
  /\ at = "verifying" /\ i \in todo
  /\ todo' = todo \ {i}
  /\ \E f \in KnownFile(i) :
       disk' \in {disk} \cup
         (IF Reusable(f) THEN {(disk \ {f}) \cup {Touched(f)}}
          ELSE {disk \ {f},
                (disk \ {f}) \cup {[NewFile(f.batch, i, "temp") EXCEPT !.intact = FALSE]}})
  /\ results' = [results EXCEPT ![Running][i] = storage_error]
  /\ VerifyUnchanged /\ UNCHANGED <<deduplicated, pending, totalBytes>>

-----------------------------------------------------------------------------
(* The quota, and writeArtifact.                                           *)

(* Faulty: each image is looked at by itself.                              *)
Fits_Faulty == \A i \in pending : totalBytes + Size[i] <= MaxTotalBytes

Fits == totalBytes + Bytes(pending) <= MaxTotalBytes

(* All the pending images are stored or none.                              *)
CheckQuota ==
  /\ at = "verifying" /\ todo = {}
  /\ IF Fits THEN
       /\ at' = "writing" /\ todo' = pending
       /\ UNCHANGED <<queue, state, results, pending, totalBytes>>
     ELSE Return(WithResult(results[Running], pending, storage_quota_exceeded))
  /\ UNCHANGED <<disk, deduplicated, images, spoiled>>

Write(i) ==
  /\ at = "writing" /\ i \in todo
  /\ todo' = todo \ {i}
  /\ \/ /\ disk' = disk \cup {NewFile(Running, i, "final")}
        /\ deduplicated' = [deduplicated EXCEPT ![i] = Running]
        /\ results' = [results EXCEPT ![Running][i] = Running]
        /\ totalBytes' = totalBytes + Size[i]
     \* writing, renaming or removing the temporary file has failed
     \/ /\ disk' \in {disk} \cup {disk \cup {NewFile(Running, i, k)} : k \in {"temp", "final"}}
        /\ results' = [results EXCEPT ![Running][i] = storage_error]
        /\ UNCHANGED <<deduplicated, totalBytes>>
  /\ UNCHANGED <<queue, state, images, at, pending, spoiled>>

Finish ==
  /\ at = "writing" /\ todo = {}
  /\ Return(results[Running])
  /\ UNCHANGED <<disk, deduplicated, images, spoiled>>

-----------------------------------------------------------------------------
(* The rest of the world.                                                  *)

MemoryUnchanged ==
  UNCHANGED <<deduplicated, queue, state, images, results, at, todo, pending, totalBytes>>

Age(file) ==
  /\ file \in disk /\ ~(file.stale /\ file.unused)
  /\ disk' = (disk \ {file}) \cup {[file EXCEPT !.stale = TRUE, !.unused = TRUE]}
  /\ MemoryUnchanged /\ UNCHANGED spoiled

(* The agent changes a file, keeping its size, or removes it.  A change    *)
(* while the file is being verified is one before or after it.             *)
Spoil(file) ==
  /\ file \in Finals /\ file.intact
  /\ disk' \in {disk \ {file},
                (disk \ {file}) \cup {[file EXCEPT !.intact = FALSE, !.stale = FALSE]}}
  /\ spoiled' = spoiled \cup {Name(file)}
  /\ MemoryUnchanged

(* The process is killed, with a file half written at most, and restarted. *)
Kill ==
  /\ deduplicated' = None
  /\ queue' = <<>>
  /\ state' = [b \in Batches |-> IF state[b] \in {"queued", "running"} THEN "lost" ELSE state[b]]
  /\ at' = "idle" /\ todo' = {} /\ pending' = {} /\ totalBytes' = 0
  /\ UNCHANGED <<disk, images, results, spoiled>>

Step ==
  \/ Start \/ Cleaned \/ CheckQuota \/ Finish
  \/ \E f \in Files : Clean(f)
  \/ \E i \in Images : VerifyNone(i) \/ Reuse(i) \/ Retire(i) \/ VerifyFails(i) \/ Write(i)

Next ==
  \/ \E b \in Batches : \E s \in SUBSET Images \ {{}} : Submit(b, s)
  \/ Step
  \/ \E f \in disk : Age(f) \/ Spoil(f)
  \/ Kill

(* File operations end.                                                    *)
Spec == Init /\ [][Next]_vars /\ WF_vars(Step)

-----------------------------------------------------------------------------
(* Every variable keeps its type.                                          *)
TypeOK ==
  /\ disk \subseteq Files
  /\ deduplicated \in [Images -> Batches \cup {0}]
  /\ queue \in Seq(Batches)
  /\ state \in [Batches -> {"idle", "queued", "running", "done", "lost"}]
  /\ images \in [Batches -> SUBSET Images]
  /\ results \in [Batches ->
       [Images -> Batches \cup {0, storage_error, storage_quota_exceeded}]]
  /\ at \in {"idle", "cleaning", "verifying", "writing"}
  /\ IF at = "cleaning" THEN todo \subseteq Files ELSE todo \subseteq Images
  /\ pending \subseteq Images
  /\ totalBytes \in Nat
  /\ spoiled \subseteq (Batches \X Images)

(* A path that was handed out leads to its image, unless somebody else     *)
(* touched the file or nobody asked for the image for a ttl.               *)
StoredIsThere ==
  \A b \in Batches, i \in Images :
    results[b][i] \in Batches =>
      \/ <<results[b][i], i>> \in spoiled
      \/ \E f \in Finals : Name(f) = <<results[b][i], i>> /\ f.intact

(* The stored images never take more than the quota, whatever failed.      *)
QuotaHolds == Stored(Finals) <= MaxTotalBytes

(* A changed file is not handed out again: a batch reports a path only     *)
(* while its file holds the image.                                         *)
ReportsIntact ==
  [][\A b \in Batches, i \in Images :
       results'[b][i] \in Batches /\ results[b][i] = 0 =>
         \E f \in disk' : f.kind = "final" /\ Name(f) = <<results'[b][i], i>> /\ f.intact]_vars

(* Each batch is answered, with a result for each of its images.           *)
BatchAnswered ==
  \A b \in Batches :
    state[b] = "queued" ~>
      \/ state[b] = "lost"
      \/ state[b] = "done" /\ \A i \in images[b] : results[b][i] # 0
=============================================================================
